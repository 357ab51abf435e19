--------------------------- MODULE DeliveryProofs ---------------------------
(***************************************************************************)
(* Lemmas for the proofs about the consumers: about Delivery, sums over    *)
(* finite sets, counting in queues, and how often a message can be handled *)
(* when a window forgets it or a restart does.                             *)
(***************************************************************************)
EXTENDS Delivery, Integers, FiniteSets, SequencesExt, FiniteSetTheorems, TLAPS

\* Without its i-th element a sequence keeps the others, in their order.
LEMMA RemoveAtShape ==
    ASSUME NEW S, NEW s \in Seq(S), NEW i \in DOMAIN s
    PROVE  /\ RemoveAt(s, i) \in Seq(S)
           /\ Len(RemoveAt(s, i)) = Len(s) - 1
           /\ \A j \in DOMAIN RemoveAt(s, i) :
                 RemoveAt(s, i)[j] = IF j < i THEN s[j] ELSE s[j + 1]
<1> DEFINE left == SubSeq(s, 1, i - 1)
           right == SubSeq(s, i + 1, Len(s))
<1>1. i \in 1..Len(s)
  OBVIOUS
<1>2. left \in Seq(S) /\ Len(left) = i - 1 /\ \A j \in 1..(i - 1) : left[j] = s[j]
  BY <1>1
<1>3. right \in Seq(S) /\ Len(right) = Len(s) - i
        /\ \A j \in 1..(Len(s) - i) : right[j] = s[j + i]
  BY <1>1
<1>4. RemoveAt(s, i) = left \o right
  BY DEF RemoveAt
<1> HIDE DEF left, right
<1>5. left \o right \in Seq(S) /\ Len(left \o right) = Len(s) - 1
  BY <1>1, <1>2, <1>3
<1>6. ASSUME NEW j \in DOMAIN (left \o right)
      PROVE  (left \o right)[j] = IF j < i THEN s[j] ELSE s[j + 1]
  <2>1. j \in 1..(Len(s) - 1)
    BY <1>5
  <2>2. CASE j < i
    BY <1>1, <1>2, <1>3, <2>1, <2>2
  <2>3. CASE ~(j < i)
    <3>1. (left \o right)[j] = right[j - (i - 1)]
      BY <1>1, <1>2, <1>3, <2>1, <2>3
    <3>2. j - (i - 1) \in 1..(Len(s) - i)
      BY <1>1, <2>1, <2>3
    <3> QED
      BY <1>1, <1>3, <2>1, <2>3, <3>1, <3>2
  <2> QED
    BY <2>2, <2>3
<1> QED
  BY <1>4, <1>5, <1>6

\* Where the j-th element of what is left was before the i-th was removed.
Before(i, j) == IF j < i THEN j ELSE j + 1

LEMMA RemoveAtIndex ==
    ASSUME NEW S, NEW s \in Seq(S), NEW i \in DOMAIN s
    PROVE  /\ RemoveAt(s, i) \in Seq(S)
           /\ Len(RemoveAt(s, i)) = Len(s) - 1
           /\ \A j \in DOMAIN RemoveAt(s, i) :
                 Before(i, j) \in DOMAIN s \ {i} /\ RemoveAt(s, i)[j] = s[Before(i, j)]
           /\ \A j, k \in DOMAIN RemoveAt(s, i) : Before(i, j) = Before(i, k) => j = k
           /\ \A k \in DOMAIN s \ {i} : \E j \in DOMAIN RemoveAt(s, i) : Before(i, j) = k
<1> DEFINE left == RemoveAt(s, i)
<1>1. /\ left \in Seq(S) /\ Len(left) = Len(s) - 1
      /\ \A j \in DOMAIN left : left[j] = IF j < i THEN s[j] ELSE s[j + 1]
  BY RemoveAtShape
<1>2. Len(s) \in Nat /\ DOMAIN s = 1..Len(s) /\ i \in 1..Len(s)
  OBVIOUS
<1> HIDE DEF left
<1>3. DOMAIN left = 1..(Len(s) - 1)
  BY <1>1
<1>4. \A j \in DOMAIN left : Before(i, j) \in DOMAIN s \ {i} /\ left[j] = s[Before(i, j)]
  BY <1>1, <1>2, <1>3 DEF Before
<1>5. \A j, k \in DOMAIN left : Before(i, j) = Before(i, k) => j = k
  BY <1>2, <1>3 DEF Before
<1>6. ASSUME NEW k \in DOMAIN s \ {i}
      PROVE  \E j \in DOMAIN left : Before(i, j) = k
  <2>1. CASE k < i
    <3>1. k \in DOMAIN left /\ Before(i, k) = k
      BY <1>2, <1>3, <2>1 DEF Before
    <3> QED
      BY <3>1
  <2>2. CASE k > i
    <3>1. k - 1 \in DOMAIN left /\ Before(i, k - 1) = k
      BY <1>2, <1>3, <2>2 DEF Before
    <3> QED
      BY <3>1
  <2> QED
    BY <1>2, <2>1, <2>2
<1> QED
  BY <1>1, <1>4, <1>5, <1>6 DEF left

\* The window stays a window: at most max ids, none of them twice.
LEMMA RememberShape ==
    ASSUME NEW ids, NEW max \in Nat \ {0}, NEW w \in Window(ids, max), NEW id \in ids,
           ~Remembered(w, id)
    PROVE  Remember(w, id, max) \in Window(ids, max)
<1> DEFINE pushed == Append(w, id)
<1>1. /\ w \in Seq(ids) /\ Len(w) \in Nat /\ Len(w) <= max
      /\ \A i, j \in 1..Len(w) : i < j => w[i] # w[j]
      /\ \A i \in 1..Len(w) : w[i] # id
  BY DEF Window, Remembered
<1>2. /\ pushed \in Seq(ids) /\ Len(pushed) = Len(w) + 1
      /\ \A i \in 1..Len(w) : pushed[i] = w[i]
      /\ pushed[Len(w) + 1] = id
  BY <1>1
<1>3. \A i, j \in 1..Len(pushed) : i < j => pushed[i] # pushed[j]
  BY <1>1, <1>2
<1> HIDE DEF pushed
<1>4. CASE Len(pushed) > max
  <2>1. /\ Tail(pushed) \in Seq(ids) /\ Len(Tail(pushed)) = Len(w)
        /\ \A i \in 1..Len(w) : Tail(pushed)[i] = pushed[i + 1]
    BY <1>1, <1>2
  <2>2. \A i, j \in 1..Len(w) : i < j => Tail(pushed)[i] # Tail(pushed)[j]
    BY <1>1, <1>2, <1>3, <2>1
  <2>3. Tail(pushed) \in Window(ids, max)
    <3>1. DOMAIN Tail(pushed) = 1..Len(w)
      BY <2>1
    <3> QED
      BY <1>1, <2>1, <2>2, <3>1 DEF Window
  <2> QED
    BY <1>4, <2>3 DEF Remember, pushed
<1>5. CASE ~(Len(pushed) > max)
  <2>1. pushed \in Window(ids, max)
    BY <1>1, <1>2, <1>3, <1>5 DEF Window
  <2> QED
    BY <1>5, <2>1 DEF Remember, pushed
<1> QED
  BY <1>4, <1>5

\* Only the new id is added.
LEMMA RememberAdds ==
    ASSUME NEW ids, NEW max \in Nat \ {0}, NEW w \in Seq(ids), NEW id \in ids, NEW other,
           Remembered(Remember(w, id, max), other)
    PROVE  other = id \/ Remembered(w, other)
<1> DEFINE pushed == Append(w, id)
<1>1. /\ pushed \in Seq(ids) /\ Len(pushed) = Len(w) + 1
      /\ \A i \in 1..Len(w) : pushed[i] = w[i]
      /\ pushed[Len(w) + 1] = id
  OBVIOUS
<1>2. ASSUME NEW i \in 1..Len(pushed), pushed[i] = other
      PROVE  other = id \/ Remembered(w, other)
  BY <1>1, <1>2 DEF Remembered
<1> HIDE DEF pushed
<1>3. CASE Len(pushed) > max
  <2>1. PICK i \in DOMAIN Tail(pushed) : Tail(pushed)[i] = other
    BY <1>3 DEF Remember, Remembered, pushed
  <2>2. i + 1 \in 1..Len(pushed) /\ pushed[i + 1] = other
    BY <1>1, <2>1
  <2> QED
    BY <1>2, <2>2
<1>4. CASE ~(Len(pushed) > max)
  <2>1. PICK i \in DOMAIN pushed : pushed[i] = other
    BY <1>4 DEF Remember, Remembered, pushed
  <2> QED
    BY <1>1, <1>2, <2>1
<1> QED
  BY <1>3, <1>4

\* The empty window.
LEMMA EmptyWindow ==
    ASSUME NEW ids, NEW max \in Nat
    PROVE  << >> \in Window(ids, max)
  BY DEF Window

\* A sequence in which one element was replaced.
LEMMA EditShape ==
    ASSUME NEW S, NEW s \in Seq(S), NEW i \in DOMAIN s, NEW e \in S
    PROVE  /\ [s EXCEPT ![i] = e] \in Seq(S)
           /\ Len([s EXCEPT ![i] = e]) = Len(s)
           /\ DOMAIN [s EXCEPT ![i] = e] = DOMAIN s
           /\ [s EXCEPT ![i] = e][i] = e
           /\ \A j \in DOMAIN s : j # i => [s EXCEPT ![i] = e][j] = s[j]
  OBVIOUS

\* What is requeued are messages.
LEMMA RequeueShape ==
    ASSUME NEW M, NEW q \in Seq(M), NEW H, NEW s \in Seq(H), \A h \in H : h.msg \in M
    PROVE  Requeue(s, q) \in Seq(M)
<1>1. [i \in DOMAIN s |-> s[i].msg] \in Seq(M)
  <2>1. DOMAIN s = 1..Len(s) /\ Len(s) \in Nat
    OBVIOUS
  <2>2. \A i \in 1..Len(s) : s[i].msg \in M
    BY <2>1
  <2> QED
    BY <2>1, <2>2
<1> QED
  BY <1>1 DEF Requeue

\* What is in a sequence is its head or in its tail.
LEMMA HeadOrTail ==
    ASSUME NEW S, NEW s \in Seq(S), s # << >>, NEW k \in DOMAIN s
    PROVE  s[k] = Head(s) \/ \E j \in DOMAIN Tail(s) : Tail(s)[j] = s[k]
<1>1. /\ Len(s) \in Nat \ {0} /\ DOMAIN s = 1..Len(s) /\ Head(s) = s[1]
      /\ Tail(s) \in Seq(S) /\ Len(Tail(s)) = Len(s) - 1 /\ DOMAIN Tail(s) = 1..(Len(s) - 1)
      /\ \A j \in 1..(Len(s) - 1) : Tail(s)[j] = s[j + 1]
  OBVIOUS
<1>2. CASE k = 1
  BY <1>1, <1>2
<1>3. CASE k # 1
  <2>1. k - 1 \in DOMAIN Tail(s) /\ (k - 1) + 1 = k
    BY <1>1, <1>3
  <2> QED
    BY <1>1, <2>1
<1> QED
  BY <1>2, <1>3

\* The deliveries come first, in their order, then what was queued.
LEMMA RequeueOrder ==
    ASSUME NEW M, NEW q \in Seq(M), NEW H, NEW s \in Seq(H), \A h \in H : h.msg \in M
    PROVE  /\ Len(Requeue(s, q)) = Len(s) + Len(q)
           /\ \A i \in DOMAIN s : i \in DOMAIN Requeue(s, q) /\ Requeue(s, q)[i] = s[i].msg
           /\ \A i \in DOMAIN q : /\ Len(s) + i \in DOMAIN Requeue(s, q)
                                  /\ Requeue(s, q)[Len(s) + i] = q[i]
<1> DEFINE front == [i \in DOMAIN s |-> s[i].msg]
<1>1. DOMAIN s = 1..Len(s) /\ Len(s) \in Nat /\ \A i \in DOMAIN s : s[i] \in H
  OBVIOUS
<1>2. front \in Seq(M) /\ Len(front) = Len(s) /\ \A i \in DOMAIN s : front[i] = s[i].msg
  BY <1>1
<1> HIDE DEF front
<1>3. /\ Len(front \o q) = Len(s) + Len(q) /\ DOMAIN (front \o q) = 1..(Len(s) + Len(q))
      /\ \A i \in 1..Len(s) : (front \o q)[i] = front[i]
      /\ \A i \in 1..Len(q) : (front \o q)[Len(s) + i] = q[i]
  BY <1>1, <1>2
<1>4. DOMAIN q = 1..Len(q) /\ Len(q) \in Nat
  OBVIOUS
<1>5. Requeue(s, q) = front \o q
  BY DEF Requeue, front
<1> QED
  BY <1>1, <1>2, <1>3, <1>4, <1>5

\* One delivery goes back to the head of the queue.
LEMMA RequeueNone ==
    ASSUME NEW M, NEW q \in Seq(M)
    PROVE  Requeue(<< >>, q) = q
<1>1. [i \in DOMAIN << >> |-> << >>[i].msg] = << >>
  OBVIOUS
<1> QED
  BY <1>1 DEF Requeue

LEMMA RequeueOne ==
    ASSUME NEW M, NEW q \in Seq(M), NEW H, NEW s \in Seq(H), \A h \in H : h.msg \in M,
           Len(s) = 1
    PROVE  /\ Requeue(s, q) \in Seq(M) /\ Requeue(s, q) # << >>
           /\ Head(Requeue(s, q)) = s[1].msg /\ Tail(Requeue(s, q)) = q
<1> DEFINE r == Requeue(s, q)
<1>1. /\ r \in Seq(M) /\ Len(r) = 1 + Len(q) /\ r[1] = s[1].msg
      /\ \A i \in 1..Len(q) : r[1 + i] = q[i]
  <2>1. 1 \in DOMAIN s /\ DOMAIN q = 1..Len(q)
    OBVIOUS
  <2>2. r \in Seq(M)
    BY RequeueShape
  <2>3. /\ Len(r) = Len(s) + Len(q) /\ \A i \in DOMAIN s : r[i] = s[i].msg
        /\ \A i \in DOMAIN q : r[Len(s) + i] = q[i]
    BY RequeueOrder
  <2> HIDE DEF r
  <2> QED
    BY <2>1, <2>2, <2>3
<1> HIDE DEF r
<1>2. r # << >> /\ Head(r) = r[1] /\ Tail(r) \in Seq(M) /\ Len(Tail(r)) = Len(q)
      /\ \A i \in 1..Len(q) : Tail(r)[i] = r[i + 1]
  BY <1>1
<1>3. \A i \in 1..Len(q) : Tail(r)[i] = q[i]
  <2>1. \A i \in 1..Len(q) : 1 + i = i + 1
    OBVIOUS
  <2> QED
    BY <1>1, <1>2, <2>1
<1>4. Tail(r) = q
  BY <1>2, <1>3
<1> QED
  BY <1>1, <1>2, <1>4 DEF r

\* A window that has room for every id evicts none of them.
LEMMA WindowHasRoom ==
    ASSUME NEW ids, IsFiniteSet(ids), NEW max \in Nat \ {0}, Cardinality(ids) <= max,
           NEW w \in Window(ids, max), NEW id \in ids, ~Remembered(w, id)
    PROVE  /\ Remember(w, id, max) = Append(w, id)
           /\ \A other : Remembered(Remember(w, id, max), other)
                            <=> other = id \/ Remembered(w, other)
<1> DEFINE at == [i \in 1..Len(w) |-> w[i]]
<1>1. /\ w \in Seq(ids) /\ Len(w) \in Nat /\ DOMAIN w = 1..Len(w)
      /\ \A i \in 1..Len(w) : w[i] \in ids \ {id}
      /\ \A i, j \in 1..Len(w) : i < j => w[i] # w[j]
  BY DEF Window, Remembered
<1>2. at \in Injection(1..Len(w), ids \ {id})
  <2>1. \A i, j \in 1..Len(w) : w[i] = w[j] => i = j
    BY <1>1
  <2> QED
    BY <1>1, <2>1 DEF Injection, IsInjective
<1>3. Cardinality(1..Len(w)) = Len(w)
  <2> DEFINE n == Len(w)
  <2>1. n \in Nat /\ n \in Int /\ 1 \in Int
    BY <1>1
  <2> HIDE DEF n
  <2>2. Cardinality(1..n) = IF 1 > n THEN 0 ELSE n - 1 + 1
    BY <2>1, FS_Interval
  <2>3. Cardinality(1..n) = n
    BY <2>1, <2>2
  <2> QED
    BY <2>3 DEF n
<1>4. IsFiniteSet(ids \ {id}) /\ Cardinality(ids \ {id}) = Cardinality(ids) - 1
  BY FS_RemoveElement
<1>5. Cardinality(1..Len(w)) <= Cardinality(ids \ {id})
  BY <1>2, <1>4, FS_Injection
<1>6. Cardinality(ids) \in Nat
  BY FS_CardinalityType
<1>7. Len(Append(w, id)) = Len(w) + 1
  BY <1>1
<1>8. Remember(w, id, max) = Append(w, id)
  <2>1. ~(Len(Append(w, id)) > max)
    BY <1>1, <1>3, <1>4, <1>5, <1>6, <1>7
  <2> QED
    BY <2>1 DEF Remember
<1>9. /\ DOMAIN Append(w, id) = DOMAIN w \cup {Len(w) + 1}
      /\ Append(w, id)[Len(w) + 1] = id
      /\ \A i \in DOMAIN w : Append(w, id)[i] = w[i]
  BY <1>1
<1> QED
  BY <1>8, <1>9 DEF Remembered

\* A window holds no more ids than there are.
LEMMA WindowFits ==
    ASSUME NEW ids, IsFiniteSet(ids), NEW max, NEW w \in Window(ids, max)
    PROVE  Len(w) <= Cardinality(ids) /\ Len(w) \in Nat /\ Cardinality(ids) \in Nat
<1> DEFINE at == [i \in 1..Len(w) |-> w[i]]
<1>1. /\ w \in Seq(ids) /\ Len(w) \in Nat /\ DOMAIN w = 1..Len(w)
      /\ \A i \in 1..Len(w) : w[i] \in ids
      /\ \A i, j \in 1..Len(w) : i < j => w[i] # w[j]
  BY DEF Window
<1>2. at \in Injection(1..Len(w), ids)
  <2>1. \A i, j \in 1..Len(w) : w[i] = w[j] => i = j
    BY <1>1
  <2> QED
    BY <1>1, <2>1 DEF Injection, IsInjective
<1>3. Cardinality(1..Len(w)) = Len(w)
  <2> DEFINE n == Len(w)
  <2>1. n \in Nat /\ n \in Int /\ 1 \in Int
    BY <1>1
  <2> HIDE DEF n
  <2>2. Cardinality(1..n) = IF 1 > n THEN 0 ELSE n - 1 + 1
    BY <2>1, FS_Interval
  <2>3. Cardinality(1..n) = n
    BY <2>1, <2>2
  <2> QED
    BY <2>3 DEF n
<1>4. Cardinality(1..Len(w)) <= Cardinality(ids)
  BY <1>2, FS_Injection
<1>5. Cardinality(ids) \in Nat
  BY FS_CardinalityType
<1> QED
  BY <1>1, <1>3, <1>4, <1>5

\* Where the ids of a window are after another one was pushed.
LEMMA RememberPlaces ==
    ASSUME NEW ids, NEW max \in Nat \ {0}, NEW w \in Window(ids, max), NEW id \in ids,
           NEW v, v = Remember(w, id, max)
    PROVE  /\ v \in Seq(ids) /\ Len(v) \in Nat \ {0} /\ v[Len(v)] = id
           /\ \/ Len(v) = Len(w) + 1 /\ \A i \in DOMAIN w : v[i] = w[i]
              \/ /\ Len(w) = max /\ Len(v) = Len(w)
                 /\ \A i \in 1..(Len(w) - 1) : v[i] = w[i + 1]
<1> DEFINE pushed == Append(w, id)
<1>1. /\ w \in Seq(ids) /\ Len(w) \in Nat /\ Len(w) <= max /\ DOMAIN w = 1..Len(w)
  BY DEF Window
<1>2. /\ pushed \in Seq(ids) /\ Len(pushed) = Len(w) + 1 /\ pushed[Len(w) + 1] = id
      /\ \A i \in DOMAIN w : pushed[i] = w[i]
  BY <1>1
<1>3. Remember(w, id, max) = IF Len(pushed) > max THEN Tail(pushed) ELSE pushed
  BY DEF Remember
<1> HIDE DEF pushed
<1>4. CASE Len(pushed) > max
  <2>1. /\ Tail(pushed) \in Seq(ids) /\ Len(Tail(pushed)) = Len(w)
        /\ \A i \in 1..Len(w) : Tail(pushed)[i] = pushed[i + 1]
    BY <1>1, <1>2
  <2>2. Len(w) = max /\ Len(w) \in 1..Len(w)
    <3>1. /\ Len(w) \in Nat /\ Len(w) <= max /\ max \in Nat /\ max # 0
          /\ Len(w) + 1 > max
      BY <1>1, <1>2, <1>4
    <3> QED
      BY <3>1
  <2>3. \A i \in 1..(Len(w) - 1) : i \in 1..Len(w) /\ i + 1 \in DOMAIN w
    BY <1>1
  <2>4. \A i \in 1..(Len(w) - 1) : Tail(pushed)[i] = w[i + 1]
    BY <1>2, <2>1, <2>3
  <2>5. Tail(pushed)[Len(w)] = id
    BY <1>2, <2>1, <2>2
  <2> QED
    BY <1>1, <1>3, <1>4, <2>1, <2>2, <2>4, <2>5
<1>5. CASE ~(Len(pushed) > max)
  <2>1. Remember(w, id, max) = pushed
    BY <1>3, <1>5
  <2>2. Len(pushed) \in Nat \ {0} /\ pushed[Len(pushed)] = id
    BY <1>1, <1>2
  <2> QED
    BY <1>2, <2>1, <2>2
<1> QED
  BY <1>4, <1>5

\* Nothing is forgotten while the window has room, and a full one stays full.
LEMMA RememberForgets ==
    ASSUME NEW ids, NEW max \in Nat \ {0}, NEW w \in Window(ids, max), NEW id \in ids,
           NEW v, v = Remember(w, id, max)
    PROVE  /\ Len(w) = max => Len(v) = max
           /\ Len(v) # max => \A other : Remembered(w, other) => Remembered(v, other)
<1>1. /\ v \in Seq(ids) /\ Len(v) \in Nat \ {0}
      /\ \/ Len(v) = Len(w) + 1 /\ \A i \in DOMAIN w : v[i] = w[i]
         \/ Len(w) = max /\ Len(v) = Len(w)
  BY RememberPlaces
<1>2. /\ w \in Seq(ids) /\ Len(w) \in Nat /\ Len(w) <= max /\ DOMAIN w = 1..Len(w)
      /\ DOMAIN v = 1..Len(v)
  BY <1>1 DEF Window
<1>3. Len(w) = max => Len(v) = max
  <2>1. v = Remember(w, id, max) /\ v = IF Len(Append(w, id)) > max THEN Tail(Append(w, id))
                                                                  ELSE Append(w, id)
    BY DEF Remember
  <2>2. Append(w, id) \in Seq(ids) /\ Len(Append(w, id)) = Len(w) + 1
    BY <1>2
  <2> QED
    BY <1>2, <2>1, <2>2
<1>4. ASSUME Len(v) # max, NEW other, Remembered(w, other)
      PROVE  Remembered(v, other)
  <2>1. Len(v) = Len(w) + 1 /\ \A i \in DOMAIN w : v[i] = w[i]
    BY <1>1, <1>4
  <2>2. PICK i \in DOMAIN w : w[i] = other
    BY <1>4 DEF Remembered
  <2>3. i \in DOMAIN v
    BY <1>2, <2>1, <2>2
  <2> QED
    BY <2>1, <2>2, <2>3 DEF Remembered
<1> QED
  BY <1>3, <1>4

\* A set of positions that is not empty has a last one.
LEMMA LastPosition ==
    ASSUME NEW n \in Nat, NEW S \in SUBSET (1..n), S # {}
    PROVE  Max(S) \in S /\ \A k \in S : k <= Max(S)
<1> DEFINE bounds == {b \in Nat : \A k \in S : k <= b}
<1>1. bounds \subseteq Nat /\ n \in bounds
  OBVIOUS
<1>2. PICK b \in bounds : \A c \in bounds : ~ (<<c, b>> \in OpToRel(<, Nat))
  <2>1. bounds # {}
    BY <1>1
  <2> HIDE DEF bounds
  <2> QED
    BY <1>1, <2>1, WFMin, NatLessThanWellFounded
<1>3. \A c \in bounds : ~ (c < b)
  BY <1>1, <1>2 DEF OpToRel
<1>4. b \in S
  <2> SUFFICES ASSUME b \notin S
               PROVE  FALSE
    OBVIOUS
  <2>1. \A k \in S : k <= b - 1
    OBVIOUS
  <2>2. PICK k : k \in S
    OBVIOUS
  <2>3. b - 1 \in Nat
    <3>1. k \in 1..n /\ k <= b - 1 /\ b \in Nat
      BY <2>1, <2>2
    <3> QED
      BY <3>1
  <2>4. b - 1 \in bounds
    BY <2>1, <2>3
  <2> QED
    BY <1>3, <2>4
<1>5. \A k \in S : b >= k
  OBVIOUS
<1> QED
  BY <1>4, <1>5 DEF Max

-----------------------------------------------------------------------------
(***************************************************************************)
(* Sums over finite sets.  MapThenSumSet is a recursion over sets; that it *)
(* has the values it should is shown by counting up to their cardinality.  *)
(***************************************************************************)
\* A set of numbers that holds 0 and with each number the next, up to n.
LEMMA CountUp ==
    ASSUME NEW n \in Nat, NEW S, 0 \in S, \A i \in 0..(n - 1) : i \in S => i + 1 \in S
    PROVE  \A i \in 0..n : i \in S
<1> DEFINE missing == {i \in 0..n : i \notin S}
<1> SUFFICES ASSUME missing # {}
             PROVE  FALSE
  OBVIOUS
<1>1. missing \subseteq Nat
  OBVIOUS
<1>2. PICK b \in missing : \A c \in missing : ~ (<<c, b>> \in OpToRel(<, Nat))
  <2> HIDE DEF missing
  <2> QED
    BY <1>1, WFMin, NatLessThanWellFounded
<1>3. \A c \in missing : ~ (c < b)
  BY <1>1, <1>2 DEF OpToRel
<1>4. b \in 0..n /\ b # 0 /\ b - 1 \in 0..(n - 1)
  OBVIOUS
<1>5. b - 1 \in S
  BY <1>3, <1>4
<1> QED
  BY <1>4, <1>5

\* The sum of the values f has on S.
Total(f, S) == MapThenSumSet(LAMBDA x : f[x], S)

\* The element the sum takes first.
Pick(s) == CHOOSE x \in s : TRUE

\* Every set within S is in P when the empty set is, and each set is that is without
\* its first element.
LEMMA SetUp ==
    ASSUME NEW S, IsFiniteSet(S), NEW P, {} \in P,
           \A s \in SUBSET S : s # {} /\ s \ {Pick(s)} \in P => s \in P
    PROVE  \A s \in SUBSET S : s \in P
<1> DEFINE good == {n \in Nat : \A s \in SUBSET S : Cardinality(s) = n => s \in P}
<1>0. \A s \in SUBSET S : IsFiniteSet(s) /\ Cardinality(s) \in Nat
                          /\ Cardinality(s) <= Cardinality(S)
  BY FS_Subset, FS_CardinalityType
<1>1. Cardinality(S) \in Nat
  BY FS_CardinalityType
<1>2. 0 \in good
  BY <1>0, FS_EmptySet
<1>3. ASSUME NEW n \in 0..(Cardinality(S) - 1), n \in good
      PROVE  n + 1 \in good
  <2> SUFFICES ASSUME NEW s \in SUBSET S, Cardinality(s) = n + 1
               PROVE  s \in P
    BY <1>1
  <2>1. s # {}
    <3>1. IsFiniteSet(s) /\ n + 1 # 0
      BY <1>0, <1>1
    <3> QED
      BY <3>1, FS_EmptySet
  <2>2. Pick(s) \in s
    BY <2>1 DEF Pick
  <2>3. Cardinality(s \ {Pick(s)}) = n
    <3>1. IsFiniteSet(s) /\ n \in Nat
      BY <1>0, <1>1
    <3>2. Cardinality(s \ {Pick(s)}) = Cardinality(s) - 1
      BY <2>2, <3>1, FS_RemoveElement
    <3> QED
      BY <3>1, <3>2
  <2> QED
    BY <1>3, <2>1, <2>3
<1>4. \A n \in 0..Cardinality(S) : n \in good
  <2> HIDE DEF good
  <2>1. \A n \in 0..(Cardinality(S) - 1) : n \in good => n + 1 \in good
    BY <1>3
  <2> QED
    BY <1>1, <1>2, <2>1, CountUp
<1>5. ASSUME NEW s \in SUBSET S
      PROVE  s \in P
  BY <1>0, <1>1, <1>4
<1> QED
  BY <1>5

\* The function the recursion defines.
SumsTo(f, S, g) == g = [s \in SUBSET S |-> IF s = {} THEN 0 ELSE f[Pick(s)] + g[s \ {Pick(s)}]]

\* What the recursion says of one set.
Adds(f, g, s) == g[s] = IF s = {} THEN 0 ELSE f[Pick(s)] + g[s \ {Pick(s)}]

LEMMA SumExists ==
    ASSUME NEW S, IsFiniteSet(S), NEW f
    PROVE  \E g : SumsTo(f, S, g)
<1> DEFINE Small(n) == {s \in SUBSET S : Cardinality(s) <= n}
           good == {n \in Nat : \E g : /\ DOMAIN g = Small(n) /\ g = [s \in Small(n) |-> g[s]]
                                       /\ \A s \in Small(n) : Adds(f, g, s)}
<1>0. \A s \in SUBSET S : IsFiniteSet(s) /\ Cardinality(s) \in Nat
                          /\ Cardinality(s) <= Cardinality(S)
  BY FS_Subset, FS_CardinalityType
<1>1. Cardinality(S) \in Nat
  BY FS_CardinalityType
<1>2. ASSUME NEW s \in SUBSET S, s # {}
      PROVE  /\ Pick(s) \in s /\ s \ {Pick(s)} \in SUBSET S
             /\ Cardinality(s \ {Pick(s)}) = Cardinality(s) - 1
  <2>1. Pick(s) \in s
    BY <1>2 DEF Pick
  <2> QED
    BY <1>0, <2>1, FS_RemoveElement
<1>3. 0 \in good
  <2> DEFINE g == [s \in Small(0) |-> 0]
  <2>1. \A s \in Small(0) : s = {}
    BY <1>0, FS_EmptySet
  <2>2. DOMAIN g = Small(0) /\ g = [s \in Small(0) |-> g[s]] /\ \A s \in Small(0) : Adds(f, g, s)
    BY <2>1 DEF Adds
  <2> HIDE DEF g
  <2> QED
    BY <2>2
<1>4. ASSUME NEW n \in 0..(Cardinality(S) - 1), n \in good
      PROVE  n + 1 \in good
  <2>1. PICK g : DOMAIN g = Small(n) /\ \A s \in Small(n) : Adds(f, g, s)
    BY <1>4
  <2> DEFINE h == [s \in Small(n + 1) |->
                      IF Cardinality(s) = n + 1 THEN f[Pick(s)] + g[s \ {Pick(s)}] ELSE g[s]]
  <2>2. ASSUME NEW s \in Small(n + 1)
        PROVE  Adds(f, h, s)
    <3>1. CASE Cardinality(s) = n + 1
      <4>1. s # {} /\ s \in SUBSET S
        <5>1. IsFiniteSet(s) /\ n + 1 # 0
          BY <1>0, <1>1
        <5> QED
          BY <3>1, <5>1, FS_EmptySet
      <4>2. s \ {Pick(s)} \in Small(n) /\ s \ {Pick(s)} \in Small(n + 1)
            /\ Cardinality(s \ {Pick(s)}) # n + 1
        <5>1. s \ {Pick(s)} \in SUBSET S /\ Cardinality(s \ {Pick(s)}) = n + 1 - 1
          BY <1>2, <3>1, <4>1
        <5>2. n \in Nat
          BY <1>1
        <5>3. Cardinality(s \ {Pick(s)}) = n
          BY <5>1, <5>2
        <5> QED
          BY <5>1, <5>2, <5>3
      <4>3. h[s] = f[Pick(s)] + g[s \ {Pick(s)}] /\ h[s \ {Pick(s)}] = g[s \ {Pick(s)}]
        BY <3>1, <4>2
      <4> HIDE DEF h
      <4> QED
        BY <4>1, <4>3 DEF Adds
    <3>2. CASE Cardinality(s) # n + 1
      <4>1. s \in Small(n) /\ h[s] = g[s]
        BY <1>0, <1>1, <3>2
      <4>2. s # {} => h[s \ {Pick(s)}] = g[s \ {Pick(s)}]
        <5> SUFFICES ASSUME s # {}
                     PROVE  h[s \ {Pick(s)}] = g[s \ {Pick(s)}]
          OBVIOUS
        <5>1. s \ {Pick(s)} \in Small(n + 1) /\ Cardinality(s \ {Pick(s)}) # n + 1
          BY <1>0, <1>1, <1>2, <4>1
        <5> QED
          BY <5>1
      <4> HIDE DEF h
      <4> QED
        BY <2>1, <4>1, <4>2 DEF Adds
    <3> QED
      BY <3>1, <3>2
  <2>3. DOMAIN h = Small(n + 1) /\ h = [s \in Small(n + 1) |-> h[s]]
    OBVIOUS
  <2> HIDE DEF h, Small
  <2>4. n + 1 \in Nat
    BY <1>1
  <2> QED
    BY <2>2, <2>3, <2>4
<1>5. Cardinality(S) \in good
  <2> HIDE DEF good
  <2>1. \A n \in 0..(Cardinality(S) - 1) : n \in good => n + 1 \in good
    BY <1>4
  <2>2. \A n \in 0..Cardinality(S) : n \in good
    BY <1>1, <1>3, <2>1, CountUp
  <2> QED
    BY <1>1, <2>2
<1>6. Small(Cardinality(S)) = SUBSET S
  BY <1>0
<1>7. PICK g : g = [s \in SUBSET S |-> g[s]] /\ \A s \in SUBSET S : Adds(f, g, s)
  <2> HIDE DEF Small
  <2> QED
    BY <1>5, <1>6
<1>8. g = [s \in SUBSET S |-> IF s = {} THEN 0 ELSE f[Pick(s)] + g[s \ {Pick(s)}]]
  BY <1>7 DEF Adds
<1> QED
  BY <1>8 DEF SumsTo

\* The sum is what the recursion gives.
LEMMA TotalIs ==
    ASSUME NEW S, IsFiniteSet(S), NEW f
    PROVE  \E g : /\ \A s \in SUBSET S : Adds(f, g, s)
                  /\ Total(f, S) = g[S]
<1> DEFINE g == CHOOSE g : g = [s \in SUBSET S |-> IF s = {} THEN 0
                                          ELSE f[Pick(s)] + g[s \ {Pick(s)}]]
<1>0. \E h : SumsTo(f, S, h)
  BY SumExists
<1>1. g = [s \in SUBSET S |-> IF s = {} THEN 0 ELSE f[Pick(s)] + g[s \ {Pick(s)}]]
  <2>1. SumsTo(f, S, CHOOSE h : SumsTo(f, S, h))
    <3> HIDE DEF g
    <3> QED
      BY <1>0
  <2> QED
    BY <2>1 DEF SumsTo
<1>2. Total(f, S) = g[S]
  BY DEF Total, MapThenSumSet, MapThenFoldSet, Pick
<1> HIDE DEF g
<1>3. \A s \in SUBSET S : Adds(f, g, s)
  BY <1>1 DEF Adds
<1> QED
  BY <1>2, <1>3

\* A function that grew by one at a, and nowhere else, has a sum that grew by one.
LEMMA TotalGrows ==
    ASSUME NEW S, IsFiniteSet(S), NEW f, NEW g, NEW a,
           \A x \in S : f[x] \in Int /\ g[x] = IF x = a THEN f[x] + 1 ELSE f[x]
    PROVE  /\ Total(f, S) \in Int
           /\ Total(g, S) = IF a \in S THEN Total(f, S) + 1 ELSE Total(f, S)
<1>1. PICK F : (\A s \in SUBSET S : Adds(f, F, s)) /\ Total(f, S) = F[S]
  BY TotalIs
<1>2. PICK G : (\A s \in SUBSET S : Adds(g, G, s)) /\ Total(g, S) = G[S]
  BY TotalIs
<1> DEFINE P == {s \in SUBSET S : /\ F[s] \in Int
                                  /\ G[s] = IF a \in s THEN F[s] + 1 ELSE F[s]}
<1>3. {} \in P
  BY <1>1, <1>2 DEF Adds
<1>4. ASSUME NEW s \in SUBSET S, s # {}, s \ {Pick(s)} \in P
      PROVE  s \in P
  <2> DEFINE p == Pick(s)
             rest == s \ {p}
  <2>1. p \in s /\ p \in S
    BY <1>4 DEF Pick
  <2>2. F[s] = f[p] + F[rest] /\ G[s] = g[p] + G[rest]
    BY <1>1, <1>2, <1>4 DEF Adds
  <2>3. F[rest] \in Int /\ G[rest] = IF a \in rest THEN F[rest] + 1 ELSE F[rest]
    BY <1>4
  <2>4. f[p] \in Int /\ g[p] = IF p = a THEN f[p] + 1 ELSE f[p]
    BY <2>1
  <2>5. a \in s <=> a = p \/ a \in rest
    BY <2>1
  <2>6. a = p => a \notin rest
    OBVIOUS
  <2> HIDE DEF p, rest
  <2>7. F[s] \in Int /\ G[s] = IF a \in s THEN F[s] + 1 ELSE F[s]
    BY <2>2, <2>3, <2>4, <2>5, <2>6
  <2> QED
    BY <2>7
<1>5. S \in P
  <2> HIDE DEF P
  <2>1. \A s \in SUBSET S : s \in P
    BY <1>3, <1>4, SetUp
  <2> QED
    BY <2>1
<1> QED
  BY <1>1, <1>2, <1>5

\* Nothing adds up to nothing.
LEMMA TotalOfZeros ==
    ASSUME NEW S, IsFiniteSet(S), NEW f, \A x \in S : f[x] = 0
    PROVE  Total(f, S) = 0
<1>1. PICK F : (\A s \in SUBSET S : Adds(f, F, s)) /\ Total(f, S) = F[S]
  BY TotalIs
<1> DEFINE P == {s \in SUBSET S : F[s] = 0}
<1>2. {} \in P
  BY <1>1 DEF Adds
<1>3. ASSUME NEW s \in SUBSET S, s # {}, s \ {Pick(s)} \in P
      PROVE  s \in P
  <2>1. Pick(s) \in S
    BY <1>3 DEF Pick
  <2>2. F[s] = f[Pick(s)] + F[s \ {Pick(s)}]
    BY <1>1, <1>3 DEF Adds
  <2> QED
    BY <1>3, <2>1, <2>2
<1> HIDE DEF P
<1>4. S \in P
  BY <1>2, <1>3, SetUp
<1> QED
  BY <1>1, <1>4 DEF P

\* Smaller values have a smaller sum.
LEMMA SumsOrder ==
    ASSUME NEW S, IsFiniteSet(S), NEW f, NEW g, NEW F, NEW G,
           \A s \in SUBSET S : Adds(f, F, s) /\ Adds(g, G, s),
           \A x \in S : f[x] \in Int /\ g[x] \in Int /\ f[x] <= g[x]
    PROVE  F[S] \in Int /\ G[S] \in Int /\ F[S] <= G[S]
<1> DEFINE P == {s \in SUBSET S : F[s] \in Int /\ G[s] \in Int /\ F[s] <= G[s]}
<1>1. {} \in P
  <2>1. Adds(f, F, {}) /\ Adds(g, G, {})
    OBVIOUS
  <2> QED
    BY <2>1 DEF Adds
<1>2. ASSUME NEW s \in SUBSET S, s # {}, s \ {Pick(s)} \in P
      PROVE  s \in P
  <2> DEFINE p == Pick(s)
             rest == s \ {p}
  <2>1. p \in S
    BY <1>2 DEF Pick
  <2>2. F[s] = f[p] + F[rest] /\ G[s] = g[p] + G[rest]
    BY <1>2 DEF Adds
  <2>3. F[rest] \in Int /\ G[rest] \in Int /\ F[rest] <= G[rest]
    BY <1>2
  <2>4. f[p] \in Int /\ g[p] \in Int /\ f[p] <= g[p]
    BY <2>1
  <2> HIDE DEF p, rest
  <2>5. F[s] \in Int /\ G[s] \in Int /\ F[s] <= G[s]
    BY <2>2, <2>3, <2>4
  <2> QED
    BY <2>5
<1> HIDE DEF P
<1>3. S \in P
  BY <1>1, <1>2, SetUp
<1> QED
  BY <1>3 DEF P

\* Sums of integers are integers.
LEMMA SumsInt ==
    ASSUME NEW S, IsFiniteSet(S), NEW f, NEW F, \A s \in SUBSET S : Adds(f, F, s),
           \A x \in S : f[x] \in Int
    PROVE  \A s \in SUBSET S : F[s] \in Int
<1> DEFINE P == {s \in SUBSET S : F[s] \in Int}
<1>1. {} \in P
  <2>1. Adds(f, F, {})
    OBVIOUS
  <2> QED
    BY <2>1 DEF Adds
<1>2. ASSUME NEW s \in SUBSET S, s # {}, s \ {Pick(s)} \in P
      PROVE  s \in P
  <2>1. f[Pick(s)] \in Int
    BY <1>2 DEF Pick
  <2>2. F[s] = f[Pick(s)] + F[s \ {Pick(s)}]
    BY <1>2 DEF Adds
  <2> QED
    BY <1>2, <2>1, <2>2
<1> HIDE DEF P
<1>3. \A s \in SUBSET S : s \in P
  BY <1>1, <1>2, SetUp
<1> QED
  BY <1>3 DEF P

\* Any element may be taken first.
LEMMA AnyFirst ==
    ASSUME NEW S, IsFiniteSet(S), NEW f, NEW F, \A s \in SUBSET S : Adds(f, F, s),
           \A x \in S : f[x] \in Int
    PROVE  \A s \in SUBSET S : F[s] \in Int /\ \A x \in s : F[s] = f[x] + F[s \ {x}]
<1> DEFINE Fine(s) == F[s] \in Int /\ \A x \in s : F[s] = f[x] + F[s \ {x}]
           good == {n \in Nat : \A s \in SUBSET S : Cardinality(s) = n => Fine(s)}
<1>0. \A s \in SUBSET S : IsFiniteSet(s) /\ Cardinality(s) \in Nat
                          /\ Cardinality(s) <= Cardinality(S)
  BY FS_Subset, FS_CardinalityType
<1>1. Cardinality(S) \in Nat
  BY FS_CardinalityType
<1>2. \A s \in SUBSET S : \A x \in s : /\ s \ {x} \in SUBSET S
                                        /\ Cardinality(s \ {x}) = Cardinality(s) - 1
  BY <1>0, FS_RemoveElement
<1>3. \A s \in SUBSET S : F[s] \in Int
  BY SumsInt
<1>4. 0 \in good
  <2> SUFFICES ASSUME NEW s \in SUBSET S, Cardinality(s) = 0
               PROVE  Fine(s)
    OBVIOUS
  <2>1. s = {}
    BY <1>0, FS_EmptySet
  <2>2. F[s] = 0
    BY <2>1 DEF Adds
  <2> QED
    BY <2>1, <2>2
<1>5. ASSUME NEW n \in 0..(Cardinality(S) - 1), n \in good
      PROVE  n + 1 \in good
  <2> SUFFICES ASSUME NEW s \in SUBSET S, Cardinality(s) = n + 1
               PROVE  Fine(s)
    BY <1>1
  <2> DEFINE p == Pick(s)
  <2>1. n \in Nat /\ s # {} /\ p \in s
    <3>1. n \in Nat /\ n + 1 # 0
      BY <1>1
    <3>2. s # {}
      BY <1>0, <3>1, FS_EmptySet
    <3> QED
      BY <3>1, <3>2 DEF Pick
  <2>2. F[s] = f[p] + F[s \ {p}]
    BY <2>1 DEF Adds
  <2> HIDE DEF p
  <2>3. \A x \in s : s \ {x} \in SUBSET S /\ Cardinality(s \ {x}) = n
    <3>1. \A x \in s : s \ {x} \in SUBSET S /\ Cardinality(s \ {x}) = (n + 1) - 1
      BY <1>2
    <3>2. (n + 1) - 1 = n
      BY <2>1
    <3> QED
      BY <3>1, <3>2
  <2>4. \A x \in s : Fine(s \ {x})
    BY <1>5, <2>3
  <2> HIDE DEF good
  <2>5. ASSUME NEW x \in s
        PROVE  F[s] = f[x] + F[s \ {x}]
    <3>1. CASE x = p
      BY <2>2, <3>1
    <3>2. CASE x # p
      <4>1. (s \ {p}) \ {x} = (s \ {x}) \ {p}
        OBVIOUS
      <4>2. F[s \ {p}] = f[x] + F[(s \ {p}) \ {x}]
        BY <2>1, <2>4, <3>2
      <4>3. F[s \ {x}] = f[p] + F[(s \ {x}) \ {p}]
        BY <2>1, <2>4, <3>2
      <4> DEFINE rest == F[(s \ {x}) \ {p}]
                 a == F[s \ {p}]
                 b == F[s \ {x}]
      <4>4. rest \in Int
        <5>1. (s \ {x}) \ {p} \in SUBSET S
          OBVIOUS
        <5> QED
          BY <1>3, <5>1
      <4>5. a = f[x] + rest /\ b = f[p] + rest /\ F[s] = f[p] + a
        BY <2>2, <4>1, <4>2, <4>3
      <4>6. f[x] \in Int /\ f[p] \in Int
        BY <2>1
      <4> HIDE DEF rest, a, b
      <4>7. F[s] = f[x] + b
        BY <4>4, <4>5, <4>6
      <4> QED
        BY <4>7 DEF b
    <3> QED
      BY <3>1, <3>2
  <2>6. F[s] \in Int
    BY <1>3
  <2> QED
    BY <2>5, <2>6
<1>6. \A n \in 0..Cardinality(S) : n \in good
  <2> HIDE DEF good
  <2>1. \A n \in 0..(Cardinality(S) - 1) : n \in good => n + 1 \in good
    BY <1>5
  <2> QED
    BY <1>1, <1>4, <2>1, CountUp
<1>7. ASSUME NEW s \in SUBSET S
      PROVE  Fine(s)
  <2> HIDE DEF Fine
  <2>1. Cardinality(s) \in 0..Cardinality(S)
    BY <1>0, <1>1
  <2> QED
    BY <1>6, <2>1
<1> QED
  BY <1>7

\* The recursion gives the sums over the subsets too.
LEMMA TotalWithin ==
    ASSUME NEW S, IsFiniteSet(S), NEW f, NEW F, \A s \in SUBSET S : Adds(f, F, s),
           NEW T \in SUBSET S
    PROVE  Total(f, T) = F[T]
<1>0. IsFiniteSet(T)
  BY FS_Subset
<1>1. PICK G : (\A s \in SUBSET T : Adds(f, G, s)) /\ Total(f, T) = G[T]
  BY <1>0, TotalIs
<1> DEFINE P == {s \in SUBSET T : G[s] = F[s]}
<1>2. {} \in P
  BY <1>1 DEF Adds
<1>3. ASSUME NEW s \in SUBSET T, s # {}, s \ {Pick(s)} \in P
      PROVE  s \in P
  <2>1. G[s] = f[Pick(s)] + G[s \ {Pick(s)}]
    BY <1>1, <1>3 DEF Adds
  <2>2. s \in SUBSET S /\ F[s] = f[Pick(s)] + F[s \ {Pick(s)}]
    BY <1>3 DEF Adds
  <2> QED
    BY <1>3, <2>1, <2>2
<1> HIDE DEF P
<1>4. T \in P
  BY <1>0, <1>2, <1>3, SetUp
<1> QED
  BY <1>1, <1>4 DEF P

\* With an element more the sum is not smaller.
LEMMA TotalMore ==
    ASSUME NEW S, IsFiniteSet(S), NEW a, NEW f, \A x \in S \cup {a} : f[x] \in Nat
    PROVE  /\ Total(f, S) \in Int /\ Total(f, S \cup {a}) \in Int
           /\ Total(f, S) <= Total(f, S \cup {a})
<1> DEFINE U == S \cup {a}
<1>0. IsFiniteSet(U)
  BY FS_AddElement
<1>1. PICK F : (\A s \in SUBSET U : Adds(f, F, s)) /\ Total(f, U) = F[U]
  BY <1>0, TotalIs
<1>2. Total(f, S) = F[S]
  <2>1. S \in SUBSET U
    OBVIOUS
  <2> HIDE DEF U
  <2> QED
    BY <1>0, <1>1, <2>1, TotalWithin
<1>3. \A s \in SUBSET U : F[s] \in Int /\ \A x \in s : F[s] = f[x] + F[s \ {x}]
  <2>1. \A x \in U : f[x] \in Int
    OBVIOUS
  <2>2. \A s \in SUBSET U : Adds(f, F, s)
    BY <1>1
  <2> HIDE DEF U
  <2> QED
    BY <1>0, <2>1, <2>2, AnyFirst
<1>4. F[S] \in Int /\ F[U] \in Int
  BY <1>3
<1>5. CASE a \in S
  <2>1. U = S
    BY <1>5
  <2> HIDE DEF U
  <2> QED
    BY <1>1, <1>2, <1>4, <2>1 DEF U
<1>6. CASE a \notin S
  <2>1. U \ {a} = S /\ a \in U
    BY <1>6
  <2>2. F[U] = f[a] + F[S]
    BY <1>3, <2>1
  <2>3. f[a] \in Nat
    OBVIOUS
  <2> HIDE DEF U
  <2>4. F[S] <= F[U]
    BY <1>4, <2>2, <2>3
  <2> QED
    BY <1>1, <1>2, <1>4, <2>4 DEF U
<1> QED
  BY <1>5, <1>6

-----------------------------------------------------------------------------
(***************************************************************************)
(* Counting in a queue.                                                    *)
(***************************************************************************)
\* Where a queue has messages other than e.
Others(q, e) == {k \in DOMAIN q : q[k] # e}

LEMMA OthersFinite ==
    ASSUME NEW S, NEW q \in Seq(S), NEW e
    PROVE  IsFiniteSet(Others(q, e)) /\ Cardinality(Others(q, e)) \in Nat
<1>1. DOMAIN q = 1..Len(q) /\ Len(q) \in Nat
  OBVIOUS
<1>2. IsFiniteSet(1..Len(q))
  BY <1>1, FS_Interval
<1>3. Others(q, e) \subseteq 1..Len(q)
  BY <1>1 DEF Others
<1> QED
  BY <1>2, <1>3, FS_Subset, FS_CardinalityType

LEMMA OthersAppend ==
    ASSUME NEW S, NEW q \in Seq(S), NEW x \in S, NEW e
    PROVE  Cardinality(Others(Append(q, x), e))
                = Cardinality(Others(q, e)) + IF x = e THEN 0 ELSE 1
<1> DEFINE n == Len(q) + 1
<1>1. /\ DOMAIN Append(q, x) = DOMAIN q \cup {n} /\ n \notin DOMAIN q
      /\ Append(q, x)[n] = x /\ \A k \in DOMAIN q : Append(q, x)[k] = q[k]
  OBVIOUS
<1> HIDE DEF n
<1>2. Others(Append(q, x), e) = Others(q, e) \cup (IF x = e THEN {} ELSE {n})
  BY <1>1 DEF Others
<1>3. n \notin Others(q, e) /\ IsFiniteSet(Others(q, e)) /\ Cardinality(Others(q, e)) \in Nat
  BY <1>1, OthersFinite DEF Others
<1>4. Cardinality(Others(q, e) \cup {n}) = Cardinality(Others(q, e)) + 1
  BY <1>3, FS_AddElement
<1>5. CASE x = e
  BY <1>2, <1>3, <1>5
<1>6. CASE x # e
  BY <1>2, <1>4, <1>6
<1> QED
  BY <1>5, <1>6

LEMMA OthersTail ==
    ASSUME NEW S, NEW q \in Seq(S), q # << >>, NEW e
    PROVE  Cardinality(Others(q, e))
                = Cardinality(Others(Tail(q), e)) + IF Head(q) = e THEN 0 ELSE 1
<1> DEFINE t == Tail(q)
           rest == Others(q, e) \ {1}
           next == [k \in Others(t, e) |-> k + 1]
<1>1. /\ Len(q) \in Nat \ {0} /\ DOMAIN q = 1..Len(q) /\ Head(q) = q[1]
      /\ t \in Seq(S) /\ DOMAIN t = 1..(Len(q) - 1)
      /\ \A k \in 1..(Len(q) - 1) : t[k] = q[k + 1]
  OBVIOUS
<1> HIDE DEF t
<1>2. next \in Bijection(Others(t, e), rest)
  <2>1. \A k \in Others(t, e) : k \in 1..(Len(q) - 1) /\ k + 1 \in rest
    BY <1>1 DEF Others
  <2>2. ASSUME NEW k \in rest
        PROVE  k - 1 \in Others(t, e) /\ (k - 1) + 1 = k
    <3>1. k \in 2..Len(q) /\ q[k] # e
      BY <1>1 DEF Others
    <3>2. k - 1 \in 1..(Len(q) - 1) /\ (k - 1) + 1 = k
      BY <1>1, <3>1
    <3>3. t[k - 1] = q[k]
      BY <1>1, <3>2
    <3> QED
      BY <1>1, <3>1, <3>2, <3>3 DEF Others
  <2>3. next \in [Others(t, e) -> rest]
    BY <2>1
  <2>4. \A j, k \in Others(t, e) : next[j] = next[k] => j = k
    BY <2>1
  <2>5. \A k \in rest : \E j \in Others(t, e) : next[j] = k
    BY <2>2
  <2> HIDE DEF next, rest
  <2> QED
    BY <2>3, <2>4, <2>5 DEF Bijection, Injection, Surjection, IsInjective
<1>3. IsFiniteSet(Others(q, e)) /\ IsFiniteSet(Others(t, e)) /\ Cardinality(Others(q, e)) \in Nat
  BY <1>1, OthersFinite
<1>4. Cardinality(Others(t, e)) = Cardinality(rest)
  <2>1. ExistsBijection(Others(t, e), rest)
    <3> HIDE DEF next, rest
    <3> QED
      BY <1>2 DEF ExistsBijection
  <2> HIDE DEF rest
  <2> QED
    BY <1>3, <2>1, FS_Bijection
<1>5. 1 \in Others(q, e) <=> Head(q) # e
  BY <1>1 DEF Others
<1>6. CASE Head(q) = e
  <2>1. rest = Others(q, e)
    BY <1>5, <1>6
  <2> HIDE DEF rest
  <2> QED
    BY <1>3, <1>4, <1>6, <2>1 DEF t
<1>7. CASE Head(q) # e
  <2>1. Cardinality(rest) = Cardinality(Others(q, e)) - 1
    BY <1>3, <1>5, <1>7, FS_RemoveElement
  <2> HIDE DEF rest
  <2> QED
    BY <1>3, <1>4, <1>7, <2>1 DEF t
<1> QED
  BY <1>6, <1>7

-----------------------------------------------------------------------------
(***************************************************************************)
(* How often a message is handled.  A message has some number c of lapses: *)
(* each cost a whole window of other messages that were taken from the     *)
(* queue, and allowed it one more handling.  While its id is remembered,   *)
(* the messages since then count towards the next lapse.  A new life of    *)
(* the process allows a handling too; the delivery that goes back into the *)
(* queue takes one message, at most a lapse, from what was counted.        *)
(***************************************************************************)
Lapsed(w, id, max, passed, handlings, lives, c) ==
    /\ ~Remembered(w, id) => c * max <= passed /\ handlings <= lives + c
    /\ \A i \in DOMAIN w : w[i] = id =>
          c * max <= passed - (Len(w) - i) /\ handlings <= 1 + lives + c

LEMMA OneMoreLapse ==
    ASSUME NEW c \in Int, NEW max \in Nat
    PROVE  /\ c * max \in Int
           /\ (c + 1) * max = c * max + max /\ (c - 1) * max = c * max - max
  OBVIOUS

\* What happens while nothing is remembered or forgotten costs and allows nothing.
LEMMA LapsedStays ==
    ASSUME NEW ids, NEW max \in Nat \ {0}, NEW w \in Window(ids, max), NEW id,
           NEW passed \in Int, NEW handlings \in Nat, NEW lives \in Nat, NEW c \in Int,
           Lapsed(w, id, max, passed, handlings, lives, c),
           NEW p \in Int, p >= passed, NEW h \in Nat, h <= handlings
    PROVE  Lapsed(w, id, max, p, h, lives, c)
<1>0. c * max \in Int /\ Len(w) \in Nat /\ \A i \in DOMAIN w : i \in Nat
  BY OneMoreLapse DEF Window
<1> QED
  BY <1>0 DEF Lapsed

\* The message itself is remembered.
LEMMA LapsedOwn ==
    ASSUME NEW ids, NEW max \in Nat \ {0}, NEW w \in Window(ids, max), NEW id \in ids,
           ~Remembered(w, id), NEW v, v = Remember(w, id, max),
           NEW passed \in Int, NEW handlings \in Nat, NEW lives \in Nat, NEW c \in Int,
           Lapsed(w, id, max, passed, handlings, lives, c),
           NEW h \in Nat, h <= handlings + 1
    PROVE  Lapsed(v, id, max, passed, h, lives, c)
<1>1. c * max \in Int /\ c * max <= passed /\ handlings <= lives + c
  BY OneMoreLapse DEF Lapsed
<1>2. /\ v \in Seq(ids) /\ Len(v) \in Nat \ {0} /\ v[Len(v)] = id
      /\ \/ Len(v) = Len(w) + 1 /\ \A i \in DOMAIN w : v[i] = w[i]
         \/ /\ Len(w) = max /\ Len(v) = Len(w)
            /\ \A i \in 1..(Len(w) - 1) : v[i] = w[i + 1]
  BY RememberPlaces
<1>3. DOMAIN v = 1..Len(v) /\ DOMAIN w = 1..Len(w) /\ Len(w) \in Nat
  BY <1>2 DEF Window
<1>4. Len(v) \in Nat /\ Len(v) \in DOMAIN v /\ Remembered(v, id)
  <2>1. Len(v) \in Nat /\ Len(v) \in 1..Len(v) /\ v[Len(v)] = id
    BY <1>2
  <2> QED
    BY <1>3, <2>1 DEF Remembered
<1>5. ASSUME NEW i \in DOMAIN v, v[i] = id
      PROVE  i = Len(v)
  <2> SUFFICES ASSUME i # Len(v)
               PROVE  \E k \in DOMAIN w : w[k] = id
    BY DEF Remembered
  <2>1. i \in 1..(Len(v) - 1)
    BY <1>3, <1>4
  <2>2. CASE Len(v) = Len(w) + 1 /\ \A k \in DOMAIN w : v[k] = w[k]
    BY <1>3, <1>5, <2>1, <2>2
  <2>3. CASE Len(v) = Len(w) /\ \A k \in 1..(Len(w) - 1) : v[k] = w[k + 1]
    BY <1>3, <1>5, <2>1, <2>3
  <2> QED
    BY <1>2, <2>2, <2>3
<1>6. c * max <= passed - 0 /\ h <= 1 + lives + c
  BY <1>1
<1>7. Len(v) - Len(v) = 0
  BY <1>2
<1> QED
  BY <1>4, <1>5, <1>6, <1>7 DEF Lapsed

\* Another message is remembered.
LEMMA LapsedOther ==
    ASSUME NEW ids, NEW max \in Nat \ {0}, NEW w \in Window(ids, max), NEW id,
           NEW other \in ids, other # id, NEW v, v = Remember(w, other, max),
           NEW passed \in Int, NEW handlings \in Nat, NEW lives \in Nat, NEW c \in Int,
           Lapsed(w, id, max, passed, handlings, lives, c),
           NEW h \in Nat, h <= handlings
    PROVE  \E d \in Int : Lapsed(v, id, max, passed + 1, h, lives, d)
<1>1. /\ c * max \in Int /\ (c + 1) * max = c * max + max
  BY OneMoreLapse
<1>2. /\ v \in Seq(ids) /\ Len(v) \in Nat \ {0} /\ v[Len(v)] = other
      /\ \/ Len(v) = Len(w) + 1 /\ \A i \in DOMAIN w : v[i] = w[i]
         \/ /\ Len(w) = max /\ Len(v) = Len(w)
            /\ \A i \in 1..(Len(w) - 1) : v[i] = w[i + 1]
  BY RememberPlaces
<1>3. DOMAIN v = 1..Len(v) /\ DOMAIN w = 1..Len(w) /\ Len(w) \in Nat
  BY <1>2 DEF Window
<1>4. \A i, j \in 1..Len(w) : w[i] = w[j] => i = j
  <2>1. \A i, j \in 1..Len(w) : i < j => w[i] # w[j]
    BY <1>3 DEF Window
  <2>2. \A i, j \in 1..Len(w) : i < j \/ j < i \/ i = j
    BY <1>3
  <2> QED
    BY <2>1, <2>2
<1>5. ASSUME NEW i \in DOMAIN v, v[i] = id
      PROVE  i \in 1..(Len(v) - 1)
  <2>1. i # Len(v) /\ Len(v) \in Nat /\ i \in 1..Len(v)
    BY <1>2, <1>3, <1>5
  <2> QED
    BY <2>1
<1>6. CASE ~Remembered(w, id)
  <2>1. c * max <= passed /\ handlings <= lives + c
    BY <1>6 DEF Lapsed
  <2>2. ASSUME NEW i \in DOMAIN v, v[i] = id
        PROVE  FALSE
    <3>1. i \in 1..(Len(v) - 1)
      BY <1>5, <2>2
    <3>2. CASE Len(v) = Len(w) + 1 /\ \A k \in DOMAIN w : v[k] = w[k]
      BY <1>3, <1>6, <2>2, <3>1, <3>2 DEF Remembered
    <3>3. CASE Len(v) = Len(w) /\ \A k \in 1..(Len(w) - 1) : v[k] = w[k + 1]
      BY <1>3, <1>6, <2>2, <3>1, <3>3 DEF Remembered
    <3> QED
      BY <1>2, <3>2, <3>3
  <2>3. c * max <= passed + 1 /\ h <= lives + c
    BY <1>1, <2>1
  <2>4. Lapsed(v, id, max, passed + 1, h, lives, c)
    BY <2>2, <2>3 DEF Lapsed
  <2> QED
    BY <2>4
<1>7. ASSUME NEW k \in DOMAIN w, w[k] = id
      PROVE  \E d \in Int : Lapsed(v, id, max, passed + 1, h, lives, d)
  <2>1. c * max <= passed - (Len(w) - k) /\ handlings <= 1 + lives + c
    BY <1>7 DEF Lapsed
  <2>2. \A i \in DOMAIN w : w[i] = id => i = k
    BY <1>3, <1>4, <1>7
  <2>3. k \in 1..Len(w)
    BY <1>3
  <2>4. CASE Len(v) = Len(w) + 1 /\ \A i \in DOMAIN w : v[i] = w[i]
    <3>1. Remembered(v, id)
      BY <1>3, <1>7, <2>3, <2>4 DEF Remembered
    <3>2. ASSUME NEW i \in DOMAIN v, v[i] = id
          PROVE  i = k
      <4>1. i \in 1..(Len(v) - 1)
        BY <1>5, <3>2
      <4>2. i \in DOMAIN w
        BY <1>3, <2>4, <4>1
      <4> QED
        BY <2>2, <2>4, <3>2, <4>2
    <3>3. c * max <= passed + 1 - (Len(v) - k) /\ h <= 1 + lives + c
      BY <1>1, <1>3, <2>1, <2>3, <2>4
    <3>4. Lapsed(v, id, max, passed + 1, h, lives, c)
      BY <3>1, <3>2, <3>3 DEF Lapsed
    <3> QED
      BY <3>4
  <2>5. CASE /\ Len(w) = max /\ Len(v) = Len(w)
             /\ \A i \in 1..(Len(w) - 1) : v[i] = w[i + 1]
    <3>1. ASSUME NEW i \in DOMAIN v, v[i] = id
          PROVE  i \in 1..(Len(w) - 1) /\ i + 1 = k
      <4>1. i \in 1..(Len(w) - 1) /\ i + 1 \in DOMAIN w
        BY <1>3, <1>5, <2>5, <3>1
      <4> QED
        BY <2>2, <2>5, <3>1, <4>1
    <3>2. CASE k = 1
      <4>1. \A i \in DOMAIN v : v[i] # id
        <5>1. \A i \in 1..(Len(w) - 1) : i + 1 # 1
          BY <1>3
        <5> QED
          BY <3>1, <3>2, <5>1
      <4>2. (c + 1) * max <= passed + 1 /\ h <= lives + (c + 1)
        BY <1>1, <1>3, <2>1, <2>5, <3>2
      <4>3. Lapsed(v, id, max, passed + 1, h, lives, c + 1)
        BY <4>1, <4>2 DEF Lapsed
      <4> QED
        BY <4>3
    <3>3. CASE k # 1
      <4>1. k - 1 \in DOMAIN v /\ v[k - 1] = id
        <5>1. k - 1 \in 1..(Len(w) - 1) /\ (k - 1) + 1 = k
          BY <1>3, <2>3, <3>3
        <5> QED
          BY <1>3, <1>7, <2>5, <5>1
      <4>2. ASSUME NEW i \in DOMAIN v, v[i] = id
            PROVE  c * max <= passed + 1 - (Len(v) - i) /\ h <= 1 + lives + c
        <5>1. i \in 1..(Len(w) - 1) /\ i + 1 = k
          BY <3>1, <4>2
        <5>2. i \in Int /\ Len(v) - i = Len(w) - k + 1
          BY <1>3, <2>5, <5>1
        <5> QED
          BY <1>1, <1>3, <2>1, <2>3, <5>2
      <4>3. Lapsed(v, id, max, passed + 1, h, lives, c)
        BY <4>1, <4>2 DEF Lapsed, Remembered
      <4> QED
        BY <4>3
    <3> QED
      BY <3>2, <3>3
  <2> QED
    BY <1>2, <2>4, <2>5
<1> QED
  BY <1>6, <1>7 DEF Remembered

\* A new life: nothing is remembered, and one other message may be back in the queue.
LEMMA LapsedForgotten ==
    ASSUME NEW ids, NEW max \in Nat \ {0}, NEW w \in Window(ids, max), NEW id,
           NEW passed \in Int, NEW handlings \in Nat, NEW lives \in Nat, NEW c \in Int,
           Lapsed(w, id, max, passed, handlings, lives, c),
           NEW h \in Nat, h <= handlings,
           NEW p \in Int, p = passed \/ p = passed - 1, w[Len(w)] = id => p = passed
    PROVE  \E d \in Int : Lapsed(<< >>, id, max, p, h, lives + 1, d)
<1>1. /\ c * max \in Int /\ c - 1 \in Int /\ (c - 1) * max = c * max - max
      /\ DOMAIN w = 1..Len(w) /\ Len(w) \in Nat
  BY OneMoreLapse DEF Window
<1>2. ASSUME NEW d \in Int, d * max <= p, h <= lives + 1 + d
      PROVE  \E x \in Int : Lapsed(<< >>, id, max, p, h, lives + 1, x)
  <2>1. Lapsed(<< >>, id, max, p, h, lives + 1, d)
    BY <1>2 DEF Lapsed
  <2> QED
    BY <2>1
<1>3. CASE ~Remembered(w, id)
  <2>1. c * max <= passed /\ handlings <= lives + c
    BY <1>3 DEF Lapsed
  <2>2. CASE p = passed
    <3>1. c * max <= p /\ h <= lives + 1 + c
      BY <2>1, <2>2
    <3> QED
      BY <1>2, <3>1
  <2>3. CASE p = passed - 1
    <3>1. PICK d \in Int : d = c - 1
      BY <1>1
    <3>2. d * max <= p /\ h <= lives + 1 + d
      BY <1>1, <2>1, <2>3, <3>1
    <3> QED
      BY <1>2, <3>2
  <2> QED
    BY <2>2, <2>3
<1>4. ASSUME NEW k \in DOMAIN w, w[k] = id
      PROVE  \E d \in Int : Lapsed(<< >>, id, max, p, h, lives + 1, d)
  <2>1. c * max <= passed - (Len(w) - k) /\ handlings <= 1 + lives + c /\ k \in 1..Len(w)
    BY <1>1, <1>4 DEF Lapsed
  <2>2. c * max <= p /\ h <= lives + 1 + c
    <3>1. CASE p = passed
      BY <1>1, <2>1, <3>1
    <3>2. CASE p = passed - 1 /\ k # Len(w)
      BY <1>1, <2>1, <3>2
    <3> QED
      BY <1>4, <3>1, <3>2
  <2> QED
    BY <1>2, <2>2
<1> QED
  BY <1>3, <1>4 DEF Remembered

\* So many lapses there are at most.
LEMMA LapsedEnough ==
    ASSUME NEW ids, NEW max \in Nat \ {0}, NEW w \in Window(ids, max), NEW id,
           NEW passed \in Int, NEW handlings \in Nat, NEW lives \in Nat, NEW c \in Int,
           Lapsed(w, id, max, passed, handlings, lives, c),
           NEW all \in Int, passed <= all
    PROVE  all \div max \in Int /\ handlings <= 1 + lives + (all \div max)
<1> DEFINE q == all \div max
<1>0. c * max \in Int /\ Len(w) \in Nat /\ DOMAIN w = 1..Len(w)
  BY OneMoreLapse DEF Window
<1>1. q \in Int /\ all < (q + 1) * max /\ (q + 1) * max \in Int
  OBVIOUS
<1> HIDE DEF q
<1>2. c * max <= passed /\ handlings <= 1 + lives + c
  <2>1. CASE ~Remembered(w, id)
    BY <2>1 DEF Lapsed
  <2>2. ASSUME NEW i \in DOMAIN w, w[i] = id
        PROVE  c * max <= passed /\ handlings <= 1 + lives + c
    BY <1>0, <2>2 DEF Lapsed
  <2> QED
    BY <2>1, <2>2 DEF Remembered
<1>3. c * max < (q + 1) * max
  BY <1>0, <1>1, <1>2
<1>4. c < q + 1
  BY <1>1, <1>3
<1>5. handlings <= 1 + lives + q
  BY <1>1, <1>2, <1>4
<1> QED
  BY <1>1, <1>5 DEF q

=============================================================================
