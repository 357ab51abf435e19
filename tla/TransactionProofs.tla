------------------------- MODULE TransactionProofs -------------------------
(***************************************************************************)
(* Proofs about TransactionConsumer, for every set of outcomes and rows,   *)
(* every prefetch limit and every number of failures and restarts.         *)
(***************************************************************************)
EXTENDS TransactionConsumer, DeliveryProofs

Ids == {o.id : o \in Outcomes}

Deliveries == [msg : Outcomes, pc : {"applying", "acking"}]

\* No handler works on a message it does not know how to apply.
HandlersApply == \A i \in DOMAIN inflight : Applicable(inflight[i].msg)

IInv == TypeOK /\ HandlersApply

NoRejectInSnapshots == \A o \in Outcomes : o.moderation # "REJECT"

-----------------------------------------------------------------------------
(***************************************************************************)
(* Type correctness.  A row keeps its type because only applicable         *)
(* messages are handled.                                                   *)
(***************************************************************************)
LEMMA UpdatedShape ==
    ASSUME NEW o \in Outcomes, NEW r \in Rows
    PROVE  \/ Updated(o, r) = [state |-> "REJECTED_MODERATION", aiStatus |-> "FAILED",
                               searchStatus |-> "FAILED", moderationStatus |-> "REJECT",
                               enriched |-> r.enriched, version |-> r.version + 1]
           \/ Updated(o, r) = [state |-> "AI_PROCESSING", aiStatus |-> r.aiStatus,
                               searchStatus |-> "INDEXED_BASE",
                               moderationStatus |-> r.moderationStatus,
                               enriched |-> r.enriched, version |-> r.version + 1]
           \/ \E m \in {"ALLOW", "REVIEW", "REJECT"} \cap {"ALLOW", o.moderation} :
              \E e \in BOOLEAN :
              Updated(o, r) = [state |-> "READY", aiStatus |-> "COMPLETED",
                               searchStatus |-> "INDEXED_ENRICHED", moderationStatus |-> m,
                               enriched |-> e, version |-> r.version + 1]
<1>1. CASE o.type = "search.index.rejected"
  BY <1>1 DEF Updated, Rows
<1>2. CASE o.type # "search.index.rejected" /\ o.source \in BaseSources
  BY <1>2 DEF Updated, Rows
<1>3. CASE o.type # "search.index.rejected" /\ o.source \notin BaseSources
  <2> DEFINE m == IF o.moderation = "none" THEN "ALLOW" ELSE o.moderation
             e == r.enriched \/ o.moderation # "none"
  <2>1. Updated(o, r) = [state |-> "READY", aiStatus |-> "COMPLETED",
                         searchStatus |-> "INDEXED_ENRICHED", moderationStatus |-> m,
                         enriched |-> e, version |-> r.version + 1]
    BY <1>3 DEF Updated, Rows
  <2>2. m \in {"ALLOW", "REVIEW", "REJECT"} \cap {"ALLOW", o.moderation} /\ e \in BOOLEAN
    BY TransactionAssumption
  <2> QED
    BY <2>1, <2>2
<1> QED
  BY <1>1, <1>2, <1>3

LEMMA UpdatedType ==
    ASSUME NEW o \in Outcomes, NEW r \in Rows
    PROVE  Updated(o, r) \in Rows
<1>1. /\ r.enriched \in BOOLEAN /\ r.version + 1 \in Nat \ {0}
      /\ r.aiStatus \in {"PENDING", "COMPLETED", "FAILED"}
      /\ r.moderationStatus \in {"PENDING", "ALLOW", "REVIEW", "REJECT"}
  BY DEF Rows
<1> QED
  BY <1>1, UpdatedShape DEF Rows

LEMMA UpdateType ==
    ASSUME TypeOK, NEW o \in Outcomes, Update(o)
    PROVE  row' \in [Tx -> Rows]
  BY UpdatedType DEF TypeOK, Update

LEMMA InflightShape ==
    ASSUME TypeOK
    PROVE  /\ inflight \in Seq(Deliveries) /\ Len(inflight) <= Prefetch
           /\ \A i \in DOMAIN inflight : inflight[i] \in Deliveries /\ inflight[i].msg \in Outcomes
<1>1. inflight \in Seq(Deliveries) /\ Len(inflight) <= Prefetch
  BY DEF TypeOK, Deliveries
<1>2. \A i \in DOMAIN inflight : inflight[i] \in Deliveries
  BY <1>1
<1> QED
  BY <1>1, <1>2 DEF Deliveries

\* What a handler that leaves does to the deliveries in flight.
LEMMA LeaveShape ==
    ASSUME IInv, NEW i \in DOMAIN inflight, Leave(i)
    PROVE  /\ inflight' \in Seq(Deliveries) /\ Len(inflight') <= Prefetch
           /\ HandlersApply'
<1>1. inflight \in Seq(Deliveries) /\ Len(inflight) <= Prefetch
  BY InflightShape DEF IInv
<1>2. /\ inflight' \in Seq(Deliveries)
      /\ Len(inflight') = Len(inflight) - 1
      /\ \A j \in DOMAIN inflight' : inflight'[j] = IF j < i THEN inflight[j] ELSE inflight[j + 1]
  BY <1>1, RemoveAtShape DEF Leave
<1>3. ASSUME NEW j \in DOMAIN inflight'
      PROVE  \E k \in DOMAIN inflight : inflight'[j] = inflight[k]
  <2>1. j \in DOMAIN inflight /\ j + 1 \in DOMAIN inflight
    BY <1>1, <1>2
  <2> QED
    BY <1>2, <2>1
<1>4. HandlersApply'
  BY <1>3 DEF IInv, HandlersApply
<1> QED
  BY <1>1, <1>2, <1>4, TransactionAssumption

LEMMA GotoShape ==
    ASSUME IInv, NEW i \in DOMAIN inflight, Goto(i, "acking")
    PROVE  /\ inflight' \in Seq(Deliveries) /\ Len(inflight') <= Prefetch
           /\ HandlersApply'
<1>1. inflight \in Seq(Deliveries) /\ Len(inflight) <= Prefetch
  BY InflightShape DEF IInv
<1>2. /\ inflight' \in Seq(Deliveries) /\ Len(inflight') = Len(inflight)
      /\ \A j \in DOMAIN inflight : inflight'[j].msg = inflight[j].msg
  <2>1. [inflight[i] EXCEPT !.pc = "acking"] \in Deliveries
    BY InflightShape DEF IInv, Deliveries
  <2>2. [inflight[i] EXCEPT !.pc = "acking"].msg = inflight[i].msg
    BY InflightShape DEF IInv, Deliveries
  <2>3. inflight' = [inflight EXCEPT ![i] = [inflight[i] EXCEPT !.pc = "acking"]]
    BY DEF Goto
  <2> QED
    BY <1>1, <2>1, <2>2, <2>3
<1>3. HandlersApply'
  BY <1>1, <1>2 DEF IInv, HandlersApply
<1> QED
  BY <1>1, <1>2, <1>3

\* The message that is delivered comes off the queue.
LEMMA DeliversShape ==
    ASSUME TypeOK, NEW o \in Outcomes, Delivers(o)
    PROVE  queue' \in Seq(Outcomes) /\ Len(inflight) < Prefetch
  BY DEF TypeOK, Delivers

LEMMA AcceptShape ==
    ASSUME TypeOK, NEW o \in Outcomes, Accept(o)
    PROVE  /\ queue' \in Seq(Outcomes) /\ Len(inflight) < Prefetch
           /\ processed' \in Window(Ids, MaxTracked)
<1>1. o.id \in Ids
  BY DEF Ids
<1>2. processed \in Window(Ids, MaxTracked)
  BY DEF TypeOK, Ids
<1>3. processed' \in Window(Ids, MaxTracked)
  BY <1>1, <1>2, RememberShape, TransactionAssumption DEF Accept
<1> QED
  BY <1>3, DeliversShape DEF Accept

LEMMA IInvInit == Init /\ MaxErrors \in Nat /\ MaxRestarts \in Nat => IInv
<1> SUFFICES ASSUME Init, MaxErrors \in Nat, MaxRestarts \in Nat
             PROVE  IInv
  OBVIOUS
<1>1. processed \in Window(Ids, MaxTracked)
  BY EmptyWindow, TransactionAssumption DEF Init
<1>2. row \in [Tx -> Rows]
  BY DEF Init, NewRow, Rows
<1>3. Len(inflight) <= Prefetch
  BY TransactionAssumption DEF Init
<1>4. TypeOK
  BY <1>1, <1>2, <1>3 DEF Init, TypeOK, Ids
<1>5. HandlersApply
  BY DEF Init, HandlersApply
<1> QED
  BY <1>4, <1>5 DEF IInv

LEMMA IInvStep ==
    ASSUME IInv, [Next]_vars, MaxErrors \in Nat, MaxRestarts \in Nat
    PROVE  IInv'
<1> USE DEF IInv
<1>0. inflight \in Seq(Deliveries)
  BY DEF TypeOK, Deliveries
<1>1. CASE SkipDuplicate
  <2>1. queue' \in Seq(Outcomes)
    BY <1>1, DeliversShape DEF SkipDuplicate
  <2> QED
    BY <1>1, <2>1 DEF SkipDuplicate, TypeOK, HandlersApply
<1>2. CASE IgnoreOutcome
  <2>1. queue' \in Seq(Outcomes) /\ processed' \in Window(Ids, MaxTracked)
    BY <1>2, AcceptShape DEF IgnoreOutcome
  <2> QED
    BY <1>2, <2>1 DEF IgnoreOutcome, TypeOK, HandlersApply, Ids
<1>3. CASE StartHandler
  <2>1. PICK o \in Outcomes : /\ Accept(o) /\ Applicable(o)
                              /\ inflight' = Append(inflight, [msg |-> o, pc |-> "applying"])
    BY <1>3 DEF StartHandler
  <2>2. /\ queue' \in Seq(Outcomes) /\ Len(inflight) < Prefetch
        /\ processed' \in Window(Ids, MaxTracked)
    BY <2>1, AcceptShape
  <2>3. [msg |-> o, pc |-> "applying"] \in Deliveries
    BY DEF Deliveries
  <2>4. inflight' \in Seq(Deliveries) /\ Len(inflight') <= Prefetch
    BY <1>0, <2>1, <2>2, <2>3, TransactionAssumption
  <2>5. HandlersApply'
    BY <1>0, <2>1 DEF HandlersApply
  <2> QED
    BY <1>3, <2>2, <2>4, <2>5 DEF StartHandler, TypeOK, Deliveries, Ids
<1>4. ASSUME NEW i \in DOMAIN inflight, ApplyOutcome(i)
      PROVE  IInv'
  <2>1. inflight[i].msg \in Outcomes
    BY InflightShape DEF IInv
  <2>2. row' \in [Tx -> Rows]
    BY <1>4, <2>1, UpdateType DEF ApplyOutcome
  <2> QED
    BY <1>4, <2>2, GotoShape DEF ApplyOutcome, TypeOK, Deliveries
<1>5. ASSUME NEW i \in DOMAIN inflight, RecordNotFound(i)
      PROVE  IInv'
  BY <1>5, GotoShape DEF RecordNotFound, TypeOK, Deliveries
<1>6. ASSUME NEW i \in DOMAIN inflight, Ack(i)
      PROVE  IInv'
  BY <1>6, LeaveShape DEF Ack, TypeOK, Deliveries
<1>7. ASSUME NEW i \in DOMAIN inflight, HandlerFails(i)
      PROVE  IInv'
  <2>1. inflight[i].msg \in Outcomes
    BY InflightShape DEF IInv
  <2>2. row' \in [Tx -> Rows]
    BY <1>7, <2>1, UpdateType DEF HandlerFails, TypeOK
  <2>3. errors' \in 0..MaxErrors
    BY <1>7 DEF HandlerFails, TypeOK
  <2> QED
    BY <1>7, <2>2, <2>3, LeaveShape DEF HandlerFails, TypeOK, Deliveries
<1>8. ASSUME NEW o \in Outcomes, Arrive(o)
      PROVE  IInv'
  BY <1>8 DEF Arrive, TypeOK, HandlersApply
<1>9. CASE Restart
  <2>1. queue' \in Seq(Outcomes)
    <3>1. \A h \in Deliveries : h.msg \in Outcomes
      BY DEF Deliveries
    <3> QED
      BY <1>0, <1>9, <3>1, RequeueShape DEF Restart, TypeOK
  <2>2. processed' \in Window(Ids, MaxTracked)
    BY <1>9, EmptyWindow, TransactionAssumption DEF Restart
  <2>3. inflight' \in Seq(Deliveries) /\ Len(inflight') <= Prefetch /\ HandlersApply'
    BY <1>9, TransactionAssumption DEF Restart, HandlersApply
  <2>4. restarts' \in 0..MaxRestarts
    BY <1>9 DEF Restart, TypeOK
  <2> QED
    BY <1>9, <2>1, <2>2, <2>3, <2>4 DEF Restart, TypeOK, Ids, Deliveries
<1>10. CASE UNCHANGED vars
  BY <1>10 DEF vars, TypeOK, HandlersApply
<1> QED
  BY <1>1, <1>2, <1>3, <1>4, <1>5, <1>6, <1>7, <1>8, <1>9, <1>10
     DEF Next, Consume, HandlerStep

\* TypeOK of the run transaction_outcomes, for every instance: no message, row or
\* window of remembered ids outside the values its column or type allows.
THEOREM TypeCorrect ==
    ASSUME MaxErrors \in Nat, MaxRestarts \in Nat
    PROVE  Spec => []TypeOK
<1>1. Init => IInv
  BY IInvInit
<1>2. IInv /\ [Next]_vars => IInv'
  BY IInvStep
<1>3. IInv => TypeOK
  BY DEF IInv
<1> QED
  BY <1>1, <1>2, <1>3, PTL DEF Spec

-----------------------------------------------------------------------------
(***************************************************************************)
(* The columns of a row agree.  An outcome writes the verdict columns      *)
(* together, so a row agrees after any applicable outcome if it agreed     *)
(* before: base outcomes change neither READY nor REJECTED_MODERATION into *)
(* the other, they leave both.                                             *)
(***************************************************************************)
ColumnsAgree(r) ==
    /\ r.state = "READY" => /\ r.aiStatus = "COMPLETED"
                            /\ r.moderationStatus \in {"ALLOW", "REVIEW"}
                            /\ r.searchStatus = "INDEXED_ENRICHED"
    /\ r.state = "REJECTED_MODERATION" => /\ r.aiStatus = "FAILED"
                                          /\ r.moderationStatus = "REJECT"
                                          /\ r.searchStatus = "FAILED"

LEMMA UpdatedAgrees ==
    ASSUME NEW o \in Outcomes, o.moderation # "REJECT", NEW r \in Rows
    PROVE  ColumnsAgree(Updated(o, r))
  BY UpdatedShape DEF ColumnsAgree

LEMMA AgreeStep ==
    ASSUME NoRejectInSnapshots, IInv, VerdictColumnsAgree, [Next]_vars
    PROVE  VerdictColumnsAgree'
<1>0. row \in [Tx -> Rows] /\ inflight \in Seq(Deliveries)
  BY DEF IInv, TypeOK, Deliveries
<1>1. ASSUME NEW o \in Outcomes, Update(o)
      PROVE  VerdictColumnsAgree'
  <2>1. ASSUME NEW t \in Tx
        PROVE  ColumnsAgree(row'[t])
    <3>1. CASE t = o.tx
      BY <1>0, <1>1, <3>1, UpdatedAgrees DEF Update, NoRejectInSnapshots
    <3>2. CASE t # o.tx
      <4>1. row'[t] = row[t]
        BY <1>0, <1>1, <3>2 DEF Update
      <4> QED
        BY <4>1 DEF VerdictColumnsAgree, ColumnsAgree
    <3> QED
      BY <3>1, <3>2
  <2> QED
    BY <2>1 DEF VerdictColumnsAgree, ColumnsAgree
<1>2. CASE UNCHANGED row
  BY <1>2 DEF VerdictColumnsAgree
<1>3. ASSUME NEW i \in DOMAIN inflight, HandlerStep(i)
      PROVE  VerdictColumnsAgree'
  <2>1. inflight[i].msg \in Outcomes
    BY InflightShape DEF IInv
  <2> QED
    BY <1>1, <1>2, <1>3, <2>1 DEF HandlerStep, ApplyOutcome, RecordNotFound, Ack, HandlerFails
<1> QED
  BY <1>2, <1>3
     DEF Next, vars, Consume, SkipDuplicate, IgnoreOutcome, StartHandler, Arrive, Restart

\* VerdictColumnsAgree of the same run, for every instance in which no snapshot
\* says REJECT: ai-service publishes such an answer as ai.rejected, which carries
\* no snapshot.
THEOREM ColumnsAgreeAlways ==
    ASSUME MaxErrors \in Nat, MaxRestarts \in Nat, NoRejectInSnapshots
    PROVE  Spec => []VerdictColumnsAgree
<1>1. Init => IInv /\ VerdictColumnsAgree
  BY IInvInit DEF Init, NewRow, VerdictColumnsAgree
<1>2. (IInv /\ VerdictColumnsAgree) /\ [Next]_vars => (IInv /\ VerdictColumnsAgree)'
  BY IInvStep, AgreeStep
<1> QED
  BY <1>1, <1>2, PTL DEF Spec

-----------------------------------------------------------------------------
(***************************************************************************)
(* LastOutcomeWins, with a prefetch limit of one.  The queue is what is    *)
(* left of the history: Taken() outcomes came off it, and the one being    *)
(* handled is the last of these.  A row reflects the outcomes up to one    *)
(* position of the history; after a restart the outcome at the head of the *)
(* queue may have been applied already, so the position is Taken() or the  *)
(* next one.                                                               *)
(***************************************************************************)
Taken == Len(history) - Len(queue)

QueueIsRest ==
    /\ Len(queue) <= Len(history)
    /\ \A i \in DOMAIN queue : queue[i] = history[Taken + i]

HandlesLastTaken ==
    \A i \in DOMAIN inflight : Taken \in DOMAIN history /\ inflight[i].msg = history[Taken]

RememberedWasTaken ==
    \A id : Remembered(processed, id) => \E k \in 1..Taken : history[k].id = id

Positions == QueueIsRest /\ HandlesLastTaken /\ RememberedWasTaken

\* o was the last outcome applied to r, whatever came before it.
Shows(o, r) == Updated(o, r) = [r EXCEPT !.version = @ + 1]

\* j is the position of the last outcome for t among the first k.
Latest(t, k, j) ==
    /\ j \in 1..k /\ history[j].tx = t /\ Applicable(history[j])
    /\ \A l \in 1..k : l > j => history[l].tx # t \/ ~Applicable(history[l])

\* The rows show the first k outcomes.
ShowFirst(k) == \A t \in Tx, j \in 1..Len(history) : Latest(t, k, j) => Shows(history[j], row[t])

\* How many outcomes the rows may show: the one being handled may be among them,
\* and between deliveries the next one, if a restart has put it back.
MayShow ==
    IF inflight = << >> THEN {Taken, Taken + 1} \cap 0..Len(history)
    ELSE IF inflight[1].pc = "applying" THEN {Taken - 1, Taken}
    ELSE {Taken}

RowsInv == errors = 0 /\ IsInjective(history) => \E k \in MayShow : ShowFirst(k)

\* A message is known by its id.
IdsDistinct == \A o, p \in Outcomes : o.id = p.id => o = p

LEMMA QueueTypes ==
    ASSUME TypeOK
    PROVE  /\ queue \in Seq(Outcomes) /\ Len(queue) \in Nat /\ DOMAIN queue = 1..Len(queue)
           /\ history \in Seq(Outcomes) /\ Len(history) \in Nat
           /\ DOMAIN history = 1..Len(history)
           /\ \A k \in 1..Len(history) : history[k] \in Outcomes
           /\ row \in [Tx -> Rows] /\ Taken \in Int
  BY DEF TypeOK, Taken

\* Applying an outcome twice is applying it once, but for the version.
LEMMA UpdatedShows ==
    ASSUME NEW o \in Outcomes, NEW r \in Rows
    PROVE  Shows(o, Updated(o, r))
<1>1. CASE o.type = "search.index.rejected"
  BY <1>1 DEF Updated, Rows, Shows
<1>2. CASE o.type # "search.index.rejected" /\ o.source \in BaseSources
  BY <1>2 DEF Updated, Rows, Shows
<1>3. CASE o.type # "search.index.rejected" /\ o.source \notin BaseSources
  BY <1>3 DEF Updated, Rows, Shows
<1> QED
  BY <1>1, <1>2, <1>3

\* With a prefetch limit of one there is one handler at most.
LEMMA OneHandler ==
    ASSUME Prefetch = 1, TypeOK
    PROVE  /\ inflight \in Seq(Deliveries)
           /\ inflight = << >> \/ (Len(inflight) = 1 /\ DOMAIN inflight = {1})
<1>1. inflight \in Seq(Deliveries) /\ Len(inflight) <= 1 /\ Len(inflight) \in Nat
  BY InflightShape
<1>2. CASE Len(inflight) = 0
  BY <1>1, <1>2
<1>3. CASE Len(inflight) = 1
  BY <1>1, <1>3
<1> QED
  BY <1>1, <1>2, <1>3

\* The message that is delivered is the next one of the history.
LEMMA DeliversNext ==
    ASSUME Prefetch = 1, TypeOK, QueueIsRest, NEW o \in Outcomes, Delivers(o),
           history' = history
    PROVE  /\ inflight = << >> /\ Taken' = Taken + 1 /\ Taken \in Nat
           /\ Taken + 1 \in DOMAIN history /\ history[Taken + 1] = o
           /\ QueueIsRest'
<1>1. /\ queue # << >> /\ o = Head(queue) /\ queue' = Tail(queue) /\ Len(inflight) < 1
  BY DEF Delivers
<1>2. inflight = << >>
  BY <1>1, OneHandler
<1>3. /\ Len(queue) \in Nat \ {0} /\ o = queue[1] /\ Len(queue') = Len(queue) - 1
      /\ DOMAIN queue' = 1..(Len(queue) - 1)
      /\ \A i \in 1..(Len(queue) - 1) : queue'[i] = queue[i + 1]
  BY <1>1, QueueTypes
<1>4. Taken' = Taken + 1 /\ Taken \in Nat
  BY <1>3, QueueTypes DEF Taken, QueueIsRest
<1>5. Taken + 1 \in DOMAIN history /\ history[Taken + 1] = o
  <2>1. Taken + 1 \in DOMAIN history
    BY <1>3, QueueTypes DEF Taken, QueueIsRest
  <2>2. 1 \in DOMAIN queue
    BY <1>3, QueueTypes
  <2> QED
    BY <1>3, <2>1, <2>2 DEF QueueIsRest
<1>6. ASSUME NEW i \in DOMAIN queue'
      PROVE  queue'[i] = history[Taken' + i]
  <2>1. i + 1 \in DOMAIN queue /\ queue'[i] = queue[i + 1]
    BY <1>3, QueueTypes
  <2>2. queue[i + 1] = history[Taken + (i + 1)]
    BY <2>1 DEF QueueIsRest
  <2>3. Taken + (i + 1) = Taken' + i
    BY <1>3, <1>4
  <2> QED
    BY <2>1, <2>2, <2>3
<1>7. Len(queue') <= Len(history')
  BY <1>3, QueueTypes DEF QueueIsRest
<1> QED
  BY <1>2, <1>4, <1>5, <1>6, <1>7 DEF QueueIsRest

LEMMA PositionsConsume ==
    ASSUME Prefetch = 1, IInv, Positions, Consume
    PROVE  Positions'
<1> USE DEF IInv, Positions
<1>1. PICK o \in Outcomes :
         /\ Delivers(o) /\ history' = history
         /\ \/ Remembered(processed, o.id) /\ UNCHANGED <<processed, inflight>>
            \/ processed' = Remember(processed, o.id, MaxTracked)
               /\ \/ inflight' = inflight
                  \/ inflight' = Append(inflight, [msg |-> o, pc |-> "applying"])
  BY DEF Consume, SkipDuplicate, IgnoreOutcome, StartHandler, Accept
<1>2. /\ inflight = << >> /\ Taken' = Taken + 1 /\ Taken \in Nat
      /\ Taken + 1 \in DOMAIN history /\ history[Taken + 1] = o
      /\ QueueIsRest'
  BY <1>1, DeliversNext
<1>3. HandlesLastTaken'
  <2>1. CASE inflight' = inflight
    BY <1>2, <2>1 DEF HandlesLastTaken
  <2>2. CASE inflight' = Append(inflight, [msg |-> o, pc |-> "applying"])
    <3>1. DOMAIN inflight' = {1} /\ inflight'[1] = [msg |-> o, pc |-> "applying"]
      BY <1>2, <2>2
    <3> QED
      BY <1>1, <1>2, <3>1 DEF HandlesLastTaken
  <2> QED
    BY <1>1, <2>1, <2>2
<1>4. RememberedWasTaken'
  <2> SUFFICES ASSUME NEW id, Remembered(processed', id)
               PROVE  \E k \in 1..Taken' : history'[k].id = id
    BY DEF RememberedWasTaken
  <2>1. Remembered(processed, id) \/ id = o.id
    <3>1. processed \in Seq(Ids) /\ o.id \in Ids
      BY DEF TypeOK, Window, Ids
    <3> QED
      BY <1>1, <3>1, RememberAdds, TransactionAssumption
  <2>2. CASE id = o.id
    BY <1>1, <1>2, <2>2
  <2>3. CASE Remembered(processed, id)
    BY <1>1, <1>2, <2>3 DEF RememberedWasTaken
  <2> QED
    BY <2>1, <2>2, <2>3
<1> QED
  BY <1>2, <1>3, <1>4

\* The steps that neither take a message nor publish one.
LEMMA PositionsKept ==
    ASSUME Positions, UNCHANGED <<queue, history, processed>>,
           \A i \in DOMAIN inflight' :
              \E j \in DOMAIN inflight : inflight'[i].msg = inflight[j].msg
    PROVE  Positions' /\ Taken' = Taken
<1>1. Taken' = Taken
  BY DEF Taken
<1>2. QueueIsRest' /\ RememberedWasTaken'
  BY <1>1 DEF Positions, QueueIsRest, RememberedWasTaken, Remembered
<1>3. HandlesLastTaken'
  BY <1>1 DEF Positions, HandlesLastTaken
<1> QED
  BY <1>1, <1>2, <1>3 DEF Positions

\* A handler that leaves, or goes on, keeps its message if it stays.
LEMMA MessagesKept ==
    ASSUME TypeOK, NEW i \in DOMAIN inflight, Goto(i, "acking") \/ Leave(i)
    PROVE  \A j \in DOMAIN inflight' :
              \E k \in DOMAIN inflight : inflight'[j].msg = inflight[k].msg
<1>0. inflight \in Seq(Deliveries) /\ \A j \in DOMAIN inflight : inflight[j] \in Deliveries
  BY InflightShape
<1>1. CASE Goto(i, "acking")
  <2>1. inflight' = [inflight EXCEPT ![i] = [inflight[i] EXCEPT !.pc = "acking"]]
    BY <1>1 DEF Goto
  <2>2. [inflight[i] EXCEPT !.pc = "acking"].msg = inflight[i].msg
    BY <1>0 DEF Deliveries
  <2> QED
    BY <1>0, <2>1, <2>2
<1>2. CASE Leave(i)
  <2>1. \A j \in DOMAIN RemoveAt(inflight, i) :
           Before(i, j) \in DOMAIN inflight \ {i} /\ RemoveAt(inflight, i)[j] = inflight[Before(i, j)]
    BY <1>0, RemoveAtIndex
  <2> QED
    BY <1>2, <2>1 DEF Leave
<1> QED
  BY <1>1, <1>2

\* A restart puts the one delivery in flight back at the head of the queue.
LEMMA RestartTaken ==
    ASSUME Prefetch = 1, IInv, Positions, Restart
    PROVE  /\ Positions'
           /\ inflight = << >> => Taken' = Taken
           /\ inflight # << >> => /\ Taken' = Taken - 1 /\ Taken \in 1..Len(history)
<1> USE DEF IInv, Positions
<1>1. /\ queue' = Requeue(inflight, queue) /\ history' = history /\ processed' = << >>
      /\ inflight' = << >>
  BY DEF Restart
<1>2. /\ inflight \in Seq(Deliveries) /\ \A h \in Deliveries : h.msg \in Outcomes
      /\ queue \in Seq(Outcomes)
  BY OneHandler, QueueTypes DEF Deliveries
<1>3. /\ Len(queue') = Len(inflight) + Len(queue) /\ queue' \in Seq(Outcomes)
      /\ \A i \in DOMAIN inflight : queue'[i] = inflight[i].msg
      /\ \A i \in DOMAIN queue : queue'[Len(inflight) + i] = queue[i]
  BY <1>1, <1>2, RequeueOrder, RequeueShape
<1>4. HandlesLastTaken' /\ RememberedWasTaken'
  BY <1>1 DEF HandlesLastTaken, RememberedWasTaken, Remembered
<1>5. CASE inflight = << >>
  <2>1. Len(queue') = Len(queue) /\ \A i \in DOMAIN queue : queue'[i] = queue[i]
    BY <1>3, <1>5, QueueTypes
  <2>2. Taken' = Taken /\ DOMAIN queue' = DOMAIN queue
    <3>1. Taken' = Taken
      BY <1>1, <2>1 DEF Taken
    <3>2. DOMAIN queue' = 1..Len(queue')
      BY <1>3
    <3> QED
      BY <2>1, <3>1, <3>2, QueueTypes
  <2>3. QueueIsRest'
    BY <1>1, <2>1, <2>2 DEF QueueIsRest
  <2> QED
    BY <1>4, <1>5, <2>2, <2>3
<1>6. CASE inflight # << >>
  <2>1. Len(inflight) = 1 /\ DOMAIN inflight = {1}
    BY <1>6, OneHandler
  <2>2. Taken \in 1..Len(history) /\ inflight[1].msg = history[Taken]
    BY <2>1, QueueTypes DEF HandlesLastTaken
  <2>3. Taken' = Taken - 1 /\ DOMAIN queue' = 1..(Len(queue) + 1)
        /\ Len(queue') <= Len(history')
    BY <1>1, <1>3, <2>1, <2>2, QueueTypes DEF Taken
  <2>4. ASSUME NEW i \in DOMAIN queue'
        PROVE  queue'[i] = history[Taken' + i]
    <3>1. CASE i = 1
      BY <1>3, <2>1, <2>2, <2>3, <3>1
    <3>2. CASE i # 1
      <4>1. i - 1 \in DOMAIN queue /\ Len(inflight) + (i - 1) = i
        BY <2>1, <2>3, <3>2, QueueTypes
      <4>2. queue'[i] = queue[i - 1]
        BY <1>3, <4>1
      <4>3. queue[i - 1] = history[Taken + (i - 1)]
        BY <4>1 DEF QueueIsRest
      <4>4. Taken + (i - 1) = Taken' + i
        BY <2>2, <2>3, <4>1, QueueTypes
      <4> QED
        BY <4>2, <4>3, <4>4
    <3> QED
      BY <3>1, <3>2
  <2>5. QueueIsRest'
    BY <1>1, <2>3, <2>4 DEF QueueIsRest
  <2> QED
    BY <1>4, <1>6, <2>2, <2>3, <2>5
<1> QED
  BY <1>5, <1>6

LEMMA ArriveTaken ==
    ASSUME IInv, Positions, NEW o \in Outcomes, Arrive(o)
    PROVE  Positions' /\ Taken' = Taken
<1> USE DEF IInv, Positions
<1>1. /\ history' = Append(history, o) /\ queue' = Append(queue, o)
      /\ UNCHANGED <<inflight, processed>>
  BY DEF Arrive
<1>2. /\ Len(history') = Len(history) + 1 /\ Len(queue') = Len(queue) + 1
      /\ DOMAIN queue' = DOMAIN queue \cup {Len(queue) + 1}
      /\ history'[Len(history) + 1] = o /\ queue'[Len(queue) + 1] = o
      /\ \A k \in 1..Len(history) : history'[k] = history[k]
      /\ \A k \in 1..Len(queue) : queue'[k] = queue[k]
  BY <1>1, QueueTypes
<1>3. Taken' = Taken /\ Taken \in 0..Len(history)
  BY <1>2, QueueTypes DEF Taken, QueueIsRest
<1>4. ASSUME NEW i \in DOMAIN queue'
      PROVE  queue'[i] = history'[Taken' + i]
  <2>1. CASE i = Len(queue) + 1
    <3>1. Taken' + i = Len(history) + 1
      BY <1>3, <2>1, QueueTypes DEF Taken
    <3> QED
      BY <1>2, <2>1, <3>1
  <2>2. CASE i \in DOMAIN queue
    <3>1. queue'[i] = history[Taken + i]
      BY <1>2, <2>2, QueueTypes DEF QueueIsRest
    <3>2. Taken + i \in 1..Len(history)
      BY <1>3, <2>2, QueueTypes DEF Taken
    <3> QED
      BY <1>2, <1>3, <3>1, <3>2
  <2> QED
    BY <1>2, <2>1, <2>2
<1>5. QueueIsRest'
  BY <1>2, <1>4, QueueTypes DEF QueueIsRest
<1>6. HandlesLastTaken'
  BY <1>1, <1>2, <1>3, QueueTypes DEF HandlesLastTaken
<1>7. RememberedWasTaken'
  <2> SUFFICES ASSUME NEW id, Remembered(processed, id)
               PROVE  \E k \in 1..Taken : history'[k].id = id
    BY <1>1, <1>3 DEF RememberedWasTaken
  <2>1. PICK k \in 1..Taken : history[k].id = id
    BY DEF RememberedWasTaken
  <2> QED
    BY <1>2, <1>3, <2>1
<1> QED
  BY <1>3, <1>5, <1>6, <1>7

-----------------------------------------------------------------------------
(***************************************************************************)
(* What the rows show.                                                     *)
(***************************************************************************)
LEMMA ShowsKept ==
    ASSUME UNCHANGED <<row, history>>
    PROVE  \A k : ShowFirst(k)' <=> ShowFirst(k)
  BY DEF ShowFirst, Latest

\* A message that changes no row.
LEMMA ShowsNext ==
    ASSUME TypeOK, NEW k \in Nat, k + 1 \in DOMAIN history, ShowFirst(k),
           history[k + 1].tx \notin Tx \/ ~Applicable(history[k + 1])
    PROVE  ShowFirst(k + 1)
<1> SUFFICES ASSUME NEW t \in Tx, NEW j \in 1..Len(history), Latest(t, k + 1, j)
             PROVE  Shows(history[j], row[t])
  BY DEF ShowFirst
<1>1. j # k + 1 /\ j \in 1..(k + 1)
  BY DEF Latest
<1>2. Latest(t, k, j)
  BY <1>1 DEF Latest
<1> QED
  BY <1>2 DEF ShowFirst

\* The outcome at position k is applied, for the first time or once more.
LEMMA ShowsApplied ==
    ASSUME TypeOK, NEW k \in DOMAIN history, ShowFirst(k) \/ ShowFirst(k - 1),
           Applicable(history[k]), Update(history[k]), history' = history
    PROVE  ShowFirst(k)'
<1> DEFINE o == history[k]
<1>0. k \in Nat /\ k \in 1..Len(history) /\ o \in Outcomes /\ o.tx \in Tx
      /\ row' = [row EXCEPT ![o.tx] = Updated(o, row[o.tx])]
  BY QueueTypes DEF Update
<1> SUFFICES ASSUME NEW t \in Tx, NEW j \in 1..Len(history), Latest(t, k, j)
             PROVE  Shows(history[j], row'[t])
  BY DEF ShowFirst, Latest
<1>1. CASE t = o.tx
  <2>1. j = k
    BY <1>0, <1>1 DEF Latest
  <2>2. row'[t] = Updated(o, row[t]) /\ row[t] \in Rows
    BY <1>0, <1>1, QueueTypes
  <2> QED
    BY <1>0, <2>1, <2>2, UpdatedShows
<1>2. CASE t # o.tx
  <2>1. row'[t] = row[t]
    BY <1>0, <1>2, QueueTypes
  <2>2. Latest(t, k - 1, j)
    BY <1>0, <1>2 DEF Latest
  <2> QED
    BY <2>1, <2>2 DEF ShowFirst
<1> QED
  BY <1>1, <1>2

\* A message that is published later.
LEMMA ShowsArrive ==
    ASSUME TypeOK, NEW o \in Outcomes, Arrive(o), NEW k \in 0..Len(history), ShowFirst(k)
    PROVE  ShowFirst(k)'
<1>1. /\ row' = row /\ history' = Append(history, o)
      /\ \A j \in 1..Len(history) : history'[j] = history[j]
  BY QueueTypes DEF Arrive
<1> SUFFICES ASSUME NEW t \in Tx, NEW j \in 1..Len(history'), Latest(t, k, j)'
             PROVE  Shows(history'[j], row[t])
  BY <1>1 DEF ShowFirst
<1>2. j \in 1..Len(history)
  BY QueueTypes DEF Latest
<1>3. Latest(t, k, j)
  BY <1>1, <1>2, QueueTypes DEF Latest
<1> QED
  BY <1>1, <1>2, <1>3 DEF ShowFirst

LEMMA RowsConsume ==
    ASSUME Prefetch = 1, IdsDistinct, IInv, Positions, RowsInv, Consume
    PROVE  RowsInv'
<1> USE DEF IInv, Positions
<1>0. UNCHANGED <<row, history, errors>>
  BY DEF Consume, SkipDuplicate, IgnoreOutcome, StartHandler
<1> SUFFICES ASSUME errors = 0, IsInjective(history)
             PROVE  \E k \in MayShow' : ShowFirst(k)'
  BY <1>0 DEF RowsInv
<1>1. PICK o \in Outcomes :
         /\ Delivers(o)
         /\ \/ Remembered(processed, o.id)
            \/ ~Applicable(o) /\ inflight' = inflight
            \/ inflight' = Append(inflight, [msg |-> o, pc |-> "applying"])
  BY DEF Consume, SkipDuplicate, IgnoreOutcome, StartHandler, Accept
<1>2. /\ inflight = << >> /\ Taken' = Taken + 1 /\ Taken \in Nat
      /\ Taken + 1 \in DOMAIN history /\ history[Taken + 1] = o
  BY <1>0, <1>1, DeliversNext
<1>3. PICK k \in {Taken, Taken + 1} : ShowFirst(k)
  BY <1>2 DEF RowsInv, MayShow
<1>4. ~Remembered(processed, o.id)
  <2> SUFFICES ASSUME Remembered(processed, o.id)
               PROVE  FALSE
    OBVIOUS
  <2>1. PICK l \in 1..Taken : history[l].id = o.id
    BY DEF RememberedWasTaken
  <2>2. l \in DOMAIN history /\ l # Taken + 1
    BY <1>2, <2>1, QueueTypes
  <2>3. history[l] = o
    BY <2>1, <2>2, QueueTypes DEF IdsDistinct
  <2> QED
    BY <1>2, <2>2, <2>3 DEF IsInjective
<1>5. CASE ~Applicable(o) /\ inflight' = inflight
  <2>1. PICK n : n = Taken + 1
    OBVIOUS
  <2>2. ShowFirst(n)
    BY <1>2, <1>3, <1>5, <2>1, ShowsNext
  <2>3. ShowFirst(n)'
    BY <1>0, <2>2, ShowsKept
  <2>4. n \in MayShow'
    BY <1>0, <1>2, <1>5, <2>1, QueueTypes DEF MayShow
  <2> QED
    BY <2>3, <2>4
<1>6. CASE inflight' = Append(inflight, [msg |-> o, pc |-> "applying"])
  <2>1. inflight' # << >> /\ inflight'[1].pc = "applying"
    BY <1>2, <1>6
  <2>2. k \in MayShow'
    BY <1>2, <1>3, <2>1 DEF MayShow
  <2> QED
    BY <1>0, <1>3, <2>2, ShowsKept
<1> QED
  BY <1>1, <1>4, <1>5, <1>6

LEMMA RowsHandlers ==
    ASSUME Prefetch = 1, IInv, Positions, RowsInv, NEW i \in DOMAIN inflight, HandlerStep(i)
    PROVE  RowsInv'
<1> USE DEF IInv, Positions
<1>0. /\ i = 1 /\ inflight # << >> /\ inflight \in Seq(Deliveries) /\ Len(inflight) = 1
      /\ inflight[i] \in Deliveries
      /\ Taken \in DOMAIN history /\ inflight[i].msg = history[Taken] /\ Taken \in Nat
  BY OneHandler, InflightShape, QueueTypes DEF HandlesLastTaken
<1>1. history' = history /\ Taken' = Taken /\ (errors' = 0 => errors = 0)
  BY DEF HandlerStep, ApplyOutcome, RecordNotFound, Ack, HandlerFails, Taken, TypeOK
<1> SUFFICES ASSUME errors' = 0, errors = 0, IsInjective(history)
             PROVE  \E k \in MayShow' : ShowFirst(k)'
  BY <1>1 DEF RowsInv
<1>2. PICK k \in MayShow : ShowFirst(k)
  BY DEF RowsInv
<1>3. PICK n : n = Taken
  OBVIOUS
<1>4. ASSUME Goto(i, "acking")
      PROVE  n \in MayShow'
  <2>1. inflight' # << >> /\ inflight'[1].pc = "acking"
    BY <1>0, <1>4 DEF Goto, Deliveries
  <2> QED
    BY <1>1, <1>3, <2>1 DEF MayShow
<1>5. CASE ApplyOutcome(i)
  <2>1. ShowFirst(n) \/ ShowFirst(n - 1)
    BY <1>0, <1>2, <1>3 DEF MayShow
  <2>2. Applicable(history[n]) /\ Update(history[n])
    BY <1>0, <1>3, <1>5 DEF HandlersApply, ApplyOutcome
  <2>3. ShowFirst(n)'
    BY <1>0, <1>1, <1>3, <2>1, <2>2, ShowsApplied
  <2> QED
    BY <1>4, <1>5, <2>3 DEF ApplyOutcome
<1>6. CASE RecordNotFound(i)
  <2>1. history[n].tx \notin Tx /\ row' = row
    BY <1>0, <1>3, <1>6 DEF RecordNotFound
  <2>2. CASE ShowFirst(n)
    BY <1>1, <1>4, <1>6, <2>1, <2>2, ShowsKept DEF RecordNotFound
  <2>3. CASE ShowFirst(n - 1)
    <3>1. n - 1 \in Nat /\ (n - 1) + 1 = n
      BY <1>0, <1>3, QueueTypes
    <3>2. ShowFirst((n - 1) + 1)
      BY <1>0, <1>3, <2>1, <2>3, <3>1, ShowsNext
    <3> QED
      BY <2>2, <3>1, <3>2
  <2> QED
    BY <1>0, <1>2, <1>3, <2>2, <2>3 DEF MayShow
<1>7. CASE Ack(i)
  <2>1. ShowFirst(n)
    BY <1>0, <1>2, <1>3, <1>7 DEF MayShow, Ack
  <2>2. inflight' = << >>
    <3>1. inflight' \in Seq(Deliveries) /\ Len(inflight') = 0
      BY <1>0, <1>7, RemoveAtShape DEF Ack, Leave
    <3> QED
      BY <3>1
  <2>3. n \in MayShow'
    BY <1>0, <1>1, <1>3, <2>2, QueueTypes DEF MayShow
  <2> QED
    BY <1>1, <1>7, <2>1, <2>3, ShowsKept DEF Ack
<1>8. CASE HandlerFails(i)
  BY <1>8 DEF HandlerFails, TypeOK
<1> QED
  BY <1>5, <1>6, <1>7, <1>8 DEF HandlerStep

LEMMA RowsRestart ==
    ASSUME Prefetch = 1, IInv, Positions, RowsInv, Restart
    PROVE  RowsInv'
<1> USE DEF IInv, Positions
<1>1. UNCHANGED <<row, history, errors>> /\ inflight' = << >>
  BY DEF Restart
<1> SUFFICES ASSUME errors = 0, IsInjective(history)
             PROVE  \E k \in MayShow' : ShowFirst(k)'
  BY <1>1 DEF RowsInv
<1>2. PICK k \in MayShow : ShowFirst(k)
  BY DEF RowsInv
<1>3. k \in MayShow'
  <2>1. CASE inflight = << >>
    BY <1>1, <1>2, <2>1, RestartTaken DEF MayShow
  <2>2. CASE inflight # << >>
    <3>1. Taken' = Taken - 1 /\ Taken \in 1..Len(history)
      BY <2>2, RestartTaken
    <3> QED
      BY <1>1, <1>2, <2>2, <3>1, QueueTypes DEF MayShow
  <2> QED
    BY <2>1, <2>2
<1> QED
  BY <1>1, <1>2, <1>3, ShowsKept

LEMMA RowsArrive ==
    ASSUME IInv, Positions, RowsInv, NEW o \in Outcomes, Arrive(o)
    PROVE  RowsInv'
<1> USE DEF IInv, Positions
<1>1. /\ UNCHANGED <<row, errors, inflight>> /\ Taken' = Taken
      /\ Len(history') = Len(history) + 1
      /\ DOMAIN history \subseteq DOMAIN history'
      /\ \A k \in DOMAIN history : history'[k] = history[k]
  BY ArriveTaken, QueueTypes DEF Arrive
<1> SUFFICES ASSUME errors = 0, IsInjective(history')
             PROVE  \E k \in MayShow' : ShowFirst(k)'
  BY <1>1 DEF RowsInv
<1>2. IsInjective(history)
  BY <1>1 DEF IsInjective
<1>3. PICK k \in MayShow : ShowFirst(k)
  BY <1>2 DEF RowsInv
<1>4. k \in 0..Len(history)
  <2>1. CASE inflight = << >>
    BY <1>3, <2>1 DEF MayShow
  <2>2. CASE inflight # << >>
    <3>1. 1 \in DOMAIN inflight
      BY <2>2 DEF TypeOK
    <3>2. Taken \in 1..Len(history)
      BY <3>1, QueueTypes DEF HandlesLastTaken
    <3> QED
      BY <1>3, <2>2, <3>2, QueueTypes DEF MayShow
  <2> QED
    BY <2>1, <2>2
<1>5. k \in MayShow'
  BY <1>1, <1>3, <1>4, QueueTypes DEF MayShow
<1> QED
  BY <1>3, <1>4, <1>5, ShowsArrive

LEMMA PositionsInit == Init => Positions
<1> SUFFICES ASSUME Init
             PROVE  Positions
  OBVIOUS
<1>1. Taken = 0 /\ Len(history) = 0 /\ Len(queue) = 0
  BY DEF Init, Taken
<1> QED
  BY <1>1 DEF Init, Positions, QueueIsRest, HandlesLastTaken, RememberedWasTaken, Remembered

LEMMA PositionsStep ==
    ASSUME Prefetch = 1, IInv, Positions, [Next]_vars
    PROVE  Positions'
<1>1. ASSUME NEW o \in Outcomes, Arrive(o)
      PROVE  Positions'
  BY <1>1, ArriveTaken
<1>2. ASSUME NEW i \in DOMAIN inflight, HandlerStep(i)
      PROVE  Positions'
  <2>1. UNCHANGED <<queue, history, processed>> /\ (Goto(i, "acking") \/ Leave(i))
    BY <1>2 DEF HandlerStep, ApplyOutcome, RecordNotFound, Ack, HandlerFails
  <2> QED
    BY <2>1, MessagesKept, PositionsKept DEF IInv
<1>3. CASE UNCHANGED vars
  <2>1. UNCHANGED <<queue, history, processed, inflight>>
    BY <1>3 DEF vars
  <2> QED
    BY <2>1, PositionsKept
<1> QED
  BY <1>1, <1>2, <1>3, PositionsConsume, RestartTaken DEF Next

LEMMA RowsStep ==
    ASSUME Prefetch = 1, IdsDistinct, IInv, Positions, RowsInv, [Next]_vars
    PROVE  RowsInv'
<1>1. CASE UNCHANGED vars
  <2>1. UNCHANGED <<queue, history, processed, inflight, row, errors>>
    BY <1>1 DEF vars
  <2>2. MayShow' = MayShow
    BY <2>1 DEF MayShow, Taken
  <2> QED
    BY <2>1, <2>2, ShowsKept DEF RowsInv
<1> QED
  BY <1>1, RowsArrive, RowsConsume, RowsHandlers, RowsRestart DEF Next

\* LastOutcomeWins of the same run, for every instance with a prefetch limit of one
\* in which an id names one message: whatever is redelivered after whatever
\* restarts, a row at rest shows the last outcome published for it.
THEOREM LastOutcomeAlwaysWins ==
    ASSUME MaxErrors \in Nat, MaxRestarts \in Nat, Prefetch = 1, IdsDistinct
    PROVE  Spec => []LastOutcomeWins
<1>1. Init => IInv /\ Positions /\ RowsInv
  <2> SUFFICES ASSUME Init
               PROVE  RowsInv
    BY IInvInit, PositionsInit
  <2>1. Taken = 0 /\ Len(history) = 0
    BY DEF Init, Taken
  <2>2. ShowFirst(0) /\ 0 \in MayShow
    BY <2>1 DEF Init, ShowFirst, MayShow
  <2> QED
    BY <2>2 DEF RowsInv
<1>2. (IInv /\ Positions /\ RowsInv) /\ [Next]_vars => (IInv /\ Positions /\ RowsInv)'
  BY IInvStep, PositionsStep, RowsStep
<1>3. IInv /\ RowsInv => LastOutcomeWins
  <2> SUFFICES ASSUME IInv, RowsInv, AtRest, errors = 0, IsInjective(history),
                      NEW t \in Tx, Published(t) # {}
               PROVE  Shows(history[Max(Published(t))], row[t])
    BY DEF LastOutcomeWins, Shows
  <2>1. Taken = Len(history) /\ inflight = << >>
    BY QueueTypes DEF AtRest, Taken, IInv
  <2>2. ShowFirst(Len(history))
    BY <2>1, QueueTypes DEF RowsInv, MayShow, IInv
  <2>3. /\ Published(t) \in SUBSET (1..Len(history)) /\ Len(history) \in Nat
        /\ DOMAIN history = 1..Len(history)
    BY QueueTypes DEF Published, IInv
  <2> DEFINE last == Max(Published(t))
  <2>4. last \in Published(t) /\ \A k \in Published(t) : k <= last
    BY <2>3, LastPosition
  <2> HIDE DEF last
  <2>5. Latest(t, Len(history), last)
    BY <2>3, <2>4 DEF Latest, Published
  <2> QED
    BY <2>2, <2>3, <2>4, <2>5 DEF ShowFirst, last
<1> QED
  BY <1>1, <1>2, <1>3, PTL DEF Spec

-----------------------------------------------------------------------------
(***************************************************************************)
(* VersionCountsOutcomes, with a prefetch limit of one.  n counts how      *)
(* often each outcome was applied; a version counts no more than what was  *)
(* applied to its row, and the lapses of an outcome account for its count  *)
(* and for the handler that may apply it once more.                        *)
(***************************************************************************)
\* The messages other than o that were taken from the queue.
Passed(o) == OthersPublished(o) - Cardinality(Others(queue, o))

\* A handler has yet to apply o.
Unapplied(o) == \E i \in DOMAIN inflight : inflight[i].msg = o /\ inflight[i].pc = "applying"

Handlings(n, o) == n[o] + IF Unapplied(o) THEN 1 ELSE 0

\* c lapses account for the handlings of o.
OutcomeLapsed(n, o, c) ==
    Lapsed(processed, o.id, MaxTracked, Passed(o), Handlings(n, o), restarts, c)

\* The outcomes published for a row.
About(t) == {history[k] : k \in Published(t)}

Counted(n) == \A t \in Tx : row[t].version - 1 <= Total(n, About(t))

Accounted(n) == \A o \in Outcomes : \E c \in Int : OutcomeLapsed(n, o, c)

\* The message in hand is the one remembered last.
HandledIsLast ==
    \A i \in DOMAIN inflight :
        processed # << >> /\ processed[Len(processed)] = inflight[i].msg.id

VersionInv ==
    /\ HandledIsLast
    /\ \E n \in [Outcomes -> Nat] : Counted(n) /\ Accounted(n)

LEMMA CountsType ==
    ASSUME TypeOK, MaxRestarts \in Nat, NEW o \in Outcomes
    PROVE  /\ OthersPublished(o) = Cardinality(Others(history, o)) /\ OthersPublished(o) \in Nat
           /\ Cardinality(Others(queue, o)) \in Nat /\ Passed(o) \in Int
           /\ restarts \in Nat /\ MaxTracked \in Nat \ {0}
           /\ processed \in Window(Ids, MaxTracked) /\ o.id \in Ids
<1>1. Cardinality(Others(history, o)) \in Nat /\ Cardinality(Others(queue, o)) \in Nat
  BY OthersFinite DEF TypeOK
<1>2. OthersPublished(o) = Cardinality(Others(history, o))
  BY DEF OthersPublished, Others
<1>3. restarts \in Nat /\ processed \in Window(Ids, MaxTracked) /\ o.id \in Ids
  BY DEF TypeOK, Ids
<1>4. Passed(o) \in Int
  BY <1>1, <1>2 DEF Passed
<1> QED
  BY <1>1, <1>2, <1>3, <1>4, TransactionAssumption

LEMMA HandlingsType ==
    ASSUME NEW n \in [Outcomes -> Nat], NEW o \in Outcomes
    PROVE  /\ Handlings(n, o) \in Nat /\ n[o] <= Handlings(n, o)
           /\ Unapplied(o) => Handlings(n, o) = n[o] + 1
           /\ ~Unapplied(o) => Handlings(n, o) = n[o]
<1>1. n[o] \in Nat
  OBVIOUS
<1>2. CASE Unapplied(o)
  BY <1>1, <1>2 DEF Handlings
<1>3. CASE ~Unapplied(o)
  BY <1>1, <1>3 DEF Handlings
<1> QED
  BY <1>2, <1>3

\* A message taken from the queue has passed, unless it is o.
LEMMA DeliveryPasses ==
    ASSUME TypeOK, MaxRestarts \in Nat, NEW o \in Outcomes, NEW m \in Outcomes, Delivers(m),
           history' = history
    PROVE  Passed(o)' \in Int /\ Passed(o)' = Passed(o) + IF m = o THEN 0 ELSE 1
<1>1. queue \in Seq(Outcomes) /\ queue # << >> /\ m = Head(queue) /\ queue' = Tail(queue)
  BY DEF Delivers, TypeOK
<1>2. Cardinality(Others(queue, o)) = Cardinality(Others(queue', o)) + IF m = o THEN 0 ELSE 1
  BY <1>1, OthersTail
<1>3. Cardinality(Others(queue', o)) \in Nat
  <2>1. queue' \in Seq(Outcomes)
    BY <1>1
  <2> QED
    BY <2>1, OthersFinite
<1>4. OthersPublished(o)' = OthersPublished(o)
  BY DEF OthersPublished
<1>5. /\ Passed(o) = OthersPublished(o) - Cardinality(Others(queue, o))
      /\ Passed(o)' = OthersPublished(o) - Cardinality(Others(queue', o))
  BY <1>4 DEF Passed
<1>6. OthersPublished(o) \in Nat /\ Cardinality(Others(queue, o)) \in Nat
  BY CountsType
<1> QED
  BY <1>2, <1>3, <1>5, <1>6

\* A message that is published has not passed.
LEMMA ArrivalStays ==
    ASSUME TypeOK, MaxRestarts \in Nat, NEW o \in Outcomes, NEW m \in Outcomes, Arrive(m)
    PROVE  Passed(o)' = Passed(o)
<1>1. /\ queue \in Seq(Outcomes) /\ queue' = Append(queue, m)
      /\ history \in Seq(Outcomes) /\ history' = Append(history, m)
  BY DEF Arrive, TypeOK
<1>2. /\ Cardinality(Others(queue', o))
              = Cardinality(Others(queue, o)) + IF m = o THEN 0 ELSE 1
      /\ Cardinality(Others(history', o))
              = Cardinality(Others(history, o)) + IF m = o THEN 0 ELSE 1
  BY <1>1, OthersAppend
<1>3. OthersPublished(o)' = Cardinality(Others(history', o))
  BY DEF OthersPublished, Others
<1>4. /\ Passed(o) = Cardinality(Others(history, o)) - Cardinality(Others(queue, o))
      /\ Passed(o)' = Cardinality(Others(history', o)) - Cardinality(Others(queue', o))
  BY <1>3, CountsType DEF Passed
<1>5. Cardinality(Others(history, o)) \in Nat /\ Cardinality(Others(queue, o)) \in Nat
  BY CountsType
<1> QED
  BY <1>2, <1>4, <1>5

LEMMA LapsesStay ==
    ASSUME TypeOK, MaxRestarts \in Nat, NEW n \in [Outcomes -> Nat], NEW k \in [Outcomes -> Nat],
           NEW o \in Outcomes, NEW c \in Int, OutcomeLapsed(n, o, c),
           UNCHANGED <<processed, restarts>>,
           Passed(o)' \in Int, Passed(o)' >= Passed(o), Handlings(k, o)' <= Handlings(n, o)
    PROVE  OutcomeLapsed(k, o, c)'
<1>1. /\ processed \in Window(Ids, MaxTracked) /\ MaxTracked \in Nat \ {0}
      /\ Passed(o) \in Int /\ restarts \in Nat
  BY CountsType
<1>2. Handlings(n, o) \in Nat /\ Handlings(k, o)' \in Nat
  <2>1. Handlings(n, o) \in Nat
    BY HandlingsType
  <2>2. k[o] \in Nat
    OBVIOUS
  <2>3. Handlings(k, o)' \in Nat
    BY <2>2 DEF Handlings
  <2> QED
    BY <2>1, <2>3
<1>3. Lapsed(processed, o.id, MaxTracked, Passed(o), Handlings(n, o), restarts, c)
  BY DEF OutcomeLapsed
<1>4. Lapsed(processed, o.id, MaxTracked, Passed(o)', Handlings(k, o)', restarts, c)
  BY <1>1, <1>2, <1>3, LapsedStays
<1> QED
  BY <1>4 DEF OutcomeLapsed

\* A new message is remembered: it is o, or it moves o towards its next lapse.
LEMMA LapsesAccept ==
    ASSUME TypeOK, MaxRestarts \in Nat, IdsDistinct, NEW n \in [Outcomes -> Nat],
           NEW o \in Outcomes, NEW c \in Int, OutcomeLapsed(n, o, c),
           NEW m \in Outcomes, Accept(m), UNCHANGED <<history, restarts>>,
           Handlings(n, o)' \in Nat, Handlings(n, o)' <= Handlings(n, o) + IF m = o THEN 1 ELSE 0
    PROVE  \E d \in Int : OutcomeLapsed(n, o, d)'
<1> DEFINE v == processed'
           p == Passed(o)'
           h == Handlings(n, o)'
<1>1. /\ processed \in Window(Ids, MaxTracked) /\ MaxTracked \in Nat \ {0}
      /\ Passed(o) \in Int /\ restarts \in Nat /\ o.id \in Ids
  BY CountsType
<1>2. Lapsed(processed, o.id, MaxTracked, Passed(o), Handlings(n, o), restarts, c)
  BY DEF OutcomeLapsed
<1>3. /\ p = Passed(o) + IF m = o THEN 0 ELSE 1
      /\ ~Remembered(processed, m.id) /\ v = Remember(processed, m.id, MaxTracked)
  BY DeliveryPasses DEF Accept
<1>4. m.id \in Ids /\ h \in Nat /\ Handlings(n, o) \in Nat
  BY HandlingsType DEF Ids
<1>5. ASSUME NEW d \in Int, Lapsed(v, o.id, MaxTracked, p, h, restarts, d)
      PROVE  \E x \in Int : OutcomeLapsed(n, o, x)'
  <2>1. OutcomeLapsed(n, o, d)'
    BY <1>5 DEF OutcomeLapsed
  <2> QED
    BY <2>1
<1>6. CASE m = o
  <2>1. p = Passed(o) /\ h <= Handlings(n, o) + 1
    BY <1>1, <1>3, <1>6
  <2> HIDE DEF v, p, h
  <2>2. Lapsed(v, o.id, MaxTracked, Passed(o), h, restarts, c)
    BY <1>1, <1>2, <1>3, <1>4, <1>6, <2>1, LapsedOwn
  <2> QED
    BY <1>5, <2>1, <2>2
<1>7. CASE m # o
  <2>1. p = Passed(o) + 1 /\ h <= Handlings(n, o) /\ m.id # o.id
    BY <1>1, <1>3, <1>4, <1>7 DEF IdsDistinct
  <2> HIDE DEF v, p, h
  <2>2. \E d \in Int : Lapsed(v, o.id, MaxTracked, Passed(o) + 1, h, restarts, d)
    BY <1>1, <1>2, <1>3, <1>4, <2>1, LapsedOther
  <2> QED
    BY <1>5, <2>1, <2>2
<1> QED
  BY <1>6, <1>7

\* A restart allows another handling, and puts back a delivery of o, or one of
\* another message, which has just been remembered.
LEMMA LapsesRestart ==
    ASSUME Prefetch = 1, TypeOK, MaxRestarts \in Nat, IdsDistinct, HandledIsLast,
           NEW n \in [Outcomes -> Nat], NEW o \in Outcomes, NEW c \in Int,
           OutcomeLapsed(n, o, c), Restart
    PROVE  \E d \in Int : OutcomeLapsed(n, o, d)'
<1> DEFINE passed == Passed(o)
           handlings == Handlings(n, o)
           published == OthersPublished(o)
           waiting == Cardinality(Others(queue, o))
<1>0. /\ passed \in Int /\ published \in Nat /\ waiting \in Nat /\ passed = published - waiting
      /\ handlings \in Nat /\ restarts \in Nat /\ MaxTracked \in Nat \ {0}
      /\ processed \in Window(Ids, MaxTracked)
      /\ Lapsed(processed, o.id, MaxTracked, passed, handlings, restarts, c)
  <2>1. passed = published - waiting
    BY DEF Passed
  <2>2. Lapsed(processed, o.id, MaxTracked, passed, handlings, restarts, c)
    BY DEF OutcomeLapsed
  <2> QED
    BY <2>1, <2>2, CountsType, HandlingsType
<1>1. /\ processed' = << >> /\ inflight' = << >> /\ restarts' = restarts + 1
      /\ history' = history /\ queue' = Requeue(inflight, queue)
  BY DEF Restart
<1>2. Handlings(n, o)' \in Nat /\ Handlings(n, o)' <= handlings
  <2>1. ~Unapplied(o)'
    BY <1>1 DEF Unapplied
  <2>2. Handlings(n, o)' = n[o] + 0
    BY <2>1 DEF Handlings
  <2>3. n[o] \in Nat
    OBVIOUS
  <2> QED
    BY <2>2, <2>3, HandlingsType
<1>3. OthersPublished(o)' = published
  BY <1>1 DEF OthersPublished
<1>4. ASSUME \/ Passed(o)' = passed
             \/ Passed(o)' = passed - 1 /\ processed[Len(processed)] # o.id
      PROVE  \E d \in Int : OutcomeLapsed(n, o, d)'
  <2> DEFINE p == Passed(o)'
             h == Handlings(n, o)'
  <2>1. h \in Nat /\ h <= handlings
    BY <1>2
  <2>2. p \in Int /\ (p = passed \/ p = passed - 1)
    BY <1>0, <1>4
  <2>3. processed[Len(processed)] = o.id => p = passed
    BY <1>4
  <2> HIDE DEF p, h, passed, handlings
  <2>4. \E d \in Int : Lapsed(<< >>, o.id, MaxTracked, p, h, restarts + 1, d)
    <3>1. /\ passed \in Int /\ handlings \in Nat /\ restarts \in Nat /\ MaxTracked \in Nat \ {0}
          /\ processed \in Window(Ids, MaxTracked)
          /\ Lapsed(processed, o.id, MaxTracked, passed, handlings, restarts, c)
      BY <1>0
    <3> QED
      BY <2>1, <2>2, <2>3, <3>1, LapsedForgotten
  <2>5. PICK d \in Int : Lapsed(<< >>, o.id, MaxTracked, p, h, restarts + 1, d)
    BY <2>4
  <2>6. OutcomeLapsed(n, o, d)'
    BY <1>1, <2>5 DEF OutcomeLapsed, p, h
  <2> QED
    BY <2>6
<1>5. /\ queue \in Seq(Outcomes) /\ inflight \in Seq(Deliveries)
      /\ \A h \in Deliveries : h.msg \in Outcomes
  BY OneHandler DEF TypeOK, Deliveries
<1>6. ASSUME Cardinality(Others(queue', o)) = waiting
      PROVE  \E d \in Int : OutcomeLapsed(n, o, d)'
  <2>1. Passed(o)' = passed
    BY <1>3, <1>6 DEF Passed
  <2> QED
    BY <1>4, <2>1
<1>7. CASE inflight = << >>
  <2>1. queue' = queue
    BY <1>1, <1>5, <1>7, RequeueNone
  <2> QED
    BY <1>6, <2>1
<1>8. CASE Len(inflight) = 1 /\ DOMAIN inflight = {1}
  <2>1. /\ queue' \in Seq(Outcomes) /\ queue' # << >>
        /\ Head(queue') = inflight[1].msg /\ Tail(queue') = queue
    <3> DEFINE q == queue'
    <3>1. q = Requeue(inflight, queue)
      BY <1>1
    <3> HIDE DEF q
    <3>2. /\ Requeue(inflight, queue) \in Seq(Outcomes) /\ Requeue(inflight, queue) # << >>
          /\ Head(Requeue(inflight, queue)) = inflight[1].msg
          /\ Tail(Requeue(inflight, queue)) = queue
      BY <1>5, <1>8, RequeueOne
    <3> QED
      BY <3>1, <3>2 DEF q
  <2>2. Cardinality(Others(queue', o))
              = Cardinality(Others(Tail(queue'), o)) + IF Head(queue') = o THEN 0 ELSE 1
    BY <2>1, OthersTail
  <2>3. CASE inflight[1].msg = o
    <3>1. Cardinality(Others(queue', o)) = waiting + 0
      BY <2>1, <2>2, <2>3
    <3> QED
      BY <1>0, <1>6, <3>1
  <2>4. CASE inflight[1].msg # o
    <3>1. Cardinality(Others(queue', o)) = waiting + 1
      BY <2>1, <2>2, <2>4
    <3>2. Passed(o)' = published - Cardinality(Others(queue', o))
      BY <1>3 DEF Passed
    <3>3. Passed(o)' = passed - 1
      <4> HIDE DEF passed, published, waiting
      <4> QED
        BY <1>0, <3>1, <3>2
    <3>4. processed[Len(processed)] # o.id
      <4>1. inflight[1].msg \in Outcomes /\ processed[Len(processed)] = inflight[1].msg.id
        BY <1>8, InflightShape DEF HandledIsLast
      <4> QED
        BY <2>4, <4>1 DEF IdsDistinct
    <3> QED
      BY <1>4, <3>3, <3>4
  <2> QED
    BY <2>3, <2>4
<1> QED
  BY <1>7, <1>8, OneHandler

\* Finitely many outcomes are about a row.
LEMMA AboutType ==
    ASSUME TypeOK, NEW t \in Tx
    PROVE  IsFiniteSet(About(t)) /\ About(t) \in SUBSET Outcomes
<1> DEFINE f == [k \in Published(t) |-> history[k]]
<1>1. Published(t) \subseteq 1..Len(history) /\ Len(history) \in Nat
  BY QueueTypes DEF Published
<1>2. IsFiniteSet(Published(t))
  <2>1. IsFiniteSet(1..Len(history))
    BY <1>1, FS_Interval
  <2> QED
    BY <1>1, <2>1, FS_Subset
<1>3. f \in Surjection(Published(t), About(t))
  BY DEF Surjection, About
<1>4. IsFiniteSet(About(t))
  <2> HIDE DEF f
  <2> QED
    BY <1>2, <1>3, FS_Surjection
<1>5. About(t) \in SUBSET Outcomes
  BY <1>1, QueueTypes DEF About
<1> QED
  BY <1>4, <1>5

LEMMA CountedKept ==
    ASSUME NEW n, Counted(n), UNCHANGED <<row, history>>
    PROVE  Counted(n)'
<1>1. \A t \in Tx : About(t)' = About(t)
  BY DEF About, Published
<1> QED
  BY <1>1 DEF Counted

\* One more outcome is about a row, and none has been applied more often.
LEMMA CountedArrive ==
    ASSUME TypeOK, NEW n \in [Outcomes -> Nat], Counted(n), NEW o \in Outcomes, Arrive(o)
    PROVE  Counted(n)'
<1> SUFFICES ASSUME NEW t \in Tx
             PROVE  row[t].version - 1 <= Total(n, About(t)')
  BY DEF Counted, Arrive
<1>1. /\ history' = Append(history, o)
      /\ DOMAIN history' = DOMAIN history \cup {Len(history) + 1}
      /\ history'[Len(history) + 1] = o
      /\ \A k \in DOMAIN history : history'[k] = history[k]
  BY QueueTypes DEF Arrive
<1>2. About(t)' = About(t) \/ About(t)' = About(t) \cup {o}
  <2>1. CASE o.tx = t /\ Applicable(o)
    <3>1. Published(t)' = Published(t) \cup {Len(history) + 1}
      BY <1>1, <2>1 DEF Published
    <3>2. \A k \in Published(t) : history'[k] = history[k]
      BY <1>1 DEF Published
    <3>3. ASSUME NEW x
          PROVE  x \in About(t)' <=> x \in About(t) \cup {o}
      BY <1>1, <3>1, <3>2 DEF About
    <3> QED
      BY <3>3
  <2>2. CASE ~(o.tx = t /\ Applicable(o))
    <3>1. Published(t)' = Published(t)
      BY <1>1, <2>2, QueueTypes DEF Published
    <3>2. \A k \in Published(t) : history'[k] = history[k]
      BY <1>1 DEF Published
    <3>3. About(t)' = About(t)
      BY <3>1, <3>2 DEF About
    <3> QED
      BY <3>3
  <2> QED
    BY <2>1, <2>2
<1>3. row[t].version - 1 <= Total(n, About(t)) /\ row[t].version \in Nat
  BY DEF Counted, TypeOK, Rows
<1>4. /\ Total(n, About(t)) \in Int /\ Total(n, About(t) \cup {o}) \in Int
      /\ Total(n, About(t)) <= Total(n, About(t) \cup {o})
  <2>1. IsFiniteSet(About(t)) /\ \A x \in About(t) \cup {o} : n[x] \in Nat
    BY AboutType
  <2> QED
    BY <2>1, TotalMore
<1>5. row[t].version - 1 <= Total(n, About(t) \cup {o})
  BY <1>3, <1>4
<1> QED
  BY <1>2, <1>3, <1>5

\* An outcome is applied, and counted.
LEMMA CountedUpdate ==
    ASSUME TypeOK, NEW n \in [Outcomes -> Nat], Counted(n), NEW o \in Outcomes, Update(o),
           Applicable(o), \E k \in DOMAIN history : history[k] = o, history' = history
    PROVE  Counted([n EXCEPT ![o] = n[o] + 1])'
<1> DEFINE more == [n EXCEPT ![o] = n[o] + 1]
<1>0. /\ o.tx \in Tx /\ row \in [Tx -> Rows]
      /\ row' = [row EXCEPT ![o.tx] = Updated(o, row[o.tx])]
  BY DEF Update, TypeOK
<1>1. \A t \in Tx : About(t)' = About(t)
  BY DEF About, Published
<1>2. ASSUME NEW t \in Tx
      PROVE  row'[t].version - 1 <= Total(more, About(t))
  <2>1. row[t].version - 1 <= Total(n, About(t)) /\ row[t].version \in Nat
    BY DEF Counted, TypeOK, Rows
  <2>2. /\ Total(n, About(t)) \in Int
        /\ Total(more, About(t)) = IF o \in About(t) THEN Total(n, About(t)) + 1
                                                     ELSE Total(n, About(t))
    <3>1. IsFiniteSet(About(t)) /\ About(t) \in SUBSET Outcomes
      BY AboutType
    <3>2. \A x \in About(t) : n[x] \in Int /\ more[x] = IF x = o THEN n[x] + 1 ELSE n[x]
      BY <3>1
    <3> HIDE DEF more
    <3> QED
      BY <3>1, <3>2, TotalGrows
  <2> HIDE DEF more
  <2>3. CASE t = o.tx
    <3>1. o \in About(t)
      BY <2>3 DEF About, Published
    <3>2. row'[t].version = row[t].version + 1
      <4>1. Updated(o, row[t]).version = row[t].version + 1
        <5>1. row[t] \in Rows
          BY <1>0
        <5> QED
          BY <5>1, UpdatedShape
      <4> QED
        BY <1>0, <2>3, <4>1
    <3> QED
      BY <2>1, <2>2, <3>1, <3>2
  <2>4. CASE t # o.tx
    <3>1. row'[t] = row[t]
      BY <1>0, <2>4
    <3> QED
      BY <2>1, <2>2, <3>1
  <2> QED
    BY <2>3, <2>4
<1> HIDE DEF more
<1>3. Counted(more)'
  BY <1>1, <1>2 DEF Counted
<1> QED
  BY <1>3 DEF more

\* A handler that goes on has nothing more to apply.
LEMMA HandlerApplied ==
    ASSUME Prefetch = 1, TypeOK, HandledIsLast, NEW i \in DOMAIN inflight, HandlerStep(i)
    PROVE  /\ UNCHANGED <<queue, history, processed, restarts>>
           /\ \A o : ~Unapplied(o)' /\ HandledIsLast'
<1> DEFINE h == inflight[i]
<1>0. i = 1 /\ h \in Deliveries /\ inflight \in Seq(Deliveries) /\ Len(inflight) = 1
  BY OneHandler, InflightShape
<1>1. UNCHANGED <<queue, history, processed, restarts>>
  BY DEF HandlerStep, ApplyOutcome, RecordNotFound, Ack, HandlerFails
<1>2. CASE Leave(i)
  <2>1. inflight' = << >>
    <3>1. inflight' \in Seq(Deliveries) /\ Len(inflight') = 0
      BY <1>0, <1>2, RemoveAtShape DEF Leave
    <3> QED
      BY <3>1
  <2> QED
    BY <1>1, <2>1 DEF Unapplied, HandledIsLast
<1>3. CASE Goto(i, "acking")
  <2>1. inflight' = [inflight EXCEPT ![i] = [h EXCEPT !.pc = "acking"]]
    BY <1>3 DEF Goto
  <2>2. DOMAIN inflight' = {i} /\ inflight'[i] = [h EXCEPT !.pc = "acking"]
    BY <1>0, <2>1
  <2>3. inflight'[i].pc = "acking" /\ inflight'[i].msg = h.msg
    BY <1>0, <2>2 DEF Deliveries
  <2> QED
    BY <1>1, <2>2, <2>3 DEF Unapplied, HandledIsLast
<1> QED
  BY <1>1, <1>2, <1>3 DEF HandlerStep, ApplyOutcome, RecordNotFound, Ack, HandlerFails

LEMMA VersionHandlers ==
    ASSUME Prefetch = 1, IInv, MaxRestarts \in Nat, Positions, VersionInv,
           NEW i \in DOMAIN inflight, HandlerStep(i)
    PROVE  VersionInv'
<1> USE DEF IInv
<1>0. PICK n \in [Outcomes -> Nat] : Counted(n) /\ Accounted(n)
  BY DEF VersionInv
<1>1. /\ UNCHANGED <<queue, history, processed, restarts>>
      /\ \A o : ~Unapplied(o)'
      /\ HandledIsLast'
  BY HandlerApplied DEF VersionInv
<1>2. \A o \in Outcomes : Passed(o) \in Int /\ Passed(o)' = Passed(o)
  <2>1. ASSUME NEW o \in Outcomes
        PROVE  Passed(o) \in Int /\ Passed(o)' = Passed(o)
    BY <1>1, CountsType DEF Passed, OthersPublished
  <2> QED
    BY <2>1
<1>3. ASSUME NEW k \in [Outcomes -> Nat], Counted(k)',
             \A o \in Outcomes : k[o] <= Handlings(n, o)
      PROVE  VersionInv'
  <2>1. ASSUME NEW o \in Outcomes
        PROVE  \E c \in Int : OutcomeLapsed(k, o, c)'
    <3>1. PICK c \in Int : OutcomeLapsed(n, o, c)
      BY <1>0 DEF Accounted
    <3>2. Passed(o)' \in Int /\ Passed(o)' >= Passed(o)
      BY <1>2
    <3>3. Handlings(k, o)' <= Handlings(n, o)
      <4>1. k[o] \in Nat /\ Handlings(k, o)' = k[o] + 0
        BY <1>1 DEF Handlings
      <4> QED
        BY <1>3, <4>1
    <3>4. OutcomeLapsed(k, o, c)'
      BY <1>1, <3>1, <3>2, <3>3, LapsesStay
    <3> QED
      BY <3>4
  <2>2. Accounted(k)'
    BY <2>1 DEF Accounted
  <2> QED
    BY <1>1, <1>3, <2>2 DEF VersionInv
<1>4. CASE UNCHANGED row
  <2>1. Counted(n)'
    BY <1>0, <1>1, <1>4, CountedKept
  <2>2. \A o \in Outcomes : n[o] <= Handlings(n, o)
    BY HandlingsType
  <2> QED
    BY <1>3, <2>1, <2>2
<1>5. CASE inflight[i].pc = "applying" /\ Update(inflight[i].msg)
  <2>0. PICK o \in Outcomes : o = inflight[i].msg
    BY InflightShape
  <2> DEFINE k == [n EXCEPT ![o] = n[o] + 1]
  <2>1. /\ Applicable(o) /\ Unapplied(o) /\ Update(o)
        /\ \E j \in DOMAIN history : history[j] = o
    BY <1>5, <2>0 DEF HandlersApply, Unapplied, Positions, HandlesLastTaken
  <2>2. Counted(k)'
    BY <1>0, <1>1, <2>1, CountedUpdate
  <2>3. k \in [Outcomes -> Nat]
    BY <2>1
  <2>4. ASSUME NEW x \in Outcomes
        PROVE  k[x] <= Handlings(n, x)
    <3>1. CASE x = o
      <4>1. k[o] = n[o] + 1 /\ Handlings(n, o) = n[o] + 1 /\ n[o] \in Nat
        BY <2>1, HandlingsType
      <4> HIDE DEF k
      <4> QED
        BY <3>1, <4>1
    <3>2. CASE x # o
      <4>1. k[x] = n[x]
        BY <2>1, <3>2
      <4> HIDE DEF k
      <4> QED
        BY <4>1, HandlingsType
    <3> QED
      BY <3>1, <3>2
  <2> HIDE DEF k
  <2> QED
    BY <1>3, <2>2, <2>3, <2>4
<1> QED
  BY <1>4, <1>5 DEF HandlerStep, ApplyOutcome, RecordNotFound, Ack, HandlerFails

LEMMA VersionConsume ==
    ASSUME Prefetch = 1, IInv, MaxRestarts \in Nat, IdsDistinct, VersionInv, Consume
    PROVE  VersionInv'
<1> USE DEF IInv
<1>0. PICK n \in [Outcomes -> Nat] : Counted(n) /\ Accounted(n)
  BY DEF VersionInv
<1>1. PICK m \in Outcomes :
         /\ Delivers(m)
         /\ \/ UNCHANGED <<processed, inflight>>
            \/ /\ Accept(m)
               /\ \/ inflight' = inflight
                  \/ inflight' = Append(inflight, [msg |-> m, pc |-> "applying"])
  BY DEF Consume, SkipDuplicate, IgnoreOutcome, StartHandler, Accept
<1>2. UNCHANGED <<row, history, restarts>> /\ inflight = << >>
  <2>1. UNCHANGED <<row, history, restarts>>
    BY DEF Consume, SkipDuplicate, IgnoreOutcome, StartHandler
  <2>2. inflight = << >>
    BY <1>1, OneHandler DEF Delivers
  <2> QED
    BY <2>1, <2>2
<1>3. Counted(n)'
  BY <1>0, <1>2, CountedKept
<1>4. ASSUME HandledIsLast', \A o \in Outcomes : \E c \in Int : OutcomeLapsed(n, o, c)'
      PROVE  VersionInv'
  <2>1. Accounted(n)'
    BY <1>4 DEF Accounted
  <2> QED
    BY <1>3, <1>4, <2>1 DEF VersionInv
<1>5. \A o \in Outcomes : Handlings(n, o) = n[o] /\ n[o] \in Nat
  <2>1. \A o : ~Unapplied(o)
    BY <1>2 DEF Unapplied
  <2> QED
    BY <2>1, HandlingsType
<1>6. CASE UNCHANGED <<processed, inflight>>
  <2>1. ASSUME NEW o \in Outcomes
        PROVE  \E c \in Int : OutcomeLapsed(n, o, c)'
    <3>1. PICK c \in Int : OutcomeLapsed(n, o, c)
      BY <1>0 DEF Accounted
    <3>2. Passed(o)' \in Int /\ Passed(o)' >= Passed(o)
      <4>1. Passed(o)' \in Int /\ Passed(o)' = Passed(o) + IF m = o THEN 0 ELSE 1
        BY <1>1, <1>2, DeliveryPasses
      <4>2. Passed(o) \in Int
        BY CountsType
      <4> QED
        BY <4>1, <4>2
    <3>3. Handlings(n, o)' <= Handlings(n, o)
      <4>1. Handlings(n, o)' = n[o] + 0
        BY <1>2, <1>6 DEF Handlings, Unapplied
      <4> QED
        BY <1>5, <4>1
    <3>4. OutcomeLapsed(n, o, c)'
      BY <1>2, <1>6, <3>1, <3>2, <3>3, LapsesStay
    <3> QED
      BY <3>4
  <2>2. HandledIsLast'
    BY <1>6 DEF HandledIsLast, VersionInv
  <2> QED
    BY <1>4, <2>1, <2>2
<1>7. CASE /\ Accept(m)
           /\ \/ inflight' = inflight
              \/ inflight' = Append(inflight, [msg |-> m, pc |-> "applying"])
  <2>1. \A i \in DOMAIN inflight' : inflight'[i].msg = m
    <3>1. CASE inflight' = inflight
      BY <1>2, <3>1
    <3>2. CASE inflight' = Append(inflight, [msg |-> m, pc |-> "applying"])
      <4>1. DOMAIN inflight' = {1} /\ inflight'[1].msg = m
        BY <1>2, <3>2
      <4> QED
        BY <4>1
    <3> QED
      BY <1>7, <3>1, <3>2
  <2>2. processed' # << >> /\ processed'[Len(processed')] = m.id
    <3> DEFINE v == processed'
    <3>1. /\ processed \in Window(Ids, MaxTracked) /\ m.id \in Ids /\ MaxTracked \in Nat \ {0}
          /\ v = Remember(processed, m.id, MaxTracked)
      BY <1>7, CountsType DEF Accept
    <3> HIDE DEF v
    <3>2. v \in Seq(Ids) /\ Len(v) \in Nat \ {0} /\ v[Len(v)] = m.id
      BY <3>1, RememberPlaces
    <3> QED
      BY <3>2 DEF v
  <2>3. HandledIsLast'
    BY <2>1, <2>2 DEF HandledIsLast
  <2>4. ASSUME NEW o \in Outcomes
        PROVE  \E c \in Int : OutcomeLapsed(n, o, c)'
    <3>1. PICK c \in Int : OutcomeLapsed(n, o, c)
      BY <1>0 DEF Accounted
    <3>2. Handlings(n, o)' \in Nat /\ Handlings(n, o)' <= Handlings(n, o) + IF m = o THEN 1 ELSE 0
      <4>1. Unapplied(o)' => m = o
        BY <2>1 DEF Unapplied
      <4>2. CASE m = o
        <5>1. Handlings(n, o)' = n[o] + 0 \/ Handlings(n, o)' = n[o] + 1
          BY DEF Handlings
        <5> QED
          BY <1>5, <4>2, <5>1
      <4>3. CASE m # o
        <5>1. Handlings(n, o)' = n[o] + 0
          BY <4>1, <4>3 DEF Handlings
        <5> QED
          BY <1>5, <4>3, <5>1
      <4> QED
        BY <4>2, <4>3
    <3> QED
      BY <1>2, <1>7, <3>1, <3>2, LapsesAccept
  <2> QED
    BY <1>4, <2>3, <2>4
<1> QED
  BY <1>1, <1>6, <1>7

LEMMA VersionStep ==
    ASSUME Prefetch = 1, IInv, MaxRestarts \in Nat, IdsDistinct, Positions, VersionInv,
           [Next]_vars
    PROVE  VersionInv'
<1> USE DEF IInv
<1>0. PICK n \in [Outcomes -> Nat] : Counted(n) /\ Accounted(n)
  BY DEF VersionInv
<1>1. ASSUME UNCHANGED <<inflight, processed, restarts>>, Counted(n)',
             \A o \in Outcomes : Passed(o)' = Passed(o)
      PROVE  VersionInv'
  <2>1. \A o \in Outcomes : Handlings(n, o)' = Handlings(n, o)
    BY <1>1 DEF Handlings, Unapplied
  <2>2. ASSUME NEW o \in Outcomes, NEW c \in Int, OutcomeLapsed(n, o, c)
        PROVE  OutcomeLapsed(n, o, c)'
    BY <1>1, <2>1, <2>2 DEF OutcomeLapsed
  <2>3. Accounted(n)' /\ HandledIsLast'
    BY <1>0, <1>1, <2>2 DEF Accounted, HandledIsLast, VersionInv
  <2> QED
    BY <1>1, <2>3 DEF VersionInv
<1>2. CASE UNCHANGED vars
  <2>1. UNCHANGED <<queue, inflight, processed, row, history, restarts>>
    BY <1>2 DEF vars
  <2>2. \A o \in Outcomes : Passed(o)' = Passed(o)
    BY <2>1 DEF Passed, OthersPublished
  <2>3. Counted(n)'
    BY <1>0, <2>1, CountedKept
  <2> QED
    BY <1>1, <2>1, <2>2, <2>3
<1>3. ASSUME NEW m \in Outcomes, Arrive(m)
      PROVE  VersionInv'
  <2>1. \A o \in Outcomes : Passed(o)' = Passed(o)
    BY <1>3, ArrivalStays
  <2>2. Counted(n)'
    BY <1>0, <1>3, CountedArrive
  <2> QED
    BY <1>1, <1>3, <2>1, <2>2 DEF Arrive
<1>4. CASE Restart
  <2>1. HandledIsLast' /\ Counted(n)'
    BY <1>0, <1>4, CountedKept DEF Restart, HandledIsLast
  <2>2. ASSUME NEW o \in Outcomes
        PROVE  \E d \in Int : OutcomeLapsed(n, o, d)'
    <3>1. PICK c \in Int : OutcomeLapsed(n, o, c)
      BY <1>0 DEF Accounted
    <3> QED
      BY <1>4, <3>1, LapsesRestart DEF VersionInv
  <2>3. Accounted(n)'
    BY <2>2 DEF Accounted
  <2> QED
    BY <2>1, <2>3 DEF VersionInv
<1> QED
  BY <1>2, <1>3, <1>4, VersionConsume, VersionHandlers DEF Next

LEMMA VersionInit == Init => VersionInv
<1> SUFFICES ASSUME Init
             PROVE  VersionInv
  OBVIOUS
<1> DEFINE n == [o \in Outcomes |-> 0]
<1>1. ASSUME NEW t \in Tx
      PROVE  row[t].version - 1 <= Total(n, About(t))
  <2>1. About(t) = {} /\ row[t].version = 1
    BY DEF Init, About, Published, NewRow
  <2>2. IsFiniteSet({})
    BY FS_EmptySet
  <2>3. Total(n, {}) = 0
    <3> HIDE DEF n
    <3> QED
      BY <2>2, TotalOfZeros
  <2> QED
    BY <2>1, <2>3
<1>2. ASSUME NEW o \in Outcomes
      PROVE  OutcomeLapsed(n, o, 0)
  <2>1. Others(queue, o) = {} /\ ~Unapplied(o)
    BY DEF Init, Others, Unapplied
  <2>2. OthersPublished(o) = Cardinality({})
    BY DEF Init, OthersPublished
  <2>3. Cardinality({}) = 0
    BY FS_EmptySet
  <2>4. Passed(o) = 0 /\ Handlings(n, o) = 0 /\ restarts = 0
    BY <2>1, <2>2, <2>3 DEF Passed, Handlings, Init
  <2>5. ~Remembered(processed, o.id) /\ DOMAIN processed = {}
    BY DEF Init, Remembered
  <2>6. 0 * MaxTracked = 0
    BY TransactionAssumption
  <2> HIDE DEF n
  <2> QED
    BY <2>4, <2>5, <2>6 DEF OutcomeLapsed, Lapsed
<1>3. n \in [Outcomes -> Nat]
  OBVIOUS
<1> HIDE DEF n
<1>4. Counted(n) /\ Accounted(n)
  BY <1>1, <1>2 DEF Counted, Accounted
<1>5. HandledIsLast
  BY DEF Init, HandledIsLast
<1> QED
  BY <1>3, <1>4, <1>5 DEF VersionInv

\* What an outcome may add to a version.
LEMMA OutcomeBound ==
    ASSUME TypeOK, MaxRestarts \in Nat, NEW n \in [Outcomes -> Nat], Accounted(n),
           NEW o \in Outcomes
    PROVE  /\ OthersPublished(o) \div MaxTracked \in Int
           /\ n[o] <= 1 + restarts + (OthersPublished(o) \div MaxTracked)
<1>1. PICK c \in Int : OutcomeLapsed(n, o, c)
  BY DEF Accounted
<1>2. /\ OthersPublished(o) \in Nat /\ Cardinality(Others(queue, o)) \in Nat
      /\ restarts \in Nat /\ MaxTracked \in Nat \ {0} /\ processed \in Window(Ids, MaxTracked)
      /\ Passed(o) \in Int
  BY CountsType
<1>3. Passed(o) <= OthersPublished(o)
  BY <1>2 DEF Passed
<1>4. Handlings(n, o) \in Nat /\ n[o] <= Handlings(n, o) /\ n[o] \in Nat
  BY HandlingsType
<1>5. /\ OthersPublished(o) \div MaxTracked \in Int
      /\ Handlings(n, o) <= 1 + restarts + (OthersPublished(o) \div MaxTracked)
  <2>1. Lapsed(processed, o.id, MaxTracked, Passed(o), Handlings(n, o), restarts, c)
    BY <1>1 DEF OutcomeLapsed
  <2> QED
    BY <1>2, <1>3, <1>4, <2>1, LapsedEnough
<1> QED
  BY <1>2, <1>4, <1>5

LEMMA VersionEnough ==
    ASSUME TypeOK, MaxRestarts \in Nat, VersionInv
    PROVE  VersionCountsOutcomes
<1> DEFINE Bound(o) == 1 + restarts + (OthersPublished(o) \div MaxTracked)
           b == [o \in Outcomes |-> Bound(o)]
<1>1. PICK n \in [Outcomes -> Nat] : Counted(n) /\ Accounted(n)
  BY DEF VersionInv
<1>2. \A o \in Outcomes : n[o] \in Int /\ b[o] \in Int /\ n[o] <= b[o]
  <2>1. ASSUME NEW o \in Outcomes
        PROVE  n[o] \in Int /\ b[o] \in Int /\ n[o] <= b[o]
    <3>1. n[o] <= Bound(o) /\ OthersPublished(o) \div MaxTracked \in Int
      BY <1>1, OutcomeBound
    <3>2. restarts \in Int /\ n[o] \in Int
      BY CountsType
    <3> QED
      BY <3>1, <3>2
  <2> QED
    BY <2>1
<1>3. ASSUME NEW t \in Tx
      PROVE  row[t].version - 1 <= MapThenSumSet(Bound, About(t))
  <2> DEFINE A == About(t)
  <2>1. IsFiniteSet(A) /\ A \in SUBSET Outcomes
    BY AboutType
  <2>2. PICK F : (\A s \in SUBSET A : Adds(n, F, s)) /\ Total(n, A) = F[A]
    <3> HIDE DEF A
    <3> QED
      BY <2>1, TotalIs
  <2>3. PICK G : (\A s \in SUBSET A : Adds(b, G, s)) /\ MapThenSumSet(Bound, A) = G[A]
    <3> DEFINE g == CHOOSE g : g = [s \in SUBSET A |-> IF s = {} THEN 0
                                              ELSE Bound(Pick(s)) + g[s \ {Pick(s)}]]
    <3>1. PICK h : SumsTo(b, A, h)
      <4> HIDE DEF A, b
      <4> QED
        BY <2>1, SumExists
    <3>2. \A s \in SUBSET A : s # {} => b[Pick(s)] = Bound(Pick(s))
      <4>1. \A s \in SUBSET A : s # {} => Pick(s) \in Outcomes
        BY <2>1 DEF Pick
      <4> QED
        BY <4>1
    <3> HIDE DEF Bound, b, A
    <3>3. h = [s \in SUBSET A |-> IF s = {} THEN 0 ELSE Bound(Pick(s)) + h[s \ {Pick(s)}]]
      <4>1. \A s \in SUBSET A : (IF s = {} THEN 0 ELSE Bound(Pick(s)) + h[s \ {Pick(s)}])
                                = (IF s = {} THEN 0 ELSE b[Pick(s)] + h[s \ {Pick(s)}])
        BY <3>2
      <4> QED
        BY <3>1, <4>1 DEF SumsTo
    <3>4. g = [s \in SUBSET A |-> IF s = {} THEN 0 ELSE Bound(Pick(s)) + g[s \ {Pick(s)}]]
      BY <3>3
    <3>5. MapThenSumSet(Bound, A) = g[A]
      BY DEF MapThenSumSet, MapThenFoldSet, Pick
    <3> HIDE DEF g
    <3>6. \A s \in SUBSET A : Adds(b, g, s)
      BY <3>2, <3>4 DEF Adds
    <3> QED
      BY <3>5, <3>6
  <2>4. F[A] \in Int /\ G[A] \in Int /\ F[A] <= G[A]
    <3>1. /\ \A s \in SUBSET A : Adds(n, F, s) /\ Adds(b, G, s)
          /\ \A x \in A : n[x] \in Int /\ b[x] \in Int /\ n[x] <= b[x]
      BY <1>2, <2>1, <2>2, <2>3
    <3> HIDE DEF A, b
    <3> QED
      BY <2>1, <3>1, SumsOrder
  <2>5. row[t].version - 1 <= F[A] /\ row[t].version \in Nat
    BY <1>1, <2>2 DEF Counted, TypeOK, Rows
  <2> HIDE DEF A, Bound
  <2>6. row[t].version - 1 <= MapThenSumSet(Bound, A)
    BY <2>3, <2>4, <2>5
  <2> QED
    BY <2>6 DEF A
<1> QED
  BY <1>3 DEF VersionCountsOutcomes, About

\* VersionCountsOutcomes of the same run, for every instance with a prefetch limit of
\* one in which an id names one message: a row's version counts its outcomes, each once,
\* and once more for each restart and each window of other messages.
THEOREM VersionAlwaysCounts ==
    ASSUME MaxErrors \in Nat, MaxRestarts \in Nat, Prefetch = 1, IdsDistinct
    PROVE  Spec => []VersionCountsOutcomes
<1>1. Init => IInv /\ Positions /\ VersionInv
  BY IInvInit, PositionsInit, VersionInit
<1>2. (IInv /\ Positions /\ VersionInv) /\ [Next]_vars => (IInv /\ Positions /\ VersionInv)'
  BY IInvStep, PositionsStep, VersionStep
<1>3. IInv /\ VersionInv => VersionCountsOutcomes
  BY VersionEnough DEF IInv
<1> QED
  BY <1>1, <1>2, <1>3, PTL DEF Spec

=============================================================================
