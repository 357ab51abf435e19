--------------------------- MODULE PipelineProofs ---------------------------
(***************************************************************************)
(* Proofs about Pipeline, for every set of transactions: what a row shows  *)
(* when nothing is under way, and that the services together implement     *)
(* Lifecycle.                                                              *)
(*                                                                         *)
(* The theorems assume what makes them true: search-service and            *)
(* transaction-service take one delivery at a time, and for Lifecycle no   *)
(* event is handled again after it was forgotten (NoReplay).               *)
(***************************************************************************)
EXTENDS Pipeline, DeliveryProofs

-----------------------------------------------------------------------------
(***************************************************************************)
(* Routing: each event reaches the queues its consumers read.              *)
(***************************************************************************)
LEMMA TableIsSequence ==
    ASSUME NEW S, NEW n \in Nat, NEW f \in [1..n -> S]
    PROVE  f \in Seq(S) /\ Len(f) = n
  OBVIOUS

LEMMA Concatenation ==
    ASSUME NEW S, NEW s \in Seq(S), NEW r \in Seq(S)
    PROVE  /\ s \o r \in Seq(S)
           /\ Len(s \o r) = Len(s) + Len(r)
           /\ \A i \in 1..Len(s) : (s \o r)[i] = s[i]
           /\ \A i \in 1..Len(r) : (s \o r)[Len(s) + i] = r[i]
  OBVIOUS

LEMMA BindingsAre ==
    /\ Len(AllBindings) = 9
    /\ DOMAIN AllBindings = 1..9
    /\ \A i \in 1..5 : AllBindings[i] = OutboundBindings("transactionService")[i]
    /\ \A i \in 1..2 : AllBindings[5 + i] = OutboundBindings("aiService")[i]
    /\ \A i \in 1..2 : AllBindings[7 + i] = OutboundBindings("searchService")[i]
<1> DEFINE a == OutboundBindings("transactionService")
           b == OutboundBindings("aiService")
           c == OutboundBindings("searchService")
           S == {a[i] : i \in 1..5} \cup {b[i] : i \in 1..2} \cup {c[i] : i \in 1..2}
<1>1. DOMAIN a = 1..5 /\ DOMAIN b = 1..2 /\ DOMAIN c = 1..2
  BY DEF OutboundBindings, Bind
<1>2. a = [i \in 1..5 |-> a[i]] /\ b = [i \in 1..2 |-> b[i]] /\ c = [i \in 1..2 |-> c[i]]
  BY <1>1 DEF OutboundBindings
<1>3. AllBindings = a \o b \o c
  BY DEF AllBindings
<1>4. /\ \A i \in 1..5 : a[i] \in S
      /\ \A i \in 1..2 : b[i] \in S
      /\ \A i \in 1..2 : c[i] \in S
  OBVIOUS
<1> HIDE DEF a, b, c, S
<1>5. a \in [1..5 -> S] /\ b \in [1..2 -> S] /\ c \in [1..2 -> S]
  BY <1>2, <1>4
<1>6. 5 \in Nat /\ 2 \in Nat
  OBVIOUS
<1>7. a \in Seq(S) /\ b \in Seq(S) /\ c \in Seq(S)
  BY <1>5, <1>6, TableIsSequence
<1>8. Len(a) = 5 /\ Len(b) = 2 /\ Len(c) = 2
  BY <1>5, <1>6, TableIsSequence
<1>9. /\ a \o b \in Seq(S) /\ Len(a \o b) = 5 + 2
      /\ \A i \in 1..5 : (a \o b)[i] = a[i]
      /\ \A i \in 1..2 : (a \o b)[5 + i] = b[i]
  <2>1. /\ a \o b \in Seq(S)
        /\ Len(a \o b) = Len(a) + Len(b)
        /\ \A i \in 1..Len(a) : (a \o b)[i] = a[i]
        /\ \A i \in 1..Len(b) : (a \o b)[Len(a) + i] = b[i]
    BY <1>7, Concatenation
  <2> QED
    BY <1>8, <2>1
<1>10. AllBindings \in Seq(S) /\ Len(AllBindings) = 9
  <2>1. (a \o b) \o c \in Seq(S) /\ Len((a \o b) \o c) = Len(a \o b) + Len(c)
    BY <1>7, <1>9, Concatenation
  <2> QED
    BY <1>3, <1>8, <1>9, <2>1
<1>11. /\ \A i \in 1..7 : AllBindings[i] = (a \o b)[i]
       /\ \A i \in 1..2 : AllBindings[7 + i] = c[i]
  BY <1>3, <1>7, <1>8, <1>9, Concatenation
<1>12. \A i \in 1..5 : AllBindings[i] = a[i]
  BY <1>9, <1>11
<1>13. \A i \in 1..2 : AllBindings[5 + i] = b[i]
  BY <1>9, <1>11
<1> QED
  BY <1>10, <1>11, <1>12, <1>13 DEF a, b, c

LEMMA Routes ==
    /\ \A m : m.type \in {"transaction.created", "ai.enriched", "ai.rejected"} =>
          RoutedTo("search-service.queue", m) = <<m>>
    /\ \A m : m.type = "transaction.created" => RoutedTo("ai-service.queue", m) = <<m>>
    /\ \A m : m.type \in {"search.index.updated", "search.index.rejected"} =>
          RoutedTo("transaction-service.queue", m) = <<m>>
<1>1. /\ AllBindings[1].key = "transaction.created" /\ AllBindings[1].queue = "search-service.queue"
      /\ AllBindings[2].key = "transaction.created" /\ AllBindings[2].queue = "ai-service.queue"
  BY BindingsAre DEF OutboundBindings, Bind, QueueBindingTarget
<1>2. AllBindings[5 + 1] = OutboundBindings("aiService")[1]
      /\ AllBindings[5 + 2] = OutboundBindings("aiService")[2]
      /\ AllBindings[7 + 1] = OutboundBindings("searchService")[1]
      /\ AllBindings[7 + 2] = OutboundBindings("searchService")[2]
  BY BindingsAre
<1>3. /\ AllBindings[6].key = "ai.enriched" /\ AllBindings[6].queue = "search-service.queue"
      /\ AllBindings[7].key = "ai.rejected" /\ AllBindings[7].queue = "search-service.queue"
  BY <1>2 DEF OutboundBindings, Bind, QueueBindingTarget
<1>4. /\ AllBindings[8].key = "search.index.updated"
      /\ AllBindings[8].queue = "transaction-service.queue"
      /\ AllBindings[9].key = "search.index.rejected"
      /\ AllBindings[9].queue = "transaction-service.queue"
  BY <1>2 DEF OutboundBindings, Bind, QueueBindingTarget
<1>5. \A i \in DOMAIN AllBindings : AllBindings[i].queue \in QueuesFor(AllBindings[i].key)
  BY DEF QueuesFor
<1>6. 1 \in DOMAIN AllBindings /\ 2 \in DOMAIN AllBindings /\ 6 \in DOMAIN AllBindings
      /\ 7 \in DOMAIN AllBindings /\ 8 \in DOMAIN AllBindings /\ 9 \in DOMAIN AllBindings
  BY BindingsAre
<1>7. /\ "search-service.queue" \in QueuesFor("transaction.created")
      /\ "ai-service.queue" \in QueuesFor("transaction.created")
      /\ "search-service.queue" \in QueuesFor("ai.enriched")
      /\ "search-service.queue" \in QueuesFor("ai.rejected")
      /\ "transaction-service.queue" \in QueuesFor("search.index.updated")
      /\ "transaction-service.queue" \in QueuesFor("search.index.rejected")
  BY <1>1, <1>3, <1>4, <1>5, <1>6
<1> QED
  BY <1>7 DEF RoutedTo

-----------------------------------------------------------------------------
(***************************************************************************)
(* What a consumer with a prefetch of one still has to do is one sequence: *)
(* the delivery in its hands, if any, and then its queue.  Deliveries and  *)
(* restarts leave it as it is.                                             *)
(***************************************************************************)
LEMMA AtMostOne ==
    ASSUME NEW S, NEW s \in Seq(S), Len(s) <= 1, s # << >>
    PROVE  Len(s) = 1 /\ s = <<s[1]>> /\ s[1] \in S /\ DOMAIN s = {1}
<1>1. Len(s) \in Nat /\ DOMAIN s = 1..Len(s) /\ Len(s) # 0
  OBVIOUS
<1>2. Len(s) = 1
  BY <1>1
<1>3. s[1] \in S
  BY <1>2
<1>4. s = <<s[1]>>
  BY <1>2, <1>3
<1> QED
  BY <1>1, <1>2, <1>3, <1>4

LEMMA WorkStarts ==
    ASSUME NEW M, NEW q \in Seq(M), q # << >>, NEW h, h.msg = Head(q)
    PROVE  Requeue(<<h>>, Tail(q)) = q
<1>1. /\ Tail(q) \in Seq(M) /\ Len(Tail(q)) = Len(q) - 1
      /\ \A i \in 1..(Len(q) - 1) : Tail(q)[i] = q[i + 1]
      /\ Head(q) = q[1] /\ q[1] \in M
  OBVIOUS
<1> DEFINE s == [i \in DOMAIN <<h>> |-> <<h>>[i].msg]
<1>2. s = <<q[1]>>
  BY <1>1
<1>3. s \in Seq(M) /\ Len(s) = 1 /\ s[1] = q[1]
  BY <1>1, <1>2
<1>4. Requeue(<<h>>, Tail(q)) = s \o Tail(q)
  BY DEF Requeue
<1> DEFINE r == s \o Tail(q)
<1>5. r \in Seq(M) /\ Len(r) = Len(q)
  BY <1>1, <1>3
<1>6. \A i \in 1..Len(q) : r[i] = q[i]
  <2>1. r[1] = q[1]
    BY <1>1, <1>3
  <2>2. \A i \in 1..Len(q) : i # 1 => i - 1 \in 1..(Len(q) - 1) /\ r[i] = Tail(q)[i - 1]
    BY <1>1, <1>3
  <2> QED
    BY <1>1, <2>1, <2>2
<1> HIDE DEF r, s
<1>7. r = q
  BY <1>5, <1>6
<1> QED
  BY <1>4, <1>7 DEF r

LEMMA WorkGrows ==
    ASSUME NEW M, NEW q \in Seq(M), NEW m \in M, NEW H, NEW s \in Seq(H), \A h \in H : h.msg \in M
    PROVE  Requeue(s, Append(q, m)) = Append(Requeue(s, q), m)
<1> DEFINE d == [i \in DOMAIN s |-> s[i].msg]
<1>1. d \in Seq(M)
  OBVIOUS
<1>2. Requeue(s, q) = d \o q /\ Requeue(s, Append(q, m)) = d \o Append(q, m)
  BY DEF Requeue
<1> HIDE DEF d
<1> QED
  BY <1>1, <1>2

-----------------------------------------------------------------------------
(***************************************************************************)
(* ai-service answers what it is sent.                                     *)
(***************************************************************************)
Listings == {ListingEvent(t) : t \in Tx}

Judgements ==
    [type : {"ai.enriched"}, tx : Tx, sourceId : Tx \X Nat, moderation : {"ALLOW", "REVIEW"}]
    \cup
    [type : {"ai.rejected"}, tx : Tx, sourceId : Tx \X Nat, moderation : {"none"}]

AiSteps == {"fetching", "body", "publishing", "confirming", "rejecting",
            "confirmingReject", "acking"}

AiHandlers ==
    [msg : Listings, pc : AiSteps, attempt : Nat,
     answer : {"ALLOW", "REVIEW", "REJECT", "invalid", "none", "processing_error"}]

\* The values of the outbox's variables.
PromiseType ==
    /\ stage \in [Tx -> {"unwritten", "owed", "published", "abandoned"}]
    /\ copies \in [Tx -> Nat]

\* The values of ai-service's variables.
AiType ==
    /\ aiQueue \in Seq(Listings)
    /\ aiInflight \in Seq(AiHandlers)
    /\ aiProcessed \in Seq(Tx \X Nat)
    /\ verdicts \in Seq(Judgements)
    /\ aiErrors \in Nat

AiQueued(t) == \E i \in DOMAIN aiQueue : aiQueue[i].tx = t

\* A handler that has not settled its delivery yet works on t.
Judging(t) ==
    \E i \in DOMAIN aiInflight : aiInflight[i].msg.tx = t /\ aiInflight[i].pc # "acking"

Judged(t) == \E k \in DOMAIN verdicts : verdicts[k].tx = t

\* Only transactions whose event was sent are judged, and their events written.
Sent ==
    /\ \A t \in Tx : copies[t] > 0 => stage[t] # "unwritten"
    /\ \A i \in DOMAIN aiQueue : copies[aiQueue[i].tx] > 0
    /\ \A i \in DOMAIN aiInflight : copies[aiInflight[i].msg.tx] > 0
    /\ \A k \in DOMAIN verdicts : copies[verdicts[k].tx] > 0

\* What makes ai-service skip an event is a verdict or a handler that works on it.
SkippedIsJudged ==
    /\ \A t \in Tx : Remembered(aiProcessed, <<t, 0>>) => Judged(t)
    /\ \A t \in Tx, i \in DOMAIN aiInflight :
          /\ aiInflight[i].pc \in {"confirming", "confirmingReject", "acking"}
          /\ aiInflight[i].msg.tx = t
          => Judged(t)
    /\ aiErrors = 0 => \A t \in Tx : <<t, 0>> \in aiProcessing => Judging(t)

\* No event is lost as long as no publish fails.
NoneUnjudged ==
    aiErrors = 0 => \A t \in Tx : copies[t] > 0 => AiQueued(t) \/ Judging(t) \/ Judged(t)

AiInv == PromiseType /\ AiType /\ Sent /\ SkippedIsJudged /\ NoneUnjudged

LEMMA ListingIs ==
    ASSUME NEW m \in Listings
    PROVE  m.tx \in Tx /\ m.id = <<m.tx, 0>> /\ m.type = "transaction.created"
             /\ m = ListingEvent(m.tx) /\ m.tx # NoTx
  BY PipelineAssumption DEF Listings, ListingEvent

\* One verdict more.
VerdictOut(v) ==
    /\ v \in Judgements /\ copies[v.tx] > 0
    /\ verdicts' = Append(verdicts, v)
    /\ searchQueue' = Append(searchQueue, VerdictEvent(Len(verdicts) + 1, v))

\* What the rest of the pipeline sees of a step of ai-service.
AiEffect ==
    /\ UNCHANGED <<promiseVars, searchVars, rowQueue, rowVars>>
    /\ \/ UNCHANGED <<verdicts, searchQueue>>
       \/ \E v \in Judgements : VerdictOut(v)

LEMMA ForwardsNone ==
    ASSUME ForwardVerdict, verdicts' = verdicts
    PROVE  AiEffect
  BY DEF ForwardVerdict, AiEffect

LEMMA ForwardsOne ==
    ASSUME ForwardVerdict, verdicts \in Seq(Judgements), NEW v \in Judgements, copies[v.tx] > 0,
           verdicts' = Append(verdicts, v), NEW M, searchQueue \in Seq(M)
    PROVE  AiEffect /\ VerdictOut(v)
<1>1. Len(verdicts') = Len(verdicts) + 1 /\ verdicts' # verdicts /\ verdicts' \in Seq(Judgements)
  OBVIOUS
<1>2. Last(verdicts') = v
  BY <1>1 DEF Last
<1> DEFINE m == VerdictEvent(Len(verdicts) + 1, v)
<1>3. m.type \in {"ai.enriched", "ai.rejected"}
  BY DEF VerdictEvent, Judgements
<1> HIDE DEF m
<1>4. searchQueue' = searchQueue \o <<m>>
  <2>1. VerdictEvent(Len(verdicts'), Last(verdicts')) = m
    BY <1>1, <1>2 DEF m
  <2>2. RoutedTo("search-service.queue", m) = <<m>>
    BY <1>3, Routes
  <2> QED
    BY <1>1, <2>1, <2>2 DEF ForwardVerdict
<1>5. searchQueue' = Append(searchQueue, m)
  BY <1>4
<1> QED
  BY <1>5 DEF VerdictOut, AiEffect, ForwardVerdict, m

LEMMA AiConsumesShape ==
    ASSUME AiType, AiConsumes
    PROVE  /\ AiType' /\ AiEffect /\ UNCHANGED <<verdicts, aiErrors, aiProcessed>>
           /\ aiQueue # << >> /\ aiQueue' = Tail(aiQueue)
           /\ LET m == Head(aiQueue)
              IN  \/ /\ Remembered(aiProcessed, m.id) \/ m.id \in aiProcessing
                     /\ UNCHANGED <<aiInflight, aiProcessing>>
                  \/ /\ aiProcessing' = aiProcessing \cup {m.id}
                     /\ \E h \in AiHandlers : /\ h.msg = m /\ h.pc = "fetching"
                                              /\ aiInflight' = Append(aiInflight, h)
<1> DEFINE m == Head(aiQueue)
<1>1. /\ aiQueue # << >> /\ aiQueue' = Tail(aiQueue) /\ UNCHANGED <<verdicts, aiErrors, aiProcessed>>
      /\ m \in Listings
      /\ \/ Ai!Known(m.id) /\ UNCHANGED <<aiInflight, aiProcessing>>
         \/ /\ aiProcessing' = aiProcessing \cup {m.id}
            /\ aiInflight' = Append(aiInflight, Ai!Handler(m, "fetching", 1, "none"))
  <2>1. CASE Ai!SkipDuplicate
    BY <2>1 DEF Ai!SkipDuplicate, Ai!Delivers, Listings
  <2>2. CASE Ai!IgnoreEvent
    BY <2>2, ListingIs DEF Ai!IgnoreEvent, Ai!Supported, Listings
  <2>3. CASE Ai!RefuseEvent
    BY <2>3, ListingIs DEF Ai!RefuseEvent, Listings
  <2>4. CASE Ai!StartHandler
    BY <2>4 DEF Ai!StartHandler, Ai!Delivers, Listings
  <2> QED
    BY <2>1, <2>2, <2>3, <2>4 DEF AiConsumes, Ai!Consume
<1>2. AiEffect
  BY <1>1, ForwardsNone DEF AiConsumes
<1>3. Ai!Known(m.id) => Remembered(aiProcessed, m.id) \/ m.id \in aiProcessing
  BY DEF Ai!Known, Ai!Remembered, Remembered
<1> DEFINE h == Ai!Handler(m, "fetching", 1, "none")
<1>4. h \in AiHandlers /\ h.msg = m /\ h.pc = "fetching"
  BY <1>1 DEF Ai!Handler, AiHandlers, AiSteps
<1> HIDE DEF m, h
<1>5. aiQueue' \in Seq(Listings)
  BY <1>1 DEF AiType
<1>6. aiInflight' \in Seq(AiHandlers)
  <2>1. aiInflight \in Seq(AiHandlers)
    BY DEF AiType
  <2> QED
    BY <1>1, <1>4, <2>1 DEF h
<1>7. AiType'
  BY <1>1, <1>5, <1>6 DEF AiType
<1> QED
  BY <1>1, <1>2, <1>3, <1>4, <1>7 DEF m, h

\* A step of handler i: it leaves, or it moves on with its message.
AiMoves(i, h) ==
    /\ h \in AiHandlers /\ h.msg = aiInflight[i].msg
    /\ aiInflight' = [aiInflight EXCEPT ![i] = h]
    /\ UNCHANGED aiQueue
    /\ \/ /\ h.pc \in {"fetching", "body", "publishing", "rejecting"}
          /\ UNCHANGED <<verdicts, aiProcessed, aiProcessing>>
          /\ aiErrors' \in {aiErrors, aiErrors + 1}
       \/ /\ h.pc \in {"confirming", "confirmingReject"}
          /\ UNCHANGED <<aiProcessed, aiProcessing, aiErrors>>
          /\ \E v \in Judgements : v.tx = h.msg.tx /\ verdicts' = Append(verdicts, v)
       \/ /\ aiInflight[i].pc \in {"confirming", "confirmingReject"} /\ h.pc = "acking"
          /\ UNCHANGED <<verdicts, aiErrors>>
          /\ aiProcessed' \in {aiProcessed, Remember(aiProcessed, h.msg.id, MaxTracked)}
          /\ aiProcessing' = aiProcessing \ {h.msg.id}

AiLeaves(i) ==
    /\ aiInflight' = RemoveAt(aiInflight, i)
    /\ UNCHANGED <<aiQueue, verdicts, aiProcessed>>
    /\ \/ aiInflight[i].pc = "acking" /\ UNCHANGED <<aiProcessing, aiErrors>>
       \/ aiErrors' = aiErrors + 1

LEMMA VerdictIs ==
    ASSUME NEW h \in AiHandlers
    PROVE  Ai!Verdict(h) \in Judgements /\ Ai!Verdict(h).tx = h.msg.tx
<1>1. h.msg.tx \in Tx /\ h.msg.id \in Tx \X Nat
  <2>1. h.msg \in Listings
    BY DEF AiHandlers
  <2> QED
    BY <2>1, ListingIs
<1>2. CASE h.answer \in {"ALLOW", "REVIEW"}
  BY <1>1, <1>2 DEF Ai!Verdict, Judgements
<1>3. CASE h.answer \notin {"ALLOW", "REVIEW"}
  BY <1>1, <1>3 DEF Ai!Verdict, Judgements
<1> QED
  BY <1>2, <1>3

LEMMA AiHandlesShape ==
    ASSUME AiType, NEW i \in DOMAIN aiInflight, Ai!HandlerStep(i)
    PROVE  AiLeaves(i) \/ \E h \in AiHandlers : AiMoves(i, h)
<1> DEFINE g == aiInflight[i]
<1>1. g \in AiHandlers
  BY DEF AiType
<1>2. /\ g.msg \in Listings /\ g.pc \in AiSteps /\ g.attempt \in Nat /\ g.attempt + 1 \in Nat
      /\ g = [msg |-> g.msg, pc |-> g.pc, attempt |-> g.attempt, answer |-> g.answer]
      /\ g.answer \in {"ALLOW", "REVIEW", "REJECT", "invalid", "none", "processing_error"}
  BY <1>1 DEF AiHandlers
<1>3. CASE Ai!HeadersArrive(i)
  <2>1. [g EXCEPT !.pc = "body"] \in AiHandlers
    BY <1>1 DEF AiHandlers, AiSteps
  <2>2. AiMoves(i, [g EXCEPT !.pc = "body"])
    BY <1>1, <1>3, <2>1 DEF Ai!HeadersArrive, AiMoves, AiHandlers, Ai!brokerVars
  <2> QED
    BY <2>1, <2>2
<1>4. CASE Ai!AttemptFails(i)
  <2> DEFINE a == Ai!Handler(g.msg, "rejecting", g.attempt, "processing_error")
             b == Ai!Handler(g.msg, "fetching", g.attempt + 1, g.answer)
  <2>1. /\ a \in AiHandlers /\ a.msg = g.msg /\ a.pc = "rejecting"
        /\ b \in AiHandlers /\ b.msg = g.msg /\ b.pc = "fetching"
    BY <1>2 DEF Ai!Handler, AiHandlers, AiSteps
  <2>2. /\ \/ aiInflight' = [aiInflight EXCEPT ![i] = a]
           \/ aiInflight' = [aiInflight EXCEPT ![i] = b]
        /\ UNCHANGED <<aiQueue, verdicts, aiProcessed, aiProcessing, aiErrors>>
    BY <1>4 DEF Ai!AttemptFails, Ai!brokerVars
  <2> HIDE DEF a, b
  <2>3. AiMoves(i, a) \/ AiMoves(i, b)
    BY <2>1, <2>2 DEF AiMoves
  <2> QED
    BY <2>1, <2>3
<1>5. CASE Ai!AnswerArrives(i)
  <2>1. PICK answer \in Ai!Answers : aiInflight' = [aiInflight EXCEPT ![i] =
              Ai!Handler(g.msg, IF answer = "invalid" THEN "rejecting" ELSE "publishing",
                      g.attempt, answer)]
    BY <1>5 DEF Ai!AnswerArrives
  <2> DEFINE a == Ai!Handler(g.msg, IF answer = "invalid" THEN "rejecting" ELSE "publishing",
                             g.attempt, answer)
  <2>2. a \in AiHandlers /\ a.msg = g.msg /\ a.pc \in {"publishing", "rejecting"}
    BY <1>2 DEF Ai!Handler, AiHandlers, AiSteps, Ai!Answers
  <2> HIDE DEF a
  <2>3. AiMoves(i, a)
    BY <1>5, <2>1, <2>2 DEF AiMoves, Ai!AnswerArrives, Ai!brokerVars, a
  <2> QED
    BY <2>2, <2>3
<1>6. CASE Ai!BrokerAccepts(i)
  <2> DEFINE a == [g EXCEPT !.pc = IF g.pc = "publishing" THEN "confirming" ELSE "confirmingReject"]
  <2>1. a \in AiHandlers /\ a.msg = g.msg /\ a.pc \in {"confirming", "confirmingReject"}
    BY <1>1 DEF AiHandlers, AiSteps
  <2>2. aiInflight' = [aiInflight EXCEPT ![i] = a]
    BY <1>6 DEF Ai!BrokerAccepts
  <2>3. Ai!Verdict(g) \in Judgements /\ Ai!Verdict(g).tx = a.msg.tx
    BY <1>1, <2>1, VerdictIs
  <2> HIDE DEF a
  <2>4. AiMoves(i, a)
    BY <1>6, <2>1, <2>2, <2>3 DEF AiMoves, Ai!BrokerAccepts, Ai!brokerVars
  <2> QED
    BY <2>1, <2>4
<1>7. CASE Ai!Confirmed(i)
  <2> DEFINE a == [g EXCEPT !.pc = "acking"]
  <2>1. a \in AiHandlers /\ a.msg = g.msg /\ a.pc = "acking"
    BY <1>1 DEF AiHandlers, AiSteps
  <2>2. aiInflight' = [aiInflight EXCEPT ![i] = a]
    BY <1>7 DEF Ai!Confirmed
  <2>3. aiProcessed' \in {aiProcessed, Remember(aiProcessed, g.msg.id, MaxTracked)}
    BY <1>7 DEF Ai!Confirmed, Ai!MarkEventProcessed, Ai!Remembered, Ai!Remember, Remember
  <2> HIDE DEF a
  <2>4. AiMoves(i, a)
    BY <1>7, <2>1, <2>2, <2>3 DEF AiMoves, Ai!Confirmed, Ai!brokerVars
  <2> QED
    BY <2>1, <2>4
<1>8. CASE Ai!PublishFails(i)
  <2> DEFINE a == Ai!Handler(g.msg, "rejecting", g.attempt, "processing_error")
  <2>1. a \in AiHandlers /\ a.msg = g.msg /\ a.pc = "rejecting"
    BY <1>2 DEF Ai!Handler, AiHandlers, AiSteps
  <2>2. aiInflight' = [aiInflight EXCEPT ![i] = a]
    BY <1>8 DEF Ai!PublishFails
  <2> HIDE DEF a
  <2>3. AiMoves(i, a)
    BY <1>8, <2>1, <2>2 DEF AiMoves, Ai!PublishFails, Ai!brokerVars
  <2> QED
    BY <2>1, <2>3
<1>9. CASE Ai!RejectFails(i)
  BY <1>9 DEF Ai!RejectFails, AiLeaves, Ai!RemoveAt, RemoveAt, Ai!brokerVars
<1>10. CASE Ai!Ack(i)
  BY <1>10 DEF Ai!Ack, AiLeaves, Ai!RemoveAt, RemoveAt, Ai!brokerVars
<1> QED
  BY <1>3, <1>4, <1>5, <1>6, <1>7, <1>8, <1>9, <1>10 DEF Ai!HandlerStep

LEMMA JudgedStays ==
    ASSUME AiType, NEW t,
           \/ verdicts' = verdicts
           \/ \E v \in Judgements : verdicts' = Append(verdicts, v)
    PROVE  Judged(t) => Judged(t)'
<1>1. \A k \in DOMAIN verdicts : k \in DOMAIN verdicts' /\ verdicts'[k] = verdicts[k]
  <2>1. verdicts \in Seq(Judgements)
    BY DEF AiType
  <2>2. CASE verdicts' = verdicts
    BY <2>2
  <2>3. ASSUME NEW v \in Judgements, verdicts' = Append(verdicts, v)
        PROVE  \A k \in DOMAIN verdicts : k \in DOMAIN verdicts' /\ verdicts'[k] = verdicts[k]
    BY <2>1, <2>3
  <2> QED
    BY <2>2, <2>3
<1> QED
  BY <1>1 DEF Judged

LEMMA ListingsTx ==
    ASSUME AiType
    PROVE  /\ \A i \in DOMAIN aiQueue : aiQueue[i] \in Listings
           /\ \A i \in DOMAIN aiInflight : aiInflight[i] \in AiHandlers /\ aiInflight[i].msg \in Listings
           /\ \A k \in DOMAIN verdicts : verdicts[k] \in Judgements /\ verdicts[k].tx \in Tx
<1>1. \A i \in DOMAIN aiQueue : aiQueue[i] \in Listings
  BY DEF AiType
<1>2. \A i \in DOMAIN aiInflight : aiInflight[i] \in AiHandlers
  BY DEF AiType
<1>3. \A k \in DOMAIN verdicts : verdicts[k] \in Judgements
  BY DEF AiType
<1>4. \A h \in AiHandlers : h.msg \in Listings
  BY DEF AiHandlers
<1>5. \A v \in Judgements : v.tx \in Tx
  BY DEF Judgements
<1> QED
  BY <1>1, <1>2, <1>3, <1>4, <1>5

LEMMA AiInvConsumes ==
    ASSUME AiInv, AiConsumes
    PROVE  AiInv'
<1>0. AiType
  BY DEF AiInv
<1>m. PICK m : m = Head(aiQueue)
  OBVIOUS
<1>1. /\ AiType' /\ AiEffect /\ UNCHANGED <<verdicts, aiErrors, aiProcessed>>
      /\ aiQueue # << >> /\ aiQueue' = Tail(aiQueue)
      /\ \/ /\ Remembered(aiProcessed, m.id) \/ m.id \in aiProcessing
            /\ UNCHANGED <<aiInflight, aiProcessing>>
         \/ /\ aiProcessing' = aiProcessing \cup {m.id}
            /\ \E h \in AiHandlers : /\ h.msg = m /\ h.pc = "fetching"
                                     /\ aiInflight' = Append(aiInflight, h)
  BY <1>0, <1>m, AiConsumesShape
<1>2. UNCHANGED <<stage, copies>>
  BY <1>1 DEF AiEffect, promiseVars
<1>3. m \in Listings /\ copies[m.tx] > 0
  <2>1. aiQueue \in Seq(Listings) /\ 1 \in DOMAIN aiQueue /\ m = aiQueue[1]
    BY <1>0, <1>1, <1>m DEF AiType
  <2> QED
    BY <2>1 DEF AiInv, Sent
<1>4. m.tx \in Tx /\ m.id = <<m.tx, 0>>
  BY <1>3, ListingIs
<1>5. \A j \in DOMAIN aiQueue' : \E k \in DOMAIN aiQueue : aiQueue'[j] = aiQueue[k]
  <2>1. aiQueue \in Seq(Listings)
    BY <1>0 DEF AiType
  <2> QED
    BY <1>1, <2>1
<1>6. \A k \in DOMAIN aiQueue : aiQueue[k] = m \/ \E j \in DOMAIN aiQueue' : aiQueue'[j] = aiQueue[k]
  <2>1. aiQueue \in Seq(Listings)
    BY <1>0 DEF AiType
  <2> QED
    BY <1>1, <1>m, <2>1, HeadOrTail
<1>7. \A t : Judged(t)' <=> Judged(t)
  BY <1>1 DEF Judged
<1>a. /\ \A i \in DOMAIN aiInflight : i \in DOMAIN aiInflight' /\ aiInflight'[i] = aiInflight[i]
      /\ \A i \in DOMAIN aiInflight' :
            \/ i \in DOMAIN aiInflight /\ aiInflight'[i] = aiInflight[i]
            \/ aiInflight'[i].msg = m /\ aiInflight'[i].pc = "fetching"
  <2>1. aiInflight \in Seq(AiHandlers)
    BY <1>0 DEF AiType
  <2>2. CASE UNCHANGED aiInflight
    BY <2>2
  <2>3. ASSUME NEW h \in AiHandlers, h.msg = m, h.pc = "fetching", aiInflight' = Append(aiInflight, h)
        PROVE  /\ \A i \in DOMAIN aiInflight : i \in DOMAIN aiInflight' /\ aiInflight'[i] = aiInflight[i]
               /\ \A i \in DOMAIN aiInflight' :
                     \/ i \in DOMAIN aiInflight /\ aiInflight'[i] = aiInflight[i]
                     \/ aiInflight'[i].msg = m /\ aiInflight'[i].pc = "fetching"
    <3>1. /\ DOMAIN aiInflight' = 1..(Len(aiInflight) + 1) /\ DOMAIN aiInflight = 1..Len(aiInflight)
          /\ aiInflight'[Len(aiInflight) + 1] = h /\ Len(aiInflight) \in Nat
          /\ \A i \in DOMAIN aiInflight : aiInflight'[i] = aiInflight[i]
      BY <2>1, <2>3
    <3>2. \A i \in DOMAIN aiInflight' : i \in DOMAIN aiInflight \/ i = Len(aiInflight) + 1
      BY <3>1
    <3> QED
      BY <2>3, <3>1, <3>2
  <2> QED
    BY <1>1, <2>2, <2>3
<1>8. \A i \in DOMAIN aiInflight : i \in DOMAIN aiInflight' /\ aiInflight'[i] = aiInflight[i]
  BY <1>a
<1>9. \A i \in DOMAIN aiInflight' : \/ i \in DOMAIN aiInflight /\ aiInflight'[i] = aiInflight[i]
                                    \/ aiInflight'[i].msg = m /\ aiInflight'[i].pc = "fetching"
  BY <1>a
<1>10. \A t : Judging(t) => Judging(t)'
  BY <1>8 DEF Judging
<1>11. aiProcessing' = aiProcessing \/ (aiProcessing' = aiProcessing \cup {m.id} /\ Judging(m.tx)')
  <2>1. ASSUME NEW h \in AiHandlers, h.msg = m, h.pc = "fetching", aiInflight' = Append(aiInflight, h)
        PROVE  Judging(m.tx)'
    <3>1. Len(aiInflight) + 1 \in DOMAIN aiInflight' /\ aiInflight'[Len(aiInflight) + 1] = h
      <4>1. aiInflight \in Seq(AiHandlers)
        BY <1>0 DEF AiType
      <4> QED
        BY <2>1, <4>1
    <3> QED
      BY <2>1, <3>1 DEF Judging
  <2> QED
    BY <1>1, <2>1
<1>12. aiErrors = 0 => Judging(m.tx)' \/ Judged(m.tx)'
  <2>1. CASE Remembered(aiProcessed, m.id)
    BY <1>4, <1>7, <2>1 DEF AiInv, SkippedIsJudged
  <2>2. CASE m.id \in aiProcessing
    BY <1>4, <1>10, <2>2 DEF AiInv, SkippedIsJudged
  <2>3. CASE aiProcessing' = aiProcessing \cup {m.id} /\ Judging(m.tx)'
    BY <2>3
  <2> QED
    BY <1>1, <1>11, <2>1, <2>2, <2>3
<1>13. Sent'
  BY <1>1, <1>2, <1>3, <1>5, <1>9 DEF AiInv, Sent
<1>14. SkippedIsJudged'
  <2>1. \A t \in Tx : Remembered(aiProcessed, <<t, 0>>)' => Judged(t)'
    BY <1>1, <1>7 DEF AiInv, SkippedIsJudged
  <2>2. ASSUME NEW t \in Tx, NEW i \in DOMAIN aiInflight', aiInflight'[i].msg.tx = t,
               aiInflight'[i].pc \in {"confirming", "confirmingReject", "acking"}
        PROVE  Judged(t)'
    <3>1. i \in DOMAIN aiInflight /\ aiInflight'[i] = aiInflight[i]
      BY <1>9, <2>2
    <3> QED
      BY <1>7, <2>2, <3>1 DEF AiInv, SkippedIsJudged
  <2>3. ASSUME aiErrors' = 0, NEW t \in Tx, <<t, 0>> \in aiProcessing'
        PROVE  Judging(t)'
    <3>1. CASE <<t, 0>> \in aiProcessing
      BY <1>1, <1>10, <2>3, <3>1 DEF AiInv, SkippedIsJudged
    <3>2. CASE <<t, 0>> \notin aiProcessing
      BY <1>4, <1>11, <2>3, <3>2
    <3> QED
      BY <3>1, <3>2
  <2> QED
    BY <2>1, <2>2, <2>3 DEF SkippedIsJudged
<1>15. NoneUnjudged'
  <2> SUFFICES ASSUME aiErrors' = 0, NEW t \in Tx, copies[t] > 0
               PROVE  AiQueued(t)' \/ Judging(t)' \/ Judged(t)'
    BY <1>2 DEF NoneUnjudged
  <2>1. AiQueued(t) \/ Judging(t) \/ Judged(t)
    BY <1>1 DEF AiInv, NoneUnjudged
  <2>2. CASE AiQueued(t)
    <3>1. AiQueued(t)' \/ t = m.tx
      BY <1>6, <2>2 DEF AiQueued
    <3> QED
      BY <1>1, <1>12, <3>1
  <2> QED
    BY <1>7, <1>10, <2>1, <2>2
<1> QED
  BY <1>1, <1>2, <1>13, <1>14, <1>15 DEF AiInv, PromiseType

LEMMA AiInvHandles ==
    ASSUME AiInv, AiHandles, NEW M, searchQueue \in Seq(M)
    PROVE  AiInv' /\ AiEffect
<1>0. AiType
  BY DEF AiInv
<1>1. PICK i \in DOMAIN aiInflight : Ai!HandlerStep(i)
  BY DEF AiHandles
<1>2. ForwardVerdict /\ UNCHANGED <<stage, copies>>
  BY DEF AiHandles, ForwardVerdict, promiseVars
<1>3. PICK x \in Tx : x = aiInflight[i].msg.tx
  BY <1>0, ListingIs, ListingsTx
<1>4. copies[x] > 0
  BY <1>3 DEF AiInv, Sent
<1>5. aiInflight[i].msg.id = <<x, 0>> /\ aiInflight[i].msg \in Listings
  BY <1>0, <1>3, ListingIs, ListingsTx
<1>6. CASE AiLeaves(i)
  <2>1. aiInflight \in Seq(AiHandlers)
    BY <1>0 DEF AiType
  <2>2. /\ aiInflight' \in Seq(AiHandlers)
        /\ \A j \in DOMAIN aiInflight' :
              Before(i, j) \in DOMAIN aiInflight \ {i} /\ aiInflight'[j] = aiInflight[Before(i, j)]
        /\ \A k \in DOMAIN aiInflight \ {i} : \E j \in DOMAIN aiInflight' : Before(i, j) = k
    BY <1>6, <2>1, RemoveAtIndex DEF AiLeaves
  <2>3. \A t : Judged(t)' <=> Judged(t)
    BY <1>6 DEF AiLeaves, Judged
  <2>4. AiType'
    BY <1>0, <1>6, <2>2 DEF AiType, AiLeaves
  <2>5. aiErrors' = 0 => aiErrors = 0 /\ aiInflight[i].pc = "acking" /\ aiProcessing' = aiProcessing
    BY <1>0, <1>6 DEF AiType, AiLeaves
  <2>6. ASSUME aiErrors' = 0, NEW t
        PROVE  Judging(t) => Judging(t)'
    <3>1. ASSUME NEW k \in DOMAIN aiInflight, aiInflight[k].msg.tx = t, aiInflight[k].pc # "acking"
          PROVE  Judging(t)'
      <4>1. k \in DOMAIN aiInflight \ {i}
        BY <2>5, <2>6, <3>1
      <4>2. PICK j \in DOMAIN aiInflight' : Before(i, j) = k
        BY <2>2, <4>1
      <4> QED
        BY <2>2, <3>1, <4>2 DEF Judging
    <3> QED
      BY <3>1 DEF Judging
  <2>7. Sent'
    BY <1>2, <1>6, <2>2 DEF AiInv, Sent, AiLeaves
  <2>8. SkippedIsJudged'
    <3>1. \A t \in Tx : Remembered(aiProcessed, <<t, 0>>)' => Judged(t)'
      BY <1>6, <2>3 DEF AiInv, SkippedIsJudged, AiLeaves
    <3>2. ASSUME NEW t \in Tx, NEW j \in DOMAIN aiInflight', aiInflight'[j].msg.tx = t,
                 aiInflight'[j].pc \in {"confirming", "confirmingReject", "acking"}
          PROVE  Judged(t)'
      BY <2>2, <2>3, <3>2 DEF AiInv, SkippedIsJudged
    <3>3. aiErrors' = 0 => \A t \in Tx : <<t, 0>> \in aiProcessing' => Judging(t)'
      BY <2>5, <2>6 DEF AiInv, SkippedIsJudged
    <3> QED
      BY <3>1, <3>2, <3>3 DEF SkippedIsJudged
  <2>9. NoneUnjudged'
    <3> SUFFICES ASSUME aiErrors' = 0, NEW t \in Tx, copies[t] > 0
                 PROVE  AiQueued(t)' \/ Judging(t)' \/ Judged(t)'
      BY <1>2 DEF NoneUnjudged
    <3>1. AiQueued(t) \/ Judging(t) \/ Judged(t)
      BY <2>5 DEF AiInv, NoneUnjudged
    <3>2. AiQueued(t) => AiQueued(t)'
      BY <1>6 DEF AiQueued, AiLeaves
    <3> QED
      BY <2>3, <2>6, <3>1, <3>2
  <2>10. AiEffect
    BY <1>2, <1>6, ForwardsNone DEF AiLeaves
  <2> QED
    BY <1>2, <2>4, <2>7, <2>8, <2>9, <2>10 DEF AiInv, PromiseType
<1>7. ASSUME NEW h \in AiHandlers, AiMoves(i, h)
      PROVE  AiInv' /\ AiEffect
  <2>1. aiInflight \in Seq(AiHandlers) /\ verdicts \in Seq(Judgements)
    BY <1>0 DEF AiType
  <2>2. /\ h.msg = aiInflight[i].msg /\ h.msg.tx = x
        /\ aiInflight' = [aiInflight EXCEPT ![i] = h] /\ UNCHANGED aiQueue
    BY <1>3, <1>7 DEF AiMoves
  <2>3. /\ aiInflight' \in Seq(AiHandlers) /\ DOMAIN aiInflight' = DOMAIN aiInflight
        /\ aiInflight'[i] = h /\ \A j \in DOMAIN aiInflight : j # i => aiInflight'[j] = aiInflight[j]
    BY <2>1, <2>2, EditShape
  <2>4. \/ verdicts' = verdicts
        \/ \E v \in Judgements : v.tx = x /\ verdicts' = Append(verdicts, v)
    BY <1>7, <2>2 DEF AiMoves
  <2>5. \A t : Judged(t) => Judged(t)'
    BY <1>0, <2>4, JudgedStays
  <2>6. AiEffect
    <3>1. CASE verdicts' = verdicts
      BY <1>2, <3>1, ForwardsNone
    <3>2. ASSUME NEW v \in Judgements, v.tx = x, verdicts' = Append(verdicts, v)
          PROVE  AiEffect
      BY <1>2, <1>4, <2>1, <3>2, ForwardsOne
    <3> QED
      BY <2>4, <3>1, <3>2
  <2>7. AiType'
    <3>1. aiProcessed' \in Seq(Tx \X Nat)
      <4>1. h.msg.id \in Tx \X Nat /\ aiProcessed \in Seq(Tx \X Nat)
        <5>1. <<x, 0>> \in Tx \X Nat
          OBVIOUS
        <5>2. h.msg.id = <<x, 0>>
          BY <1>5, <2>2
        <5> QED
          BY <1>0, <5>1, <5>2 DEF AiType
      <4>2. Remember(aiProcessed, h.msg.id, MaxTracked) \in Seq(Tx \X Nat)
        BY <4>1 DEF Remember
      <4> QED
        BY <1>7, <4>1, <4>2 DEF AiMoves
    <3>2. verdicts' \in Seq(Judgements)
      BY <2>1, <2>4
    <3>3. aiErrors' \in Nat
      BY <1>0, <1>7 DEF AiMoves, AiType
    <3>4. aiQueue' \in Seq(Listings)
      BY <1>0, <2>2 DEF AiType
    <3> QED
      BY <2>3, <3>1, <3>2, <3>3, <3>4 DEF AiType
  <2>8. Sent'
    <3>1. \A k \in DOMAIN verdicts' : copies[verdicts'[k].tx] > 0
      <4>1. ASSUME NEW v \in Judgements, v.tx = x, verdicts' = Append(verdicts, v)
            PROVE  \A k \in DOMAIN verdicts' : copies[verdicts'[k].tx] > 0
        <5>1. \A k \in DOMAIN verdicts' : verdicts'[k] = v
                                            \/ (k \in DOMAIN verdicts /\ verdicts'[k] = verdicts[k])
          BY <2>1, <4>1
        <5> QED
          BY <1>4, <4>1, <5>1 DEF AiInv, Sent
      <4> QED
        BY <2>4, <4>1 DEF AiInv, Sent
    <3>2. \A j \in DOMAIN aiInflight' : copies[aiInflight'[j].msg.tx] > 0
      BY <1>4, <2>2, <2>3 DEF AiInv, Sent
    <3> QED
      BY <1>2, <2>2, <3>1, <3>2 DEF AiInv, Sent
  <2>9. h.pc \in {"confirming", "confirmingReject", "acking"} => Judged(x)'
    <3>1. CASE \E v \in Judgements : v.tx = x /\ verdicts' = Append(verdicts, v)
      <4>1. PICK v \in Judgements : v.tx = x /\ verdicts' = Append(verdicts, v)
        BY <3>1
      <4>2. Len(verdicts) + 1 \in DOMAIN verdicts' /\ verdicts'[Len(verdicts) + 1] = v
        BY <2>1, <4>1
      <4> QED
        BY <4>1, <4>2 DEF Judged
    <3>2. CASE aiInflight[i].pc \in {"confirming", "confirmingReject"}
      BY <1>3, <2>5, <3>2 DEF AiInv, SkippedIsJudged
    <3> QED
      BY <1>7, <2>2, <3>1, <3>2 DEF AiMoves
  <2>10. \A t : t # x => (Judging(t) => Judging(t)')
    BY <1>3, <2>3 DEF Judging
  <2>11. h.pc # "acking" => Judging(x)'
    BY <2>2, <2>3 DEF Judging
  <2>12. SkippedIsJudged'
    <3>1. ASSUME NEW t \in Tx, Remembered(aiProcessed, <<t, 0>>)'
          PROVE  Judged(t)'
      <4>1. CASE Remembered(aiProcessed, <<t, 0>>)
        BY <2>5, <4>1 DEF AiInv, SkippedIsJudged
      <4>2. CASE ~Remembered(aiProcessed, <<t, 0>>)
        <5>1. aiProcessed' = Remember(aiProcessed, <<x, 0>>, MaxTracked) /\ h.pc = "acking"
          BY <1>5, <1>7, <2>2, <3>1, <4>2 DEF AiMoves
        <5>2. aiProcessed \in Seq(Tx \X Nat) /\ <<x, 0>> \in Tx \X Nat
          BY <1>0 DEF AiType
        <5>3. Remembered(Remember(aiProcessed, <<x, 0>>, MaxTracked), <<t, 0>>)
          BY <3>1, <5>1 DEF Remembered
        <5>4. <<t, 0>> = <<x, 0>> \/ Remembered(aiProcessed, <<t, 0>>)
          BY <5>2, <5>3, RememberAdds, PipelineAssumption
        <5>5. t = x
          BY <4>2, <5>4
        <5> QED
          BY <2>9, <5>1, <5>5
      <4> QED
        BY <4>1, <4>2
    <3>2. ASSUME NEW t \in Tx, NEW j \in DOMAIN aiInflight', aiInflight'[j].msg.tx = t,
                 aiInflight'[j].pc \in {"confirming", "confirmingReject", "acking"}
          PROVE  Judged(t)'
      <4>1. CASE j = i
        BY <2>2, <2>3, <2>9, <3>2, <4>1
      <4>2. CASE j # i
        BY <2>3, <2>5, <3>2, <4>2 DEF AiInv, SkippedIsJudged
      <4> QED
        BY <4>1, <4>2
    <3>3. ASSUME aiErrors' = 0, NEW t \in Tx, <<t, 0>> \in aiProcessing'
          PROVE  Judging(t)'
      <4>1. aiErrors = 0 /\ <<t, 0>> \in aiProcessing
        BY <1>0, <1>7, <3>3 DEF AiMoves, AiType
      <4>2. h.pc = "acking" => t # x
        BY <1>5, <1>7, <2>2, <3>3 DEF AiMoves
      <4> QED
        BY <2>10, <2>11, <4>1, <4>2 DEF AiInv, SkippedIsJudged
    <3> QED
      BY <3>1, <3>2, <3>3 DEF SkippedIsJudged
  <2>13. NoneUnjudged'
    <3> SUFFICES ASSUME aiErrors' = 0, NEW t \in Tx, copies[t] > 0
                 PROVE  AiQueued(t)' \/ Judging(t)' \/ Judged(t)'
      BY <1>2 DEF NoneUnjudged
    <3>1. aiErrors = 0
      BY <1>0, <1>7 DEF AiMoves, AiType
    <3>2. AiQueued(t) \/ Judging(t) \/ Judged(t)
      BY <3>1 DEF AiInv, NoneUnjudged
    <3>3. AiQueued(t) => AiQueued(t)'
      BY <2>2 DEF AiQueued
    <3>4. t = x => Judging(t)' \/ Judged(t)'
      BY <2>9, <2>11
    <3> QED
      BY <2>5, <2>10, <3>2, <3>3, <3>4
  <2> QED
    BY <1>2, <2>6, <2>7, <2>8, <2>12, <2>13 DEF AiInv, PromiseType
<1> QED
  BY <1>0, <1>1, <1>6, <1>7, AiHandlesShape

LEMMA AiInvRestart ==
    ASSUME AiInv, AiRestart
    PROVE  AiInv' /\ AiEffect
<1>0. AiType
  BY DEF AiInv
<1>1. /\ aiQueue' = Requeue(aiInflight, aiQueue) /\ aiInflight' = << >> /\ aiProcessed' = << >>
      /\ aiProcessing' = {} /\ UNCHANGED <<verdicts, aiErrors>>
  BY DEF AiRestart, Ai!Restart, Ai!Requeue, Requeue
<1>2. AiEffect /\ UNCHANGED <<stage, copies>>
  BY <1>1, ForwardsNone DEF AiRestart, ForwardVerdict, promiseVars
<1>3. aiQueue \in Seq(Listings) /\ aiInflight \in Seq(AiHandlers) /\ \A h \in AiHandlers : h.msg \in Listings
  BY <1>0 DEF AiType, AiHandlers
<1>4. /\ Requeue(aiInflight, aiQueue) \in Seq(Listings)
      /\ Len(Requeue(aiInflight, aiQueue)) = Len(aiInflight) + Len(aiQueue)
      /\ \A i \in DOMAIN aiInflight : /\ i \in DOMAIN Requeue(aiInflight, aiQueue)
                                      /\ Requeue(aiInflight, aiQueue)[i] = aiInflight[i].msg
      /\ \A i \in DOMAIN aiQueue :
            /\ Len(aiInflight) + i \in DOMAIN Requeue(aiInflight, aiQueue)
            /\ Requeue(aiInflight, aiQueue)[Len(aiInflight) + i] = aiQueue[i]
  BY <1>3, RequeueShape, RequeueOrder
<1>5. \A j \in DOMAIN aiQueue' : (\E i \in DOMAIN aiInflight : aiQueue'[j] = aiInflight[i].msg)
                                    \/ \E i \in DOMAIN aiQueue : aiQueue'[j] = aiQueue[i]
  <2>1. /\ Len(aiInflight) \in Nat /\ DOMAIN aiInflight = 1..Len(aiInflight)
        /\ Len(aiQueue) \in Nat /\ DOMAIN aiQueue = 1..Len(aiQueue)
        /\ DOMAIN aiQueue' = 1..(Len(aiInflight) + Len(aiQueue))
    BY <1>1, <1>3, <1>4
  <2>2. ASSUME NEW j \in DOMAIN aiQueue'
        PROVE  j \in DOMAIN aiInflight \/ (j - Len(aiInflight) \in DOMAIN aiQueue
                                            /\ Len(aiInflight) + (j - Len(aiInflight)) = j)
    BY <2>1
  <2> QED
    BY <1>1, <1>4, <2>2
<1>6. \A t : Judged(t)' <=> Judged(t)
  BY <1>1 DEF Judged
<1>7. AiType'
  <2>1. << >> \in Seq(AiHandlers) /\ << >> \in Seq(Tx \X Nat)
    OBVIOUS
  <2> QED
    BY <1>0, <1>1, <1>4, <2>1 DEF AiType
<1>8. Sent'
  BY <1>1, <1>2, <1>5 DEF AiInv, Sent
<1>9. SkippedIsJudged'
  BY <1>1 DEF SkippedIsJudged, Remembered
<1>10. NoneUnjudged'
  <2> SUFFICES ASSUME aiErrors' = 0, NEW t \in Tx, copies[t] > 0
               PROVE  AiQueued(t)' \/ Judging(t)' \/ Judged(t)'
    BY <1>2 DEF NoneUnjudged
  <2>1. AiQueued(t) \/ Judging(t) \/ Judged(t)
    BY <1>1 DEF AiInv, NoneUnjudged
  <2>2. AiQueued(t) => AiQueued(t)'
    BY <1>1, <1>4 DEF AiQueued
  <2>3. Judging(t) => AiQueued(t)'
    BY <1>1, <1>4 DEF AiQueued, Judging
  <2> QED
    BY <1>6, <2>1, <2>2, <2>3
<1> QED
  BY <1>2, <1>7, <1>8, <1>9, <1>10 DEF AiInv, PromiseType

\* The event goes to both consumers.
LEMMA Sends ==
    ASSUME NEW t \in Tx, SendCreated(t), PromiseType, AiType, NEW M, searchQueue \in Seq(M)
    PROVE  /\ stage[t] = "owed" /\ copies[t] < MaxCopies /\ copies' = [copies EXCEPT ![t] = @ + 1]
           /\ searchQueue' = Append(searchQueue, CreatedEvent(t))
           /\ aiQueue' = Append(aiQueue, ListingEvent(t))
           /\ UNCHANGED <<stage, searchVars, aiVars, rowQueue, rowVars>>
<1>1. /\ RoutedTo("search-service.queue", CreatedEvent(t)) = <<CreatedEvent(t)>>
      /\ RoutedTo("ai-service.queue", ListingEvent(t)) = <<ListingEvent(t)>>
  BY Routes DEF CreatedEvent, ListingEvent
<1>2. aiQueue \in Seq(Listings)
  BY DEF AiType
<1>3. /\ searchQueue' = searchQueue \o <<CreatedEvent(t)>>
      /\ aiQueue' = aiQueue \o <<ListingEvent(t)>>
      /\ UNCHANGED <<stage, searchVars, aiVars, rowQueue, rowVars>>
  BY <1>1 DEF SendCreated, Promise!Send
<1>4. stage[t] = "owed" /\ copies[t] < MaxCopies /\ copies' = [copies EXCEPT ![t] = @ + 1]
  BY DEF SendCreated, Promise!Send
<1> QED
  BY <1>2, <1>3, <1>4

LEMMA AiInvSends ==
    ASSUME AiInv, NEW t \in Tx, SendCreated(t), NEW M, searchQueue \in Seq(M)
    PROVE  AiInv'
<1>0. AiType /\ PromiseType
  BY DEF AiInv
<1>1. /\ stage[t] = "owed" /\ copies' = [copies EXCEPT ![t] = @ + 1]
      /\ aiQueue' = Append(aiQueue, ListingEvent(t))
      /\ UNCHANGED <<stage, aiInflight, aiProcessed, aiProcessing, verdicts, aiErrors>>
  BY <1>0, Sends DEF aiVars
<1>2. \A u \in Tx : copies[u] \in Nat /\ copies'[u] \in Nat /\ copies'[u] >= copies[u] /\ copies'[t] > 0
                    /\ (u # t => copies'[u] = copies[u])
  BY <1>0, <1>1 DEF PromiseType
<1>3. ListingEvent(t) \in Listings /\ ListingEvent(t).tx = t
  BY DEF Listings, ListingEvent
<1>4. aiQueue \in Seq(Listings)
  BY <1>0 DEF AiType
<1>5. /\ aiQueue' \in Seq(Listings)
      /\ \A i \in DOMAIN aiQueue : i \in DOMAIN aiQueue' /\ aiQueue'[i] = aiQueue[i]
      /\ \A i \in DOMAIN aiQueue' : (i \in DOMAIN aiQueue /\ aiQueue'[i] = aiQueue[i])
                                      \/ aiQueue'[i] = ListingEvent(t)
      /\ Len(aiQueue) + 1 \in DOMAIN aiQueue' /\ aiQueue'[Len(aiQueue) + 1] = ListingEvent(t)
  BY <1>1, <1>3, <1>4
<1>6. AiType' /\ PromiseType'
  <2>1. copies' \in [Tx -> Nat]
    BY <1>0, <1>1 DEF PromiseType
  <2> QED
    BY <1>0, <1>1, <1>5, <2>1 DEF AiType, PromiseType
<1>7. Sent'
  <2>1. \A u \in Tx : copies'[u] > 0 => stage'[u] # "unwritten"
    BY <1>1, <1>2 DEF AiInv, Sent
  <2>2. \A i \in DOMAIN aiQueue' : copies'[aiQueue'[i].tx] > 0
    <3> SUFFICES ASSUME NEW i \in DOMAIN aiQueue'
                 PROVE  copies'[aiQueue'[i].tx] > 0
      OBVIOUS
    <3>1. CASE aiQueue'[i] = ListingEvent(t)
      BY <1>2, <1>3, <3>1
    <3>2. CASE i \in DOMAIN aiQueue /\ aiQueue'[i] = aiQueue[i]
      <4>1. aiQueue[i].tx \in Tx /\ copies[aiQueue[i].tx] > 0
        BY <1>0, <3>2, ListingsTx, ListingIs DEF AiInv, Sent
      <4> QED
        BY <1>2, <3>2, <4>1
    <3> QED
      BY <1>5, <3>1, <3>2
  <2>3. \A i \in DOMAIN aiInflight : copies'[aiInflight[i].msg.tx] > 0
    <3> SUFFICES ASSUME NEW i \in DOMAIN aiInflight
                 PROVE  copies'[aiInflight[i].msg.tx] > 0
      OBVIOUS
    <3>1. aiInflight[i].msg.tx \in Tx /\ copies[aiInflight[i].msg.tx] > 0
      BY <1>0, ListingsTx, ListingIs DEF AiInv, Sent
    <3> QED
      BY <1>2, <3>1
  <2>4. \A k \in DOMAIN verdicts : copies'[verdicts[k].tx] > 0
    <3> SUFFICES ASSUME NEW k \in DOMAIN verdicts
                 PROVE  copies'[verdicts[k].tx] > 0
      OBVIOUS
    <3>1. verdicts[k].tx \in Tx /\ copies[verdicts[k].tx] > 0
      BY <1>0, ListingsTx DEF AiInv, Sent
    <3> QED
      BY <1>2, <3>1
  <2> QED
    BY <1>1, <2>1, <2>2, <2>3, <2>4 DEF Sent
<1>8. SkippedIsJudged'
  BY <1>1 DEF AiInv, SkippedIsJudged, Judged, Judging
<1>9. NoneUnjudged'
  <2> SUFFICES ASSUME aiErrors' = 0, NEW u \in Tx, copies'[u] > 0
               PROVE  AiQueued(u)' \/ Judging(u)' \/ Judged(u)'
    BY DEF NoneUnjudged
  <2>1. CASE u = t
    BY <1>3, <1>5, <2>1 DEF AiQueued
  <2>2. CASE u # t
    <3>1. AiQueued(u) \/ Judging(u) \/ Judged(u)
      BY <1>1, <1>2, <2>2 DEF AiInv, NoneUnjudged
    <3>2. AiQueued(u) => AiQueued(u)'
      BY <1>5 DEF AiQueued
    <3> QED
      BY <1>1, <3>1, <3>2 DEF Judged, Judging
  <2> QED
    BY <2>1, <2>2
<1> QED
  BY <1>6, <1>7, <1>8, <1>9 DEF AiInv

LEMMA AiInvOutbox ==
    ASSUME AiInv, OutboxStep
    PROVE  AiInv' /\ UNCHANGED copies
<1>1. PICK t \in Tx : Promise!Write(t) \/ Promise!Publish(t) \/ Promise!Abandon(t)
  BY DEF OutboxStep
<1>2. /\ UNCHANGED <<copies, aiQueue, aiVars>>
      /\ \/ stage[t] = "unwritten" /\ stage' = [stage EXCEPT ![t] = "owed"]
         \/ stage' = [stage EXCEPT ![t] = "published"]
         \/ stage' = [stage EXCEPT ![t] = "abandoned"]
  BY <1>1 DEF OutboxStep, Promise!Write, Promise!Publish, Promise!Abandon
<1>3. PromiseType'
  BY <1>2 DEF AiInv, PromiseType
<1>4. \A u \in Tx : copies[u] > 0 => stage'[u] # "unwritten"
  BY <1>2 DEF AiInv, Sent, PromiseType
<1>5. UNCHANGED <<aiInflight, aiProcessed, aiProcessing, verdicts, aiErrors>>
  BY <1>2 DEF aiVars
<1> QED
  BY <1>2, <1>3, <1>4, <1>5
     DEF AiInv, AiType, Sent, SkippedIsJudged, NoneUnjudged, AiQueued, Judging, Judged

LEMMA AiInvOther ==
    ASSUME AiInv, UNCHANGED <<promiseVars, aiQueue, aiVars>>
    PROVE  AiInv'
<1>1. UNCHANGED <<stage, copies, aiQueue, aiInflight, aiProcessed, aiProcessing, verdicts, aiErrors>>
  BY DEF promiseVars, aiVars
<1> QED
  BY <1>1 DEF AiInv, PromiseType, AiType, Sent, SkippedIsJudged, NoneUnjudged, AiQueued, Judging, Judged

LEMMA AiInvInit == Init => AiInv
<1> SUFFICES ASSUME Init
             PROVE  AiInv
  OBVIOUS
<1>1. /\ stage = [t \in Tx |-> "unwritten"] /\ copies = [t \in Tx |-> 0]
      /\ aiQueue = << >> /\ aiInflight = << >> /\ aiProcessed = << >> /\ aiProcessing = {}
      /\ verdicts = << >> /\ aiErrors = 0
  BY DEF Init, Promise!Init, Ai!Init
<1>2. PromiseType /\ AiType
  BY <1>1 DEF PromiseType, AiType
<1> QED
  BY <1>1, <1>2 DEF AiInv, Sent, SkippedIsJudged, NoneUnjudged, Remembered

-----------------------------------------------------------------------------
(***************************************************************************)
(* The steps of search-service, seen as steps on its work: the message in  *)
(* its hands and those of its queue.                                       *)
(***************************************************************************)
MessageTypes == {"transaction.created", "ai.enriched", "ai.rejected"}

Messages ==
    [id : Tx \X Nat, type : MessageTypes, tx : Tx, at : Nat \ {0},
     moderation : {"none", "ALLOW", "REVIEW"}]

SearchHandlers ==
    [msg : Messages, known : Search!Documents, pc : {"reading", "writing", "publishing", "acking"}]

Reports ==
    [type : {"search.index.updated", "search.index.rejected"}, tx : Tx, source : MessageTypes,
     sourceId : Tx \X Nat, moderation : {"none", "ALLOW", "REVIEW"}]

\* The values of search-service's variables, when its prefetch limit is one.
SearchType ==
    /\ searchQueue \in Seq(Messages)
    /\ searchInflight \in Seq(SearchHandlers) /\ Len(searchInflight) <= 1
    /\ searchProcessed \in Window(Tx \X Nat, MaxTracked)
    /\ doc \in [Tx -> Search!Documents]
    /\ outcomes \in Seq(Reports)
    /\ searchErrors \in Nat /\ searchRestarts \in Nat

Busy == searchInflight # << >>
Hand == searchInflight[1]
Work == Requeue(searchInflight, searchQueue)

LEMMA WorkType ==
    ASSUME SearchType
    PROVE  /\ Work \in Seq(Messages)
           /\ Busy => /\ searchInflight = <<Hand>> /\ Hand \in SearchHandlers /\ Hand.msg \in Messages
                      /\ Work # << >> /\ Head(Work) = Hand.msg /\ Tail(Work) = searchQueue
                      /\ DOMAIN searchInflight = {1}
           /\ ~Busy => Work = searchQueue
<1>1. \A h \in SearchHandlers : h.msg \in Messages
  BY DEF SearchHandlers
<1>2. searchQueue \in Seq(Messages) /\ searchInflight \in Seq(SearchHandlers) /\ Len(searchInflight) <= 1
  BY DEF SearchType
<1>3. Work \in Seq(Messages)
  BY <1>1, <1>2, RequeueShape DEF Work
<1>4. CASE Busy
  <2>1. /\ Len(searchInflight) = 1 /\ searchInflight = <<searchInflight[1]>>
        /\ searchInflight[1] \in SearchHandlers /\ DOMAIN searchInflight = {1}
    BY <1>2, <1>4, AtMostOne DEF Busy
  <2>2. /\ Requeue(searchInflight, searchQueue) # << >>
        /\ Head(Requeue(searchInflight, searchQueue)) = searchInflight[1].msg
        /\ Tail(Requeue(searchInflight, searchQueue)) = searchQueue
    BY <1>1, <1>2, <2>1, RequeueOne
  <2>3. searchInflight = <<Hand>> /\ Hand \in SearchHandlers /\ DOMAIN searchInflight = {1}
    BY <2>1 DEF Hand
  <2> QED
    BY <1>1, <1>3, <1>4, <2>2, <2>3 DEF Work, Hand
<1>5. CASE ~Busy
  BY <1>2, <1>3, <1>5, RequeueNone DEF Busy, Work
<1> QED
  BY <1>4, <1>5

SkipStep ==
    /\ ~Busy /\ ~Busy' /\ Work # << >> /\ Remembered(searchProcessed, Head(Work).id)
    /\ Work' = Tail(Work)
    /\ UNCHANGED <<searchProcessed, doc, outcomes, searchErrors, searchRestarts>>

StartStep ==
    /\ ~Busy /\ Busy' /\ Work # << >> /\ ~Remembered(searchProcessed, Head(Work).id)
    /\ Head(Work).type = "transaction.created" \/ Head(Work).at <= MaxVerdicts
    /\ Work' = Work
    /\ Hand' = [msg |-> Head(Work), known |-> Search!NoDocument, pc |-> "reading"]
    /\ searchProcessed' = Remember(searchProcessed, Head(Work).id, MaxTracked)
    /\ UNCHANGED <<doc, outcomes, searchErrors, searchRestarts>>

ReadStep ==
    /\ Busy /\ Busy' /\ Hand.pc = "reading"
    /\ Work' = Work
    /\ Hand' = [msg |-> Hand.msg, known |-> doc[Hand.msg.tx], pc |-> "writing"]
    /\ UNCHANGED <<searchProcessed, doc, outcomes, searchErrors, searchRestarts>>

StaleStep ==
    /\ Busy /\ ~Busy' /\ Hand.pc = "reading"
    /\ ~Search!IsIncomingEventApplicable(Hand.msg.at, Search!LastApplied(Hand.msg, doc[Hand.msg.tx]))
    /\ Work' = Tail(Work)
    /\ UNCHANGED <<searchProcessed, doc, outcomes, searchErrors, searchRestarts>>

Writes == doc' = [doc EXCEPT ![Hand.msg.tx] = Search!Merged(Hand.msg, Hand.known, @)]

WriteStep ==
    /\ Busy /\ Busy' /\ Hand.pc = "writing"
    /\ Work' = Work
    /\ Writes
    /\ Hand' = [Hand EXCEPT !.pc = IF Search!OutcomeDue(Hand) THEN "publishing" ELSE "acking"]
    /\ UNCHANGED <<searchProcessed, outcomes, searchErrors, searchRestarts>>

Publishes == outcomes' = Append(outcomes, Search!Outcome(Hand))

PublishStep ==
    /\ Busy /\ Busy' /\ Hand.pc = "publishing"
    /\ Work' = Work
    /\ Publishes
    /\ Hand' = [Hand EXCEPT !.pc = "acking"]
    /\ UNCHANGED <<searchProcessed, doc, searchErrors, searchRestarts>>

AckStep ==
    /\ Busy /\ ~Busy' /\ Hand.pc = "acking"
    /\ Work' = Tail(Work)
    /\ UNCHANGED <<searchProcessed, doc, outcomes, searchErrors, searchRestarts>>

FailStep ==
    /\ Busy /\ ~Busy'
    /\ \/ UNCHANGED <<doc, outcomes>>
       \/ Hand.pc = "writing" /\ Writes /\ UNCHANGED outcomes
       \/ Hand.pc = "publishing" /\ Publishes /\ UNCHANGED doc
    /\ Work' = Tail(Work)
    /\ searchErrors' = searchErrors + 1
    /\ UNCHANGED <<searchProcessed, searchRestarts>>

RestartStep ==
    /\ searchRestarts' > 0
    /\ ~Busy' /\ searchProcessed' = << >>
    /\ Work' = Work
    /\ UNCHANGED <<doc, outcomes, searchErrors>>

SearchStep ==
    \/ SkipStep \/ StartStep \/ ReadStep \/ StaleStep \/ WriteStep \/ PublishStep \/ AckStep
    \/ FailStep \/ RestartStep

\* What the rest of the pipeline sees of a step of search-service.
SearchEffect ==
    /\ UNCHANGED <<promiseVars, aiQueue, aiVars, rowVars>>
    /\ \/ UNCHANGED <<outcomes, rowQueue>>
       \/ \E o \in Reports : /\ outcomes' = Append(outcomes, o)
                             /\ rowQueue' = Append(rowQueue, OutcomeEvent(Len(outcomes) + 1, o))

LEMMA ReportsNone ==
    ASSUME ForwardOutcome, outcomes' = outcomes
    PROVE  SearchEffect
  BY DEF ForwardOutcome, SearchEffect

LEMMA ReportsOne ==
    ASSUME ForwardOutcome, outcomes \in Seq(Reports), NEW o \in Reports,
           outcomes' = Append(outcomes, o), NEW M, rowQueue \in Seq(M)
    PROVE  SearchEffect
<1>1. Len(outcomes') = Len(outcomes) + 1 /\ outcomes' # outcomes /\ outcomes' \in Seq(Reports)
  OBVIOUS
<1>2. Last(outcomes') = o
  BY <1>1 DEF Last
<1> DEFINE m == OutcomeEvent(Len(outcomes) + 1, o)
<1>3. m.type \in {"search.index.updated", "search.index.rejected"}
  BY DEF OutcomeEvent, Reports
<1> HIDE DEF m
<1>4. rowQueue' = rowQueue \o <<m>>
  <2>1. OutcomeEvent(Len(outcomes'), Last(outcomes')) = m
    BY <1>1, <1>2 DEF m
  <2>2. RoutedTo("transaction-service.queue", m) = <<m>>
    BY <1>3, Routes
  <2> QED
    BY <1>1, <2>1, <2>2 DEF ForwardOutcome
<1>5. rowQueue' = Append(rowQueue, m)
  BY <1>4
<1> QED
  BY <1>5 DEF SearchEffect, ForwardOutcome, m

LEMMA SearchMessageIs ==
    ASSUME NEW m \in SearchEvents
    PROVE  /\ m \in Messages /\ m.tx # NoTx /\ m.type \in Search!Handled
           /\ m.type # "transaction.deleted"
           /\ m.type = "transaction.created" \/ m.at <= MaxVerdicts
<1>1. CASE \E t \in Tx : m = CreatedEvent(t)
  <2>1. PICK t \in Tx : m = CreatedEvent(t)
    BY <1>1
  <2>2. m.tx = t /\ m.type = "transaction.created" /\ m.id = <<t, 0>> /\ m.at = 1 /\ m.moderation = "none"
    BY <2>1 DEF CreatedEvent
  <2>3. m \in Messages
    <3>1. <<t, 0>> \in Tx \X Nat /\ 1 \in Nat \ {0}
      OBVIOUS
    <3> QED
      BY <2>1, <3>1 DEF Messages, MessageTypes, CreatedEvent
  <2> QED
    BY <2>2, <2>3, PipelineAssumption DEF Search!Handled, Search!BaseTypes
<1>2. CASE m \in VerdictEvents
  <2>1. /\ m.id \in Tx \X (1..MaxVerdicts) /\ m.type \in {"ai.enriched", "ai.rejected"} /\ m.tx \in Tx
        /\ m.at \in 1..MaxVerdicts /\ m.moderation \in {"none", "ALLOW", "REVIEW"}
        /\ m = [id |-> m.id, type |-> m.type, tx |-> m.tx, at |-> m.at, moderation |-> m.moderation]
    BY <1>2 DEF VerdictEvents
  <2>2. m.id \in Tx \X Nat /\ m.at \in Nat \ {0} /\ m.at <= MaxVerdicts
    BY <2>1
  <2>3. m \in Messages
    BY <2>1, <2>2 DEF Messages, MessageTypes
  <2> QED
    BY <2>1, <2>2, <2>3, PipelineAssumption DEF Search!Handled, Search!AiTypes
<1> QED
  BY <1>1, <1>2 DEF SearchEvents

\* Search and Delivery speak of the same windows.
LEMMA SameDelivery ==
    /\ \A w, id : Search!Remembered(w, id) <=> Remembered(w, id)
    /\ \A w, id, max : Search!Remember(w, id, max) = Remember(w, id, max)
    /\ \A s, q : Search!Requeue(s, q) = Requeue(s, q)
  BY DEF Search!Remembered, Remembered, Search!Remember, Remember, Search!Requeue, Requeue

LEMMA SearchConsumesShape ==
    ASSUME SearchPrefetch = 1, SearchType, SearchConsumes
    PROVE  SearchType' /\ SearchEffect /\ (SkipStep \/ StartStep) /\ UNCHANGED outcomes
<1>1. PICK m \in SearchEvents :
         /\ searchQueue # << >> /\ Len(searchInflight) < 1 /\ m = Head(searchQueue)
         /\ searchQueue' = Tail(searchQueue) /\ UNCHANGED <<doc, outcomes, searchErrors, searchRestarts>>
         /\ \/ /\ Remembered(searchProcessed, m.id)
               /\ UNCHANGED <<searchInflight, searchProcessed>>
            \/ /\ ~Remembered(searchProcessed, m.id)
               /\ searchProcessed' = Remember(searchProcessed, m.id, MaxTracked)
               /\ searchInflight' = Append(searchInflight,
                     [msg |-> m, known |-> Search!NoDocument, pc |-> "reading"])
  <2>1. CASE Search!SkipDuplicate
    BY <2>1, SameDelivery DEF Search!SkipDuplicate, Search!Delivers
  <2>2. CASE Search!IgnoreEvent
    BY <2>2, SearchMessageIs DEF Search!IgnoreEvent
  <2>3. CASE Search!StartHandler
    <3>1. PICK m \in SearchEvents :
             /\ Search!Accept(m)
             /\ searchInflight' = Append(searchInflight,
                   [msg |-> m, known |-> Search!NoDocument,
                    pc |-> IF m.type = "transaction.deleted" THEN "deleting" ELSE "reading"])
      BY <2>3 DEF Search!StartHandler
    <3>2. m.type # "transaction.deleted"
      BY SearchMessageIs
    <3> QED
      BY <2>3, <3>1, <3>2, SameDelivery DEF Search!StartHandler, Search!Accept, Search!Delivers
  <2> QED
    BY <2>1, <2>2, <2>3 DEF SearchConsumes, Search!Consume
<1>2. SearchEffect
  BY <1>1, ReportsNone DEF SearchConsumes
<1>3. m \in Messages /\ (m.type = "transaction.created" \/ m.at <= MaxVerdicts)
  BY SearchMessageIs
<1>4. /\ searchQueue \in Seq(Messages) /\ searchInflight \in Seq(SearchHandlers)
      /\ searchProcessed \in Window(Tx \X Nat, MaxTracked) /\ MaxTracked \in Nat \ {0}
  BY PipelineAssumption DEF SearchType
<1>5. searchInflight = << >>
  BY <1>1, <1>4
<1>6. ~Busy /\ Work = searchQueue /\ Work # << >> /\ Head(Work) = m
  BY <1>1, <1>5, WorkType DEF Busy
<1>7. searchQueue' \in Seq(Messages)
  BY <1>1, <1>4
<1>8. CASE Remembered(searchProcessed, m.id) /\ UNCHANGED <<searchInflight, searchProcessed>>
  <2>1. SearchType'
    BY <1>1, <1>7, <1>8 DEF SearchType
  <2>2. ~Busy'
    BY <1>5, <1>8 DEF Busy
  <2>3. Work' = Tail(Work)
    <3>1. Work' = searchQueue'
      BY <1>5, <1>7, <1>8, RequeueNone DEF Work
    <3> QED
      BY <1>1, <1>6, <3>1
  <2> QED
    BY <1>1, <1>2, <1>6, <1>8, <2>1, <2>2, <2>3 DEF SkipStep
<1>9. CASE /\ ~Remembered(searchProcessed, m.id)
           /\ searchProcessed' = Remember(searchProcessed, m.id, MaxTracked)
           /\ searchInflight' = Append(searchInflight,
                 [msg |-> m, known |-> Search!NoDocument, pc |-> "reading"])
  <2> DEFINE h == [msg |-> m, known |-> Search!NoDocument, pc |-> "reading"]
  <2>1. h \in SearchHandlers /\ h.msg = m
    BY <1>3 DEF SearchHandlers, Search!NoDocument, Search!Documents
  <2>2. searchInflight' = <<h>>
    BY <1>5, <1>9
  <2> HIDE DEF h
  <2>3. searchInflight' \in Seq(SearchHandlers) /\ Len(searchInflight') <= 1 /\ searchInflight'[1] = h
          /\ searchInflight' # << >>
    BY <2>1, <2>2
  <2>4. m.id \in Tx \X Nat
    BY <1>3 DEF Messages
  <2>5. Remember(searchProcessed, m.id, MaxTracked) \in Window(Tx \X Nat, MaxTracked)
    BY <1>4, <1>9, <2>4, RememberShape
  <2>6. SearchType'
    BY <1>1, <1>7, <1>9, <2>3, <2>5 DEF SearchType
  <2>7. Work' = Work
    <3>1. Requeue(<<h>>, Tail(searchQueue)) = searchQueue
      BY <1>1, <1>4, <2>1, WorkStarts
    <3> QED
      BY <1>1, <1>6, <2>2, <3>1 DEF Work
  <2>8. Busy' /\ Hand' = h
    BY <2>3 DEF Busy, Hand
  <2> QED
    BY <1>1, <1>2, <1>3, <1>6, <1>9, <2>6, <2>7, <2>8 DEF StartStep, h
<1> QED
  BY <1>1, <1>8, <1>9

\* The one delivery leaves, or changes and stays.
LEMMA OneLeaves ==
    ASSUME NEW S, NEW s \in Seq(S), Len(s) = 1
    PROVE  RemoveAt(s, 1) = << >>
<1>1. 1 \in DOMAIN s
  OBVIOUS
<1>2. RemoveAt(s, 1) \in Seq(S) /\ Len(RemoveAt(s, 1)) = 0
  BY <1>1, RemoveAtShape
<1> DEFINE r == RemoveAt(s, 1)
<1> HIDE DEF r
<1>3. r \in Seq(S) /\ Len(r) = 0 => r = << >>
  OBVIOUS
<1> QED
  BY <1>2, <1>3 DEF r

LEMMA OneChanges ==
    ASSUME NEW S, NEW s \in Seq(S), Len(s) = 1, NEW g
    PROVE  [s EXCEPT ![1] = g] = <<g>>
  OBVIOUS

LEMMA HandLeaves ==
    ASSUME SearchType, Busy, searchInflight' = RemoveAt(searchInflight, 1), UNCHANGED searchQueue
    PROVE  /\ ~Busy' /\ Work' = Tail(Work)
           /\ searchInflight' \in Seq(SearchHandlers) /\ Len(searchInflight') <= 1
<1>1. /\ searchInflight \in Seq(SearchHandlers) /\ Len(searchInflight) <= 1
      /\ searchInflight # << >> /\ searchQueue \in Seq(Messages)
  BY DEF SearchType, Busy
<1>2. searchInflight' = << >>
  BY <1>1, AtMostOne, OneLeaves
<1>3. Work' = searchQueue
  BY <1>1, <1>2, RequeueNone DEF Work
<1>4. Work' = Tail(Work)
  BY <1>3, WorkType
<1>5. << >> \in Seq(SearchHandlers) /\ Len(<< >>) <= 1
  OBVIOUS
<1> QED
  BY <1>2, <1>4, <1>5 DEF Busy

LEMMA HandChanges ==
    ASSUME SearchType, Busy, NEW g \in SearchHandlers, g.msg = Hand.msg,
           searchInflight' = [searchInflight EXCEPT ![1] = g], UNCHANGED searchQueue
    PROVE  /\ Busy' /\ Work' = Work /\ Hand' = g
           /\ searchInflight' \in Seq(SearchHandlers) /\ Len(searchInflight') <= 1
<1>1. /\ searchInflight \in Seq(SearchHandlers) /\ Len(searchInflight) <= 1
      /\ searchInflight # << >> /\ searchQueue \in Seq(Messages)
  BY DEF SearchType, Busy
<1> DEFINE r == <<g>>
<1>2. searchInflight' = r
  BY <1>1, AtMostOne, OneChanges
<1>3. r \in Seq(SearchHandlers) /\ Len(r) = 1 /\ r[1] = g /\ r # << >> /\ DOMAIN r = {1}
  OBVIOUS
<1> HIDE DEF r
<1>4. [i \in DOMAIN searchInflight |-> searchInflight[i].msg] = [i \in {1} |-> Hand.msg]
  BY <1>1, AtMostOne DEF Hand
<1>5. [i \in DOMAIN searchInflight' |-> searchInflight'[i].msg] = [i \in {1} |-> Hand.msg]
  BY <1>2, <1>3
<1>6. Work' = Work
  BY <1>4, <1>5 DEF Work, Requeue
<1>7. /\ searchInflight' \in Seq(SearchHandlers) /\ Len(searchInflight') <= 1
      /\ searchInflight'[1] = g /\ searchInflight' # << >>
  <2>1. Len(r) <= 1
    BY <1>3
  <2>2. searchInflight' \in Seq(SearchHandlers) /\ Len(searchInflight') <= 1
    BY <1>2, <1>3, <2>1
  <2>3. searchInflight'[1] = g
    BY <1>2, <1>3
  <2>4. searchInflight' # << >>
    BY <1>2, <1>3
  <2> QED
    BY <2>2, <2>3, <2>4
<1> QED
  BY <1>6, <1>7 DEF Busy, Hand

LEMMA MergedDocument ==
    ASSUME NEW m \in Messages, NEW k \in Search!Documents, NEW d \in Search!Documents
    PROVE  Search!Merged(m, k, d) \in Search!Documents
<1>1. m.at \in Nat
  BY DEF Messages
<1>2. CASE m.type \in Search!BaseTypes
  BY <1>1, <1>2 DEF Search!Merged, Search!Documents
<1>3. CASE m.type \notin Search!BaseTypes /\ m.type = "ai.enriched"
  BY <1>1, <1>3 DEF Search!Merged, Search!Documents
<1>4. CASE m.type \notin Search!BaseTypes /\ m.type # "ai.enriched"
  BY <1>1, <1>4 DEF Search!Merged, Search!Documents
<1> QED
  BY <1>2, <1>3, <1>4

LEMMA OutcomeReport ==
    ASSUME NEW h \in SearchHandlers
    PROVE  Search!Outcome(h) \in Reports
<1>1. /\ h.msg \in Messages
      /\ h.msg.tx \in Tx /\ h.msg.type \in MessageTypes /\ h.msg.id \in Tx \X Nat
      /\ h.msg.moderation \in {"none", "ALLOW", "REVIEW"}
  <2>1. h.msg \in Messages
    BY DEF SearchHandlers
  <2> QED
    BY <2>1 DEF Messages
<1> QED
  BY <1>1 DEF Search!Outcome, Reports

LEMMA SearchHandlesShape ==
    ASSUME SearchType, SearchHandles, NEW M, rowQueue \in Seq(M)
    PROVE  /\ SearchType' /\ SearchEffect
           /\ ReadStep \/ StaleStep \/ WriteStep \/ PublishStep \/ AckStep \/ FailStep
<1>0. Busy
  BY DEF SearchHandles, Busy
<1>1. Search!HandlerStep(1) /\ searchInflight[1] = Hand
  BY <1>0, WorkType DEF SearchHandles, Hand
<1>2. /\ Hand \in SearchHandlers /\ Hand.msg \in Messages /\ Hand.msg.tx \in Tx
      /\ Hand.known \in Search!Documents /\ doc[Hand.msg.tx] \in Search!Documents
  <2>1. Hand \in SearchHandlers /\ Hand.msg \in Messages
    BY <1>0, WorkType
  <2>2. Hand.msg.tx \in Tx
    BY <2>1 DEF Messages
  <2>3. Hand.known \in Search!Documents
    BY <2>1 DEF SearchHandlers
  <2> QED
    BY <2>1, <2>2, <2>3 DEF SearchType
<1>3. /\ searchQueue \in Seq(Messages) /\ outcomes \in Seq(Reports) /\ doc \in [Tx -> Search!Documents]
      /\ searchErrors \in Nat /\ searchRestarts \in Nat
      /\ searchProcessed \in Window(Tx \X Nat, MaxTracked)
  BY DEF SearchType
<1>4. ForwardOutcome
  BY DEF SearchHandles
<1>5. Search!Outcome(Hand) \in Reports
  BY <1>2, OutcomeReport
<1>6. Publishes => outcomes' \in Seq(Reports) /\ SearchEffect
  BY <1>3, <1>4, <1>5, ReportsOne DEF Publishes
<1>7. UNCHANGED outcomes => outcomes' \in Seq(Reports) /\ SearchEffect
  BY <1>3, <1>4, ReportsNone
<1>8. Writes => doc' \in [Tx -> Search!Documents]
  <2>1. Search!Merged(Hand.msg, Hand.known, doc[Hand.msg.tx]) \in Search!Documents
    BY <1>2, MergedDocument
  <2> QED
    BY <1>2, <1>3, <2>1 DEF Writes
<1>9. CASE Search!ReadDocument(1)
  <2> DEFINE g == [msg |-> Hand.msg, known |-> doc[Hand.msg.tx], pc |-> "writing"]
  <2>1. g \in SearchHandlers /\ g.msg = Hand.msg
    BY <1>2 DEF SearchHandlers
  <2>2. /\ searchInflight' = [searchInflight EXCEPT ![1] = g]
        /\ UNCHANGED <<searchQueue, searchProcessed, doc, outcomes, searchErrors, searchRestarts>>
        /\ Hand.pc = "reading"
    BY <1>1, <1>9 DEF Search!ReadDocument, Search!brokerVars
  <2> HIDE DEF g
  <2>3. /\ Busy' /\ Work' = Work /\ Hand' = g
        /\ searchInflight' \in Seq(SearchHandlers) /\ Len(searchInflight') <= 1
    BY <1>0, <2>1, <2>2, HandChanges
  <2> QED
    BY <1>0, <1>3, <1>7, <2>2, <2>3 DEF ReadStep, SearchType, g
<1>10. CASE Search!SkipStale(1)
  <2>1. /\ searchInflight' = RemoveAt(searchInflight, 1)
        /\ UNCHANGED <<searchQueue, searchProcessed, doc, outcomes, searchErrors, searchRestarts>>
        /\ Hand.pc = "reading"
        /\ ~Search!IsIncomingEventApplicable(Hand.msg.at,
               Search!LastApplied(Hand.msg, doc[Hand.msg.tx]))
    BY <1>1, <1>10 DEF Search!SkipStale, Search!brokerVars, Search!Leave, Search!RemoveAt, RemoveAt
  <2>2. /\ ~Busy' /\ Work' = Tail(Work)
        /\ searchInflight' \in Seq(SearchHandlers) /\ Len(searchInflight') <= 1
    BY <1>0, <2>1, HandLeaves
  <2> QED
    BY <1>0, <1>3, <1>7, <2>1, <2>2 DEF StaleStep, SearchType
<1>11. CASE Search!UpsertDocument(1)
  <2> DEFINE g == [Hand EXCEPT !.pc = IF Search!OutcomeDue(Hand) THEN "publishing" ELSE "acking"]
  <2>1. g \in SearchHandlers /\ g.msg = Hand.msg
    BY <1>2 DEF SearchHandlers
  <2>2. /\ searchInflight' = [searchInflight EXCEPT ![1] = g]
        /\ UNCHANGED <<searchQueue, searchProcessed, outcomes, searchErrors, searchRestarts>>
        /\ Hand.pc = "writing" /\ Writes
    BY <1>1, <1>11 DEF Search!UpsertDocument, Search!Goto, Search!brokerVars, Search!Upsert, Writes
  <2> HIDE DEF g
  <2>3. /\ Busy' /\ Work' = Work /\ Hand' = g
        /\ searchInflight' \in Seq(SearchHandlers) /\ Len(searchInflight') <= 1
    BY <1>0, <2>1, <2>2, HandChanges
  <2> QED
    BY <1>0, <1>3, <1>7, <1>8, <2>2, <2>3 DEF WriteStep, SearchType, g
<1>12. CASE Search!PublishOutcome(1)
  <2> DEFINE g == [Hand EXCEPT !.pc = "acking"]
  <2>1. g \in SearchHandlers /\ g.msg = Hand.msg
    BY <1>2 DEF SearchHandlers
  <2>2. /\ searchInflight' = [searchInflight EXCEPT ![1] = g]
        /\ UNCHANGED <<searchQueue, searchProcessed, doc, searchErrors, searchRestarts>>
        /\ Hand.pc = "publishing" /\ Publishes
    BY <1>1, <1>12 DEF Search!PublishOutcome, Search!Goto, Search!brokerVars, Search!Emit, Publishes
  <2> HIDE DEF g
  <2>3. /\ Busy' /\ Work' = Work /\ Hand' = g
        /\ searchInflight' \in Seq(SearchHandlers) /\ Len(searchInflight') <= 1
    BY <1>0, <2>1, <2>2, HandChanges
  <2> QED
    BY <1>0, <1>3, <1>6, <2>2, <2>3 DEF PublishStep, SearchType, g
<1>13. ~Search!DeleteDocument(1)
  BY <1>1, <1>2 DEF Search!DeleteDocument, SearchHandlers
<1>14. CASE Search!Ack(1)
  <2>1. /\ searchInflight' = RemoveAt(searchInflight, 1)
        /\ UNCHANGED <<searchQueue, searchProcessed, doc, outcomes, searchErrors, searchRestarts>>
        /\ Hand.pc = "acking"
    BY <1>1, <1>14 DEF Search!Ack, Search!brokerVars, Search!Leave, Search!RemoveAt, RemoveAt
  <2>2. /\ ~Busy' /\ Work' = Tail(Work)
        /\ searchInflight' \in Seq(SearchHandlers) /\ Len(searchInflight') <= 1
    BY <1>0, <2>1, HandLeaves
  <2> QED
    BY <1>0, <1>3, <1>7, <2>1, <2>2 DEF AckStep, SearchType
<1>15. CASE Search!HandlerFails(1)
  <2>1. /\ searchInflight' = RemoveAt(searchInflight, 1)
        /\ UNCHANGED <<searchQueue, searchProcessed, searchRestarts>>
        /\ searchErrors' = searchErrors + 1
    BY <1>1, <1>15 DEF Search!HandlerFails, Search!brokerVars, Search!Leave, Search!RemoveAt, RemoveAt
  <2>2. Hand.pc # "deleting"
    BY <1>2 DEF SearchHandlers
  <2>3. \/ UNCHANGED <<doc, outcomes>>
        \/ Hand.pc = "writing" /\ Writes /\ UNCHANGED outcomes
        \/ Hand.pc = "publishing" /\ Publishes /\ UNCHANGED doc
    BY <1>1, <1>15, <2>2 DEF Search!HandlerFails, Search!Upsert, Search!Emit, Writes, Publishes
  <2>4. /\ ~Busy' /\ Work' = Tail(Work)
        /\ searchInflight' \in Seq(SearchHandlers) /\ Len(searchInflight') <= 1
    BY <1>0, <2>1, HandLeaves
  <2>5. SearchEffect /\ outcomes' \in Seq(Reports) /\ doc' \in [Tx -> Search!Documents]
    BY <1>3, <1>6, <1>7, <1>8, <2>3
  <2>6. searchErrors' \in Nat
    BY <1>3, <2>1
  <2> QED
    BY <1>0, <1>3, <2>1, <2>3, <2>4, <2>5, <2>6 DEF FailStep, SearchType
<1> QED
  BY <1>1, <1>9, <1>10, <1>11, <1>12, <1>13, <1>14, <1>15 DEF Search!HandlerStep

LEMMA SearchRestartShape ==
    ASSUME SearchType, SearchRestart
    PROVE  SearchType' /\ SearchEffect /\ RestartStep /\ UNCHANGED outcomes
<1>1. /\ searchRestarts < SearchRestarts /\ searchRestarts' = searchRestarts + 1
      /\ searchQueue' = Requeue(searchInflight, searchQueue)
      /\ searchInflight' = << >> /\ searchProcessed' = << >> /\ UNCHANGED <<doc, outcomes, searchErrors>>
  BY SameDelivery DEF SearchRestart, Search!Restart
<1>2. SearchEffect
  BY <1>1, ReportsNone DEF SearchRestart
<1>3. searchQueue' = Work /\ Work \in Seq(Messages)
  BY <1>1, WorkType DEF Work
<1>4. Work' = Work
  BY <1>1, <1>3, RequeueNone DEF Work
<1>5. << >> \in Window(Tx \X Nat, MaxTracked)
  BY EmptyWindow, PipelineAssumption
<1>6. << >> \in Seq(SearchHandlers) /\ Len(<< >>) <= 1
  OBVIOUS
<1>7. searchRestarts' > 0 /\ searchRestarts' \in Nat
  BY <1>1, PipelineAssumption DEF SearchType
<1>8. SearchType'
  BY <1>1, <1>3, <1>5, <1>6, <1>7 DEF SearchType
<1> QED
  BY <1>1, <1>2, <1>4, <1>7, <1>8 DEF RestartStep, Busy

\* A message is published to search-service.
LEMMA Arrives ==
    ASSUME SearchType, NEW m \in Messages, searchQueue' = Append(searchQueue, m), UNCHANGED searchVars
    PROVE  /\ SearchType' /\ Work' = Append(Work, m) /\ Busy' = Busy /\ Hand' = Hand
           /\ UNCHANGED <<searchInflight, searchProcessed, doc, outcomes, searchErrors,
                          searchRestarts>>
<1>1. UNCHANGED <<searchInflight, searchProcessed, doc, outcomes, searchErrors, searchRestarts>>
  BY DEF searchVars
<1>2. /\ searchQueue \in Seq(Messages) /\ searchInflight \in Seq(SearchHandlers)
      /\ \A h \in SearchHandlers : h.msg \in Messages
  BY DEF SearchType, SearchHandlers
<1>3. Work' = Append(Work, m)
  BY <1>1, <1>2, WorkGrows DEF Work
<1>4. searchQueue' \in Seq(Messages)
  BY <1>2
<1> QED
  BY <1>1, <1>3, <1>4 DEF SearchType, Busy, Hand

-----------------------------------------------------------------------------
(***************************************************************************)
(* The messages on their way to search-service.                            *)
(***************************************************************************)
IsBase(m) == m.type = "transaction.created"

\* m is the event of a transaction, or the verdict its time says it is.
Genuine(m) ==
    IF IsBase(m) THEN copies[m.tx] > 0 /\ m = CreatedEvent(m.tx)
    ELSE m.at \in DOMAIN verdicts /\ m = VerdictEvent(m.at, verdicts[m.at])

InWork(m) == \E i \in DOMAIN Work : Work[i] = m
InHand(m) == Busy /\ Hand.msg = m

\* The j-th message of the work has not been delivered.
Waits(j) == Busy => j # 1

SearchRemembers(id) == Remembered(searchProcessed, id)

\* Every message is genuine, the verdicts come in their order.
MessagesGenuine ==
    /\ \A i \in DOMAIN Work : Genuine(Work[i])
    /\ \A i, j \in DOMAIN Work :
          i < j /\ ~IsBase(Work[i]) /\ ~IsBase(Work[j]) => Work[i].at < Work[j].at

\* The ids search-service remembers are those of messages it was sent.
IdsGenuine ==
    \A t \in Tx, n \in Nat : SearchRemembers(<<t, n>>) =>
        IF n = 0 THEN copies[t] > 0
        ELSE n \in DOMAIN verdicts /\ n <= MaxVerdicts /\ verdicts[n].tx = t

\* No verdict that waits is remembered, nor the event of a transaction that was sent once.
WaitingNotRemembered ==
    \A j \in DOMAIN Work :
        Waits(j) /\ (~IsBase(Work[j]) \/ copies[Work[j].tx] = 1) => ~SearchRemembers(Work[j].id)

\* An event that was sent once is in the work once; what is in hand is remembered.
CopiesInWork ==
    /\ \A i, j \in DOMAIN Work :
          IsBase(Work[i]) /\ copies[Work[i].tx] = 1 /\ Work[i] = Work[j] => i = j
    /\ Busy => SearchRemembers(Hand.msg.id)

MessagesInv == MessagesGenuine /\ IdsGenuine /\ WaitingNotRemembered /\ CopiesInWork

LEMMA MessageTyped ==
    ASSUME NEW m \in Messages
    PROVE  /\ m.id \in Tx \X Nat /\ m.type \in MessageTypes /\ m.tx \in Tx
           /\ m.at \in Nat \ {0} /\ m.moderation \in {"none", "ALLOW", "REVIEW"}
  BY DEF Messages

LEMMA CreatedIs ==
    ASSUME NEW t \in Tx
    PROVE  /\ CreatedEvent(t) \in Messages /\ IsBase(CreatedEvent(t)) /\ CreatedEvent(t).tx = t
           /\ CreatedEvent(t).id = <<t, 0>> /\ CreatedEvent(t).at = 1
           /\ CreatedEvent(t).moderation = "none"
           /\ \A u : CreatedEvent(u) = CreatedEvent(t) => u = t
<1>1. <<t, 0>> \in Tx \X Nat /\ 1 \in Nat \ {0}
  OBVIOUS
<1> QED
  BY <1>1 DEF CreatedEvent, Messages, MessageTypes, IsBase

LEMMA VerdictMessageIs ==
    ASSUME NEW v \in Judgements, NEW k \in Nat \ {0}
    PROVE  /\ VerdictEvent(k, v) \in Messages /\ ~IsBase(VerdictEvent(k, v))
           /\ VerdictEvent(k, v).tx = v.tx /\ VerdictEvent(k, v).at = k
           /\ VerdictEvent(k, v).id = <<v.tx, k>> /\ VerdictEvent(k, v).type = v.type
           /\ VerdictEvent(k, v).moderation = v.moderation
<1>1. /\ v.tx \in Tx /\ v.type \in {"ai.enriched", "ai.rejected"}
      /\ v.moderation \in {"none", "ALLOW", "REVIEW"}
  BY DEF Judgements
<1>2. <<v.tx, k>> \in Tx \X Nat
  BY <1>1
<1> QED
  BY <1>1, <1>2 DEF VerdictEvent, Messages, MessageTypes, IsBase

LEMMA GenuineVerdict ==
    ASSUME AiType, NEW m \in Messages, Genuine(m), ~IsBase(m)
    PROVE  /\ m.at \in DOMAIN verdicts /\ m = VerdictEvent(m.at, verdicts[m.at])
           /\ verdicts[m.at] \in Judgements /\ m.tx = verdicts[m.at].tx
           /\ m.id = <<m.tx, m.at>> /\ m.type = verdicts[m.at].type
           /\ m.moderation = verdicts[m.at].moderation
<1>1. m.at \in DOMAIN verdicts /\ m = VerdictEvent(m.at, verdicts[m.at])
  BY DEF Genuine
<1>2. verdicts[m.at] \in Judgements
  BY <1>1 DEF AiType
<1>3. m.at \in Nat \ {0}
  BY MessageTyped
<1> QED
  BY <1>1, <1>2, <1>3, VerdictMessageIs

LEMMA GenuineBase ==
    ASSUME NEW m \in Messages, Genuine(m), IsBase(m)
    PROVE  /\ m.tx \in Tx /\ m = CreatedEvent(m.tx) /\ m.id = <<m.tx, 0>> /\ copies[m.tx] > 0
           /\ m.at = 1
  BY MessageTyped, CreatedIs DEF Genuine

\* What was sent stays sent.
LEMMA GenuineStays ==
    ASSUME AiType, NEW m, m \in Messages, Genuine(m),
           \A t \in Tx : copies[t] > 0 => copies'[t] > 0,
           verdicts' = verdicts \/ \E v \in Judgements : verdicts' = Append(verdicts, v)
    PROVE  Genuine(m)'
<1>1. \A k \in DOMAIN verdicts : k \in DOMAIN verdicts' /\ verdicts'[k] = verdicts[k]
  <2>1. verdicts \in Seq(Judgements)
    BY DEF AiType
  <2>2. ASSUME NEW v \in Judgements, verdicts' = Append(verdicts, v)
        PROVE  \A k \in DOMAIN verdicts : k \in DOMAIN verdicts' /\ verdicts'[k] = verdicts[k]
    BY <2>1, <2>2
  <2> QED
    BY <2>2
<1>2. m.tx \in Tx
  BY MessageTyped
<1> QED
  BY <1>1, <1>2 DEF Genuine, IsBase

LEMMA WorkDomain ==
    ASSUME SearchType
    PROVE  /\ Len(Work) \in Nat /\ DOMAIN Work = 1..Len(Work)
           /\ \A i \in DOMAIN Work : Work[i] \in Messages
           /\ Work # << >> => 1 \in DOMAIN Work /\ Head(Work) = Work[1]
           /\ Busy => 1 \in DOMAIN Work /\ Hand.msg = Work[1]
<1>1. Work \in Seq(Messages)
  BY WorkType
<1>2. Work # << >> => 1 \in DOMAIN Work /\ Head(Work) = Work[1]
  BY <1>1
<1> QED
  BY <1>1, <1>2, WorkType

LEMMA WorkTail ==
    ASSUME SearchType, Work # << >>, Work' = Tail(Work)
    PROVE  /\ \A j \in DOMAIN Work' : j + 1 \in DOMAIN Work /\ j + 1 # 1 /\ Work'[j] = Work[j + 1]
           /\ \A j \in DOMAIN Work : j # 1 => j - 1 \in DOMAIN Work' /\ Work'[j - 1] = Work[j]
           /\ DOMAIN Work' \subseteq Nat
<1>1. Work \in Seq(Messages)
  BY WorkType
<1>2. /\ Tail(Work) \in Seq(Messages) /\ Len(Tail(Work)) = Len(Work) - 1 /\ Len(Work) \in Nat
      /\ \A j \in 1..(Len(Work) - 1) : Tail(Work)[j] = Work[j + 1]
      /\ DOMAIN Work = 1..Len(Work)
  BY <1>1
<1>3. DOMAIN Work' = 1..(Len(Work) - 1)
  BY <1>2
<1>4. \A j \in DOMAIN Work : j # 1 => j - 1 \in 1..(Len(Work) - 1) /\ (j - 1) + 1 = j
  BY <1>2
<1> QED
  BY <1>2, <1>3, <1>4

LEMMA WorkAppend ==
    ASSUME SearchType, NEW m \in Messages, Work' = Append(Work, m)
    PROVE  /\ DOMAIN Work' = 1..(Len(Work) + 1) /\ Len(Work) + 1 \in DOMAIN Work'
           /\ \A j \in DOMAIN Work : j \in DOMAIN Work' /\ Work'[j] = Work[j] /\ j < Len(Work) + 1
           /\ Work'[Len(Work) + 1] = m
           /\ \A j \in DOMAIN Work' : j \in DOMAIN Work \/ j = Len(Work) + 1
<1>1. Work \in Seq(Messages)
  BY WorkType
<1> QED
  BY <1>1

-----------------------------------------------------------------------------
(***************************************************************************)
(* The steps of the others, as search-service sees them, and what each     *)
(* kind of step keeps of the messages.                                     *)
(***************************************************************************)
SendStep(t) ==
    /\ copies[t] < MaxCopies /\ copies' = [copies EXCEPT ![t] = @ + 1]
    /\ Work' = Append(Work, CreatedEvent(t))
    /\ (Busy' <=> Busy) /\ Hand' = Hand
    /\ UNCHANGED <<verdicts, searchProcessed, doc, outcomes, searchErrors, searchRestarts>>

VerdictStep(v) ==
    /\ copies[v.tx] > 0 /\ verdicts' = Append(verdicts, v)
    /\ Work' = Append(Work, VerdictEvent(Len(verdicts) + 1, v))
    /\ (Busy' <=> Busy) /\ Hand' = Hand
    /\ UNCHANGED <<copies, searchProcessed, doc, outcomes, searchErrors, searchRestarts>>

QuietStep ==
    /\ Work' = Work /\ (Busy' <=> Busy) /\ Hand' = Hand
    /\ UNCHANGED <<copies, verdicts, searchProcessed, doc, outcomes, searchErrors, searchRestarts>>

\* The work of search-service loses at most its head in a step of its own.
LEMMA SearchWork ==
    ASSUME SearchType, SearchStep
    PROVE  Work' = Work \/ (Work # << >> /\ Work' = Tail(Work))
<1>1. Busy => Work # << >>
  BY WorkType
<1> QED
  BY <1>1 DEF SearchStep, SkipStep, StartStep, ReadStep, StaleStep, WriteStep, PublishStep, AckStep,
         FailStep, RestartStep

LEMMA GenuineSame ==
    ASSUME UNCHANGED <<copies, verdicts>>, NEW m
    PROVE  Genuine(m)' <=> Genuine(m)
  BY DEF Genuine, IsBase

\* A message that is delivered carries an id of its own.
LEMMA HeadId ==
    ASSUME SearchType, AiType, MessagesInv, StartStep, NEW t \in Tx, NEW n \in Nat,
           Head(Work).id = <<t, n>>
    PROVE  /\ Head(Work) = Work[1] /\ 1 \in DOMAIN Work /\ Genuine(Work[1]) /\ Work[1].tx = t
           /\ IF IsBase(Work[1]) THEN n = 0 /\ Work[1] = CreatedEvent(t) /\ copies[t] > 0
              ELSE n = Work[1].at /\ n # 0 /\ n \in DOMAIN verdicts /\ n <= MaxVerdicts
                   /\ verdicts[n].tx = t
<1>1. /\ Work # << >> /\ (IsBase(Head(Work)) \/ Head(Work).at <= MaxVerdicts)
  BY DEF StartStep, IsBase
<1>2. Head(Work) = Work[1] /\ 1 \in DOMAIN Work /\ Work[1] \in Messages
  BY <1>1, WorkDomain
<1>3. Genuine(Work[1])
  BY <1>2 DEF MessagesInv, MessagesGenuine
<1> DEFINE m == Work[1]
<1>4. m \in Messages /\ Genuine(m) /\ m.id = <<t, n>>
  BY <1>2, <1>3
<1> HIDE DEF m
<1>5. CASE IsBase(m)
  <2>1. m.id = <<m.tx, 0>> /\ m = CreatedEvent(m.tx) /\ copies[m.tx] > 0
    BY <1>4, <1>5, GenuineBase
  <2>2. m.tx = t /\ n = 0
    BY <1>4, <2>1
  <2> QED
    BY <1>1, <1>2, <1>3, <1>5, <2>1, <2>2 DEF m
<1>6. CASE ~IsBase(m)
  <2>1. m.id = <<m.tx, m.at>> /\ m.at \in DOMAIN verdicts /\ m.tx = verdicts[m.at].tx
    BY <1>4, <1>6, GenuineVerdict
  <2>2. m.tx = t /\ n = m.at
    BY <1>4, <2>1
  <2>3. m.at \in Nat \ {0}
    BY <1>4, MessageTyped
  <2> QED
    BY <1>1, <1>2, <1>3, <1>6, <2>1, <2>2, <2>3 DEF m
<1> QED
  BY <1>5, <1>6

\* Starting remembers the message's id and nothing else.
LEMMA StartRemembers ==
    ASSUME SearchType, StartStep
    PROVE  /\ Remembered(searchProcessed', Head(Work).id)
           /\ \A id : Remembered(searchProcessed', id)
                       => id = Head(Work).id \/ Remembered(searchProcessed, id)
           /\ Head(Work).id \in Tx \X Nat
<1>1. Head(Work).id \in Tx \X Nat
  BY WorkDomain, MessageTyped DEF StartStep
<1>2. /\ searchProcessed \in Window(Tx \X Nat, MaxTracked) /\ searchProcessed \in Seq(Tx \X Nat)
      /\ MaxTracked \in Nat \ {0}
  BY PipelineAssumption DEF SearchType, Window
<1> DEFINE v == Remember(searchProcessed, Head(Work).id, MaxTracked)
<1>3. searchProcessed' = v
  BY DEF StartStep
<1>4. v \in Seq(Tx \X Nat) /\ Len(v) \in Nat \ {0} /\ v[Len(v)] = Head(Work).id
  BY <1>1, <1>2, RememberPlaces
<1>5. \A id : Remembered(v, id) => id = Head(Work).id \/ Remembered(searchProcessed, id)
  BY <1>1, <1>2, RememberAdds
<1> HIDE DEF v
<1>6. Len(v) \in DOMAIN v
  BY <1>4
<1>7. Remembered(v, Head(Work).id)
  BY <1>4, <1>6 DEF Remembered
<1> QED
  BY <1>1, <1>3, <1>5, <1>7

LEMMA MessagesSearch ==
    ASSUME SearchType, AiType, MessagesInv, SearchStep, UNCHANGED <<copies, verdicts>>
    PROVE  MessagesInv'
<1>1. Work' = Work \/ (Work # << >> /\ Work' = Tail(Work))
  BY SearchWork
<1>2. MessagesGenuine'
  <2>1. CASE Work' = Work
    BY <2>1 DEF MessagesInv, MessagesGenuine, Genuine, IsBase
  <2>2. CASE Work # << >> /\ Work' = Tail(Work)
    <3>1. \A j \in DOMAIN Work' : j + 1 \in DOMAIN Work /\ Work'[j] = Work[j + 1] /\ j \in Nat
      BY <2>2, WorkTail
    <3>2. \A i, j \in DOMAIN Work' : i < j => i + 1 < j + 1
      BY <3>1
    <3> QED
      BY <3>1, <3>2 DEF MessagesInv, MessagesGenuine, Genuine, IsBase
  <2> QED
    BY <1>1, <2>1, <2>2
<1>3. IdsGenuine'
  <2>1. CASE StartStep
    <3> SUFFICES ASSUME NEW t \in Tx, NEW n \in Nat, Remembered(searchProcessed', <<t, n>>)
                 PROVE  IF n = 0 THEN copies[t] > 0
                        ELSE n \in DOMAIN verdicts /\ n <= MaxVerdicts /\ verdicts[n].tx = t
      BY DEF IdsGenuine, SearchRemembers
    <3>1. <<t, n>> = Head(Work).id \/ SearchRemembers(<<t, n>>)
      BY <2>1, StartRemembers DEF SearchRemembers
    <3>2. CASE SearchRemembers(<<t, n>>)
      BY <3>2 DEF MessagesInv, IdsGenuine
    <3>3. CASE <<t, n>> = Head(Work).id
      BY <2>1, <3>3, HeadId
    <3> QED
      BY <3>1, <3>2, <3>3
  <2>2. CASE RestartStep
    BY <2>2 DEF RestartStep, IdsGenuine, SearchRemembers, Remembered
  <2>3. CASE UNCHANGED searchProcessed
    BY <2>3 DEF MessagesInv, IdsGenuine, SearchRemembers, Remembered
  <2> QED
    BY <2>1, <2>2, <2>3 DEF SearchStep, SkipStep, ReadStep, StaleStep, WriteStep, PublishStep,
                            AckStep, FailStep
<1>4. WaitingNotRemembered'
  <2>1. CASE StartStep
    <3> SUFFICES ASSUME NEW j \in DOMAIN Work, j # 1,
                        ~IsBase(Work[j]) \/ copies[Work[j].tx] = 1,
                        Remembered(searchProcessed', Work[j].id)
                 PROVE  FALSE
      BY <2>1 DEF StartStep, WaitingNotRemembered, Waits, IsBase, SearchRemembers
    <3>1. ~Busy /\ Work[j] \in Messages /\ Genuine(Work[j]) /\ j \in Nat
      BY <2>1, WorkDomain DEF StartStep, MessagesInv, MessagesGenuine
    <3>2. ~SearchRemembers(Work[j].id)
      BY <3>1 DEF MessagesInv, WaitingNotRemembered, Waits
    <3>3. Work[j].id = Head(Work).id
      BY <2>1, <3>2, StartRemembers DEF SearchRemembers
    <3>4. CASE IsBase(Work[j])
      <4>1. Work[j].id = <<Work[j].tx, 0>> /\ Work[j] = CreatedEvent(Work[j].tx) /\ Work[j].tx \in Tx
        BY <3>1, <3>4, GenuineBase
      <4>2. IsBase(Work[1]) /\ Work[1] = CreatedEvent(Work[j].tx) /\ 1 \in DOMAIN Work
        BY <2>1, <3>3, <4>1, HeadId
      <4>3. copies[Work[j].tx] = 1 /\ IsBase(Work[j])
        BY <3>4
      <4> QED
        BY <4>1, <4>2, <4>3 DEF MessagesInv, CopiesInWork
    <3>5. CASE ~IsBase(Work[j])
      <4>1. /\ Work[j].id = <<Work[j].tx, Work[j].at>> /\ Work[j].at \in Nat \ {0} /\ Work[j].tx \in Tx
        BY <3>1, <3>5, GenuineVerdict, MessageTyped
      <4>2. ~IsBase(Work[1]) /\ Work[1].at = Work[j].at /\ 1 \in DOMAIN Work
        BY <2>1, <3>3, <4>1, HeadId
      <4>3. 1 < j
        BY <3>1, WorkDomain
      <4>4. Work[1].at < Work[j].at
        BY <3>5, <4>2, <4>3 DEF MessagesInv, MessagesGenuine
      <4> QED
        BY <4>1, <4>2, <4>4
    <3> QED
      BY <3>4, <3>5
  <2>2. CASE RestartStep
    BY <2>2 DEF RestartStep, WaitingNotRemembered, SearchRemembers, Remembered
  <2>3. CASE ReadStep \/ WriteStep \/ PublishStep
    <3>1. Work' = Work /\ searchProcessed' = searchProcessed /\ Busy /\ Busy'
      BY <2>3 DEF ReadStep, WriteStep, PublishStep
    <3> QED
      BY <3>1 DEF MessagesInv, WaitingNotRemembered, Waits, IsBase, SearchRemembers, Remembered
  <2>4. CASE SkipStep \/ StaleStep \/ AckStep \/ FailStep
    <3>1. Work' = Tail(Work) /\ searchProcessed' = searchProcessed /\ ~Busy' /\ Work # << >>
      BY <2>4, WorkType DEF SkipStep, StaleStep, AckStep, FailStep
    <3>2. \A j \in DOMAIN Work' : j + 1 \in DOMAIN Work /\ j + 1 # 1 /\ Work'[j] = Work[j + 1]
      BY <3>1, WorkTail
    <3> QED
      BY <3>1, <3>2 DEF MessagesInv, WaitingNotRemembered, Waits, IsBase, SearchRemembers, Remembered
  <2> QED
    BY <2>1, <2>2, <2>3, <2>4 DEF SearchStep
<1>5. CopiesInWork'
  <2>1. \A i, j \in DOMAIN Work' :
           IsBase(Work'[i]) /\ copies[Work'[i].tx] = 1 /\ Work'[i] = Work'[j] => i = j
    <3>1. CASE Work' = Work
      BY <3>1 DEF MessagesInv, CopiesInWork, IsBase
    <3>2. CASE Work # << >> /\ Work' = Tail(Work)
      <4>1. \A j \in DOMAIN Work' : j + 1 \in DOMAIN Work /\ Work'[j] = Work[j + 1] /\ j \in Nat
        BY <3>2, WorkTail
      <4>2. \A i, j \in DOMAIN Work' : i + 1 = j + 1 => i = j
        BY <4>1
      <4> QED
        BY <4>1, <4>2 DEF MessagesInv, CopiesInWork, IsBase
    <3> QED
      BY <1>1, <3>1, <3>2
  <2>2. ASSUME Busy'
        PROVE  Remembered(searchProcessed', Hand'.msg.id)
    <3>1. CASE StartStep
      BY <3>1, StartRemembers DEF StartStep
    <3>2. CASE ReadStep \/ WriteStep \/ PublishStep
      <4>1. Busy /\ searchProcessed' = searchProcessed /\ Hand'.msg = Hand.msg
        <5>1. Hand \in SearchHandlers \/ ~Busy
          BY WorkType
        <5> QED
          BY <3>2, <5>1 DEF ReadStep, WriteStep, PublishStep, SearchHandlers
      <4>2. Remembered(searchProcessed, Hand.msg.id)
        BY <4>1 DEF MessagesInv, CopiesInWork, SearchRemembers
      <4> QED
        BY <4>1, <4>2
    <3> QED
      BY <2>2, <3>1, <3>2 DEF SearchStep, SkipStep, StaleStep, AckStep, FailStep, RestartStep
  <2> QED
    BY <2>1, <2>2 DEF CopiesInWork, IsBase, SearchRemembers, Remembered
<1> QED
  BY <1>2, <1>3, <1>4, <1>5 DEF MessagesInv

LEMMA MessagesSend ==
    ASSUME SearchType, AiType, PromiseType, MessagesInv, NEW t \in Tx, SendStep(t)
    PROVE  MessagesInv'
<1>1. /\ Work' = Append(Work, CreatedEvent(t)) /\ (Busy' <=> Busy) /\ Hand' = Hand
      /\ UNCHANGED <<verdicts, searchProcessed>>
  BY DEF SendStep
<1>2. /\ CreatedEvent(t) \in Messages /\ IsBase(CreatedEvent(t)) /\ CreatedEvent(t).tx = t
      /\ CreatedEvent(t).id = <<t, 0>>
  BY CreatedIs
<1> DEFINE last == Len(Work) + 1
<1>3. /\ \A j \in DOMAIN Work : j \in DOMAIN Work' /\ Work'[j] = Work[j] /\ j < last
      /\ last \in DOMAIN Work' /\ Work'[last] = CreatedEvent(t)
      /\ \A j \in DOMAIN Work' : j \in DOMAIN Work \/ j = last
      /\ last \in Nat
  BY <1>1, <1>2, WorkAppend, WorkDomain
<1> HIDE DEF last
<1>4. /\ \A u \in Tx : copies[u] \in Nat /\ copies'[u] \in Nat /\ copies'[u] >= copies[u]
      /\ copies'[t] = copies[t] + 1 /\ \A u \in Tx : u # t => copies'[u] = copies[u]
      /\ copies[t] < MaxCopies
  BY DEF SendStep, PromiseType
<1>5. \A j \in DOMAIN Work : Work[j] \in Messages /\ Genuine(Work[j]) /\ j \in Nat
  BY WorkDomain DEF MessagesInv, MessagesGenuine
<1>6. \A m : m \in Messages /\ Genuine(m) => Genuine(m)'
  <2> SUFFICES ASSUME NEW m, m \in Messages, Genuine(m)
               PROVE  Genuine(m)'
    OBVIOUS
  <2>1. \A u \in Tx : copies[u] > 0 => copies'[u] > 0
    BY <1>4
  <2> QED
    BY <1>1, <2>1, GenuineStays
<1>7. MessagesGenuine'
  <2>1. ASSUME NEW j \in DOMAIN Work'
        PROVE  Genuine(Work[j])'
    <3>1. CASE j \in DOMAIN Work
      <4>1. PICK m : m = Work[j]
        OBVIOUS
      <4>2. Genuine(m)' /\ Work'[j] = m
        BY <1>3, <1>5, <1>6, <3>1, <4>1
      <4> QED
        BY <4>2 DEF Genuine, IsBase
    <3>2. CASE j = last
      <4>1. copies'[t] > 0
        BY <1>4
      <4> QED
        BY <1>2, <1>3, <3>2, <4>1 DEF Genuine, IsBase
    <3> QED
      BY <1>3, <3>1, <3>2
  <2>2. ASSUME NEW i \in DOMAIN Work', NEW j \in DOMAIN Work', i < j,
               ~IsBase(Work'[i]), ~IsBase(Work'[j])
        PROVE  Work'[i].at < Work'[j].at
    <3>1. i \in DOMAIN Work /\ j \in DOMAIN Work
      BY <1>2, <1>3, <2>2
    <3> QED
      BY <1>3, <2>2, <3>1 DEF MessagesInv, MessagesGenuine
  <2> QED
    BY <2>1, <2>2 DEF MessagesGenuine, IsBase, Genuine
<1>8. IdsGenuine'
  <2> SUFFICES ASSUME NEW u \in Tx, NEW n \in Nat, SearchRemembers(<<u, n>>)
               PROVE  IF n = 0 THEN copies'[u] > 0
                      ELSE n \in DOMAIN verdicts /\ n <= MaxVerdicts /\ verdicts[n].tx = u
    BY <1>1 DEF IdsGenuine, SearchRemembers
  <2>1. IF n = 0 THEN copies[u] > 0
        ELSE n \in DOMAIN verdicts /\ n <= MaxVerdicts /\ verdicts[n].tx = u
    BY DEF MessagesInv, IdsGenuine
  <2> QED
    BY <1>4, <2>1
<1>9. WaitingNotRemembered'
  <2> SUFFICES ASSUME NEW j \in DOMAIN Work', Busy => j # 1,
                      ~IsBase(Work'[j]) \/ copies'[Work'[j].tx] = 1,
                      Remembered(searchProcessed, Work'[j].id)
               PROVE  FALSE
    BY <1>1 DEF WaitingNotRemembered, SearchRemembers, IsBase, Waits
  <2>1. CASE j \in DOMAIN Work
    <3>1. Work'[j] = Work[j] /\ Work[j].tx \in Tx /\ Genuine(Work[j])
      BY <1>3, <1>5, <2>1, MessageTyped
    <3>2. ~IsBase(Work[j]) \/ copies[Work[j].tx] = 1
      BY <1>4, <3>1 DEF Genuine
    <3> QED
      BY <2>1, <3>1, <3>2 DEF MessagesInv, WaitingNotRemembered, SearchRemembers, Waits
  <2>2. CASE j = last
    <3>1. copies'[t] = 1 /\ SearchRemembers(<<t, 0>>)
      BY <1>2, <1>3, <2>2 DEF SearchRemembers
    <3>2. copies[t] > 0
      BY <3>1 DEF MessagesInv, IdsGenuine
    <3> QED
      BY <1>4, <3>1, <3>2
  <2> QED
    BY <1>3, <2>1, <2>2
<1>10. CopiesInWork'
  <2>1. ASSUME NEW i \in DOMAIN Work', NEW j \in DOMAIN Work', IsBase(Work'[i]),
               copies'[Work'[i].tx] = 1, Work'[i] = Work'[j]
        PROVE  i = j
    <3>1. ASSUME NEW k \in DOMAIN Work, IsBase(Work[k]), copies'[Work[k].tx] = 1
          PROVE  copies[Work[k].tx] = 1 /\ Work[k] # CreatedEvent(t)
      <4>1. Work[k].tx \in Tx /\ copies[Work[k].tx] > 0
        BY <1>5, <3>1, MessageTyped DEF Genuine
      <4> QED
        BY <1>2, <1>4, <3>1, <4>1
    <3>2. CASE i \in DOMAIN Work /\ j \in DOMAIN Work
      <4>1. Work'[i] = Work[i] /\ Work'[j] = Work[j] /\ IsBase(Work[i])
        BY <1>3, <2>1, <3>2
      <4>2. copies[Work[i].tx] = 1
        BY <2>1, <3>1, <3>2, <4>1
      <4> QED
        BY <2>1, <3>2, <4>1, <4>2 DEF MessagesInv, CopiesInWork
    <3> QED
      BY <1>3, <2>1, <3>1, <3>2
  <2>2. Busy' => Remembered(searchProcessed', Hand'.msg.id)
    BY <1>1 DEF MessagesInv, CopiesInWork, SearchRemembers
  <2> QED
    BY <2>1, <2>2 DEF CopiesInWork, IsBase, SearchRemembers
<1> QED
  BY <1>7, <1>8, <1>9, <1>10 DEF MessagesInv

LEMMA VerdictAppended ==
    ASSUME AiType, NEW v \in Judgements, verdicts' = Append(verdicts, v)
    PROVE  /\ \A k \in DOMAIN verdicts : /\ k \in DOMAIN verdicts' /\ verdicts'[k] = verdicts[k]
                                         /\ k < Len(verdicts) + 1 /\ k \in Nat
           /\ Len(verdicts) + 1 \in DOMAIN verdicts' /\ verdicts'[Len(verdicts) + 1] = v
           /\ \A k \in DOMAIN verdicts' : k \in DOMAIN verdicts \/ k = Len(verdicts) + 1
           /\ Len(verdicts) + 1 \in Nat \ {0} /\ Len(verdicts) + 1 \notin DOMAIN verdicts
<1>1. verdicts \in Seq(Judgements)
  BY DEF AiType
<1> QED
  BY <1>1

LEMMA MessagesVerdict ==
    ASSUME SearchType, AiType, MessagesInv, NEW v \in Judgements, VerdictStep(v)
    PROVE  MessagesInv'
<1> DEFINE n == Len(verdicts) + 1
           new == VerdictEvent(n, v)
           last == Len(Work) + 1
<1>1. /\ Work' = Append(Work, new) /\ (Busy' <=> Busy) /\ Hand' = Hand
      /\ UNCHANGED <<copies, searchProcessed>> /\ verdicts' = Append(verdicts, v)
  BY DEF VerdictStep
<1>2. /\ \A k \in DOMAIN verdicts : /\ k \in DOMAIN verdicts' /\ verdicts'[k] = verdicts[k]
                                    /\ k < n /\ k \in Nat
      /\ n \in DOMAIN verdicts' /\ verdicts'[n] = v /\ n \in Nat \ {0} /\ n \notin DOMAIN verdicts
  BY <1>1, VerdictAppended
<1> HIDE DEF n
<1>3. /\ new \in Messages /\ ~IsBase(new) /\ new.at = n /\ new.id = <<v.tx, n>> /\ v.tx \in Tx
  BY <1>2, VerdictMessageIs DEF Judgements
<1> HIDE DEF new
<1>4. /\ \A j \in DOMAIN Work : j \in DOMAIN Work' /\ Work'[j] = Work[j] /\ j < last
      /\ last \in DOMAIN Work' /\ Work'[last] = new
      /\ \A j \in DOMAIN Work' : j \in DOMAIN Work \/ j = last
      /\ last \in Nat
  BY <1>1, <1>3, WorkAppend, WorkDomain
<1> HIDE DEF last
<1>5. \A j \in DOMAIN Work : Work[j] \in Messages /\ Genuine(Work[j]) /\ j \in Nat
  BY WorkDomain DEF MessagesInv, MessagesGenuine
<1>6. \A m : m \in Messages /\ Genuine(m) => Genuine(m)'
  <2> SUFFICES ASSUME NEW m, m \in Messages, Genuine(m)
               PROVE  Genuine(m)'
    OBVIOUS
  <2> QED
    BY <1>1, GenuineStays
<1>7. MessagesGenuine'
  <2>1. ASSUME NEW j \in DOMAIN Work'
        PROVE  Genuine(Work[j])'
    <3>1. CASE j \in DOMAIN Work
      <4>1. PICK m : m = Work[j]
        OBVIOUS
      <4>2. Genuine(m)' /\ Work'[j] = m
        BY <1>4, <1>5, <1>6, <3>1, <4>1
      <4> QED
        BY <4>2 DEF Genuine, IsBase
    <3>2. CASE j = last
      BY <1>2, <1>3, <1>4, <3>2 DEF Genuine, IsBase, new
    <3> QED
      BY <1>4, <3>1, <3>2
  <2>2. ASSUME NEW i \in DOMAIN Work', NEW j \in DOMAIN Work', i < j,
               ~IsBase(Work'[i]), ~IsBase(Work'[j])
        PROVE  Work'[i].at < Work'[j].at
    <3>1. CASE i \in DOMAIN Work /\ j \in DOMAIN Work
      BY <1>4, <2>2, <3>1 DEF MessagesInv, MessagesGenuine
    <3>2. CASE i \in DOMAIN Work /\ j = last
      <4>1. Work[i].at \in DOMAIN verdicts
        BY <1>4, <1>5, <2>2, <3>2, GenuineVerdict
      <4> QED
        BY <1>2, <1>3, <1>4, <3>2, <4>1
    <3>3. i # last
      BY <1>4, <1>5, <2>2
    <3> QED
      BY <1>4, <3>1, <3>2, <3>3
  <2> QED
    BY <2>1, <2>2 DEF MessagesGenuine, IsBase, Genuine
<1>8. IdsGenuine'
  <2> SUFFICES ASSUME NEW u \in Tx, NEW k \in Nat, SearchRemembers(<<u, k>>)
               PROVE  IF k = 0 THEN copies[u] > 0
                      ELSE k \in DOMAIN verdicts' /\ k <= MaxVerdicts /\ verdicts'[k].tx = u
    BY <1>1 DEF IdsGenuine, SearchRemembers
  <2> QED
    BY <1>2 DEF MessagesInv, IdsGenuine
<1>9. WaitingNotRemembered'
  <2> SUFFICES ASSUME NEW j \in DOMAIN Work', Busy => j # 1,
                      ~IsBase(Work'[j]) \/ copies[Work'[j].tx] = 1,
                      Remembered(searchProcessed, Work'[j].id)
               PROVE  FALSE
    BY <1>1 DEF WaitingNotRemembered, SearchRemembers, IsBase, Waits
  <2>1. CASE j \in DOMAIN Work
    BY <1>4, <2>1 DEF MessagesInv, WaitingNotRemembered, SearchRemembers, Waits
  <2>2. CASE j = last
    <3>1. SearchRemembers(<<v.tx, n>>)
      BY <1>3, <1>4, <2>2 DEF SearchRemembers
    <3>2. n \in DOMAIN verdicts
      BY <1>2, <1>3, <3>1 DEF MessagesInv, IdsGenuine
    <3> QED
      BY <1>2, <3>2
  <2> QED
    BY <1>4, <2>1, <2>2
<1>10. CopiesInWork'
  <2>1. ASSUME NEW i \in DOMAIN Work', NEW j \in DOMAIN Work', IsBase(Work'[i]),
               copies[Work'[i].tx] = 1, Work'[i] = Work'[j]
        PROVE  i = j
    <3>1. i \in DOMAIN Work /\ j \in DOMAIN Work
      BY <1>3, <1>4, <2>1
    <3> QED
      BY <1>4, <2>1, <3>1 DEF MessagesInv, CopiesInWork
  <2>2. Busy' => Remembered(searchProcessed', Hand'.msg.id)
    BY <1>1 DEF MessagesInv, CopiesInWork, SearchRemembers
  <2> QED
    BY <1>1, <2>1, <2>2 DEF CopiesInWork, IsBase, SearchRemembers
<1> QED
  BY <1>7, <1>8, <1>9, <1>10 DEF MessagesInv

LEMMA MessagesQuiet ==
    ASSUME MessagesInv, QuietStep
    PROVE  MessagesInv'
<1>1. MessagesGenuine' /\ IdsGenuine'
  BY DEF MessagesInv, QuietStep, MessagesGenuine, IdsGenuine, Genuine, IsBase, SearchRemembers, Remembered
<1>2. WaitingNotRemembered' /\ CopiesInWork'
  BY DEF MessagesInv, QuietStep, WaitingNotRemembered, CopiesInWork, Waits, IsBase, SearchRemembers,
         Remembered
<1> QED
  BY <1>1, <1>2 DEF MessagesInv

-----------------------------------------------------------------------------
(***************************************************************************)
(* A transaction is settled when search-service is done with its event for *)
(* good.                                                                   *)
(***************************************************************************)
Settled(t) ==
    /\ ~InHand(CreatedEvent(t))
    /\ IF Forgetful THEN copies[t] = 1 /\ ~InWork(CreatedEvent(t))
       ELSE SearchRemembers(<<t, 0>>)

\* Of a transaction that may be replayed nothing is said.
Past(t) == MayReplay(t) \/ Settled(t)

LEMMA PastIsSent ==
    ASSUME PromiseType, MessagesInv, NEW t \in Tx, Past(t)
    PROVE  copies[t] > 0
<1>1. copies[t] \in Nat
  BY DEF PromiseType
<1>2. CASE MayReplay(t)
  BY <1>1, <1>2 DEF MayReplay
<1>3. CASE Settled(t) /\ Forgetful
  BY <1>3 DEF Settled
<1>4. CASE Settled(t) /\ ~Forgetful
  BY <1>4 DEF Settled, MessagesInv, IdsGenuine
<1> QED
  BY <1>2, <1>3, <1>4 DEF Past

\* The event of a transaction that was sent waits until it is past, and it waits in
\* front of the verdicts about the transaction.
SentSettles == \A t \in Tx : copies[t] > 0 => Past(t) \/ InWork(CreatedEvent(t))

EventFirst ==
    \A j \in DOMAIN Work : ~IsBase(Work[j]) =>
        \/ Past(Work[j].tx)
        \/ \E i \in DOMAIN Work : i < j /\ Work[i] = CreatedEvent(Work[j].tx)

SettledInv == SentSettles /\ EventFirst

\* search-service that forgot once stays one that may have forgotten; until then it
\* remembers what it remembered.
LEMMA MemoryMoves ==
    ASSUME SearchType, SearchStep
    PROVE  /\ Forgetful => Forgetful'
           /\ ~Forgetful' => /\ ~RestartStep
                             /\ \A id : SearchRemembers(id) => Remembered(searchProcessed', id)
<1>1. /\ searchProcessed \in Window(Tx \X Nat, MaxTracked) /\ MaxTracked \in Nat \ {0}
      /\ searchRestarts \in Nat
  BY PipelineAssumption DEF SearchType
<1>2. CASE StartStep
  <2>1. Head(Work).id \in Tx \X Nat
    BY <1>2, StartRemembers
  <2>2. /\ searchProcessed' = Remember(searchProcessed, Head(Work).id, MaxTracked)
        /\ searchRestarts' = searchRestarts
    BY <1>2 DEF StartStep
  <2>3. /\ Len(searchProcessed) = MaxTracked => Len(searchProcessed') = MaxTracked
        /\ Len(searchProcessed') # MaxTracked =>
               \A id : Remembered(searchProcessed, id) => Remembered(searchProcessed', id)
    <3>1. ASSUME NEW v, v = Remember(searchProcessed, Head(Work).id, MaxTracked)
          PROVE  /\ Len(searchProcessed) = MaxTracked => Len(v) = MaxTracked
                 /\ Len(v) # MaxTracked =>
                        \A id : Remembered(searchProcessed, id) => Remembered(v, id)
      BY <1>1, <2>1, <3>1, RememberForgets
    <3> QED
      BY <2>2, <3>1
  <2>4. ~RestartStep
    BY <1>2 DEF StartStep, RestartStep
  <2> QED
    BY <2>2, <2>3, <2>4 DEF Forgetful, SearchRemembers
<1>3. CASE RestartStep
  BY <1>3 DEF RestartStep, Forgetful
<1>4. CASE UNCHANGED <<searchProcessed, searchRestarts>>
  <2>1. Forgetful' <=> Forgetful
    BY <1>4 DEF Forgetful
  <2>2. ~Forgetful' => ~RestartStep
    BY DEF Forgetful, RestartStep
  <2> QED
    BY <1>4, <2>1, <2>2 DEF SearchRemembers
<1> QED
  BY <1>2, <1>3, <1>4 DEF SearchStep, SkipStep, ReadStep, StaleStep, WriteStep, PublishStep,
                          AckStep, FailStep

\* What is in hand at the end of a step of search-service.
LEMMA HandMoves ==
    ASSUME SearchType, SearchStep, Busy'
    PROVE  \/ StartStep /\ Hand'.msg = Head(Work)
           \/ (ReadStep \/ WriteStep \/ PublishStep) /\ Busy /\ Hand'.msg = Hand.msg
<1>1. Busy => Hand \in SearchHandlers
  BY WorkType
<1> QED
  BY <1>1 DEF SearchStep, SkipStep, StartStep, ReadStep, StaleStep, WriteStep, PublishStep, AckStep,
         FailStep, RestartStep, SearchHandlers

LEMMA InHandIsWork ==
    ASSUME SearchType, NEW m, InHand(m)
    PROVE  1 \in DOMAIN Work /\ Work[1] = m /\ InWork(m)
  BY WorkDomain DEF InHand, InWork

\* An event that was sent once and is remembered does not wait.
LEMMA OnceAndRemembered ==
    ASSUME SearchType, MessagesInv, NEW t \in Tx, copies[t] = 1, SearchRemembers(<<t, 0>>),
           ~InHand(CreatedEvent(t))
    PROVE  ~InWork(CreatedEvent(t))
<1> SUFFICES ASSUME NEW i \in DOMAIN Work, Work[i] = CreatedEvent(t)
             PROVE  FALSE
  BY DEF InWork
<1>1. Waits(i)
  BY WorkDomain DEF Waits, InHand
<1>2. Work[i].tx = t /\ Work[i].id = <<t, 0>>
  BY CreatedIs
<1> QED
  BY <1>1, <1>2 DEF MessagesInv, WaitingNotRemembered

\* What is past stays past.
LEMMA PastStaysSearch ==
    ASSUME SearchType, SearchType', AiType, PromiseType, MessagesInv, SearchStep,
           UNCHANGED <<copies, verdicts>>, NEW t \in Tx, Past(t)
    PROVE  Past(t)'
<1> DEFINE m == CreatedEvent(t)
<1>1. m \in Messages /\ IsBase(m) /\ m.tx = t /\ m.id = <<t, 0>>
  BY CreatedIs
<1>2. MayReplay(t) => MayReplay(t)'
  BY MemoryMoves DEF MayReplay
<1> SUFFICES ASSUME Settled(t), ~MayReplay(t)'
             PROVE  Settled(t)'
  BY <1>2 DEF Past
<1>3. ASSUME copies[t] = 1, \A i \in DOMAIN Work : Work[i] # m
      PROVE  copies'[t] = 1 /\ ~InWork(m)' /\ ~InHand(m)'
  <2>1. \A i \in DOMAIN Work' : Work'[i] # m
    <3>1. CASE Work' = Work
      BY <1>3, <3>1
    <3>2. CASE Work # << >> /\ Work' = Tail(Work)
      BY <1>3, <3>2, WorkTail
    <3> QED
      BY <3>1, <3>2, SearchWork
  <2>2. ~(Busy' /\ Hand'.msg = m)
    <3>1. CASE Busy'
      <4>1. 1 \in DOMAIN Work /\ Hand'.msg = Work[1]
        BY <3>1, HandMoves, WorkDomain DEF StartStep
      <4> QED
        BY <1>3, <4>1
    <3> QED
      BY <3>1
  <2> HIDE DEF m
  <2> QED
    BY <1>3, <2>1, <2>2 DEF InHand, InWork, m, CreatedEvent
<1>4. CASE Forgetful'
  <2>1. copies[t] = 1
    <3>1. copies[t] \in Nat /\ copies[t] > 0
      <4>1. Forgetful => copies[t] = 1
        BY DEF Settled
      <4>2. ~Forgetful => copies[t] > 0
        BY DEF Settled, MessagesInv, IdsGenuine
      <4> QED
        BY <4>1, <4>2 DEF PromiseType
    <3>2. ~(copies[t] > 1)
      BY <1>4 DEF MayReplay
    <3> QED
      BY <3>1, <3>2
  <2>2. ~InWork(m)
    <3>1. CASE Forgetful
      BY <3>1 DEF Settled
    <3>2. CASE ~Forgetful
      BY <2>1, <3>2, OnceAndRemembered DEF Settled
    <3> QED
      BY <3>1, <3>2
  <2>3. copies'[t] = 1 /\ ~InWork(m)' /\ ~InHand(m)'
    BY <1>3, <2>1, <2>2 DEF InWork
  <2> QED
    BY <1>4, <2>3 DEF Settled
<1>5. CASE ~Forgetful'
  <2>1. ~Forgetful
    BY <1>5, MemoryMoves
  <2>2. SearchRemembers(<<t, 0>>) /\ ~InHand(m)
    BY <2>1 DEF Settled
  <2>3. Remembered(searchProcessed', <<t, 0>>)
    BY <1>5, <2>2, MemoryMoves
  <2>4. ~(Busy' /\ Hand'.msg = m)
    <3> SUFFICES ASSUME Busy', Hand'.msg = m
                 PROVE  FALSE
      OBVIOUS
    <3>1. CASE StartStep /\ Hand'.msg = Head(Work)
      BY <1>1, <2>2, <3>1 DEF StartStep, SearchRemembers
    <3>2. CASE Busy /\ Hand'.msg = Hand.msg
      BY <2>2, <3>2 DEF InHand
    <3> QED
      BY <3>1, <3>2, HandMoves
  <2>5. ~InHand(m)'
    BY <2>4 DEF InHand, CreatedEvent
  <2> QED
    BY <1>5, <2>3, <2>5 DEF Settled, SearchRemembers
<1> QED
  BY <1>4, <1>5

LeaveStep == StaleStep \/ AckStep \/ FailStep

\* The event of a transaction is past when it leaves the head of the work.
LEMMA HeadSettles ==
    ASSUME SearchType, SearchType', AiType, PromiseType, MessagesInv, SearchStep,
           UNCHANGED <<copies, verdicts>>, NEW t \in Tx,
           Work # << >>, Work' = Tail(Work), Work[1] = CreatedEvent(t)
    PROVE  Past(t)'
<1> SUFFICES ASSUME ~MayReplay(t)'
             PROVE  Settled(t)'
  BY DEF Past
<1> DEFINE m == CreatedEvent(t)
<1>1. m \in Messages /\ IsBase(m) /\ m.tx = t /\ m.id = <<t, 0>>
  BY CreatedIs
<1>2. 1 \in DOMAIN Work /\ Head(Work) = Work[1] /\ copies[t] > 0
  BY <1>1, WorkDomain DEF MessagesInv, MessagesGenuine, Genuine
<1>3. \A j \in DOMAIN Work' : j + 1 \in DOMAIN Work /\ j + 1 # 1 /\ Work'[j] = Work[j + 1]
  BY WorkTail
<1>4. Work' # Work
  <2>1. Len(Work') # Len(Work)
    BY <1>2, WorkType
  <2> QED
    BY <2>1
<1>5. ~Busy'
  BY <1>4, HandMoves DEF StartStep, ReadStep, WriteStep, PublishStep
<1>6. CASE Forgetful'
  <2>1. copies[t] = 1
    BY <1>2, <1>6 DEF MayReplay, PromiseType
  <2>2. \A j \in DOMAIN Work' : Work'[j] # m
    BY <1>1, <1>2, <1>3, <2>1 DEF MessagesInv, CopiesInWork
  <2>3. ~InWork(m)' /\ ~InHand(m)'
    BY <1>5, <2>2 DEF InWork, InHand, CreatedEvent
  <2> QED
    BY <1>6, <2>1, <2>3 DEF Settled
<1>7. CASE ~Forgetful'
  <2>1. ~StartStep /\ ~ReadStep /\ ~WriteStep /\ ~PublishStep /\ ~RestartStep
    BY <1>4 DEF StartStep, ReadStep, WriteStep, PublishStep, RestartStep
  <2>2. CASE SkipStep
    BY <1>1, <1>2, <1>7, <2>2 DEF SkipStep, Settled, InHand, SearchRemembers
  <2>3. CASE LeaveStep
    <3>1. Busy /\ ~Busy' /\ searchProcessed' = searchProcessed
      BY <2>3 DEF LeaveStep, StaleStep, AckStep, FailStep
    <3>2. SearchRemembers(<<t, 0>>)
      BY <1>1, <1>2, <3>1, WorkDomain DEF MessagesInv, CopiesInWork
    <3> QED
      BY <1>7, <3>1, <3>2 DEF Settled, InHand, SearchRemembers
  <2> QED
    BY <2>1, <2>2, <2>3 DEF SearchStep, LeaveStep
<1> QED
  BY <1>6, <1>7

\* Nothing else settles it.
LEMMA NewlySettled ==
    ASSUME SearchType, SearchType', AiType, PromiseType, MessagesInv, SettledInv, SearchStep,
           UNCHANGED <<copies, verdicts>>, NEW t \in Tx, ~Settled(t), Settled(t)'
    PROVE  LeaveStep /\ InHand(CreatedEvent(t))
<1> DEFINE m == CreatedEvent(t)
<1>1. m \in Messages /\ IsBase(m) /\ m.tx = t /\ m.id = <<t, 0>>
  BY CreatedIs
<1>2. CASE Forgetful'
  <2>1. copies[t] = 1 /\ \A j \in DOMAIN Work' : Work'[j] # m
    BY <1>2 DEF Settled, InWork, CreatedEvent
  <2>2. InWork(m)
    BY <2>1 DEF SettledInv, SentSettles, Past, MayReplay
  <2>3. PICK i \in DOMAIN Work : Work[i] = m
    BY <2>2 DEF InWork
  <2>4. Work' # Work
    BY <2>1, <2>3
  <2>5. Work # << >> /\ Work' = Tail(Work)
    BY <2>4, SearchWork
  <2>6. i = 1
    <3>1. i # 1 => i - 1 \in DOMAIN Work' /\ Work'[i - 1] = Work[i]
      BY <2>5, WorkTail
    <3> QED
      BY <2>1, <2>3, <3>1
  <2>7. SkipStep \/ LeaveStep
    BY <2>4 DEF SearchStep, LeaveStep, StartStep, ReadStep, WriteStep, PublishStep, RestartStep
  <2>8. ~SkipStep
    <3> SUFFICES ASSUME SkipStep
                 PROVE  FALSE
      OBVIOUS
    <3>1. ~Busy /\ SearchRemembers(Work[1].id)
      BY WorkDomain DEF SkipStep, SearchRemembers
    <3> QED
      BY <1>1, <2>1, <2>3, <2>6, <3>1 DEF MessagesInv, WaitingNotRemembered, Waits
  <2>9. LeaveStep /\ Busy
    BY <2>7, <2>8 DEF LeaveStep, StaleStep, AckStep, FailStep
  <2> QED
    BY <2>3, <2>6, <2>9, WorkDomain DEF InHand
<1>3. CASE ~Forgetful'
  <2>1. Remembered(searchProcessed', <<t, 0>>) /\ ~(Busy' /\ Hand'.msg = m)
    BY <1>3 DEF Settled, SearchRemembers, InHand, CreatedEvent
  <2>2. CASE ~SearchRemembers(<<t, 0>>)
    <3>1. StartStep
      BY <2>1, <2>2 DEF SearchStep, SkipStep, ReadStep, StaleStep, WriteStep, PublishStep, AckStep,
             FailStep, RestartStep, SearchRemembers, Remembered
    <3>2. Head(Work).id = <<t, 0>>
      BY <2>1, <2>2, <3>1, StartRemembers DEF SearchRemembers
    <3>3. Head(Work) = m
      BY <3>1, <3>2, HeadId
    <3> QED
      BY <2>1, <3>1, <3>3 DEF StartStep
  <2>3. CASE SearchRemembers(<<t, 0>>)
    <3>1. InHand(m) /\ ~RestartStep
      BY <1>3, <2>3, MemoryMoves DEF Settled
    <3>2. Busy /\ Hand.msg = m
      BY <3>1 DEF InHand
    <3>3. CASE Busy'
      BY <2>1, <3>2, <3>3, HandMoves DEF StartStep
    <3>4. CASE ~Busy'
      BY <3>1, <3>2, <3>4 DEF SearchStep, SkipStep, StartStep, ReadStep, WriteStep, PublishStep, LeaveStep
    <3> QED
      BY <3>3, <3>4
  <2> QED
    BY <2>2, <2>3
<1> QED
  BY <1>2, <1>3

LEMMA SettledSearch ==
    ASSUME SearchType, SearchType', AiType, PromiseType, MessagesInv, SettledInv, SearchStep,
           UNCHANGED <<copies, verdicts>>
    PROVE  SettledInv'
<1>1. \A t \in Tx : Past(t) => Past(t)'
  BY PastStaysSearch
<1>2. Work' = Work \/ (Work # << >> /\ Work' = Tail(Work))
  BY SearchWork
<1>3. \A t \in Tx : Work # << >> /\ Work' = Tail(Work) /\ Work[1] = CreatedEvent(t) => Past(t)'
  BY HeadSettles
<1>4. Work # << >> /\ Work' = Tail(Work) =>
        /\ \A j \in DOMAIN Work' : j + 1 \in DOMAIN Work /\ Work'[j] = Work[j + 1] /\ j \in Nat
        /\ \A j \in DOMAIN Work : j # 1 => j - 1 \in DOMAIN Work' /\ Work'[j - 1] = Work[j]
  BY WorkTail
<1>5. \A j \in DOMAIN Work : j \in Nat /\ Work[j] \in Messages /\ Work[j].tx \in Tx
  BY WorkDomain, MessageTyped
<1>6. ASSUME NEW t \in Tx, copies[t] > 0
      PROVE  Past(t)' \/ InWork(CreatedEvent(t))'
  <2>1. CASE Past(t)
    BY <1>1, <2>1
  <2>2. CASE InWork(CreatedEvent(t))
    <3>1. PICK i \in DOMAIN Work : Work[i] = CreatedEvent(t)
      BY <2>2 DEF InWork
    <3>2. Past(t)' \/ \E j \in DOMAIN Work' : Work'[j] = CreatedEvent(t)
      BY <1>2, <1>3, <1>4, <3>1
    <3> QED
      BY <3>2 DEF InWork, CreatedEvent
  <2> QED
    BY <1>6, <2>1, <2>2 DEF SettledInv, SentSettles
<1>7. ASSUME NEW j \in DOMAIN Work', ~IsBase(Work'[j]), NEW t \in Tx, Work'[j].tx = t
      PROVE  Past(t)' \/ \E i \in DOMAIN Work' : i < j /\ Work'[i] = CreatedEvent(t)
  <2>1. CASE Work' = Work
    <3>1. Past(t) \/ \E i \in DOMAIN Work : i < j /\ Work[i] = CreatedEvent(t)
      BY <1>7, <2>1 DEF SettledInv, EventFirst
    <3> QED
      BY <1>1, <2>1, <3>1
  <2>2. CASE Work # << >> /\ Work' = Tail(Work)
    <3>1. j + 1 \in DOMAIN Work /\ Work'[j] = Work[j + 1] /\ j \in Nat
      BY <1>4, <2>2
    <3>2. Past(t) \/ \E i \in DOMAIN Work : i < j + 1 /\ Work[i] = CreatedEvent(t)
      BY <1>7, <3>1 DEF SettledInv, EventFirst
    <3>3. ASSUME NEW i \in DOMAIN Work, i < j + 1, Work[i] = CreatedEvent(t)
          PROVE  Past(t)' \/ \E k \in DOMAIN Work' : k < j /\ Work'[k] = CreatedEvent(t)
      <4>1. CASE i = 1
        BY <1>3, <2>2, <3>3, <4>1
      <4>2. CASE i # 1
        <5>1. i - 1 \in DOMAIN Work' /\ Work'[i - 1] = CreatedEvent(t) /\ i \in Nat
          BY <1>4, <1>5, <2>2, <3>3, <4>2
        <5>2. i - 1 < j
          BY <3>1, <3>3, <5>1
        <5> QED
          BY <5>1, <5>2
      <4> QED
        BY <4>1, <4>2
    <3> QED
      BY <1>1, <3>2, <3>3
  <2> QED
    BY <1>2, <2>1, <2>2
<1>8. SentSettles'
  BY <1>6 DEF SentSettles
<1>9. EventFirst'
  <2> SUFFICES ASSUME NEW j \in DOMAIN Work', ~IsBase(Work'[j])
               PROVE  \/ Past(Work[j].tx)'
                      \/ \E i \in DOMAIN Work' : i < j /\ Work'[i] = CreatedEvent(Work'[j].tx)
    BY DEF EventFirst, IsBase
  <2>1. PICK t \in Tx : Work'[j].tx = t
    <3>1. Work'[j] \in Messages
      <4>1. Work' \in Seq(Messages)
        <5>1. Work \in Seq(Messages)
          BY WorkType
        <5>2. Work # << >> => Tail(Work) \in Seq(Messages)
          BY <5>1
        <5> QED
          BY <1>2, <5>1, <5>2
      <4> QED
        BY <4>1
    <3> QED
      BY <3>1, MessageTyped
  <2>2. Past(t)' \/ \E i \in DOMAIN Work' : i < j /\ Work'[i] = CreatedEvent(t)
    BY <1>7, <2>1
  <2>3. Past(t)' => Past(Work[j].tx)'
    BY <2>1 DEF Past, MayReplay, Forgetful, Settled, InHand, InWork, SearchRemembers, CreatedEvent
  <2> QED
    BY <2>1, <2>2, <2>3
<1> QED
  BY <1>8, <1>9 DEF SettledInv

\* The steps of the others settle nothing, and what is past stays past.
LEMMA SettledSend ==
    ASSUME SearchType, AiType, PromiseType, MessagesInv, SettledInv, NEW u \in Tx, SendStep(u)
    PROVE  SettledInv' /\ \A t \in Tx : (Settled(t)' => Settled(t)) /\ (Past(t) => Past(t)')
<1> DEFINE last == Len(Work) + 1
<1>1. /\ Work' = Append(Work, CreatedEvent(u)) /\ (Busy' <=> Busy) /\ Hand' = Hand
      /\ searchProcessed' = searchProcessed /\ (Forgetful' <=> Forgetful)
  BY DEF SendStep, Forgetful
<1>2. /\ \A t \in Tx : copies[t] \in Nat /\ copies'[t] \in Nat /\ (t # u => copies'[t] = copies[t])
      /\ copies'[u] = copies[u] + 1 /\ copies[u] < MaxCopies
  BY DEF SendStep, PromiseType
<1>3. CreatedEvent(u) \in Messages /\ IsBase(CreatedEvent(u)) /\ \A t \in Tx : CreatedEvent(t) = CreatedEvent(u) => t = u
  BY CreatedIs
<1>4. /\ \A j \in DOMAIN Work : j \in DOMAIN Work' /\ Work'[j] = Work[j] /\ j < last
      /\ last \in DOMAIN Work' /\ Work'[last] = CreatedEvent(u)
      /\ \A j \in DOMAIN Work' : j \in DOMAIN Work \/ j = last
  BY <1>1, <1>3, WorkAppend
<1> HIDE DEF last
<1>5. ASSUME NEW t \in Tx
      PROVE  (Settled(t)' => Settled(t)) /\ (Past(t) => Past(t)')
  <2> DEFINE m == CreatedEvent(t)
  <2>1. InHand(m)' <=> InHand(m)
    BY <1>1 DEF InHand, CreatedEvent
  <2>2. InWork(m)' <=> InWork(m) \/ t = u
    BY <1>3, <1>4 DEF InWork, CreatedEvent
  <2> HIDE DEF m
  <2>3. SearchRemembers(<<t, 0>>)' <=> SearchRemembers(<<t, 0>>)
    BY <1>1 DEF SearchRemembers
  <2>4. CASE t # u
    <3>1. copies'[t] = copies[t] /\ (InWork(m)' <=> InWork(m))
      BY <1>2, <2>2, <2>4
    <3> QED
      BY <1>1, <2>1, <2>3, <3>1 DEF Past, MayReplay, Settled, m
  <2>5. CASE t = u
    <3>1. InWork(m)' /\ copies'[t] = copies[t] + 1 /\ copies[t] \in Nat
      BY <1>2, <2>2, <2>5
    <3>2. CASE Forgetful
      <4>1. ~Settled(t)'
        BY <1>1, <3>1, <3>2 DEF Settled, m
      <4>2. Past(t) => copies[t] > 0
        BY <3>1, <3>2 DEF Past, MayReplay, Settled
      <4>3. copies[t] > 0 => MayReplay(t)'
        BY <1>1, <3>1, <3>2 DEF MayReplay
      <4> QED
        BY <4>1, <4>2, <4>3 DEF Past
    <3>3. CASE ~Forgetful
      BY <1>1, <2>1, <2>3, <3>3 DEF Past, MayReplay, Settled, m
    <3> QED
      BY <3>2, <3>3
  <2> QED
    BY <2>4, <2>5
<1>6. SentSettles'
  <2> SUFFICES ASSUME NEW t \in Tx, copies'[t] > 0
               PROVE  Past(t)' \/ InWork(CreatedEvent(t))'
    BY DEF SentSettles
  <2>1. CASE t = u
    BY <1>4, <2>1 DEF InWork, CreatedEvent
  <2>2. CASE t # u
    <3>1. Past(t) \/ InWork(CreatedEvent(t))
      BY <1>2, <2>2 DEF SettledInv, SentSettles
    <3> QED
      BY <1>4, <1>5, <3>1 DEF InWork, CreatedEvent
  <2> QED
    BY <2>1, <2>2
<1>7. EventFirst'
  <2> SUFFICES ASSUME NEW j \in DOMAIN Work', ~IsBase(Work'[j])
               PROVE  \/ Past(Work[j].tx)'
                      \/ \E i \in DOMAIN Work' : i < j /\ Work'[i] = CreatedEvent(Work'[j].tx)
    BY DEF EventFirst, IsBase
  <2>1. j \in DOMAIN Work /\ Work'[j] = Work[j] /\ ~IsBase(Work[j])
    BY <1>3, <1>4
  <2>2. PICK t \in Tx : Work[j].tx = t
    BY <2>1, WorkDomain, MessageTyped
  <2>3. Past(t) \/ \E i \in DOMAIN Work : i < j /\ Work[i] = CreatedEvent(t)
    BY <2>1, <2>2 DEF SettledInv, EventFirst
  <2>4. Past(t)' => Past(Work[j].tx)'
    BY <2>1, <2>2 DEF Past, MayReplay, Forgetful, Settled, InHand, InWork, SearchRemembers, CreatedEvent
  <2> QED
    BY <1>4, <1>5, <2>1, <2>2, <2>3, <2>4
<1> QED
  BY <1>5, <1>6, <1>7 DEF SettledInv

LEMMA SettledVerdict ==
    ASSUME SearchType, AiType, MessagesInv, SettledInv, NEW v \in Judgements, VerdictStep(v)
    PROVE  SettledInv' /\ \A t \in Tx : (Settled(t)' <=> Settled(t)) /\ (Past(t)' <=> Past(t))
<1> DEFINE last == Len(Work) + 1
           new == VerdictEvent(Len(verdicts) + 1, v)
<1>1. /\ Work' = Append(Work, new) /\ (Busy' <=> Busy) /\ Hand' = Hand
      /\ searchProcessed' = searchProcessed /\ copies' = copies /\ copies[v.tx] > 0
      /\ verdicts' = Append(verdicts, v) /\ (Forgetful' <=> Forgetful)
  BY DEF VerdictStep, Forgetful
<1>2. new \in Messages /\ ~IsBase(new) /\ new.tx = v.tx /\ v.tx \in Tx
  <2>1. Len(verdicts) + 1 \in Nat \ {0}
    BY <1>1, VerdictAppended
  <2> QED
    BY <2>1, VerdictMessageIs DEF Judgements
<1>3. \A t \in Tx : CreatedEvent(t) # new
  BY <1>2, CreatedIs
<1> HIDE DEF new
<1>4. /\ \A j \in DOMAIN Work : j \in DOMAIN Work' /\ Work'[j] = Work[j] /\ j < last
      /\ last \in DOMAIN Work' /\ Work'[last] = new
      /\ \A j \in DOMAIN Work' : j \in DOMAIN Work \/ j = last
  BY <1>1, <1>2, WorkAppend
<1> HIDE DEF last
<1>5. ASSUME NEW t \in Tx
      PROVE  /\ (Settled(t)' <=> Settled(t)) /\ (Past(t)' <=> Past(t))
             /\ InWork(CreatedEvent(t))' <=> InWork(CreatedEvent(t))
  <2>1. InHand(CreatedEvent(t))' <=> InHand(CreatedEvent(t))
    BY <1>1 DEF InHand, CreatedEvent
  <2>2. InWork(CreatedEvent(t))' <=> InWork(CreatedEvent(t))
    BY <1>3, <1>4 DEF InWork, CreatedEvent
  <2> QED
    BY <1>1, <2>1, <2>2 DEF Past, MayReplay, Settled, SearchRemembers
<1>6. SentSettles'
  BY <1>1, <1>5 DEF SettledInv, SentSettles
<1>7. EventFirst'
  <2> SUFFICES ASSUME NEW j \in DOMAIN Work', ~IsBase(Work'[j])
               PROVE  \/ Past(Work[j].tx)'
                      \/ \E i \in DOMAIN Work' : i < j /\ Work'[i] = CreatedEvent(Work'[j].tx)
    BY DEF EventFirst, IsBase
  <2>1. PICK t : Work'[j].tx = t
    OBVIOUS
  <2>2. Past(t)' => Past(Work[j].tx)'
    BY <2>1 DEF Past, MayReplay, Forgetful, Settled, InHand, InWork, SearchRemembers, CreatedEvent
  <2>3. CASE j \in DOMAIN Work
    <3>1. Work'[j] = Work[j] /\ Work[j].tx \in Tx
      BY <1>4, <2>3, WorkDomain, MessageTyped
    <3>2. Past(t) \/ \E i \in DOMAIN Work : i < j /\ Work[i] = CreatedEvent(t)
      BY <2>1, <2>3, <3>1 DEF SettledInv, EventFirst
    <3> QED
      BY <1>4, <1>5, <2>1, <2>2, <3>1, <3>2
  <2>4. CASE j = last
    <3>1. t = v.tx /\ t \in Tx
      BY <1>2, <1>4, <2>1, <2>4
    <3>2. Past(t) \/ InWork(CreatedEvent(t))
      BY <1>1, <3>1 DEF SettledInv, SentSettles
    <3>3. InWork(CreatedEvent(t)) => \E i \in DOMAIN Work : i < last /\ Work'[i] = CreatedEvent(t) /\ i \in DOMAIN Work'
      BY <1>4 DEF InWork
    <3> QED
      BY <1>5, <2>1, <2>2, <2>4, <3>1, <3>2, <3>3
  <2> QED
    BY <1>4, <2>3, <2>4
<1> QED
  BY <1>5, <1>6, <1>7 DEF SettledInv

LEMMA SettledQuiet ==
    ASSUME SettledInv, QuietStep
    PROVE  SettledInv' /\ \A t \in Tx : (Settled(t)' <=> Settled(t)) /\ (Past(t)' <=> Past(t))
<1>1. \A t : (Settled(t)' <=> Settled(t)) /\ (Past(t)' <=> Past(t))
  BY DEF QuietStep, Past, MayReplay, Forgetful, Settled, InHand, InWork, SearchRemembers, CreatedEvent
<1>2. SentSettles'
  BY <1>1 DEF SettledInv, SentSettles, QuietStep, InWork, CreatedEvent
<1>3. EventFirst'
  BY DEF SettledInv, EventFirst, QuietStep, IsBase, Past, MayReplay, Forgetful, Settled, InHand, InWork,
         SearchRemembers, CreatedEvent
<1> QED
  BY <1>1, <1>2, <1>3 DEF SettledInv

-----------------------------------------------------------------------------
(***************************************************************************)
(* The documents.                                                          *)
(***************************************************************************)
\* A document is as old as its event and the verdicts written to it: no message
\* of the work is stale.
DocTimes ==
    /\ \A t \in Tx : doc[t].lastBase <= 1 /\ doc[t].lastAi <= Len(verdicts)
    /\ \A j \in DOMAIN Work : ~IsBase(Work[j]) => doc[Work[j].tx].lastAi <= Work[j].at

\* A message that no replay can be about is in hand.
Steady == Busy /\ ~MayReplay(Hand.msg.tx)

\* A verdict is written only to the document of a transaction that is past.
DocVerdicts ==
    /\ \A t \in Tx : doc[t].moderationStatus # "NONE" => Past(t)
    /\ Steady /\ IsBase(Hand.msg) => Hand.known.moderationStatus = "NONE"

\* Without failed calls, the document of a settled transaction has its base data.
DocBases ==
    searchErrors = 0 =>
        /\ \A t \in Tx : Settled(t) => doc[t].base
        /\ Steady /\ Hand.pc \in {"publishing", "acking"} => doc[Hand.msg.tx].base
        /\ Steady /\ Hand.pc \in {"writing", "publishing"} /\ ~IsBase(Hand.msg) => Hand.known.base

DocInv == DocTimes /\ DocVerdicts /\ DocBases

LEMMA HandIs ==
    ASSUME SearchType, AiType, MessagesInv, SettledInv, Busy
    PROVE  /\ Hand \in SearchHandlers /\ Hand.msg \in Messages /\ Hand.msg.tx \in Tx
           /\ Hand.msg.at \in Nat \ {0} /\ Genuine(Hand.msg)
           /\ Hand.msg = Work[1] /\ 1 \in DOMAIN Work
           /\ IsBase(Hand.msg) => /\ Hand.msg = CreatedEvent(Hand.msg.tx) /\ Hand.msg.at = 1
                                  /\ copies[Hand.msg.tx] > 0 /\ ~Settled(Hand.msg.tx)
           /\ ~IsBase(Hand.msg) => Past(Hand.msg.tx)
<1>1. /\ Hand \in SearchHandlers /\ Hand.msg \in Messages
      /\ Hand.msg = Work[1] /\ 1 \in DOMAIN Work
  BY WorkType, WorkDomain
<1>2. Hand.msg.tx \in Tx /\ Hand.msg.at \in Nat \ {0} /\ Genuine(Hand.msg)
  BY <1>1, MessageTyped DEF MessagesInv, MessagesGenuine
<1>3. IsBase(Hand.msg) => /\ Hand.msg = CreatedEvent(Hand.msg.tx) /\ Hand.msg.at = 1
                          /\ copies[Hand.msg.tx] > 0
  BY <1>1, <1>2, GenuineBase
<1>4. IsBase(Hand.msg) => ~Settled(Hand.msg.tx)
  BY <1>3 DEF Settled, InHand
<1>5. ASSUME ~IsBase(Hand.msg)
      PROVE  Past(Hand.msg.tx)
  <2>1. \/ Past(Hand.msg.tx)
        \/ \E i \in DOMAIN Work : i < 1 /\ Work[i] = CreatedEvent(Hand.msg.tx)
    BY <1>1, <1>5 DEF SettledInv, EventFirst
  <2>2. \A i \in DOMAIN Work : i \in Nat /\ i >= 1
    BY WorkDomain
  <2> QED
    BY <2>1, <2>2
<1> QED
  BY <1>1, <1>2, <1>3, <1>4, <1>5

LEMMA DocWritten ==
    ASSUME SearchType, Hand \in SearchHandlers, Hand.msg.tx \in Tx, Writes
    PROVE  LET t == Hand.msg.tx
           IN  /\ \A u \in Tx : u # t => doc'[u] = doc[u]
               /\ IsBase(Hand.msg) =>
                     /\ doc'[t].base /\ doc'[t].lastBase = Hand.msg.at
                     /\ doc'[t].lastAi = doc[t].lastAi
                     /\ doc'[t].moderationStatus = doc[t].moderationStatus
               /\ ~IsBase(Hand.msg) =>
                     /\ doc'[t].base = doc[t].base /\ doc'[t].lastBase = doc[t].lastBase
                     /\ doc'[t].lastAi = Hand.msg.at
<1> DEFINE t == Hand.msg.tx
           d == doc[t]
           m == Hand.msg
           k == Hand.known
<1>1. doc' = [doc EXCEPT ![t] = Search!Merged(m, k, d)]
  BY DEF Writes
<1>2. doc \in [Tx -> Search!Documents] /\ d \in Search!Documents
  BY DEF SearchType
<1>3. doc'[t] = Search!Merged(m, k, d) /\ \A u \in Tx : u # t => doc'[u] = doc[u]
  BY <1>1, <1>2
<1>4. m.type \in MessageTypes
  BY MessageTyped DEF SearchHandlers
<1> HIDE DEF d, m, k, t
<1>5. CASE IsBase(m)
  <2>1. m.type \in Search!BaseTypes
    BY <1>5 DEF IsBase, Search!BaseTypes
  <2>2. /\ Search!Merged(m, k, d).base /\ Search!Merged(m, k, d).lastBase = m.at
        /\ Search!Merged(m, k, d).lastAi = d.lastAi
        /\ Search!Merged(m, k, d).moderationStatus = d.moderationStatus
    BY <1>2, <2>1 DEF Search!Merged, Search!Documents
  <2> QED
    BY <1>3, <1>5, <2>2 DEF t, m, d, k
<1>6. CASE ~IsBase(m)
  <2>1. m.type \notin Search!BaseTypes
    BY <1>4, <1>6 DEF IsBase, Search!BaseTypes, MessageTypes
  <2>2. /\ Search!Merged(m, k, d).base = d.base /\ Search!Merged(m, k, d).lastBase = d.lastBase
        /\ Search!Merged(m, k, d).lastAi = m.at
    BY <1>2, <2>1 DEF Search!Merged, Search!Documents
  <2> QED
    BY <1>3, <1>6, <2>2 DEF t, m, d, k
<1> QED
  BY <1>5, <1>6 DEF m

LEMMA SearchDoc ==
    ASSUME SearchStep
    PROVE  doc' = doc \/ (Busy /\ Hand.pc = "writing" /\ Writes)
  BY DEF SearchStep, SkipStep, StartStep, ReadStep, StaleStep, WriteStep, PublishStep, AckStep,
         FailStep, RestartStep

\* No message that is read is stale.
LEMMA NeverStale ==
    ASSUME SearchType, AiType, MessagesInv, SettledInv, DocInv
    PROVE  ~StaleStep
<1> SUFFICES ASSUME StaleStep
             PROVE  FALSE
  OBVIOUS
<1>1. /\ Busy
      /\ ~Search!IsIncomingEventApplicable(Hand.msg.at, Search!LastApplied(Hand.msg, doc[Hand.msg.tx]))
  BY DEF StaleStep
<1>2. /\ Hand.msg \in Messages /\ Hand.msg.tx \in Tx /\ Hand.msg.at \in Nat \ {0}
      /\ Hand.msg = Work[1] /\ 1 \in DOMAIN Work /\ (IsBase(Hand.msg) => Hand.msg.at = 1)
  BY <1>1, HandIs
<1>3. doc[Hand.msg.tx].lastBase \in Nat /\ doc[Hand.msg.tx].lastAi \in Nat
  BY <1>2 DEF SearchType, Search!Documents
<1>4. CASE IsBase(Hand.msg)
  <2>1. Search!LastApplied(Hand.msg, doc[Hand.msg.tx]) = doc[Hand.msg.tx].lastBase
    BY <1>4 DEF IsBase, Search!LastApplied, Search!BaseTypes
  <2>2. doc[Hand.msg.tx].lastBase <= Hand.msg.at
    BY <1>2, <1>4 DEF DocInv, DocTimes
  <2> QED
    BY <1>1, <1>2, <1>3, <2>1, <2>2 DEF Search!IsIncomingEventApplicable
<1>5. CASE ~IsBase(Hand.msg)
  <2>1. Search!LastApplied(Hand.msg, doc[Hand.msg.tx]) = doc[Hand.msg.tx].lastAi
    BY <1>2, <1>5, MessageTyped DEF IsBase, Search!LastApplied, Search!BaseTypes, MessageTypes
  <2>2. doc[Hand.msg.tx].lastAi <= Hand.msg.at
    BY <1>2, <1>5 DEF DocInv, DocTimes
  <2> QED
    BY <1>1, <1>2, <1>3, <2>1, <2>2 DEF Search!IsIncomingEventApplicable
<1> QED
  BY <1>4, <1>5

LEMMA DocTimesSearch ==
    ASSUME SearchType, AiType, MessagesInv, SettledInv, DocInv, SearchStep,
           UNCHANGED <<copies, verdicts>>
    PROVE  DocTimes'
<1>1. doc' = doc \/ (Busy /\ Hand.pc = "writing" /\ Writes)
  BY SearchDoc
<1>2. \A j \in DOMAIN Work : j \in Nat /\ j >= 1 /\ Work[j] \in Messages /\ Work[j].tx \in Tx /\ Work[j].at \in Nat
  BY WorkDomain, MessageTyped
<1>3. \A t \in Tx : /\ doc[t].lastAi \in Nat /\ doc[t].lastBase \in Nat
                    /\ doc[t].lastBase <= 1 /\ doc[t].lastAi <= Len(verdicts)
  BY DEF DocInv, DocTimes, SearchType, Search!Documents
<1>4. /\ \A t \in Tx : doc'[t].lastBase <= 1 /\ doc'[t].lastAi <= Len(verdicts)
      /\ \A j \in DOMAIN Work : ~IsBase(Work[j]) => doc'[Work[j].tx].lastAi <= Work[j].at
  <2>1. CASE doc' = doc
    BY <2>1 DEF DocInv, DocTimes
  <2>2. CASE Busy /\ Hand.pc = "writing" /\ Writes
    <3> DEFINE u == Hand.msg.tx
    <3>1. /\ Hand \in SearchHandlers /\ Hand.msg \in Messages /\ Genuine(Hand.msg) /\ u \in Tx
          /\ Hand.msg.at \in Nat \ {0}
          /\ Hand.msg = Work[1] /\ 1 \in DOMAIN Work /\ (IsBase(Hand.msg) => Hand.msg.at = 1)
      BY <2>2, HandIs
    <3>2. /\ \A t \in Tx : t # u => doc'[t] = doc[t]
          /\ IsBase(Hand.msg) => /\ doc'[u].lastBase = Hand.msg.at
                                 /\ doc'[u].lastAi = doc[u].lastAi
          /\ ~IsBase(Hand.msg) => /\ doc'[u].lastBase = doc[u].lastBase
                                  /\ doc'[u].lastAi = Hand.msg.at
      BY <2>2, <3>1, DocWritten
    <3>3. ~IsBase(Hand.msg) => Hand.msg.at <= Len(verdicts)
      <4>1. verdicts \in Seq(Judgements)
        BY DEF AiType
      <4>2. \A k \in DOMAIN verdicts : k <= Len(verdicts)
        BY <4>1
      <4> QED
        BY <3>1, <4>2 DEF Genuine
    <3>4. ASSUME NEW j \in DOMAIN Work, ~IsBase(Work[j]), ~IsBase(Hand.msg)
          PROVE  Hand.msg.at <= Work[j].at
      <4>1. CASE j = 1
        BY <1>2, <3>1, <4>1
      <4>2. CASE j # 1
        <5>1. 1 < j
          BY <1>2, <4>2
        <5>2. Work[1].at < Work[j].at
          BY <3>1, <3>4, <5>1 DEF MessagesInv, MessagesGenuine
        <5> QED
          BY <1>2, <3>1, <5>2
      <4> QED
        BY <4>1, <4>2
    <3>5. \A j \in DOMAIN Work : ~IsBase(Work[j]) => doc[Work[j].tx].lastAi <= Work[j].at
      BY DEF DocInv, DocTimes
    <3> HIDE DEF u
    <3>6. \A t \in Tx : doc'[t].lastBase <= 1 /\ doc'[t].lastAi <= Len(verdicts)
      BY <1>3, <3>1, <3>2, <3>3
    <3>7. \A j \in DOMAIN Work : ~IsBase(Work[j]) => doc'[Work[j].tx].lastAi <= Work[j].at
      BY <1>2, <3>1, <3>2, <3>4, <3>5
    <3> QED
      BY <3>6, <3>7
  <2> QED
    BY <1>1, <2>1, <2>2
<1>5. \A j \in DOMAIN Work' : ~IsBase(Work'[j]) => doc'[Work'[j].tx].lastAi <= Work'[j].at
  <2>1. CASE Work' = Work
    BY <1>4, <2>1
  <2>2. CASE Work # << >> /\ Work' = Tail(Work)
    BY <1>4, <2>2, WorkTail
  <2> QED
    BY <2>1, <2>2, SearchWork
<1> QED
  BY <1>4, <1>5 DEF DocTimes, IsBase

\* A replay that was ahead stays ahead.
LEMMA SteadyStays ==
    ASSUME SearchType, SearchStep, UNCHANGED copies, Steady', Busy, Hand'.msg = Hand.msg
    PROVE  Steady
  BY MemoryMoves DEF Steady, MayReplay

LEMMA DocSearch ==
    ASSUME SearchType, SearchType', AiType, PromiseType, MessagesInv, SettledInv, DocInv, SearchStep,
           UNCHANGED <<copies, verdicts>>
    PROVE  DocInv'
<1>1. DocTimes'
  BY DocTimesSearch
<1>2. \A t \in Tx : (Past(t) => Past(t)') /\ (MayReplay(t) => MayReplay(t)')
  BY PastStaysSearch, MemoryMoves DEF MayReplay
<1>3. Busy => /\ Hand \in SearchHandlers /\ Hand.msg \in Messages /\ Hand.msg.tx \in Tx
              /\ IsBase(Hand.msg) => ~Settled(Hand.msg.tx)
              /\ ~IsBase(Hand.msg) => Past(Hand.msg.tx)
  BY HandIs
<1>4. ASSUME Busy, Writes
      PROVE  LET t == Hand.msg.tx
             IN  /\ \A u \in Tx : u # t => doc'[u] = doc[u]
                 /\ IsBase(Hand.msg) => /\ doc'[t].base
                                        /\ doc'[t].moderationStatus = doc[t].moderationStatus
                 /\ ~IsBase(Hand.msg) => doc'[t].base = doc[t].base
  BY <1>3, <1>4, DocWritten
<1>5. doc' = doc \/ (Busy /\ Hand.pc = "writing" /\ Writes)
  BY SearchDoc
<1>6. \A t \in Tx : doc[t].base => doc'[t].base
  BY <1>3, <1>4, <1>5
<1>7. DocVerdicts'
  <2>1. ASSUME NEW t \in Tx, doc'[t].moderationStatus # "NONE"
        PROVE  Past(t)'
    <3>1. doc[t].moderationStatus # "NONE" \/ Past(t)
      BY <1>3, <1>4, <1>5, <2>1
    <3> QED
      BY <1>2, <3>1 DEF DocInv, DocVerdicts
  <2>2. ASSUME Steady', IsBase(Hand'.msg)
        PROVE  Hand'.known.moderationStatus = "NONE"
    <3>1. CASE StartStep
      BY <3>1 DEF StartStep, Search!NoDocument
    <3>2. CASE ReadStep
      <4>1. Busy /\ Hand'.msg = Hand.msg /\ Hand'.known = doc[Hand.msg.tx]
        BY <3>2 DEF ReadStep
      <4>2. ~Past(Hand.msg.tx) /\ Hand.msg.tx \in Tx
        BY <1>3, <2>2, <4>1, SteadyStays DEF Past, Steady
      <4> QED
        BY <4>1, <4>2 DEF DocInv, DocVerdicts
    <3>3. CASE WriteStep \/ PublishStep
      <4>1. Busy /\ Hand'.msg = Hand.msg /\ Hand'.known = Hand.known
        BY <1>3, <3>3 DEF WriteStep, PublishStep, SearchHandlers
      <4> QED
        BY <2>2, <4>1, SteadyStays DEF DocInv, DocVerdicts
    <3> QED
      BY <2>2, <3>1, <3>2, <3>3, HandMoves DEF Steady
  <2> QED
    BY <2>1, <2>2 DEF DocVerdicts, Steady, MayReplay, Forgetful, IsBase
<1>8. DocBases'
  <2> SUFFICES ASSUME searchErrors' = 0
               PROVE  /\ \A t \in Tx : Settled(t)' => doc'[t].base
                      /\ Steady' /\ Hand'.pc \in {"publishing", "acking"} => doc'[Hand'.msg.tx].base
                      /\ Steady' /\ Hand'.pc \in {"writing", "publishing"} /\ ~IsBase(Hand'.msg)
                            => Hand'.known.base
    BY DEF DocBases, IsBase
  <2>1. ~FailStep /\ searchErrors = 0
    <3>1. ~FailStep
      BY DEF FailStep, SearchType
    <3> QED
      BY <3>1 DEF SearchStep, SkipStep, StartStep, ReadStep, StaleStep, WriteStep, PublishStep,
                  AckStep, RestartStep
  <2>2. /\ \A t \in Tx : Settled(t) => doc[t].base
        /\ Steady /\ Hand.pc \in {"publishing", "acking"} => doc[Hand.msg.tx].base
        /\ Steady /\ Hand.pc \in {"writing", "publishing"} /\ ~IsBase(Hand.msg) => Hand.known.base
    BY <2>1 DEF DocInv, DocBases
  <2>3. ASSUME NEW t \in Tx, Settled(t)'
        PROVE  doc'[t].base
    <3>1. CASE Settled(t)
      BY <1>6, <2>2, <3>1
    <3>2. CASE ~Settled(t)
      <4>1. LeaveStep /\ InHand(CreatedEvent(t))
        BY <2>3, <3>2, NewlySettled
      <4>2. AckStep
        BY <2>1, <4>1, NeverStale DEF LeaveStep
      <4>3. Busy /\ Hand.msg.tx = t /\ Hand.pc = "acking"
        BY <4>1, <4>2, CreatedIs DEF InHand, AckStep
      <4>4. ~MayReplay(t)'
        BY <2>3 DEF Settled, MayReplay
      <4>5. Steady
        BY <1>2, <4>3, <4>4 DEF Steady
      <4> QED
        BY <1>6, <2>2, <4>3, <4>5
    <3> QED
      BY <3>1, <3>2
  <2>4. ASSUME Steady', Hand'.pc \in {"publishing", "acking"}
        PROVE  doc'[Hand'.msg.tx].base
    <3>1. CASE StartStep \/ ReadStep
      BY <2>4, <3>1 DEF StartStep, ReadStep
    <3>2. CASE WriteStep
      <4>1. Busy /\ Writes /\ Hand'.msg = Hand.msg
        BY <1>3, <3>2 DEF WriteStep, SearchHandlers
      <4>2. CASE IsBase(Hand.msg)
        BY <1>4, <4>1, <4>2
      <4>3. CASE ~IsBase(Hand.msg)
        <5>1. Steady
          BY <2>4, <4>1, SteadyStays
        <5>2. Settled(Hand.msg.tx)
          BY <1>3, <4>1, <4>3, <5>1 DEF Steady, Past
        <5> QED
          BY <1>3, <1>6, <2>2, <4>1, <5>2
      <4> QED
        BY <4>2, <4>3
    <3>3. CASE PublishStep
      <4>1. Busy /\ Hand.pc = "publishing" /\ Hand'.msg = Hand.msg
        BY <1>3, <3>3 DEF PublishStep, SearchHandlers
      <4> QED
        BY <1>3, <1>6, <2>2, <2>4, <4>1, SteadyStays
    <3> QED
      BY <2>4, <3>1, <3>2, <3>3, HandMoves DEF Steady
  <2>5. ASSUME Steady', Hand'.pc \in {"writing", "publishing"}, ~IsBase(Hand'.msg)
        PROVE  Hand'.known.base
    <3>1. CASE StartStep \/ PublishStep
      BY <1>3, <2>5, <3>1 DEF StartStep, PublishStep, SearchHandlers
    <3>2. CASE ReadStep
      <4>1. Busy /\ Hand'.msg = Hand.msg /\ Hand'.known = doc[Hand.msg.tx]
        BY <3>2 DEF ReadStep
      <4>2. Steady /\ ~IsBase(Hand.msg)
        BY <2>5, <4>1, SteadyStays
      <4>3. Settled(Hand.msg.tx)
        BY <1>3, <4>1, <4>2 DEF Steady, Past
      <4> QED
        BY <1>3, <2>2, <4>1, <4>3
    <3>3. CASE WriteStep
      <4>1. Busy /\ Hand.pc = "writing" /\ Hand'.msg = Hand.msg /\ Hand'.known = Hand.known
        BY <1>3, <3>3 DEF WriteStep, SearchHandlers
      <4> QED
        BY <2>2, <2>5, <4>1, SteadyStays
    <3> QED
      BY <2>5, <3>1, <3>2, <3>3, HandMoves DEF Steady
  <2> QED
    BY <2>3, <2>4, <2>5
<1> QED
  BY <1>1, <1>7, <1>8 DEF DocInv

\* The steps of the others write no document.
LEMMA DocKept ==
    ASSUME DocVerdicts, DocBases, (Busy' <=> Busy), Hand' = Hand, UNCHANGED <<doc, searchErrors>>,
           \A t \in Tx : (Settled(t)' => Settled(t)) /\ (Past(t) => Past(t)'),
           Steady' => Steady
    PROVE  DocVerdicts' /\ DocBases'
<1>1. DocVerdicts'
  BY DEF DocVerdicts, IsBase
<1>2. DocBases'
  BY DEF DocBases, IsBase
<1> QED
  BY <1>1, <1>2

\* A copy does not undo that its transaction may be replayed.
LEMMA ReplaySend ==
    ASSUME PromiseType, NEW u \in Tx, SendStep(u), NEW t \in Tx, MayReplay(t)
    PROVE  MayReplay(t)'
  BY DEF PromiseType, SendStep, MayReplay, Forgetful

LEMMA DocOthers ==
    ASSUME SearchType, AiType, PromiseType, MessagesInv, SettledInv, DocInv,
           \/ \E t \in Tx : SendStep(t)
           \/ \E v \in Judgements : VerdictStep(v)
           \/ QuietStep
    PROVE  DocInv'
<1>1. \A t \in Tx : doc[t].lastAi \in Nat
  BY DEF SearchType, Search!Documents
<1>2. CASE \E t \in Tx : SendStep(t)
  <2>1. PICK t \in Tx : SendStep(t)
    BY <1>2
  <2>2. /\ Work' = Append(Work, CreatedEvent(t)) /\ (Busy' <=> Busy) /\ Hand' = Hand
        /\ UNCHANGED <<verdicts, doc, searchErrors>>
    BY <2>1 DEF SendStep
  <2>3. DocVerdicts' /\ DocBases'
    <3>1. Steady' => Steady
      BY <2>1, <2>2, HandIs, ReplaySend DEF Steady, MayReplay
    <3> QED
      BY <2>1, <2>2, <3>1, SettledSend, DocKept DEF DocInv
  <2>4. CreatedEvent(t) \in Messages /\ IsBase(CreatedEvent(t))
    BY CreatedIs
  <2>5. \A j \in DOMAIN Work' : Work'[j] = CreatedEvent(t) \/ (j \in DOMAIN Work /\ Work'[j] = Work[j])
    BY <2>2, <2>4, WorkAppend
  <2>6. DocTimes'
    BY <2>2, <2>4, <2>5 DEF DocInv, DocTimes, IsBase
  <2> QED
    BY <2>3, <2>6 DEF DocInv
<1>3. CASE \E v \in Judgements : VerdictStep(v)
  <2>1. PICK v \in Judgements : VerdictStep(v)
    BY <1>3
  <2> DEFINE n == Len(verdicts) + 1
             new == VerdictEvent(n, v)
  <2>2. /\ Work' = Append(Work, new) /\ (Busy' <=> Busy) /\ Hand' = Hand
        /\ UNCHANGED <<doc, searchErrors>> /\ verdicts' = Append(verdicts, v)
    BY <2>1 DEF VerdictStep
  <2>3. DocVerdicts' /\ DocBases'
    <3>1. Steady' => Steady
      BY <2>1, <2>2 DEF Steady, MayReplay, Forgetful, VerdictStep
    <3> QED
      BY <2>1, <2>2, <3>1, SettledVerdict, DocKept DEF DocInv
  <2>4. n \in Nat \ {0} /\ Len(verdicts') = n /\ Len(verdicts) \in Nat /\ Len(verdicts) < n
    BY <2>2 DEF AiType
  <2>5. new \in Messages /\ new.at = n /\ new.tx \in Tx
    BY <2>4, VerdictMessageIs DEF Judgements
  <2> HIDE DEF new
  <2>6. \A j \in DOMAIN Work' : Work'[j] = new \/ (j \in DOMAIN Work /\ Work'[j] = Work[j])
    BY <2>2, <2>5, WorkAppend
  <2> HIDE DEF n
  <2>7. \A t \in Tx : doc[t].lastBase <= 1 /\ doc[t].lastAi <= n
    BY <1>1, <2>4 DEF DocInv, DocTimes
  <2>8. \A j \in DOMAIN Work' : ~IsBase(Work'[j]) => doc[Work'[j].tx].lastAi <= Work'[j].at
    BY <2>5, <2>6, <2>7 DEF DocInv, DocTimes
  <2>9. DocTimes'
    BY <2>2, <2>4, <2>7, <2>8 DEF DocTimes, IsBase
  <2> QED
    BY <2>3, <2>9 DEF DocInv
<1>4. CASE QuietStep
  <2>1. /\ Work' = Work /\ (Busy' <=> Busy) /\ Hand' = Hand
        /\ UNCHANGED <<verdicts, doc, searchErrors>>
    BY <1>4 DEF QuietStep
  <2>2. DocVerdicts' /\ DocBases'
    <3>1. Steady' => Steady
      BY <1>4, <2>1 DEF Steady, MayReplay, Forgetful, QuietStep
    <3> QED
      BY <1>4, <2>1, <3>1, SettledQuiet, DocKept DEF DocInv
  <2>3. DocTimes'
    BY <2>1 DEF DocInv, DocTimes, IsBase
  <2> QED
    BY <2>2, <2>3 DEF DocInv
<1> QED
  BY <1>2, <1>3, <1>4

-----------------------------------------------------------------------------
(***************************************************************************)
(* The outcomes search-service publishes.                                  *)
(***************************************************************************)
Indexed(t) ==
    [type |-> "search.index.updated", tx |-> t, source |-> "transaction.created",
     sourceId |-> <<t, 0>>, moderation |-> "none"]

ReportOn(k) ==
    [type |-> IF verdicts[k].type = "ai.rejected" THEN "search.index.rejected"
              ELSE "search.index.updated",
     tx |-> verdicts[k].tx, source |-> verdicts[k].type, sourceId |-> <<verdicts[k].tx, k>>,
     moderation |-> verdicts[k].moderation]

FromBase(o) == o.source = "transaction.created"

\* An outcome says what its event or its verdict said.
Faithful(o) ==
    /\ copies[o.tx] > 0
    /\ IF FromBase(o) THEN MayReplay(o.tx) \/ o = Indexed(o.tx)
       ELSE o.sourceId[2] \in DOMAIN verdicts /\ o = ReportOn(o.sourceId[2])

\* The outcome of its event is the first about a transaction, and the outcomes
\* of verdicts follow when it is past, not ahead of the verdicts at work.
OutcomesOrdered ==
    /\ \A i, j \in DOMAIN outcomes :
          /\ i < j /\ FromBase(outcomes[j]) /\ outcomes[i].tx = outcomes[j].tx
          /\ ~MayReplay(outcomes[j].tx)
          => FromBase(outcomes[i])
    /\ \A t \in Tx, i \in DOMAIN outcomes :
          ~FromBase(outcomes[i]) /\ outcomes[i].tx = t => Past(t)
    /\ \A i \in DOMAIN outcomes, j \in DOMAIN Work :
          ~FromBase(outcomes[i]) /\ ~IsBase(Work[j]) => outcomes[i].sourceId[2] <= Work[j].at

LastVerdict(t, k) ==
    /\ k \in DOMAIN verdicts /\ verdicts[k].tx = t
    /\ \A n \in DOMAIN verdicts : k < n => verdicts[n].tx # t

\* The k-th verdict waits, or is being handled and not reported yet.
Reporting(k) ==
    \E j \in DOMAIN Work : /\ Work[j] = VerdictEvent(k, verdicts[k])
                           /\ Busy /\ j = 1 => Hand.pc # "acking"

\* Nothing published about t comes after the outcome of the k-th verdict.
Reported(k, t) ==
    \E i \in DOMAIN outcomes : /\ outcomes[i] = ReportOn(k)
                               /\ \A n \in DOMAIN outcomes : i < n => outcomes[n].tx # t

LastIsReported ==
    searchErrors = 0 =>
        \A t \in Tx, k \in Nat :
            LastVerdict(t, k) /\ ~MayReplay(t) => Reporting(k) \/ Reported(k, t)

OutcomeInv ==
    /\ \A i \in DOMAIN outcomes : Faithful(outcomes[i])
    /\ OutcomesOrdered
    /\ LastIsReported

LEMMA OutcomeTyped ==
    ASSUME NEW o \in Reports
    PROVE  o.tx \in Tx /\ o.source \in MessageTypes /\ o.sourceId \in Tx \X Nat
             /\ o.moderation \in {"none", "ALLOW", "REVIEW"}
             /\ o.type \in {"search.index.updated", "search.index.rejected"}
  BY DEF Reports

LEMMA ReportIs ==
    ASSUME AiType, NEW k \in DOMAIN verdicts
    PROVE  /\ ReportOn(k).tx = verdicts[k].tx /\ ReportOn(k).sourceId = <<verdicts[k].tx, k>>
           /\ ReportOn(k).sourceId[2] = k /\ ~FromBase(ReportOn(k)) /\ verdicts[k].tx \in Tx
           /\ verdicts[k] \in Judgements /\ k \in Nat \ {0} /\ k <= Len(verdicts)
<1>1. verdicts \in Seq(Judgements)
  BY DEF AiType
<1>2. verdicts[k] \in Judgements /\ k \in Nat \ {0} /\ k <= Len(verdicts)
  BY <1>1
<1> QED
  BY <1>2 DEF ReportOn, FromBase, Judgements

\* What search-service publishes about the message in its hands.
LEMMA OutcomeIs ==
    ASSUME SearchType, AiType, PromiseType, MessagesInv, SettledInv, DocInv, Busy
    PROVE  LET o == Search!Outcome(Hand)
           IN  /\ o.tx = Hand.msg.tx /\ Faithful(o) /\ o \in Reports
               /\ IsBase(Hand.msg) => FromBase(o) /\ (MayReplay(o.tx) \/ o = Indexed(o.tx))
               /\ ~IsBase(Hand.msg) => /\ ~FromBase(o) /\ o.sourceId[2] = Hand.msg.at
                                       /\ Hand.msg.at \in DOMAIN verdicts
                                       /\ o = ReportOn(Hand.msg.at)
                                       /\ Hand.msg = VerdictEvent(Hand.msg.at, verdicts[Hand.msg.at])
                                       /\ verdicts[Hand.msg.at].tx = Hand.msg.tx
<1> DEFINE m == Hand.msg
           o == Search!Outcome(Hand)
<1>1. /\ Hand \in SearchHandlers /\ m \in Messages /\ m.tx \in Tx /\ Genuine(m)
      /\ IsBase(m) => m = CreatedEvent(m.tx) /\ copies[m.tx] > 0
  BY HandIs
<1>2. o \in Reports
  BY <1>1, OutcomeReport
<1>3. CASE IsBase(m)
  <2>1. MayReplay(m.tx) \/ Hand.known.moderationStatus = "NONE"
    BY <1>3 DEF DocInv, DocVerdicts, Steady
  <2>2. m.type = "transaction.created" /\ m.id = <<m.tx, 0>>
    BY <1>1, <1>3, GenuineBase DEF IsBase
  <2>3. MayReplay(m.tx) \/ o = Indexed(m.tx)
    BY <2>1, <2>2 DEF Search!Outcome, Indexed, Search!BaseTypes
  <2>4. o.tx = m.tx /\ FromBase(o)
    BY <2>2 DEF Search!Outcome, FromBase
  <2> QED
    BY <1>1, <1>2, <1>3, <2>3, <2>4 DEF Faithful
<1>4. CASE ~IsBase(m)
  <2> DEFINE k == m.at
             v == verdicts[k]
  <2>1. /\ k \in DOMAIN verdicts /\ m = VerdictEvent(k, v) /\ v \in Judgements
        /\ m.tx = v.tx /\ m.id = <<m.tx, k>> /\ m.type = v.type /\ m.moderation = v.moderation
    BY <1>1, <1>4, GenuineVerdict
  <2>2. /\ v.type \in {"ai.enriched", "ai.rejected"}
        /\ v.type = "ai.rejected" => v.moderation = "none"
    BY <2>1 DEF Judgements
  <2>3. o = ReportOn(k)
    BY <2>1, <2>2 DEF Search!Outcome, ReportOn, Search!BaseTypes
  <2>4. /\ ReportOn(k).tx = v.tx /\ ReportOn(k).sourceId[2] = k /\ ~FromBase(ReportOn(k))
    BY <2>1, ReportIs
  <2>5. copies[m.tx] > 0
    BY <1>1, <1>4, HandIs, PastIsSent
  <2>6. Faithful(o)
    BY <2>1, <2>3, <2>4, <2>5 DEF Faithful
  <2> QED
    BY <1>2, <1>4, <2>1, <2>3, <2>4, <2>6
<1> QED
  BY <1>3, <1>4

LEMMA SearchOutcomes ==
    ASSUME SearchStep
    PROVE  outcomes' = outcomes \/ (Busy /\ Hand.pc = "publishing" /\ Publishes)
  BY DEF SearchStep, SkipStep, StartStep, ReadStep, StaleStep, WriteStep, PublishStep, AckStep,
         FailStep, RestartStep

LEMMA OutcomeAppended ==
    ASSUME SearchType, NEW o \in Reports, outcomes' = Append(outcomes, o)
    PROVE  /\ \A i \in DOMAIN outcomes : /\ i \in DOMAIN outcomes' /\ outcomes'[i] = outcomes[i]
                                         /\ i < Len(outcomes) + 1
           /\ Len(outcomes) + 1 \in DOMAIN outcomes' /\ outcomes'[Len(outcomes) + 1] = o
           /\ \A i \in DOMAIN outcomes' : i \in DOMAIN outcomes \/ i = Len(outcomes) + 1
           /\ DOMAIN outcomes' \subseteq Nat /\ Len(outcomes) + 1 \in Nat /\ Len(outcomes') = Len(outcomes) + 1
           /\ \A i \in DOMAIN outcomes' : i <= Len(outcomes) + 1
<1>1. outcomes \in Seq(Reports)
  BY DEF SearchType
<1> QED
  BY <1>1

LEMMA FaithfulSame ==
    ASSUME UNCHANGED <<copies, verdicts>>, NEW o, Faithful(o), MayReplay(o.tx) => MayReplay(o.tx)'
    PROVE  Faithful(o)'
  BY DEF Faithful, FromBase, Indexed, ReportOn

LEMMA HandFirst ==
    ASSUME SearchType, AiType, MessagesInv, SettledInv, Busy, ~IsBase(Hand.msg),
           NEW j \in DOMAIN Work, ~IsBase(Work[j])
    PROVE  Hand.msg.at <= Work[j].at
<1>1. Hand.msg = Work[1] /\ 1 \in DOMAIN Work /\ Hand.msg.at \in Nat
  BY HandIs
<1>2. j \in Nat /\ j >= 1 /\ Work[j].at \in Nat
  BY WorkDomain, MessageTyped
<1>3. CASE j = 1
  BY <1>1, <1>3
<1>4. CASE 1 < j
  <2>1. Work[1].at < Work[j].at
    BY <1>1, <1>4 DEF MessagesInv, MessagesGenuine
  <2> QED
    BY <1>1, <1>2, <2>1
<1> QED
  BY <1>2, <1>3, <1>4

LEMMA OrderedSearch ==
    ASSUME SearchType, SearchType', AiType, PromiseType, MessagesInv, SettledInv, DocInv, OutcomeInv,
           SearchStep, UNCHANGED <<copies, verdicts>>
    PROVE  OutcomesOrdered' /\ \A i \in DOMAIN outcomes' : Faithful(outcomes[i])'
<1>1. (\A t \in Tx : Past(t) => Past(t)') /\ (Forgetful => Forgetful')
  BY PastStaysSearch, MemoryMoves
<1>2. /\ \A i \in DOMAIN outcomes : Faithful(outcomes[i]) /\ outcomes[i].tx \in Tx
      /\ \A i, j \in DOMAIN outcomes :
            /\ i < j /\ FromBase(outcomes[j]) /\ outcomes[i].tx = outcomes[j].tx
            /\ ~MayReplay(outcomes[j].tx)
            => FromBase(outcomes[i])
      /\ \A t \in Tx, i \in DOMAIN outcomes :
            ~FromBase(outcomes[i]) /\ outcomes[i].tx = t => Past(t)
      /\ \A i \in DOMAIN outcomes, j \in DOMAIN Work :
            ~FromBase(outcomes[i]) /\ ~IsBase(Work[j]) => outcomes[i].sourceId[2] <= Work[j].at
  <2>1. \A i \in DOMAIN outcomes : outcomes[i] \in Reports
    BY DEF SearchType
  <2> QED
    BY <2>1, OutcomeTyped DEF OutcomeInv, OutcomesOrdered
<1>3. /\ \A i \in DOMAIN outcomes' : Faithful(outcomes'[i])
      /\ \A i, j \in DOMAIN outcomes' :
            /\ i < j /\ FromBase(outcomes'[j]) /\ outcomes'[i].tx = outcomes'[j].tx
            /\ ~MayReplay(outcomes'[j].tx)
            => FromBase(outcomes'[i])
      /\ \A t \in Tx, i \in DOMAIN outcomes' :
            ~FromBase(outcomes'[i]) /\ outcomes'[i].tx = t => Past(t)
      /\ \A i \in DOMAIN outcomes', j \in DOMAIN Work :
            ~FromBase(outcomes'[i]) /\ ~IsBase(Work[j]) => outcomes'[i].sourceId[2] <= Work[j].at
  <2>1. CASE outcomes' = outcomes
    BY <1>2, <2>1
  <2>2. CASE Busy /\ Publishes
    <3> DEFINE o == Search!Outcome(Hand)
               last == Len(outcomes) + 1
    <3>1. /\ o.tx = Hand.msg.tx /\ Faithful(o) /\ o \in Reports
          /\ IsBase(Hand.msg) => FromBase(o)
          /\ ~IsBase(Hand.msg) => ~FromBase(o) /\ o.sourceId[2] = Hand.msg.at
      BY <2>2, OutcomeIs
    <3>2. Hand.msg.tx \in Tx /\ (IsBase(Hand.msg) => ~Settled(Hand.msg.tx))
          /\ (~IsBase(Hand.msg) => Past(Hand.msg.tx))
      BY <2>2, HandIs
    <3>3. /\ \A i \in DOMAIN outcomes : i \in DOMAIN outcomes' /\ outcomes'[i] = outcomes[i] /\ i < last
          /\ last \in DOMAIN outcomes' /\ outcomes'[last] = o
          /\ \A i \in DOMAIN outcomes' : i \in DOMAIN outcomes \/ i = last
          /\ DOMAIN outcomes' \subseteq Nat /\ last \in Nat
          /\ \A i \in DOMAIN outcomes' : i <= last
      BY <2>2, <3>1, OutcomeAppended DEF Publishes
    <3>4. \A j \in DOMAIN Work : ~IsBase(Hand.msg) /\ ~IsBase(Work[j]) => Hand.msg.at <= Work[j].at
      BY <2>2, HandFirst
    <3> HIDE DEF o, last
    <3>5. \A i \in DOMAIN outcomes' : Faithful(outcomes'[i])
      BY <1>2, <3>1, <3>3
    <3>6. \A t \in Tx, i \in DOMAIN outcomes' :
            ~FromBase(outcomes'[i]) /\ outcomes'[i].tx = t => Past(t)
      BY <1>2, <3>1, <3>2, <3>3
    <3>7. ASSUME NEW i \in DOMAIN outcomes', NEW j \in DOMAIN outcomes', i < j,
                 FromBase(outcomes'[j]), outcomes'[i].tx = outcomes'[j].tx,
                 ~MayReplay(outcomes'[j].tx)
          PROVE  FromBase(outcomes'[i])
      <4>1. i \in DOMAIN outcomes /\ outcomes'[i] = outcomes[i] /\ outcomes[i].tx \in Tx
        <5>1. i # last
          BY <3>3, <3>7
        <5> QED
          BY <1>2, <3>3, <5>1
      <4>2. CASE j \in DOMAIN outcomes
        BY <1>2, <3>3, <3>7, <4>1, <4>2
      <4>3. CASE j = last
        BY <1>2, <3>1, <3>2, <3>3, <3>7, <4>1, <4>3 DEF Past
      <4> QED
        BY <3>3, <4>2, <4>3
    <3>8. \A i \in DOMAIN outcomes', j \in DOMAIN Work :
            ~FromBase(outcomes'[i]) /\ ~IsBase(Work[j]) => outcomes'[i].sourceId[2] <= Work[j].at
      BY <1>2, <3>1, <3>3, <3>4
    <3> QED
      BY <3>5, <3>6, <3>7, <3>8
  <2> QED
    BY <2>1, <2>2, SearchOutcomes
<1>4. \A j \in DOMAIN Work' : \E n \in DOMAIN Work : Work'[j] = Work[n]
  <2>1. CASE Work' = Work
    BY <2>1
  <2>2. CASE Work # << >> /\ Work' = Tail(Work)
    BY <2>2, WorkTail
  <2> QED
    BY <2>1, <2>2, SearchWork
<1>5. \A i \in DOMAIN outcomes', j \in DOMAIN Work' :
        ~FromBase(outcomes'[i]) /\ ~IsBase(Work'[j]) => outcomes'[i].sourceId[2] <= Work'[j].at
  BY <1>3, <1>4
<1>6. OutcomesOrdered'
  <2>1. \A t \in Tx, i \in DOMAIN outcomes' :
          ~FromBase(outcomes'[i]) /\ outcomes'[i].tx = t => Past(t)'
    BY <1>1, <1>3
  <2> QED
    BY <1>1, <1>3, <1>5, <2>1 DEF OutcomesOrdered, FromBase, IsBase, MayReplay
<1>7. \A i \in DOMAIN outcomes' : Faithful(outcomes[i])'
  <2> SUFFICES ASSUME NEW i \in DOMAIN outcomes'
               PROVE  Faithful(outcomes[i])'
    OBVIOUS
  <2>1. PICK o : o = outcomes'[i]
    OBVIOUS
  <2>2. Faithful(o)'
    BY <1>1, <1>3, <2>1, FaithfulSame DEF MayReplay
  <2> QED
    BY <2>1, <2>2 DEF Faithful, FromBase, Indexed, ReportOn, MayReplay
<1> QED
  BY <1>6, <1>7

LEMMA ReportedSearch ==
    ASSUME SearchType, SearchType', AiType, PromiseType, MessagesInv, SettledInv, DocInv, OutcomeInv,
           SearchStep, UNCHANGED <<copies, verdicts>>
    PROVE  LastIsReported'
<1> SUFFICES ASSUME searchErrors' = 0, NEW t \in Tx, NEW k \in Nat, LastVerdict(t, k)', ~MayReplay(t)'
             PROVE  Reporting(k)' \/ Reported(k, t)'
  BY DEF LastIsReported
<1>0. ~MayReplay(t)
  BY MemoryMoves DEF MayReplay
<1>1. ~FailStep /\ ~StaleStep /\ searchErrors = 0
  <2>1. ~FailStep
    BY DEF FailStep, SearchType
  <2> QED
    BY <2>1, NeverStale DEF SearchStep, SkipStep, StartStep, ReadStep, StaleStep, WriteStep,
                            PublishStep, AckStep, RestartStep
<1>2. LastVerdict(t, k)
  BY DEF LastVerdict
<1>3. Reporting(k) \/ Reported(k, t)
  BY <1>0, <1>1, <1>2 DEF OutcomeInv, LastIsReported
<1> DEFINE m == VerdictEvent(k, verdicts[k])
<1>4. k \in DOMAIN verdicts /\ verdicts[k].tx = t /\ verdicts[k] \in Judgements /\ k \in Nat \ {0}
  BY <1>2, ReportIs DEF LastVerdict
<1>5. m \in Messages /\ ~IsBase(m) /\ m.at = k /\ m.tx = t
  BY <1>4, VerdictMessageIs
<1>6. /\ ReportOn(k).tx = t /\ ReportOn(k).sourceId[2] = k /\ ~FromBase(ReportOn(k))
      /\ ReportOn(k)' = ReportOn(k)
  BY <1>4, ReportIs DEF ReportOn
<1> HIDE DEF m
<1>7. \/ (Busy' /\ Busy /\ Publishes /\ PublishStep /\ Work' = Work)
      \/ outcomes' = outcomes /\ ~PublishStep
  <2>1. Busy /\ Publishes => outcomes' # outcomes
    <3>1. Busy => Search!Outcome(Hand) \in Reports
      BY WorkType, OutcomeReport
    <3>2. Busy /\ Publishes => Len(outcomes') = Len(outcomes) + 1 /\ Len(outcomes) \in Nat
      BY <3>1, OutcomeAppended DEF Publishes, SearchType
    <3> QED
      BY <3>2
  <2> QED
    BY <1>1, <2>1 DEF SearchStep, SkipStep, StartStep, ReadStep, WriteStep, PublishStep, AckStep, RestartStep
<1>8. CASE Busy' /\ Busy /\ Publishes /\ PublishStep /\ Work' = Work
  <2> DEFINE o == Search!Outcome(Hand)
             last == Len(outcomes) + 1
  <2>1. /\ o.tx = Hand.msg.tx /\ o \in Reports
        /\ ~IsBase(Hand.msg) => /\ ~FromBase(o) /\ o.sourceId[2] = Hand.msg.at
                                /\ Hand.msg.at \in DOMAIN verdicts /\ o = ReportOn(Hand.msg.at)
                                /\ verdicts[Hand.msg.at].tx = Hand.msg.tx
    BY <1>8, OutcomeIs
  <2>2. /\ Hand.msg.tx \in Tx /\ (IsBase(Hand.msg) => ~Settled(Hand.msg.tx))
        /\ Hand.msg = Work[1] /\ 1 \in DOMAIN Work /\ Hand.msg.at \in Nat
    BY <1>8, HandIs
  <2>3. /\ \A i \in DOMAIN outcomes : i \in DOMAIN outcomes' /\ outcomes'[i] = outcomes[i] /\ i < last
        /\ last \in DOMAIN outcomes' /\ outcomes'[last] = o
        /\ \A i \in DOMAIN outcomes' : i \in DOMAIN outcomes \/ i = last
        /\ DOMAIN outcomes' \subseteq Nat /\ last \in Nat
        /\ \A i \in DOMAIN outcomes' : i <= last
    BY <1>8, <2>1, OutcomeAppended DEF Publishes
  <2> HIDE DEF o, last
  <2>4. ASSUME ~IsBase(Hand.msg), Hand.msg.at = k
        PROVE  Reported(k, t)'
    <3>1. outcomes'[last] = ReportOn(k)
      BY <2>1, <2>3, <2>4
    <3>2. \A n \in DOMAIN outcomes' : ~(last < n)
      BY <2>3
    <3>3. \E i \in DOMAIN outcomes' : /\ outcomes'[i] = ReportOn(k)
                                      /\ \A n \in DOMAIN outcomes' : i < n => outcomes'[n].tx # t
      BY <2>3, <3>1, <3>2
    <3> QED
      BY <1>6, <3>3 DEF Reported, ReportOn
  <2>5. CASE Reporting(k)
    <3>1. PICK j \in DOMAIN Work : Work[j] = m /\ (Busy /\ j = 1 => Hand.pc # "acking")
      BY <2>5 DEF Reporting, m
    <3>2. CASE j = 1
      BY <1>5, <2>2, <2>4, <3>1, <3>2
    <3>3. CASE j # 1
      <4>1. Work'[j] = m /\ j \in DOMAIN Work'
        BY <1>8, <3>1
      <4> QED
        BY <3>3, <4>1 DEF Reporting, m, VerdictEvent
    <3> QED
      BY <3>2, <3>3
  <2>6. CASE Reported(k, t)
    <3>1. PICK i \in DOMAIN outcomes : /\ outcomes[i] = ReportOn(k)
                                       /\ \A n \in DOMAIN outcomes : i < n => outcomes[n].tx # t
      BY <2>6 DEF Reported
    <3>2. CASE o.tx # t
      <4>1. \A n \in DOMAIN outcomes' : i < n => outcomes'[n].tx # t
        BY <2>3, <3>1, <3>2
      <4>2. i \in DOMAIN outcomes' /\ outcomes'[i] = ReportOn(k)
        BY <2>3, <3>1
      <4> QED
        BY <1>6, <4>1, <4>2 DEF Reported, ReportOn
    <3>3. CASE o.tx = t
      <4>1. ~IsBase(Hand.msg)
        <5>1. Settled(t)
          BY <1>0, <1>6, <3>1 DEF OutcomeInv, OutcomesOrdered, Past
        <5> QED
          BY <2>1, <2>2, <3>3, <5>1
      <4>2. k <= Hand.msg.at
        BY <1>6, <2>2, <3>1, <4>1 DEF OutcomeInv, OutcomesOrdered
      <4>3. Hand.msg.at \in DOMAIN verdicts /\ verdicts[Hand.msg.at].tx = t
        BY <2>1, <3>3, <4>1
      <4>4. Hand.msg.at = k
        BY <1>2, <2>2, <4>2, <4>3 DEF LastVerdict
      <4> QED
        BY <2>4, <4>1, <4>4
    <3> QED
      BY <3>2, <3>3
  <2> QED
    BY <1>3, <2>5, <2>6
<1>9. CASE outcomes' = outcomes /\ ~PublishStep
  <2>1. Reported(k, t) => Reported(k, t)'
    BY <1>9 DEF Reported, ReportOn
  <2>2. ASSUME NEW j \in DOMAIN Work, Work[j] = m, Busy /\ j = 1 => Hand.pc # "acking"
        PROVE  Reporting(k)'
    <3>1. CASE Work' = Work
      <4>1. Busy' /\ j = 1 => Hand'.pc # "acking"
        <5> SUFFICES ASSUME Busy', j = 1
                     PROVE  Hand'.pc # "acking"
          OBVIOUS
        <5>1. CASE StartStep \/ ReadStep
          BY <5>1 DEF StartStep, ReadStep
        <5>2. CASE WriteStep
          <6>1. Busy /\ Hand \in SearchHandlers /\ Hand.msg = m /\ Hand.pc = "writing"
            BY <2>2, <5>2, WorkDomain, WorkType DEF WriteStep
          <6>2. Hand.known.base
            BY <1>0, <1>1, <1>5, <6>1 DEF DocInv, DocBases, Steady
          <6>3. Hand' = [Hand EXCEPT !.pc = "publishing"]
            BY <5>2, <6>2 DEF WriteStep, Search!OutcomeDue
          <6> QED
            BY <6>1, <6>3 DEF SearchHandlers
        <5> QED
          BY <1>9, <5>1, <5>2, HandMoves
      <4>2. Work'[j] = m /\ j \in DOMAIN Work'
        BY <2>2, <3>1
      <4> QED
        BY <4>1, <4>2 DEF Reporting, m, VerdictEvent
    <3>2. CASE Work # << >> /\ Work' = Tail(Work) /\ Work' # Work
      <4>1. SkipStep \/ AckStep
        BY <1>1, <3>2 DEF SearchStep, StartStep, ReadStep, WriteStep, PublishStep, RestartStep
      <4>2. j # 1 /\ ~Busy'
        <5>1. CASE SkipStep
          <6>1. ~Busy /\ ~Busy' /\ SearchRemembers(Work[1].id)
            BY <3>2, <5>1, WorkDomain DEF SkipStep, SearchRemembers
          <6> QED
            BY <1>5, <2>2, <6>1 DEF MessagesInv, WaitingNotRemembered, Waits
        <5>2. CASE AckStep
          BY <2>2, <5>2 DEF AckStep
        <5> QED
          BY <4>1, <5>1, <5>2
      <4>3. j - 1 \in DOMAIN Work' /\ Work'[j - 1] = m
        BY <2>2, <3>2, <4>2, WorkTail
      <4> QED
        BY <4>2, <4>3 DEF Reporting, m, VerdictEvent
    <3> QED
      BY <3>1, <3>2, SearchWork
  <2>3. Reporting(k) => Reporting(k)'
    BY <2>2 DEF Reporting, m
  <2> QED
    BY <1>3, <2>1, <2>3
<1> QED
  BY <1>7, <1>8, <1>9

LEMMA FaithfulStays ==
    ASSUME AiType, NEW o \in Reports, Faithful(o), \A t \in Tx : copies[t] > 0 => copies'[t] > 0,
           \A t \in Tx : MayReplay(t) => MayReplay(t)',
           verdicts' = verdicts \/ \E v \in Judgements : verdicts' = Append(verdicts, v)
    PROVE  Faithful(o)'
<1>1. \A k \in DOMAIN verdicts : k \in DOMAIN verdicts' /\ verdicts'[k] = verdicts[k]
  <2>1. ASSUME NEW v \in Judgements, verdicts' = Append(verdicts, v)
        PROVE  \A k \in DOMAIN verdicts : k \in DOMAIN verdicts' /\ verdicts'[k] = verdicts[k]
    BY <2>1, VerdictAppended
  <2> QED
    BY <2>1
<1>2. o.tx \in Tx
  BY OutcomeTyped
<1> QED
  BY <1>1, <1>2 DEF Faithful, FromBase, Indexed, ReportOn

LEMMA OutcomeKept ==
    ASSUME SearchType, AiType, OutcomeInv, UNCHANGED outcomes,
           \A t \in Tx : copies[t] > 0 => copies'[t] > 0,
           \A t \in Tx : MayReplay(t) => MayReplay(t)',
           verdicts' = verdicts \/ \E v \in Judgements : verdicts' = Append(verdicts, v)
    PROVE  \A i \in DOMAIN outcomes' : Faithful(outcomes[i])'
<1> SUFFICES ASSUME NEW i \in DOMAIN outcomes
             PROVE  Faithful(outcomes[i])'
  OBVIOUS
<1>1. PICK o : o = outcomes[i]
  OBVIOUS
<1>2. o \in Reports /\ Faithful(o)
  BY <1>1 DEF SearchType, OutcomeInv
<1>3. Faithful(o)'
  BY <1>2, FaithfulStays
<1> QED
  BY <1>1, <1>3 DEF Faithful, FromBase, Indexed, ReportOn, MayReplay

LEMMA OutcomeSend ==
    ASSUME SearchType, AiType, PromiseType, MessagesInv, SettledInv, OutcomeInv, NEW u \in Tx, SendStep(u)
    PROVE  OutcomeInv'
<1>1. /\ Work' = Append(Work, CreatedEvent(u)) /\ (Busy' <=> Busy) /\ Hand' = Hand
      /\ UNCHANGED <<verdicts, outcomes, searchErrors>>
  BY DEF SendStep
<1>2. CreatedEvent(u) \in Messages /\ IsBase(CreatedEvent(u))
  BY CreatedIs
<1>3. /\ \A j \in DOMAIN Work : j \in DOMAIN Work' /\ Work'[j] = Work[j]
      /\ \A j \in DOMAIN Work' : Work'[j] = CreatedEvent(u) \/ (j \in DOMAIN Work /\ Work'[j] = Work[j])
  BY <1>1, <1>2, WorkAppend
<1>4. \A t \in Tx : (Past(t) => Past(t)') /\ (MayReplay(t) => MayReplay(t)')
  BY SettledSend, ReplaySend
<1>5. \A t \in Tx : copies[t] > 0 => copies'[t] > 0
  BY DEF SendStep, PromiseType
<1>6. \A i \in DOMAIN outcomes' : Faithful(outcomes[i])'
  BY <1>1, <1>4, <1>5, OutcomeKept
<1>7. OutcomesOrdered'
  <2>1. \A i \in DOMAIN outcomes', j \in DOMAIN Work' :
          ~FromBase(outcomes'[i]) /\ ~IsBase(Work'[j]) => outcomes'[i].sourceId[2] <= Work'[j].at
    BY <1>1, <1>2, <1>3 DEF OutcomeInv, OutcomesOrdered
  <2>2. \A i \in DOMAIN outcomes : outcomes[i].tx \in Tx
    BY OutcomeTyped DEF SearchType
  <2>3. \A i \in DOMAIN outcomes : MayReplay(outcomes[i].tx) => MayReplay(outcomes[i].tx)'
    BY <1>1, <1>4, <2>2
  <2> QED
    BY <1>1, <1>4, <2>1, <2>3 DEF OutcomeInv, OutcomesOrdered, FromBase, IsBase
<1>8. LastIsReported'
  <2> SUFFICES ASSUME searchErrors' = 0, NEW t \in Tx, NEW k \in Nat, LastVerdict(t, k)', ~MayReplay(t)'
               PROVE  Reporting(k)' \/ Reported(k, t)'
    BY DEF LastIsReported
  <2>1. Reporting(k) \/ Reported(k, t)
    BY <1>1, <1>4 DEF OutcomeInv, LastIsReported, LastVerdict
  <2>2. Reporting(k) => Reporting(k)'
    BY <1>1, <1>3 DEF Reporting, VerdictEvent
  <2>3. Reported(k, t) => Reported(k, t)'
    BY <1>1 DEF Reported, ReportOn
  <2> QED
    BY <2>1, <2>2, <2>3
<1> QED
  BY <1>6, <1>7, <1>8 DEF OutcomeInv

LEMMA OutcomeVerdict ==
    ASSUME SearchType, AiType, MessagesInv, SettledInv, OutcomeInv, NEW v \in Judgements, VerdictStep(v)
    PROVE  OutcomeInv'
<1> DEFINE n == Len(verdicts) + 1
           new == VerdictEvent(n, v)
           last == Len(Work) + 1
<1>1. /\ Work' = Append(Work, new) /\ (Busy' <=> Busy) /\ Hand' = Hand
      /\ UNCHANGED <<copies, outcomes, searchErrors>> /\ verdicts' = Append(verdicts, v)
  BY DEF VerdictStep
<1>2. /\ \A k \in DOMAIN verdicts : /\ k \in DOMAIN verdicts' /\ verdicts'[k] = verdicts[k]
                                    /\ k < n /\ k \in Nat
      /\ n \in DOMAIN verdicts' /\ verdicts'[n] = v /\ n \in Nat \ {0}
      /\ \A k \in DOMAIN verdicts' : k \in DOMAIN verdicts \/ k = n
  BY <1>1, VerdictAppended
<1> HIDE DEF n
<1>3. new \in Messages /\ ~IsBase(new) /\ new.at = n
  BY <1>2, VerdictMessageIs
<1> HIDE DEF new
<1>4. /\ \A j \in DOMAIN Work : j \in DOMAIN Work' /\ Work'[j] = Work[j] /\ j < last
      /\ last \in DOMAIN Work' /\ Work'[last] = new
      /\ \A j \in DOMAIN Work' : Work'[j] = new \/ (j \in DOMAIN Work /\ Work'[j] = Work[j])
      /\ last = 1 => ~Busy
  <2>1. last = 1 => Len(Work) = 0
    BY WorkDomain
  <2>2. Busy => Len(Work) # 0
    BY WorkDomain
  <2> QED
    BY <1>1, <1>3, <2>1, <2>2, WorkAppend
<1> HIDE DEF last
<1>5. (\A t \in Tx : Past(t)' <=> Past(t)) /\ (\A t : MayReplay(t)' <=> MayReplay(t))
  BY SettledVerdict DEF MayReplay, Forgetful, VerdictStep
<1>6. \A i \in DOMAIN outcomes' : Faithful(outcomes[i])'
  BY <1>1, <1>5, OutcomeKept
<1>7. OutcomesOrdered'
  <2>1. ASSUME NEW i \in DOMAIN outcomes, NEW j \in DOMAIN Work',
               ~FromBase(outcomes[i]), ~IsBase(Work'[j])
        PROVE  outcomes[i].sourceId[2] <= Work'[j].at
    <3>1. CASE j \in DOMAIN Work /\ Work'[j] = Work[j]
      BY <2>1, <3>1 DEF OutcomeInv, OutcomesOrdered
    <3>2. CASE Work'[j] = new
      <4>1. outcomes[i].sourceId[2] \in DOMAIN verdicts
        BY <2>1 DEF OutcomeInv, Faithful
      <4> QED
        BY <1>2, <1>3, <3>2, <4>1
    <3> QED
      BY <1>4, <3>1, <3>2
  <2>2. \A i \in DOMAIN outcomes : MayReplay(outcomes[i].tx) => MayReplay(outcomes[i].tx)'
    BY <1>1, <1>5
  <2> QED
    BY <1>1, <1>5, <2>1, <2>2 DEF OutcomeInv, OutcomesOrdered, FromBase, IsBase
<1>8. LastIsReported'
  <2> SUFFICES ASSUME searchErrors' = 0, NEW t \in Tx, NEW k \in Nat, LastVerdict(t, k)', ~MayReplay(t)'
               PROVE  Reporting(k)' \/ Reported(k, t)'
    BY DEF LastIsReported
  <2>1. k \in DOMAIN verdicts' /\ verdicts'[k].tx = t
        /\ \A i \in DOMAIN verdicts' : k < i => verdicts'[i].tx # t
    BY DEF LastVerdict
  <2>2. CASE k = n
    <3>1. Work'[last] = VerdictEvent(k, verdicts'[k])
      BY <1>2, <1>4, <2>2 DEF new
    <3>2. ~(Busy' /\ last = 1)
      BY <1>1, <1>4
    <3>3. \E j \in DOMAIN Work' : /\ Work'[j] = VerdictEvent(k, verdicts'[k])
                                  /\ (Busy' /\ j = 1 => Hand'.pc # "acking")
      BY <1>4, <3>1, <3>2
    <3> QED
      BY <3>3 DEF Reporting, VerdictEvent
  <2>3. CASE k \in DOMAIN verdicts
    <3>1. LastVerdict(t, k)
      BY <1>2, <2>1, <2>3 DEF LastVerdict
    <3>2. Reporting(k) \/ Reported(k, t)
      BY <1>1, <1>5, <3>1 DEF OutcomeInv, LastIsReported
    <3>3. verdicts'[k] = verdicts[k]
      BY <1>2, <2>3
    <3>4. Reporting(k) => Reporting(k)'
      BY <1>1, <1>4, <3>3 DEF Reporting, VerdictEvent
    <3>5. Reported(k, t) => Reported(k, t)'
      BY <1>1, <3>3 DEF Reported, ReportOn
    <3> QED
      BY <3>2, <3>4, <3>5
  <2> QED
    BY <1>2, <2>1, <2>2, <2>3
<1> QED
  BY <1>6, <1>7, <1>8 DEF OutcomeInv

LEMMA OutcomeQuiet ==
    ASSUME SettledInv, OutcomeInv, QuietStep
    PROVE  OutcomeInv'
<1>1. (\A t \in Tx : Past(t)' <=> Past(t)) /\ (Forgetful' <=> Forgetful)
  BY SettledQuiet DEF Forgetful, QuietStep
<1>2. /\ Work' = Work /\ (Busy' <=> Busy) /\ Hand' = Hand
      /\ UNCHANGED <<copies, verdicts, outcomes, searchErrors>>
  BY DEF QuietStep
<1>3. \A i \in DOMAIN outcomes' : Faithful(outcomes[i])'
  BY <1>1, <1>2 DEF OutcomeInv, Faithful, FromBase, Indexed, ReportOn, MayReplay
<1>4. OutcomesOrdered'
  BY <1>1, <1>2 DEF OutcomeInv, OutcomesOrdered, FromBase, IsBase, MayReplay
<1>5. LastIsReported'
  BY <1>1, <1>2 DEF OutcomeInv, LastIsReported, LastVerdict, Reporting, Reported, VerdictEvent, ReportOn,
                    MayReplay
<1> QED
  BY <1>3, <1>4, <1>5 DEF OutcomeInv

-----------------------------------------------------------------------------
(***************************************************************************)
(* The steps of transaction-service on its own work.                       *)
(***************************************************************************)
LEMMA WorkOfOne ==
    ASSUME NEW M, NEW q \in Seq(M), NEW H, NEW s \in Seq(H), \A h \in H : h.msg \in M, Len(s) <= 1
    PROVE  /\ Requeue(s, q) \in Seq(M)
           /\ s = << >> => Requeue(s, q) = q
           /\ s # << >> => /\ s = <<s[1]>> /\ s[1] \in H /\ DOMAIN s = {1}
                           /\ Requeue(s, q) # << >> /\ Head(Requeue(s, q)) = s[1].msg
                           /\ Tail(Requeue(s, q)) = q
                           /\ RemoveAt(s, 1) = << >>
<1>1. Requeue(s, q) \in Seq(M)
  BY RequeueShape
<1>2. CASE s = << >>
  BY <1>1, <1>2, RequeueNone
<1>3. CASE s # << >>
  <2>1. Len(s) = 1 /\ s = <<s[1]>> /\ s[1] \in H /\ DOMAIN s = {1}
    BY <1>3, AtMostOne
  <2>2. /\ Requeue(s, q) # << >> /\ Head(Requeue(s, q)) = s[1].msg /\ Tail(Requeue(s, q)) = q
    BY <2>1, RequeueOne
  <2>3. RemoveAt(s, 1) = << >>
    BY <2>1, OneLeaves
  <2> QED
    BY <1>1, <1>3, <2>1, <2>2, <2>3
<1> QED
  BY <1>2, <1>3

Results ==
    [id : Nat, type : {"search.index.updated", "search.index.rejected"}, tx : Tx,
     source : MessageTypes, moderation : {"none", "ALLOW", "REVIEW"}]

RowHandlers == [msg : Results, pc : {"applying", "acking"}]

\* The values of transaction-service's variables, when its prefetch limit is one.
RowType ==
    /\ rowQueue \in Seq(Results)
    /\ rowInflight \in Seq(RowHandlers) /\ Len(rowInflight) <= 1
    /\ rowProcessed \in Seq(Nat)
    /\ row \in [Tx -> Row!Rows]
    /\ rowErrors \in Nat

RowBusy == rowInflight # << >>
RowHand == rowInflight[1]
RowWork == Requeue(rowInflight, rowQueue)

Updates == row' = [row EXCEPT ![RowHand.msg.tx] = Row!Updated(RowHand.msg, @)]

RowStarts ==
    /\ ~RowBusy /\ RowBusy' /\ RowWork # << >>
    /\ RowWork' = RowWork
    /\ RowHand' = [msg |-> Head(RowWork), pc |-> "applying"]
    /\ \A id : Remembered(rowProcessed', id)
                  => id = Head(RowWork).id \/ Remembered(rowProcessed, id)
    /\ UNCHANGED <<row, rowErrors>>

RowApplies ==
    /\ RowBusy /\ RowBusy' /\ RowHand.pc = "applying"
    /\ RowWork' = RowWork
    /\ Updates
    /\ RowHand' = [RowHand EXCEPT !.pc = "acking"]
    /\ UNCHANGED <<rowProcessed, rowErrors>>

RowAcks ==
    /\ RowBusy /\ ~RowBusy' /\ RowHand.pc = "acking"
    /\ RowWork' = Tail(RowWork)
    /\ UNCHANGED <<row, rowProcessed, rowErrors>>

RowFails ==
    /\ RowBusy /\ ~RowBusy'
    /\ RowWork' = Tail(RowWork)
    /\ Updates \/ UNCHANGED row
    /\ rowErrors' = rowErrors + 1
    /\ UNCHANGED rowProcessed

RowRepeats ==
    /\ ~RowBusy' /\ rowProcessed' = << >>
    /\ RowWork' = RowWork
    /\ UNCHANGED <<row, rowErrors>>

RowStep == RowStarts \/ RowApplies \/ RowAcks \/ RowFails \/ RowRepeats

LEMMA ResultTyped ==
    ASSUME NEW o \in Results
    PROVE  /\ o.id \in Nat /\ o.tx \in Tx /\ o.type \in {"search.index.updated", "search.index.rejected"}
           /\ o.source \in MessageTypes /\ o.moderation \in {"none", "ALLOW", "REVIEW"}
  BY DEF Results

LEMMA RowWorkType ==
    ASSUME RowType
    PROVE  /\ RowWork \in Seq(Results)
           /\ Len(RowWork) \in Nat /\ DOMAIN RowWork = 1..Len(RowWork)
           /\ RowWork # << >> => 1 \in DOMAIN RowWork /\ Head(RowWork) = RowWork[1]
           /\ ~RowBusy => RowWork = rowQueue
           /\ RowBusy => /\ rowInflight = <<RowHand>> /\ RowHand \in RowHandlers
                         /\ RowHand.msg \in Results
                         /\ RowWork # << >> /\ RowHand.msg = RowWork[1] /\ Tail(RowWork) = rowQueue
                         /\ DOMAIN rowInflight = {1} /\ RemoveAt(rowInflight, 1) = << >>
<1>1. \A h \in RowHandlers : h.msg \in Results
  BY DEF RowHandlers
<1>2. rowQueue \in Seq(Results) /\ rowInflight \in Seq(RowHandlers) /\ Len(rowInflight) <= 1
  BY DEF RowType
<1>3. /\ RowWork \in Seq(Results)
      /\ rowInflight = << >> => RowWork = rowQueue
      /\ rowInflight # << >> =>
            /\ rowInflight = <<rowInflight[1]>> /\ rowInflight[1] \in RowHandlers
            /\ DOMAIN rowInflight = {1}
            /\ RowWork # << >> /\ Head(RowWork) = rowInflight[1].msg /\ Tail(RowWork) = rowQueue
            /\ RemoveAt(rowInflight, 1) = << >>
  BY <1>1, <1>2, WorkOfOne DEF RowWork
<1>4. /\ Len(RowWork) \in Nat /\ DOMAIN RowWork = 1..Len(RowWork)
      /\ RowWork # << >> => 1 \in DOMAIN RowWork /\ Head(RowWork) = RowWork[1]
  BY <1>3
<1> QED
  BY <1>1, <1>3, <1>4 DEF RowBusy, RowHand

LEMMA RowConsumesShape ==
    ASSUME RowPrefetch = 1, RowType, RowConsumes,
           ~RowBusy /\ RowWork # << >> => /\ ~Remembered(rowProcessed, Head(RowWork).id)
                                          /\ Row!Applicable(Head(RowWork))
    PROVE  RowType' /\ RowStarts
<1> DEFINE o == Head(rowQueue)
<1>1. /\ rowQueue # << >> /\ Len(rowInflight) < 1 /\ rowQueue' = Tail(rowQueue)
      /\ UNCHANGED <<row, rowErrors>>
      /\ \/ Remembered(rowProcessed, o.id)
         \/ ~Row!Applicable(o)
         \/ /\ rowProcessed' = Remember(rowProcessed, o.id, MaxTracked)
            /\ rowInflight' = Append(rowInflight, [msg |-> o, pc |-> "applying"])
  BY DEF RowConsumes, Row!Consume, Row!SkipDuplicate, Row!IgnoreOutcome, Row!StartHandler,
         Row!Accept, Row!Delivers, Row!Remembered, Remembered, Row!Remember, Remember
<1>2. /\ rowQueue \in Seq(Results) /\ rowInflight \in Seq(RowHandlers) /\ rowProcessed \in Seq(Nat)
      /\ MaxTracked \in Nat \ {0} /\ row \in [Tx -> Row!Rows] /\ rowErrors \in Nat
  BY PipelineAssumption DEF RowType
<1>3. rowInflight = << >>
  BY <1>1, <1>2
<1>4. ~RowBusy /\ RowWork = rowQueue /\ RowWork # << >> /\ Head(RowWork) = o
  BY <1>1, <1>3, RowWorkType DEF RowBusy
<1>5. o \in Results /\ o.id \in Nat /\ Tail(rowQueue) \in Seq(Results)
  <2>1. o \in Results /\ Tail(rowQueue) \in Seq(Results)
    BY <1>1, <1>2
  <2> QED
    BY <2>1, ResultTyped
<1> DEFINE h == [msg |-> o, pc |-> "applying"]
<1>6. h \in RowHandlers /\ h.msg = o
  BY <1>5 DEF RowHandlers
<1>7. rowProcessed' = Remember(rowProcessed, o.id, MaxTracked) /\ rowInflight' = <<h>>
  BY <1>1, <1>3, <1>4
<1> HIDE DEF h
<1>8. rowInflight' \in Seq(RowHandlers) /\ Len(rowInflight') <= 1 /\ rowInflight'[1] = h
        /\ rowInflight' # << >>
  BY <1>6, <1>7
<1>9. RowWork' = RowWork
  <2>1. Requeue(<<h>>, Tail(rowQueue)) = rowQueue
    BY <1>1, <1>2, <1>6, WorkStarts
  <2> QED
    BY <1>1, <1>4, <1>7, <2>1 DEF RowWork
<1>10. rowProcessed' \in Seq(Nat)
  <2> DEFINE pushed == Append(rowProcessed, o.id)
  <2>1. pushed \in Seq(Nat) /\ pushed # << >>
    BY <1>2, <1>5
  <2> HIDE DEF pushed
  <2>2. Tail(pushed) \in Seq(Nat)
    BY <2>1
  <2> QED
    BY <1>7, <2>1, <2>2 DEF Remember, pushed
<1>11. \A id : Remembered(rowProcessed', id) => id = o.id \/ Remembered(rowProcessed, id)
  BY <1>2, <1>5, <1>7, RememberAdds
<1>12. RowType'
  BY <1>1, <1>2, <1>5, <1>8, <1>10 DEF RowType
<1> QED
  BY <1>1, <1>4, <1>8, <1>9, <1>11, <1>12 DEF RowStarts, RowBusy, RowHand, h

LEMMA UpdatedRow ==
    ASSUME NEW o \in Results, NEW r \in Row!Rows
    PROVE  Row!Updated(o, r) \in Row!Rows
<1>1. o.moderation \in {"none", "ALLOW", "REVIEW"}
  BY ResultTyped
<1>2. /\ r.version \in Nat \ {0} /\ r.version + 1 \in Nat \ {0} /\ r.enriched \in BOOLEAN
  BY DEF Row!Rows
<1>3. CASE o.type = "search.index.rejected"
  BY <1>2, <1>3 DEF Row!Updated, Row!Rows
<1>4. CASE o.type # "search.index.rejected" /\ o.source \in Row!BaseSources
  BY <1>2, <1>4 DEF Row!Updated, Row!Rows
<1>5. CASE o.type # "search.index.rejected" /\ o.source \notin Row!BaseSources
  <2>1. (r.enriched \/ o.moderation # "none") \in BOOLEAN
    BY <1>2
  <2>2. (IF o.moderation = "none" THEN "ALLOW" ELSE o.moderation) \in {"ALLOW", "REVIEW"}
    BY <1>1
  <2> QED
    BY <1>2, <1>5, <2>1, <2>2 DEF Row!Updated, Row!Rows
<1> QED
  BY <1>3, <1>4, <1>5

LEMMA RowHandChanges ==
    ASSUME RowType, RowBusy, NEW g \in RowHandlers, g.msg = RowHand.msg,
           rowInflight' = [rowInflight EXCEPT ![1] = g], UNCHANGED rowQueue
    PROVE  /\ RowBusy' /\ RowWork' = RowWork /\ RowHand' = g
           /\ rowInflight' \in Seq(RowHandlers) /\ Len(rowInflight') <= 1
<1>1. /\ rowInflight \in Seq(RowHandlers) /\ Len(rowInflight) <= 1
      /\ rowInflight # << >> /\ rowQueue \in Seq(Results)
  BY DEF RowType, RowBusy
<1> DEFINE r == <<g>>
<1>2. rowInflight' = r
  BY <1>1, AtMostOne, OneChanges
<1>3. r \in Seq(RowHandlers) /\ Len(r) = 1 /\ r[1] = g /\ r # << >> /\ DOMAIN r = {1}
  OBVIOUS
<1> HIDE DEF r
<1>4. [i \in DOMAIN rowInflight |-> rowInflight[i].msg] = [i \in {1} |-> RowHand.msg]
  BY <1>1, AtMostOne DEF RowHand
<1>5. [i \in DOMAIN rowInflight' |-> rowInflight'[i].msg] = [i \in {1} |-> RowHand.msg]
  BY <1>2, <1>3
<1>6. RowWork' = RowWork
  BY <1>4, <1>5 DEF RowWork, Requeue
<1>7. /\ rowInflight' \in Seq(RowHandlers) /\ Len(rowInflight') <= 1
      /\ rowInflight'[1] = g /\ rowInflight' # << >>
  <2>1. Len(r) <= 1
    BY <1>3
  <2>2. rowInflight' \in Seq(RowHandlers) /\ Len(rowInflight') <= 1
    BY <1>2, <1>3, <2>1
  <2>3. rowInflight'[1] = g
    BY <1>2, <1>3
  <2>4. rowInflight' # << >>
    BY <1>2, <1>3
  <2> QED
    BY <2>2, <2>3, <2>4
<1> QED
  BY <1>6, <1>7 DEF RowBusy, RowHand

LEMMA RowHandlesShape ==
    ASSUME RowType, RowHandles
    PROVE  RowType' /\ (RowApplies \/ RowAcks \/ RowFails)
<1>0. RowBusy
  BY DEF RowHandles, RowBusy
<1>1. Row!HandlerStep(1) /\ rowInflight[1] = RowHand
  BY <1>0, RowWorkType DEF RowHandles, RowHand
<1>2. /\ RowHand \in RowHandlers /\ RowHand.msg \in Results /\ RowHand.msg.tx \in Tx
      /\ rowInflight # << >>
  BY <1>0, RowWorkType, ResultTyped DEF RowBusy
<1>3. /\ rowQueue \in Seq(Results) /\ rowInflight \in Seq(RowHandlers) /\ Len(rowInflight) <= 1
      /\ rowProcessed \in Seq(Nat) /\ row \in [Tx -> Row!Rows] /\ rowErrors \in Nat
  BY DEF RowType
<1>4. Updates => row' \in [Tx -> Row!Rows]
  <2>1. Row!Updated(RowHand.msg, row[RowHand.msg.tx]) \in Row!Rows
    BY <1>2, <1>3, UpdatedRow
  <2> QED
    BY <1>2, <1>3, <2>1 DEF Updates
<1>5. ASSUME rowInflight' = RemoveAt(rowInflight, 1), UNCHANGED rowQueue
      PROVE  /\ ~RowBusy' /\ RowWork' = Tail(RowWork)
             /\ rowInflight' \in Seq(RowHandlers) /\ Len(rowInflight') <= 1
  <2>1. rowInflight' = << >> /\ Tail(RowWork) = rowQueue
    BY <1>0, <1>5, RowWorkType
  <2>2. RowWork' = rowQueue
    BY <1>3, <1>5, <2>1, RequeueNone DEF RowWork
  <2>3. << >> \in Seq(RowHandlers) /\ Len(<< >>) <= 1
    OBVIOUS
  <2> QED
    BY <2>1, <2>2, <2>3 DEF RowBusy
<1>6. CASE Row!ApplyOutcome(1)
  <2> DEFINE g == [RowHand EXCEPT !.pc = "acking"]
  <2>1. g \in RowHandlers /\ g.msg = RowHand.msg
    BY <1>2 DEF RowHandlers
  <2>2. /\ rowInflight' = [rowInflight EXCEPT ![1] = g] /\ RowHand.pc = "applying"
        /\ Updates /\ UNCHANGED <<rowQueue, rowProcessed, rowErrors>>
    BY <1>1, <1>6 DEF Row!ApplyOutcome, Row!Goto, Row!Update, Updates
  <2> HIDE DEF g
  <2>3. /\ RowBusy' /\ RowWork' = RowWork /\ RowHand' = g
        /\ rowInflight' \in Seq(RowHandlers) /\ Len(rowInflight') <= 1
    BY <1>0, <2>1, <2>2, RowHandChanges
  <2>4. RowType'
    BY <1>3, <1>4, <2>2, <2>3 DEF RowType
  <2> QED
    BY <1>0, <2>2, <2>3, <2>4 DEF RowApplies, g
<1>7. ~Row!RecordNotFound(1)
  BY <1>1, <1>2 DEF Row!RecordNotFound
<1>8. CASE Row!Ack(1)
  <2>1. /\ rowInflight' = RemoveAt(rowInflight, 1) /\ RowHand.pc = "acking"
        /\ UNCHANGED <<rowQueue, rowProcessed, row, rowErrors>>
    BY <1>1, <1>8 DEF Row!Ack, Row!Leave, Row!RemoveAt, RemoveAt
  <2>2. RowType'
    BY <1>3, <1>5, <2>1 DEF RowType
  <2> QED
    BY <1>0, <1>5, <2>1, <2>2 DEF RowAcks
<1>9. CASE Row!HandlerFails(1)
  <2>1. /\ rowInflight' = RemoveAt(rowInflight, 1)
        /\ UNCHANGED <<rowQueue, rowProcessed>> /\ rowErrors' = rowErrors + 1
        /\ Updates \/ UNCHANGED row
    BY <1>1, <1>9 DEF Row!HandlerFails, Row!Leave, Row!RemoveAt, RemoveAt, Row!Update, Updates
  <2>2. RowType'
    <3>1. rowErrors' \in Nat /\ row' \in [Tx -> Row!Rows]
      BY <1>3, <1>4, <2>1
    <3> QED
      BY <1>3, <1>5, <2>1, <3>1 DEF RowType
  <2> QED
    BY <1>0, <1>5, <2>1, <2>2 DEF RowFails
<1> QED
  BY <1>1, <1>6, <1>7, <1>8, <1>9 DEF Row!HandlerStep

LEMMA RowRestartShape ==
    ASSUME RowType, RowRestart
    PROVE  RowType' /\ RowRepeats
<1>1. /\ rowQueue' = RowWork /\ rowInflight' = << >> /\ rowProcessed' = << >>
      /\ UNCHANGED <<row, rowErrors>>
  BY DEF RowRestart, Row!Restart, Row!Requeue, Requeue, RowWork
<1>2. RowWork \in Seq(Results)
  BY RowWorkType
<1>3. RowWork' = RowWork
  BY <1>1, <1>2, RequeueNone DEF RowWork
<1>4. << >> \in Seq(RowHandlers) /\ Len(<< >>) <= 1 /\ << >> \in Seq(Nat)
  OBVIOUS
<1>5. RowType'
  BY <1>1, <1>2, <1>4 DEF RowType
<1> QED
  BY <1>1, <1>3, <1>5 DEF RowRepeats, RowBusy

\* An outcome is published to transaction-service.
LEMMA RowArrives ==
    ASSUME RowType, NEW o \in Results, rowQueue' = Append(rowQueue, o), UNCHANGED rowVars
    PROVE  /\ RowType' /\ RowWork' = Append(RowWork, o) /\ (RowBusy' <=> RowBusy) /\ RowHand' = RowHand
           /\ UNCHANGED <<rowProcessed, row, rowErrors>>
<1>1. UNCHANGED <<rowInflight, rowProcessed, row, rowErrors>>
  BY DEF rowVars
<1>2. /\ rowQueue \in Seq(Results) /\ rowInflight \in Seq(RowHandlers)
      /\ \A h \in RowHandlers : h.msg \in Results
  BY DEF RowType, RowHandlers
<1>3. RowWork' = Append(RowWork, o)
  BY <1>1, <1>2, WorkGrows DEF RowWork
<1>4. rowQueue' \in Seq(Results)
  BY <1>2
<1> QED
  BY <1>1, <1>3, <1>4 DEF RowType, RowBusy, RowHand

-----------------------------------------------------------------------------
(***************************************************************************)
(* The rows: transaction-service works on the last of the outcomes.        *)
(***************************************************************************)
\* How many outcomes transaction-service is done with.
Done == Len(outcomes) - Len(RowWork)

\* The verdict an outcome reports, and what a row shows of it.
Says(o) == IF o.source = "ai.rejected" THEN "REJECT" ELSE o.moderation

Shown(o, r) ==
    ~FromBase(o) => r.moderationStatus = Says(o) /\ r.state = Decision(Says(o))

RowWorkIs ==
    /\ Len(RowWork) <= Len(outcomes)
    /\ \A i \in DOMAIN RowWork : /\ Done + i \in DOMAIN outcomes
                                 /\ RowWork[i] = OutcomeEvent(Done + i, outcomes[Done + i])

\* No outcome is remembered that transaction-service has not begun.
RowMemory ==
    \A id \in Nat : Remembered(rowProcessed, id) => id <= Done \/ (RowBusy /\ id = Done + 1)

\* A row leaves its first state only when its event was sent, and is decided only
\* by an outcome that is done or next (a restart repeats that one), unless by a replay.
RowCauses ==
    \A t \in Tx :
        /\ row[t].state # "INITIATED" => copies[t] > 0
        /\ row[t].state \in {"READY", "REJECTED_MODERATION"} /\ ~MayReplay(t) =>
              \E j \in DOMAIN outcomes : /\ j <= Done + 1
                                         /\ outcomes[j].tx = t /\ ~FromBase(outcomes[j])

\* Without failed calls a row shows the last outcome about it that is done, unless
\* the next one is about it too.
RowShown ==
    rowErrors = 0 =>
        /\ \A k \in DOMAIN outcomes :
              /\ k <= Done
              /\ \A n \in DOMAIN outcomes : k < n /\ n <= Done + 1 => outcomes[n].tx # outcomes[k].tx
              => Shown(outcomes[k], row[outcomes[k].tx])
        /\ RowBusy /\ RowHand.pc = "acking" =>
              Shown(outcomes[Done + 1], row[outcomes[Done + 1].tx])

RowInv == RowWorkIs /\ RowMemory /\ RowCauses /\ RowShown

LEMMA OutcomeEventIs ==
    ASSUME NEW o \in Reports, NEW k \in Nat
    PROVE  /\ OutcomeEvent(k, o) \in Results
           /\ OutcomeEvent(k, o).id = k /\ OutcomeEvent(k, o).tx = o.tx
           /\ OutcomeEvent(k, o).type = o.type /\ OutcomeEvent(k, o).source = o.source
           /\ OutcomeEvent(k, o).moderation = o.moderation
<1>1. /\ o.tx \in Tx /\ o.source \in MessageTypes /\ o.moderation \in {"none", "ALLOW", "REVIEW"}
      /\ o.type \in {"search.index.updated", "search.index.rejected"}
  BY OutcomeTyped
<1> QED
  BY <1>1 DEF OutcomeEvent, Results

\* The kinds of outcomes search-service publishes.
LEMMA FaithfulKinds ==
    ASSUME AiType, NEW o \in Reports, Faithful(o)
    PROVE  \/ /\ FromBase(o) /\ o.source = "transaction.created"
              /\ MayReplay(o.tx) \/ o.type = "search.index.updated"
           \/ /\ ~FromBase(o) /\ o.type = "search.index.updated" /\ o.source = "ai.enriched"
              /\ o.moderation \in {"ALLOW", "REVIEW"}
           \/ /\ ~FromBase(o) /\ o.type = "search.index.rejected" /\ o.source = "ai.rejected"
<1>1. CASE FromBase(o)
  BY <1>1 DEF Faithful, Indexed, FromBase
<1>2. CASE ~FromBase(o)
  <2>1. PICK k \in DOMAIN verdicts : o = ReportOn(k)
    BY <1>2 DEF Faithful
  <2>2. verdicts[k] \in Judgements
    BY ReportIs
  <2>3. /\ verdicts[k].type \in {"ai.enriched", "ai.rejected"}
        /\ verdicts[k].type = "ai.enriched" => verdicts[k].moderation \in {"ALLOW", "REVIEW"}
    BY <2>2 DEF Judgements
  <2> QED
    BY <1>2, <2>1, <2>3 DEF ReportOn
<1> QED
  BY <1>1, <1>2

LEMMA UpdatedShows ==
    ASSUME AiType, NEW o \in Reports, Faithful(o), NEW k \in Nat, NEW r \in Row!Rows
    PROVE  LET new == Row!Updated(OutcomeEvent(k, o), r)
           IN  /\ Shown(o, new)
               /\ FromBase(o) /\ ~MayReplay(o.tx) => new.state = "AI_PROCESSING"
               /\ ~FromBase(o) => new.state = Decision(Says(o))
<1> DEFINE e == OutcomeEvent(k, o)
           new == Row!Updated(e, r)
<1>1. e.type = o.type /\ e.source = o.source /\ e.moderation = o.moderation
  BY OutcomeEventIs
<1> HIDE DEF e
<1>2. CASE /\ FromBase(o) /\ o.source = "transaction.created"
           /\ MayReplay(o.tx) \/ o.type = "search.index.updated"
  <2>1. ~MayReplay(o.tx) => new.state = "AI_PROCESSING"
    BY <1>1, <1>2 DEF Row!Updated, Row!BaseSources, Row!Rows
  <2> QED
    BY <1>2, <2>1 DEF Shown, e
<1>3. CASE /\ ~FromBase(o) /\ o.type = "search.index.updated" /\ o.source = "ai.enriched"
           /\ o.moderation \in {"ALLOW", "REVIEW"}
  <2>1. new.state = "READY" /\ new.moderationStatus = o.moderation
    BY <1>1, <1>3 DEF Row!Updated, Row!BaseSources, Row!Rows
  <2> QED
    BY <1>3, <2>1 DEF Shown, Decision, Says, e
<1>4. CASE ~FromBase(o) /\ o.type = "search.index.rejected" /\ o.source = "ai.rejected"
  <2>1. new.state = "REJECTED_MODERATION" /\ new.moderationStatus = "REJECT"
    BY <1>1, <1>4 DEF Row!Updated, Row!Rows
  <2> QED
    BY <1>4, <2>1 DEF Shown, Decision, Says, e
<1> QED
  BY <1>2, <1>3, <1>4, FaithfulKinds

\* The outcome at the head of the work.
LEMMA RowHeadIs ==
    ASSUME RowType, SearchType, AiType, OutcomeInv, RowInv, RowWork # << >>
    PROVE  LET o == outcomes[Done + 1]
           IN  /\ Done \in Nat /\ Done + 1 \in DOMAIN outcomes
               /\ RowWork[1] = OutcomeEvent(Done + 1, o) /\ Head(RowWork) = RowWork[1]
               /\ o \in Reports /\ Faithful(o) /\ o.tx \in Tx /\ copies[o.tx] > 0
               /\ RowWork[1].id = Done + 1 /\ RowWork[1].tx = o.tx
               /\ Row!Applicable(RowWork[1])
               /\ ~RowBusy => ~Remembered(rowProcessed, RowWork[1].id)
<1> DEFINE n == Done + 1
           o == outcomes[n]
           m == RowWork[1]
<1>1. outcomes \in Seq(Reports) /\ RowWork \in Seq(Results) /\ Len(RowWork) <= Len(outcomes)
  BY RowWorkType DEF SearchType, RowInv, RowWorkIs
<1>2. Done \in Nat /\ n \in Nat
  BY <1>1 DEF Done
<1>3. 1 \in DOMAIN RowWork /\ Head(RowWork) = m
  BY RowWorkType
<1>4. n \in DOMAIN outcomes /\ m = OutcomeEvent(n, o)
  BY <1>3 DEF RowInv, RowWorkIs
<1>5. o \in Reports /\ Faithful(o)
  BY <1>1, <1>4 DEF OutcomeInv
<1>6. o.tx \in Tx /\ copies[o.tx] > 0
  BY <1>5, OutcomeTyped DEF Faithful
<1>7. m.id = n /\ m.tx = o.tx /\ m.type = o.type /\ m.source = o.source
  BY <1>2, <1>4, <1>5, OutcomeEventIs
<1>8. Row!Applicable(m)
  BY <1>5, <1>7, FaithfulKinds, OutcomeTyped DEF Row!Applicable, Row!BaseSources
<1>9. ~RowBusy => ~Remembered(rowProcessed, m.id)
  <2> SUFFICES ASSUME ~RowBusy, Remembered(rowProcessed, n)
               PROVE  FALSE
    BY <1>7
  <2>1. n <= Done
    BY <1>2 DEF RowInv, RowMemory
  <2> QED
    BY <1>2, <2>1
<1> QED
  BY <1>2, <1>3, <1>4, <1>5, <1>6, <1>7, <1>8, <1>9

LEMMA RowWorkKept ==
    ASSUME RowInv, RowWork' = RowWork, UNCHANGED outcomes
    PROVE  Done' = Done /\ RowWorkIs'
<1>1. Done' = Done
  BY DEF Done
<1> QED
  BY <1>1 DEF RowInv, RowWorkIs, OutcomeEvent

LEMMA RowWorkLeaves ==
    ASSUME RowType, SearchType, RowInv, RowWork # << >>, RowWork' = Tail(RowWork), UNCHANGED outcomes
    PROVE  Done' = Done + 1 /\ Done \in Nat /\ RowWorkIs'
<1> DEFINE tail == Tail(RowWork)
<1>1. outcomes \in Seq(Reports) /\ RowWork \in Seq(Results) /\ Len(RowWork) <= Len(outcomes)
  BY RowWorkType DEF SearchType, RowInv, RowWorkIs
<1>2. /\ Len(tail) = Len(RowWork) - 1
      /\ \A i \in DOMAIN tail : i \in Nat /\ i + 1 \in DOMAIN RowWork /\ tail[i] = RowWork[i + 1]
  BY <1>1
<1> HIDE DEF tail
<1>3. Done' = Done + 1 /\ Done \in Nat
  BY <1>1, <1>2 DEF Done, tail
<1>4. Len(tail) <= Len(outcomes)
  BY <1>1, <1>2
<1>5. ASSUME NEW i \in DOMAIN tail
      PROVE  /\ Done' + i \in DOMAIN outcomes
             /\ tail[i] = OutcomeEvent(Done' + i, outcomes[Done' + i])
  <2>1. i \in Nat /\ i + 1 \in DOMAIN RowWork /\ tail[i] = RowWork[i + 1]
    BY <1>2
  <2>2. Done' + i = Done + (i + 1)
    BY <1>3, <2>1
  <2> QED
    BY <2>1, <2>2 DEF RowInv, RowWorkIs
<1>6. RowWorkIs'
  BY <1>4, <1>5 DEF RowWorkIs, OutcomeEvent, tail
<1> QED
  BY <1>3, <1>6

\* What the update of a row from the head of the work changes.
LEMMA RowUpdates ==
    ASSUME RowType, SearchType, AiType, OutcomeInv, RowInv, RowBusy, Updates
    PROVE  LET o == outcomes[Done + 1]
           IN  /\ \A u \in Tx : u # o.tx => row'[u] = row[u]
               /\ Shown(o, row'[o.tx])
               /\ FromBase(o) /\ ~MayReplay(o.tx) => row'[o.tx].state = "AI_PROCESSING"
               /\ ~FromBase(o) => row'[o.tx].state = Decision(Says(o))
<1> DEFINE o == outcomes[Done + 1]
           t == o.tx
<1>1. RowWork # << >> /\ RowHand.msg = RowWork[1] /\ row \in [Tx -> Row!Rows]
  BY RowWorkType DEF RowType
<1>2. /\ Done + 1 \in Nat /\ RowHand.msg = OutcomeEvent(Done + 1, o) /\ RowHand.msg.tx = t
      /\ o \in Reports /\ Faithful(o) /\ t \in Tx
  BY <1>1, RowHeadIs
<1>3. row' = [row EXCEPT ![t] = Row!Updated(OutcomeEvent(Done + 1, o), row[t])]
  BY <1>2 DEF Updates
<1>4. row[t] \in Row!Rows
  BY <1>1, <1>2
<1>5. /\ row'[t] = Row!Updated(OutcomeEvent(Done + 1, o), row[t])
      /\ \A u \in Tx : u # t => row'[u] = row[u]
  BY <1>1, <1>2, <1>3
<1> QED
  BY <1>2, <1>4, <1>5, UpdatedShows

\* After the head of the work was applied or dropped, the causes of the rows hold.
LEMMA RowCausesStep ==
    ASSUME RowType, SearchType, AiType, OutcomeInv, RowInv,
           (RowBusy /\ Updates) \/ UNCHANGED row, Done' = Done \/ Done' = Done + 1, Done \in Int,
           UNCHANGED outcomes, \A t \in Tx : copies[t] > 0 => copies'[t] > 0,
           \A t \in Tx : MayReplay(t) => MayReplay(t)'
    PROVE  RowCauses'
<1> SUFFICES ASSUME NEW t \in Tx
             PROVE  /\ row'[t].state # "INITIATED" => copies'[t] > 0
                    /\ row'[t].state \in {"READY", "REJECTED_MODERATION"} /\ ~MayReplay(t) =>
                          \E j \in DOMAIN outcomes : /\ j <= Done' + 1
                                                     /\ outcomes[j].tx = t /\ ~FromBase(outcomes[j])
  BY DEF RowCauses, FromBase
<1>1. DOMAIN outcomes \subseteq Nat
  BY DEF SearchType
<1>2. CASE row'[t] = row[t]
  <2>1. row[t].state \in {"READY", "REJECTED_MODERATION"} /\ ~MayReplay(t) =>
           \E j \in DOMAIN outcomes : j <= Done + 1 /\ outcomes[j].tx = t /\ ~FromBase(outcomes[j])
    BY DEF RowInv, RowCauses
  <2> QED
    BY <1>1, <1>2, <2>1 DEF RowInv, RowCauses
<1>3. CASE row'[t] # row[t]
  <2> DEFINE o == outcomes[Done + 1]
  <2>1. RowBusy /\ Updates
    BY <1>3
  <2>2. /\ \A u \in Tx : u # o.tx => row'[u] = row[u]
        /\ FromBase(o) /\ ~MayReplay(o.tx) => row'[o.tx].state = "AI_PROCESSING"
    BY <2>1, RowUpdates
  <2>3. o.tx = t /\ (row'[t].state \in {"READY", "REJECTED_MODERATION"} /\ ~MayReplay(t) => ~FromBase(o))
    BY <1>3, <2>2
  <2>4. RowWork # << >>
    BY <2>1, RowWorkType
  <2>5. Done + 1 \in DOMAIN outcomes /\ copies[t] > 0
    BY <2>3, <2>4, RowHeadIs
  <2>6. Done + 1 <= Done' + 1
    OBVIOUS
  <2> QED
    BY <2>3, <2>5, <2>6
<1> QED
  BY <1>2, <1>3

LEMMA RowSteps ==
    ASSUME RowType, SearchType, AiType, OutcomeInv, RowInv, RowStep, UNCHANGED <<outcomes, copies>>,
           \A t \in Tx : MayReplay(t) => MayReplay(t)'
    PROVE  RowInv'
<1> DEFINE Latest(k, max) ==
             \A n \in DOMAIN outcomes : k < n /\ n <= max => outcomes[n].tx # outcomes[k].tx
<1>1. /\ outcomes \in Seq(Reports) /\ DOMAIN outcomes \subseteq Nat /\ Done \in Nat
      /\ rowErrors \in Nat /\ \A k \in DOMAIN outcomes : outcomes[k].tx \in Tx
  <2>1. outcomes \in Seq(Reports) /\ Len(RowWork) \in Nat /\ Len(RowWork) <= Len(outcomes)
    BY RowWorkType DEF SearchType, RowInv, RowWorkIs
  <2>2. \A k \in DOMAIN outcomes : outcomes[k] \in Reports
    BY <2>1
  <2> QED
    BY <2>1, <2>2, OutcomeTyped DEF Done, RowType
<1>2. /\ \A id \in Nat : Remembered(rowProcessed, id) => id <= Done \/ (RowBusy /\ id = Done + 1)
      /\ rowErrors = 0 =>
            /\ \A k \in DOMAIN outcomes :
                  k <= Done /\ Latest(k, Done + 1) => Shown(outcomes[k], row[outcomes[k].tx])
            /\ RowBusy /\ RowHand.pc = "acking" =>
                  Shown(outcomes[Done + 1], row[outcomes[Done + 1].tx])
  BY DEF RowInv, RowMemory, RowShown
<1>3. SUFFICES /\ RowWorkIs' /\ RowCauses'
               /\ \A id \in Nat : Remembered(rowProcessed', id) =>
                     id <= Done' \/ (RowBusy' /\ id = Done' + 1)
               /\ rowErrors' = 0 =>
                     /\ \A k \in DOMAIN outcomes :
                           k <= Done' /\ Latest(k, Done' + 1) => Shown(outcomes[k], row'[outcomes[k].tx])
                     /\ RowBusy' /\ RowHand'.pc = "acking" =>
                           Shown(outcomes[Done' + 1], row'[outcomes[Done' + 1].tx])
  BY DEF RowInv, RowMemory, RowShown, Shown, FromBase, Says
<1>4. RowBusy => RowWork # << >>
  BY RowWorkType
<1>5. CASE RowStarts
  <2>1. /\ Done' = Done /\ RowWorkIs' /\ RowHand'.pc = "applying" /\ ~RowBusy /\ RowBusy'
        /\ UNCHANGED <<row, rowErrors>>
    BY <1>5, RowWorkKept DEF RowStarts
  <2>2. RowCauses'
    BY <1>1, <2>1, RowCausesStep
  <2>3. Head(RowWork).id = Done + 1
    BY <1>5, RowHeadIs DEF RowStarts
  <2>4. \A id : Remembered(rowProcessed', id) => id = Done + 1 \/ Remembered(rowProcessed, id)
    BY <1>5, <2>3 DEF RowStarts
  <2>5. \A id \in Nat : Remembered(rowProcessed', id) =>
           id <= Done' \/ (RowBusy' /\ id = Done' + 1)
    BY <1>2, <2>1, <2>4
  <2> QED
    BY <1>2, <2>1, <2>2, <2>5
<1>6. CASE RowApplies
  <2> DEFINE o == outcomes[Done + 1]
  <2>1. /\ Done' = Done /\ RowWorkIs' /\ RowBusy /\ RowBusy' /\ Updates
        /\ UNCHANGED <<rowProcessed, rowErrors>>
    BY <1>6, RowWorkKept DEF RowApplies
  <2>2. RowCauses'
    BY <1>1, <2>1, RowCausesStep
  <2>3. (\A u \in Tx : u # o.tx => row'[u] = row[u]) /\ Shown(o, row'[o.tx])
    BY <2>1, RowUpdates
  <2>4. Done + 1 \in DOMAIN outcomes
    BY <1>4, <2>1, RowHeadIs
  <2>5. ASSUME rowErrors' = 0, NEW k \in DOMAIN outcomes, k <= Done, Latest(k, Done + 1)
        PROVE  Shown(outcomes[k], row'[outcomes[k].tx])
    <3>1. outcomes[k].tx # o.tx
      BY <1>1, <2>4, <2>5
    <3>2. row'[outcomes[k].tx] = row[outcomes[k].tx]
      BY <1>1, <2>3, <3>1
    <3> QED
      BY <1>2, <2>1, <2>5, <3>2
  <2> QED
    BY <1>2, <2>1, <2>2, <2>3, <2>5
<1>7. CASE RowAcks
  <2>1. RowBusy /\ ~RowBusy' /\ RowWork # << >> /\ RowHand.pc = "acking"
        /\ UNCHANGED <<row, rowProcessed, rowErrors>>
    BY <1>4, <1>7 DEF RowAcks
  <2>2. Done' = Done + 1 /\ RowWorkIs'
    BY <1>7, <2>1, RowWorkLeaves DEF RowAcks
  <2>3. RowCauses'
    BY <1>1, <2>1, <2>2, RowCausesStep
  <2>4. ASSUME rowErrors' = 0, NEW k \in DOMAIN outcomes, k <= Done + 1, Latest(k, Done + 2)
        PROVE  Shown(outcomes[k], row'[outcomes[k].tx])
    <3>1. CASE k = Done + 1
      BY <1>2, <2>1, <2>4, <3>1
    <3>2. CASE k <= Done
      <4>1. Latest(k, Done + 1)
        BY <1>1, <2>4
      <4> QED
        BY <1>2, <2>1, <2>4, <3>2, <4>1
    <3> QED
      BY <1>1, <2>4, <3>1, <3>2
  <2>5. \A id \in Nat : Remembered(rowProcessed', id) => id <= Done'
    BY <1>1, <1>2, <2>1, <2>2
  <2>6. Done' + 1 = Done + 2
    BY <1>1, <2>2
  <2> QED
    BY <2>1, <2>2, <2>3, <2>4, <2>5, <2>6
<1>8. CASE RowFails
  <2>1. RowBusy /\ ~RowBusy' /\ RowWork # << >> /\ UNCHANGED rowProcessed /\ rowErrors' # 0
        /\ (Updates \/ UNCHANGED row)
    BY <1>1, <1>4, <1>8 DEF RowFails
  <2>2. Done' = Done + 1 /\ RowWorkIs'
    BY <1>8, <2>1, RowWorkLeaves DEF RowFails
  <2>3. RowCauses'
    BY <1>1, <2>1, <2>2, RowCausesStep
  <2>4. \A id \in Nat : Remembered(rowProcessed', id) => id <= Done'
    BY <1>1, <1>2, <2>1, <2>2
  <2> QED
    BY <2>1, <2>2, <2>3, <2>4
<1>9. CASE RowRepeats
  <2>1. /\ Done' = Done /\ RowWorkIs' /\ ~RowBusy' /\ rowProcessed' = << >>
        /\ UNCHANGED <<row, rowErrors>>
    BY <1>9, RowWorkKept DEF RowRepeats
  <2>2. RowCauses'
    BY <1>1, <2>1, RowCausesStep
  <2>3. \A id \in Nat : ~Remembered(rowProcessed', id)
    BY <2>1 DEF Remembered
  <2> QED
    BY <1>2, <2>1, <2>2, <2>3
<1> QED
  BY <1>5, <1>6, <1>7, <1>8, <1>9 DEF RowStep

\* Search-service publishes an outcome: it is the last of the work.
LEMMA RowGrows ==
    ASSUME RowType, SearchType, RowInv, NEW o \in Reports, outcomes' = Append(outcomes, o),
           RowWork' = Append(RowWork, OutcomeEvent(Len(outcomes) + 1, o)),
           RowBusy' <=> RowBusy, RowHand' = RowHand,
           UNCHANGED <<rowProcessed, row, rowErrors, copies>>,
           \A t \in Tx : MayReplay(t) => MayReplay(t)'
    PROVE  RowInv'
<1> DEFINE last == Len(outcomes) + 1
           e == OutcomeEvent(last, o)
<1>1. /\ outcomes \in Seq(Reports) /\ RowWork \in Seq(Results) /\ Len(RowWork) <= Len(outcomes)
      /\ Len(outcomes) \in Nat /\ Len(RowWork) \in Nat /\ row \in [Tx -> Row!Rows]
  BY RowWorkType DEF SearchType, RowInv, RowWorkIs, RowType
<1>2. /\ \A i \in DOMAIN outcomes : i \in DOMAIN outcomes' /\ outcomes'[i] = outcomes[i] /\ i < last
      /\ last \in DOMAIN outcomes' /\ outcomes'[last] = o
      /\ \A i \in DOMAIN outcomes' : i \in DOMAIN outcomes \/ i = last
      /\ DOMAIN outcomes' \subseteq Nat /\ last \in Nat /\ Len(outcomes') = last
  BY OutcomeAppended
<1>3. e \in Results
  BY <1>2, OutcomeEventIs
<1> HIDE DEF e
<1>4. /\ Len(RowWork') = Len(RowWork) + 1
      /\ \A i \in DOMAIN RowWork' : \/ i \in DOMAIN RowWork /\ RowWork'[i] = RowWork[i]
                                    \/ i = Len(RowWork) + 1 /\ RowWork'[i] = e
  BY <1>1, <1>3 DEF e
<1>5. Done' = Done /\ Done \in Nat /\ Done + (Len(RowWork) + 1) = last
  BY <1>1, <1>2, <1>4 DEF Done
<1>6. RowWorkIs'
  <2>1. ASSUME NEW i \in DOMAIN RowWork'
        PROVE  /\ Done + i \in DOMAIN outcomes' /\ RowWork'[i] = OutcomeEvent(Done + i, outcomes'[Done + i])
    <3>1. CASE i \in DOMAIN RowWork /\ RowWork'[i] = RowWork[i]
      BY <1>2, <3>1 DEF RowInv, RowWorkIs
    <3>2. CASE i = Len(RowWork) + 1 /\ RowWork'[i] = e
      BY <1>2, <1>5, <3>2 DEF e
    <3> QED
      BY <1>4, <3>1, <3>2
  <2>2. Len(RowWork') <= Len(outcomes')
    BY <1>1, <1>2, <1>4
  <2> QED
    BY <1>5, <2>1, <2>2 DEF RowWorkIs, OutcomeEvent
<1>7. RowMemory'
  BY <1>5 DEF RowInv, RowMemory, Remembered
<1>8. RowCauses'
  <2> SUFFICES ASSUME NEW t \in Tx
               PROVE  /\ row[t].state # "INITIATED" => copies[t] > 0
                      /\ row[t].state \in {"READY", "REJECTED_MODERATION"} /\ ~MayReplay(t) =>
                            \E j \in DOMAIN outcomes' : /\ j <= Done + 1
                                                        /\ outcomes'[j].tx = t /\ ~FromBase(outcomes'[j])
    BY <1>5 DEF RowCauses, FromBase
  <2>1. row[t].state \in {"READY", "REJECTED_MODERATION"} /\ ~MayReplay(t) =>
           \E j \in DOMAIN outcomes : j <= Done + 1 /\ outcomes[j].tx = t /\ ~FromBase(outcomes[j])
    BY DEF RowInv, RowCauses
  <2> QED
    BY <1>2, <2>1 DEF RowInv, RowCauses
<1>9. RowShown'
  <2>1. ASSUME rowErrors = 0, NEW k \in DOMAIN outcomes', k <= Done,
               \A n \in DOMAIN outcomes' : k < n /\ n <= Done + 1 => outcomes'[n].tx # outcomes'[k].tx
        PROVE  Shown(outcomes'[k], row[outcomes'[k].tx])
    <3>1. k \in DOMAIN outcomes /\ outcomes'[k] = outcomes[k]
      BY <1>1, <1>2, <1>5, <2>1 DEF Done
    <3>2. \A n \in DOMAIN outcomes : k < n /\ n <= Done + 1 => outcomes[n].tx # outcomes[k].tx
      BY <1>2, <2>1, <3>1
    <3> QED
      BY <2>1, <3>1, <3>2 DEF RowInv, RowShown
  <2>2. ASSUME rowErrors = 0, RowBusy, RowHand.pc = "acking"
        PROVE  Shown(outcomes'[Done + 1], row[outcomes'[Done + 1].tx])
    <3>1. RowWork # << >>
      BY <2>2, RowWorkType
    <3>2. 1 \in DOMAIN RowWork
      BY <3>1, RowWorkType
    <3>3. Done + 1 \in DOMAIN outcomes
      BY <3>2 DEF RowInv, RowWorkIs
    <3> QED
      BY <1>2, <2>2, <3>3 DEF RowInv, RowShown
  <2> QED
    BY <1>5, <2>1, <2>2 DEF RowShown, Shown, FromBase, Says
<1> QED
  BY <1>6, <1>7, <1>8, <1>9 DEF RowInv

\* The steps that neither publish nor apply an outcome.
LEMMA RowKept ==
    ASSUME SearchType, PromiseType, RowInv, UNCHANGED <<outcomes, rowQueue, rowVars>>,
           \A t \in Tx : copies[t] > 0 => copies'[t] > 0, \A t \in Tx : MayReplay(t) => MayReplay(t)'
    PROVE  RowInv'
<1>1. /\ RowWork' = RowWork /\ (RowBusy' <=> RowBusy) /\ RowHand' = RowHand
      /\ UNCHANGED <<rowProcessed, row, rowErrors>>
  BY DEF rowVars, RowWork, RowBusy, RowHand
<1>2. Done' = Done /\ RowWorkIs'
  BY <1>1, RowWorkKept
<1>3. RowMemory' /\ RowShown'
  BY <1>1, <1>2 DEF RowInv, RowMemory, RowShown, Shown, FromBase, Says, Remembered
<1>4. RowCauses'
  BY <1>1, <1>2 DEF RowInv, RowCauses, FromBase
<1> QED
  BY <1>2, <1>3, <1>4 DEF RowInv

-----------------------------------------------------------------------------
(***************************************************************************)
(* The inductive invariant of the pipeline, and every step's part in it.   *)
(***************************************************************************)
PipelineInv ==
    /\ AiInv /\ SearchType /\ RowType
    /\ MessagesInv /\ SettledInv /\ DocInv /\ OutcomeInv
    /\ RowInv

LEMMA PipelineInvTypes ==
    ASSUME PipelineInv
    PROVE  /\ PromiseType /\ AiType /\ SearchType /\ RowType /\ Sent
           /\ searchQueue \in Seq(Messages) /\ rowQueue \in Seq(Results)
  BY DEF PipelineInv, AiInv, SearchType, RowType

LEMMA PipelineInvInit == Init => PipelineInv
<1> SUFFICES ASSUME Init
             PROVE  PipelineInv
  OBVIOUS
<1>1. AiInv
  BY AiInvInit
<1>2. /\ copies = [t \in Tx |-> 0] /\ verdicts = << >>
      /\ searchQueue = << >> /\ searchInflight = << >> /\ searchProcessed = << >>
      /\ doc = [t \in Tx |-> Search!NoDocument] /\ outcomes = << >>
      /\ searchErrors = 0 /\ searchRestarts = 0
      /\ rowQueue = << >> /\ rowInflight = << >> /\ rowProcessed = << >>
      /\ row = [t \in Tx |-> Row!NewRow] /\ rowErrors = 0
  BY DEF Init, Promise!Init, Ai!Init, Search!Init, Row!Init
<1>3. /\ << >> \in Seq(Messages) /\ << >> \in Seq(SearchHandlers) /\ << >> \in Seq(Reports)
      /\ << >> \in Seq(Results) /\ << >> \in Seq(RowHandlers) /\ << >> \in Seq(Nat)
      /\ Len(<< >>) = 0
  OBVIOUS
<1>4. << >> \in Window(Tx \X Nat, MaxTracked)
  BY EmptyWindow, PipelineAssumption
<1>5. Search!NoDocument \in Search!Documents /\ Row!NewRow \in Row!Rows
  BY DEF Search!NoDocument, Search!Documents, Row!NewRow, Row!Rows
<1>6. SearchType /\ RowType
  BY <1>2, <1>3, <1>4, <1>5 DEF SearchType, RowType
<1>7. Work = << >> /\ RowWork = << >> /\ ~Busy /\ ~RowBusy
  BY <1>2, <1>3, RequeueNone DEF Work, RowWork, Busy, RowBusy
<1>8. \A id : ~SearchRemembers(id) /\ ~Remembered(rowProcessed, id)
  BY <1>2 DEF SearchRemembers, Remembered
<1>9. MessagesInv
  BY <1>2, <1>7, <1>8
     DEF MessagesInv, MessagesGenuine, IdsGenuine, WaitingNotRemembered, CopiesInWork
<1>10. SettledInv
  BY <1>2, <1>7 DEF SettledInv, SentSettles, EventFirst
<1>11. \A t \in Tx : ~Settled(t)
  BY <1>2, <1>8 DEF Settled, Forgetful
<1>12. DocInv
  <2>1. \A t \in Tx : doc[t].lastBase = 0 /\ doc[t].lastAi = 0 /\ doc[t].moderationStatus = "NONE"
    BY <1>2 DEF Search!NoDocument
  <2> QED
    BY <1>2, <1>7, <1>11, <2>1 DEF DocInv, DocTimes, DocVerdicts, DocBases, Steady
<1>13. OutcomeInv
  BY <1>2, <1>7 DEF OutcomeInv, OutcomesOrdered, LastIsReported, LastVerdict
<1>14. RowInv
  <2>1. Done = 0 /\ Len(RowWork) = 0 /\ Len(outcomes) = 0
    BY <1>2, <1>7, <1>3 DEF Done
  <2>2. RowWorkIs
    BY <1>7, <2>1 DEF RowWorkIs
  <2>3. \A t \in Tx : row[t].state = "INITIATED"
    BY <1>2 DEF Row!NewRow
  <2> QED
    BY <1>2, <1>7, <1>8, <2>2, <2>3 DEF RowInv, RowMemory, RowCauses, RowShown
<1> QED
  BY <1>1, <1>6, <1>9, <1>10, <1>12, <1>13, <1>14 DEF PipelineInv

\* A step of search-service.
LEMMA PipelineInvSearch ==
    ASSUME PipelineInv, SearchStep, SearchEffect, SearchType'
    PROVE  PipelineInv'
<1>1. /\ AiInv /\ SearchType /\ RowType /\ MessagesInv /\ SettledInv /\ DocInv /\ OutcomeInv /\ RowInv
      /\ PromiseType /\ AiType
  BY PipelineInvTypes DEF PipelineInv
<1>2. UNCHANGED <<promiseVars, aiQueue, aiVars, rowVars>>
  BY DEF SearchEffect
<1>3. UNCHANGED <<copies, verdicts>>
  BY <1>2 DEF promiseVars, aiVars
<1>4. AiInv'
  BY <1>1, <1>2, AiInvOther
<1>5. MessagesInv'
  BY <1>1, <1>3, MessagesSearch
<1>6. SettledInv'
  BY <1>1, <1>3, SettledSearch
<1>7. DocInv'
  BY <1>1, <1>3, DocSearch
<1>8. OutcomeInv'
  <2>1. OutcomesOrdered' /\ \A i \in DOMAIN outcomes' : Faithful(outcomes[i])'
    BY <1>1, <1>3, OrderedSearch
  <2>2. LastIsReported'
    BY <1>1, <1>3, ReportedSearch
  <2> QED
    BY <2>1, <2>2 DEF OutcomeInv
<1>9. RowType' /\ RowInv'
  <2>0. \A t \in Tx : MayReplay(t) => MayReplay(t)'
    BY <1>1, <1>3, MemoryMoves DEF MayReplay
  <2>1. CASE UNCHANGED <<outcomes, rowQueue>>
    <3>1. RowInv'
      BY <1>1, <1>2, <1>3, <2>0, <2>1, RowKept
    <3>2. RowType'
      BY <1>1, <1>2, <2>1 DEF RowType, rowVars
    <3> QED
      BY <3>1, <3>2
  <2>2. ASSUME NEW o \in Reports, outcomes' = Append(outcomes, o),
               rowQueue' = Append(rowQueue, OutcomeEvent(Len(outcomes) + 1, o))
        PROVE  RowType' /\ RowInv'
    <3> DEFINE e == OutcomeEvent(Len(outcomes) + 1, o)
    <3>1. e \in Results
      <4>1. Len(outcomes) + 1 \in Nat
        BY <1>1 DEF SearchType
      <4> QED
        BY <4>1, OutcomeEventIs
    <3>2. /\ RowType' /\ RowWork' = Append(RowWork, e) /\ (RowBusy' <=> RowBusy) /\ RowHand' = RowHand
          /\ UNCHANGED <<rowProcessed, row, rowErrors>>
      BY <1>1, <1>2, <2>2, <3>1, RowArrives
    <3>3. RowInv'
      BY <1>1, <1>3, <2>0, <2>2, <3>2, RowGrows
    <3> QED
      BY <3>2, <3>3
  <2> QED
    BY <2>1, <2>2 DEF SearchEffect
<1> QED
  BY <1>4, <1>5, <1>6, <1>7, <1>8, <1>9 DEF PipelineInv

\* The outbox sends an event.
LEMMA PipelineInvSend ==
    ASSUME PipelineInv, NEW t \in Tx, SendCreated(t)
    PROVE  PipelineInv'
<1>1. /\ AiInv /\ SearchType /\ RowType /\ MessagesInv /\ SettledInv /\ DocInv /\ OutcomeInv /\ RowInv
      /\ PromiseType /\ AiType /\ searchQueue \in Seq(Messages)
  BY PipelineInvTypes DEF PipelineInv
<1>2. AiInv'
  BY <1>1, AiInvSends
<1>3. /\ copies[t] < MaxCopies /\ copies' = [copies EXCEPT ![t] = @ + 1]
      /\ searchQueue' = Append(searchQueue, CreatedEvent(t))
      /\ UNCHANGED <<stage, searchVars, aiVars, rowQueue, rowVars>>
  BY <1>1, Sends
<1>4. CreatedEvent(t) \in Messages
  BY CreatedIs
<1>5. /\ SearchType' /\ Work' = Append(Work, CreatedEvent(t)) /\ Busy' = Busy /\ Hand' = Hand
      /\ UNCHANGED <<searchInflight, searchProcessed, doc, outcomes, searchErrors,
                     searchRestarts>>
  BY <1>1, <1>3, <1>4, Arrives
<1>6. SendStep(t)
  BY <1>3, <1>5 DEF SendStep, aiVars
<1>7. MessagesInv' /\ SettledInv' /\ DocInv' /\ OutcomeInv'
  <2>1. MessagesInv'
    BY <1>1, <1>6, MessagesSend
  <2>2. SettledInv'
    BY <1>1, <1>6, SettledSend
  <2>3. DocInv'
    BY <1>1, <1>6, DocOthers
  <2>4. OutcomeInv'
    BY <1>1, <1>6, OutcomeSend
  <2> QED
    BY <2>1, <2>2, <2>3, <2>4
<1>8. RowType'
  BY <1>1, <1>3 DEF RowType, rowVars
<1>9. RowInv'
  <2>1. \A u \in Tx : copies[u] > 0 => copies'[u] > 0
    BY <1>1, <1>3 DEF PromiseType
  <2>2. \A u \in Tx : MayReplay(u) => MayReplay(u)'
    BY <1>1, <1>6, ReplaySend
  <2> QED
    BY <1>1, <1>3, <1>5, <2>1, <2>2, RowKept
<1> QED
  BY <1>2, <1>5, <1>7, <1>8, <1>9 DEF PipelineInv

\* What leaves copies, verdicts, search-service and transaction-service as they are.
LEMMA PipelineInvQuiet ==
    ASSUME PipelineInv, AiInv', UNCHANGED <<copies, verdicts, searchQueue, searchVars>>,
           RowType' /\ RowInv'
    PROVE  PipelineInv'
<1>1. /\ SearchType /\ MessagesInv /\ SettledInv /\ DocInv /\ OutcomeInv /\ PromiseType /\ AiType
  BY PipelineInvTypes DEF PipelineInv
<1>2. UNCHANGED <<searchInflight, searchProcessed, doc, outcomes, searchErrors, searchRestarts>>
  BY DEF searchVars
<1>3. SearchType'
  BY <1>1, <1>2 DEF SearchType
<1>4. QuietStep
  BY <1>2 DEF QuietStep, Work, Busy, Hand
<1>5. MessagesInv'
  BY <1>1, <1>4, MessagesQuiet
<1>6. SettledInv'
  BY <1>1, <1>4, SettledQuiet
<1>7. DocInv'
  BY <1>1, <1>4, DocOthers
<1>8. OutcomeInv'
  BY <1>1, <1>4, OutcomeQuiet
<1> QED
  BY <1>3, <1>5, <1>6, <1>7, <1>8 DEF PipelineInv

\* What moreover leaves the outcomes and transaction-service as they are.
LEMMA PipelineInvAside ==
    ASSUME PipelineInv, AiInv',
           UNCHANGED <<copies, verdicts, searchQueue, searchVars, rowQueue, rowVars>>
    PROVE  PipelineInv'
<1>1. RowType'
  BY DEF PipelineInv, RowType, rowVars
<1>2. RowInv'
  <2>1. \A t \in Tx : MayReplay(t) => MayReplay(t)'
    BY DEF MayReplay, Forgetful, searchVars
  <2> QED
    BY <2>1, PipelineInvTypes, RowKept DEF PipelineInv, searchVars
<1> QED
  BY <1>1, <1>2, PipelineInvQuiet

\* A step of ai-service.
LEMMA PipelineInvAi ==
    ASSUME PipelineInv, AiInv', AiEffect
    PROVE  PipelineInv'
<1>1. /\ SearchType /\ RowType /\ MessagesInv /\ SettledInv /\ DocInv /\ OutcomeInv /\ RowInv
      /\ PromiseType /\ AiType
  BY PipelineInvTypes DEF PipelineInv
<1>2. UNCHANGED <<promiseVars, searchVars, rowQueue, rowVars>> /\ UNCHANGED copies
  BY DEF AiEffect, promiseVars
<1>3. CASE UNCHANGED <<verdicts, searchQueue>>
  BY <1>2, <1>3, PipelineInvAside
<1>4. ASSUME NEW v \in Judgements, VerdictOut(v)
      PROVE  PipelineInv'
  <2> DEFINE k == Len(verdicts) + 1
             m == VerdictEvent(k, v)
  <2>1. /\ copies[v.tx] > 0 /\ verdicts' = Append(verdicts, v) /\ searchQueue' = Append(searchQueue, m)
    BY <1>4 DEF VerdictOut
  <2>2. k \in Nat \ {0}
    BY <1>1 DEF AiType
  <2>3. m \in Messages
    BY <2>2, VerdictMessageIs
  <2>4. /\ SearchType' /\ Work' = Append(Work, m) /\ Busy' = Busy /\ Hand' = Hand
        /\ UNCHANGED <<searchInflight, searchProcessed, doc, outcomes, searchErrors,
                       searchRestarts>>
    BY <1>1, <1>2, <2>1, <2>3, Arrives
  <2>5. VerdictStep(v)
    BY <1>2, <2>1, <2>4 DEF VerdictStep
  <2>6. MessagesInv'
    BY <1>1, <2>5, MessagesVerdict
  <2>7. SettledInv'
    BY <1>1, <2>5, SettledVerdict
  <2>8. DocInv'
    BY <1>1, <2>5, DocOthers
  <2>9. OutcomeInv'
    BY <1>1, <2>5, OutcomeVerdict
  <2>10. RowType'
    BY <1>1, <1>2 DEF RowType, rowVars
  <2>11. RowInv'
    <3>1. \A t \in Tx : MayReplay(t) => MayReplay(t)'
      BY <1>2 DEF MayReplay, Forgetful, searchVars
    <3> QED
      BY <1>1, <1>2, <2>4, <3>1, RowKept
  <2> QED
    BY <2>4, <2>6, <2>7, <2>8, <2>9, <2>10, <2>11 DEF PipelineInv
<1> QED
  BY <1>3, <1>4 DEF AiEffect

\* A step of transaction-service on an outcome.
LEMMA PipelineInvRow ==
    ASSUME PipelineInv, RowAlone, RowType', RowStep
    PROVE  PipelineInv'
<1>1. /\ AiInv /\ SearchType /\ RowType /\ OutcomeInv /\ RowInv /\ AiType
  BY PipelineInvTypes DEF PipelineInv
<1>2. UNCHANGED <<copies, verdicts, outcomes, searchQueue, searchVars, promiseVars, aiQueue, aiVars>>
  BY DEF RowAlone, promiseVars, aiVars, searchVars
<1>3. AiInv'
  BY <1>1, <1>2, AiInvOther
<1>4. RowInv'
  <2>1. \A t \in Tx : MayReplay(t) => MayReplay(t)'
    BY <1>2 DEF MayReplay, Forgetful, searchVars
  <2> QED
    BY <1>1, <1>2, <2>1, RowSteps
<1> QED
  BY <1>2, <1>3, <1>4, PipelineInvQuiet

\* Transaction-service neither skips nor ignores an outcome.
LEMMA RowConsumesStarts ==
    ASSUME PipelineInv, RowPrefetch = 1, RowConsumes
    PROVE  RowType' /\ RowStarts
<1>1. /\ RowType /\ SearchType /\ AiType /\ OutcomeInv /\ RowInv
  BY PipelineInvTypes DEF PipelineInv
<1>2. ~RowBusy /\ RowWork # << >> => /\ ~Remembered(rowProcessed, Head(RowWork).id)
                                     /\ Row!Applicable(Head(RowWork))
  BY <1>1, RowHeadIs
<1> QED
  BY <1>1, <1>2, RowConsumesShape

LEMMA PipelineInvNext ==
    ASSUME SearchPrefetch = 1, RowPrefetch = 1, PipelineInv, [Next]_vars
    PROVE  PipelineInv'
<1>1. /\ AiInv /\ AiType /\ SearchType /\ RowType /\ searchQueue \in Seq(Messages)
      /\ rowQueue \in Seq(Results)
  BY PipelineInvTypes DEF PipelineInv
<1>2. CASE OutboxStep
  <2>1. AiInv' /\ UNCHANGED copies
    BY <1>1, <1>2, AiInvOutbox
  <2> QED
    BY <1>2, <2>1, PipelineInvAside DEF OutboxStep, aiVars
<1>3. CASE \E t \in Tx : SendCreated(t)
  BY <1>3, PipelineInvSend
<1>4. CASE AiConsumes
  BY <1>1, <1>4, AiInvConsumes, AiConsumesShape, PipelineInvAi
<1>5. CASE AiHandles
  BY <1>1, <1>5, AiInvHandles, PipelineInvAi
<1>6. CASE AiRestart
  BY <1>1, <1>6, AiInvRestart, PipelineInvAi
<1>7. CASE SearchConsumes
  <2>1. SearchType' /\ SearchEffect /\ SearchStep
    BY <1>1, <1>7, SearchConsumesShape DEF SearchStep
  <2> QED
    BY <2>1, PipelineInvSearch
<1>8. CASE SearchHandles
  <2>1. SearchType' /\ SearchEffect /\ SearchStep
    BY <1>1, <1>8, SearchHandlesShape DEF SearchStep
  <2> QED
    BY <2>1, PipelineInvSearch
<1>9. CASE SearchRestart
  <2>1. SearchType' /\ SearchEffect /\ SearchStep
    BY <1>1, <1>9, SearchRestartShape DEF SearchStep
  <2> QED
    BY <2>1, PipelineInvSearch
<1>10. CASE RowConsumes
  <2>1. RowType' /\ RowStep /\ RowAlone
    BY <1>10, RowConsumesStarts DEF RowStep, RowConsumes
  <2> QED
    BY <2>1, PipelineInvRow
<1>11. CASE RowHandles
  <2>1. RowType' /\ RowStep /\ RowAlone
    BY <1>1, <1>11, RowHandlesShape DEF RowStep, RowHandles
  <2> QED
    BY <2>1, PipelineInvRow
<1>12. CASE RowRestart
  <2>1. RowType' /\ RowStep /\ RowAlone
    BY <1>1, <1>12, RowRestartShape DEF RowStep, RowRestart
  <2> QED
    BY <2>1, PipelineInvRow
<1>13. CASE UNCHANGED vars
  <2>1. /\ UNCHANGED <<promiseVars, aiQueue, aiVars, searchQueue, searchVars, rowQueue, rowVars>>
        /\ UNCHANGED <<copies, verdicts>>
    BY <1>13 DEF vars, promiseVars, aiVars
  <2>2. AiInv'
    BY <1>1, <2>1, AiInvOther
  <2> QED
    BY <2>1, <2>2, PipelineInvAside
<1> QED
  BY <1>2, <1>3, <1>4, <1>5, <1>6, <1>7, <1>8, <1>9, <1>10, <1>11, <1>12, <1>13 DEF Next

\* The inductive invariant holds of every behaviour in which search-service and
\* transaction-service take one delivery at a time.
THEOREM PipelineInvariant ==
    ASSUME SearchPrefetch = 1, RowPrefetch = 1
    PROVE  Spec => []PipelineInv
<1>1. PipelineInv /\ [Next]_vars => PipelineInv'
  BY PipelineInvNext
<1> QED
  BY <1>1, PipelineInvInit, PTL DEF Spec

-----------------------------------------------------------------------------
(***************************************************************************)
(* What a row shows when nothing is under way.                             *)
(***************************************************************************)
LEMMA SaysModerated ==
    ASSUME AiType, NEW k \in DOMAIN verdicts
    PROVE  Says(ReportOn(k)) = Moderated(verdicts[k]) /\ ~FromBase(ReportOn(k))
<1>1. verdicts[k] \in Judgements
  BY ReportIs
<1> QED
  BY <1>1, ReportIs DEF Says, ReportOn, Moderated

LEMMA RestingRowShows ==
    ASSUME PipelineInv
    PROVE  RowShowsLastVerdict
<1> SUFFICES ASSUME AtRest, NoFailedCalls, NEW t \in Tx, copies[t] > 0, ~MayReplay(t)
             PROVE  /\ VerdictsAbout(t) # {}
                    /\ row[t].moderationStatus = Moderated(verdicts[Max(VerdictsAbout(t))])
                    /\ row[t].state = Decision(Moderated(verdicts[Max(VerdictsAbout(t))]))
  BY DEF RowShowsLastVerdict
<1>1. /\ AiInv /\ OutcomeInv /\ RowInv /\ AiType /\ SearchType /\ RowType
  BY PipelineInvTypes DEF PipelineInv
<1>2. /\ aiQueue = << >> /\ aiInflight = << >> /\ searchQueue = << >> /\ searchInflight = << >>
      /\ rowQueue = << >> /\ rowInflight = << >>
      /\ aiErrors = 0 /\ searchErrors = 0 /\ rowErrors = 0
  BY DEF AtRest, Ai!AtRest, Search!AtRest, Row!AtRest, NoFailedCalls
<1> DEFINE S == VerdictsAbout(t)
           k == Max(S)
<1>3. S # {}
  <2>1. ~AiQueued(t) /\ ~Judging(t)
    BY <1>2 DEF AiQueued, Judging
  <2>2. Judged(t)
    BY <1>1, <1>2, <2>1 DEF AiInv, NoneUnjudged
  <2> QED
    BY <2>2 DEF Judged, VerdictsAbout
<1>4. k \in S /\ \A n \in S : n <= k
  <2>1. Len(verdicts) \in Nat /\ S \in SUBSET (1..Len(verdicts))
    BY <1>1 DEF AiType, VerdictsAbout
  <2> HIDE DEF S
  <2> QED
    BY <1>3, <2>1, LastPosition
<1>5. k \in DOMAIN verdicts /\ verdicts[k].tx = t /\ k \in Nat
  BY <1>1, <1>4, ReportIs DEF VerdictsAbout
<1> HIDE DEF k
<1>6. LastVerdict(t, k)
  <2>1. \A n \in DOMAIN verdicts : n \in Nat
    BY <1>1, ReportIs
  <2>2. \A n \in DOMAIN verdicts : k < n => verdicts[n].tx # t
    BY <1>4, <1>5, <2>1 DEF VerdictsAbout
  <2> QED
    BY <1>5, <2>2 DEF LastVerdict
<1>7. Work = << >> /\ RowWork = << >> /\ ~RowBusy
  <2>1. << >> \in Seq(Messages) /\ << >> \in Seq(Results)
    OBVIOUS
  <2> QED
    BY <1>2, <2>1, RequeueNone DEF Work, RowWork, RowBusy
<1>8. Reported(k, t)
  BY <1>1, <1>2, <1>5, <1>6, <1>7 DEF OutcomeInv, LastIsReported, Reporting
<1>9. PICK i \in DOMAIN outcomes : /\ outcomes[i] = ReportOn(k)
                                   /\ \A n \in DOMAIN outcomes : i < n => outcomes[n].tx # t
  BY <1>8 DEF Reported
<1>10. i <= Done
  BY <1>1, <1>7 DEF Done, SearchType
<1>11. outcomes[i].tx = t
  BY <1>1, <1>5, <1>9, ReportIs
<1>12. Shown(ReportOn(k), row[t])
  BY <1>1, <1>2, <1>9, <1>10, <1>11 DEF RowInv, RowShown
<1>13. Says(ReportOn(k)) = Moderated(verdicts[k]) /\ ~FromBase(ReportOn(k))
  BY <1>1, <1>5, SaysModerated
<1> QED
  BY <1>3, <1>12, <1>13 DEF Shown, k

\* When nothing is under way any more and no call failed, every transaction whose
\* event was sent has been judged and its row shows the last verdict, for every set of
\* transactions and every number of copies, retries and restarts: excepted is only a
\* transaction whose event was sent again to a search-service that may have forgotten
\* the first copy.
THEOREM RowAlwaysShowsLastVerdict ==
    ASSUME SearchPrefetch = 1, RowPrefetch = 1
    PROVE  Spec => []RowShowsLastVerdict
<1>1. PipelineInv => RowShowsLastVerdict
  BY RestingRowShows
<1> QED
  BY <1>1, PipelineInvariant, PTL

-----------------------------------------------------------------------------
(***************************************************************************)
(* The services together implement Lifecycle.                              *)
(***************************************************************************)
LifeOf == [t \in Tx |-> IF stage[t] = "unwritten" THEN "absent" ELSE row[t].state]

VerdictOf == [t \in Tx |-> {Decision(Moderated(verdicts[k])) : k \in VerdictsAbout(t)}]

LEMMA LifeInit == Init => Life!Init
<1> SUFFICES ASSUME Init
             PROVE  Life!Init
  OBVIOUS
<1>1. stage = [t \in Tx |-> "unwritten"] /\ verdicts = << >>
  BY DEF Init, Promise!Init, Ai!Init
<1>2. \A t \in Tx : VerdictsAbout(t) = {}
  BY <1>1 DEF VerdictsAbout
<1> QED
  BY <1>1, <1>2 DEF Life!Init

LEMMA LifeSame ==
    ASSUME LifeOf' = LifeOf, VerdictOf' = VerdictOf
    PROVE  UNCHANGED Life!vars
  BY DEF LifeOf, VerdictOf, Life!vars

LEMMA VerdictOfSame ==
    ASSUME UNCHANGED verdicts
    PROVE  VerdictOf' = VerdictOf
  BY DEF VerdictOf, VerdictsAbout, Decision, Moderated

\* The request commits.
LEMMA LifeCreates ==
    ASSUME PipelineInv, NEW t \in Tx, Promise!Write(t), UNCHANGED <<row, verdicts>>
    PROVE  Life!Create(t)
<1>1. /\ stage[t] = "unwritten" /\ stage' = [stage EXCEPT ![t] = "owed"]
      /\ stage \in [Tx -> {"unwritten", "owed", "published", "abandoned"}]
      /\ copies[t] \in Nat
  BY PipelineInvTypes DEF Promise!Write, PromiseType
<1>2. row[t].state = "INITIATED"
  <2>1. ~(copies[t] > 0)
    BY <1>1, PipelineInvTypes DEF Sent
  <2> QED
    BY <2>1 DEF PipelineInv, RowInv, RowCauses
<1>3. LifeOf[t] = "absent" /\ LifeOf' = [LifeOf EXCEPT ![t] = "INITIATED"]
  BY <1>1, <1>2 DEF LifeOf
<1>4. VerdictOf' = VerdictOf
  BY VerdictOfSame
<1> QED
  BY <1>3, <1>4 DEF LifeOf, VerdictOf, Life!Create

\* ai-service reaches a verdict.
LEMMA LifeJudges ==
    ASSUME PipelineInv, NEW v \in Judgements, copies[v.tx] > 0, verdicts' = Append(verdicts, v),
           UNCHANGED <<stage, row>>
    PROVE  v.tx \in Tx /\ Life!Judge(v.tx, Decision(Moderated(v)))
<1> DEFINE t == v.tx
           d == Decision(Moderated(v))
           last == Len(verdicts) + 1
<1>1. t \in Tx /\ AiType /\ stage[t] # "unwritten" /\ row[t].state # "absent"
  <2>1. t \in Tx /\ AiType
    BY PipelineInvTypes DEF Judgements
  <2>2. row[t] \in Row!Rows
    BY <2>1, PipelineInvTypes DEF RowType
  <2> QED
    BY <2>1, <2>2, PipelineInvTypes DEF Sent, Row!Rows
<1>2. /\ \A k \in DOMAIN verdicts : k \in DOMAIN verdicts' /\ verdicts'[k] = verdicts[k]
      /\ last \in DOMAIN verdicts' /\ verdicts'[last] = v
      /\ \A k \in DOMAIN verdicts' : k \in DOMAIN verdicts \/ k = last
  BY <1>1, VerdictAppended
<1> HIDE DEF last
<1>3. VerdictOf' = [VerdictOf EXCEPT ![t] = @ \cup {d}]
  <2> DEFINE Found(u) == {Decision(Moderated(verdicts[k])) : k \in VerdictsAbout(u)}
             FoundNext(u) == {Decision(Moderated(verdicts'[k])) : k \in VerdictsAbout(u)'}
  <2>1. ASSUME NEW u \in Tx, u # t
        PROVE  FoundNext(u) = Found(u)
    BY <1>2, <2>1 DEF VerdictsAbout
  <2>2. FoundNext(t) = Found(t) \cup {d}
    <3>1. ASSUME NEW x \in FoundNext(t)
          PROVE  x \in Found(t) \cup {d}
      BY <1>2, <3>1 DEF VerdictsAbout
    <3>2. ASSUME NEW x \in Found(t) \cup {d}
          PROVE  x \in FoundNext(t)
      BY <1>2, <3>2 DEF VerdictsAbout
    <3> QED
      BY <3>1, <3>2
  <2>3. VerdictOf = [u \in Tx |-> Found(u)] /\ VerdictOf' = [u \in Tx |-> FoundNext(u)]
    BY DEF VerdictOf, Decision, Moderated
  <2> HIDE DEF Found, FoundNext
  <2> QED
    BY <1>1, <2>1, <2>2, <2>3
<1>4. LifeOf[t] # "absent" /\ LifeOf' = LifeOf
  BY <1>1 DEF LifeOf
<1> QED
  BY <1>1, <1>3, <1>4 DEF LifeOf, VerdictOf, Life!Judge

\* transaction-service applies the outcome in its hands.
LEMMA LifeUpdates ==
    ASSUME PipelineInv, RowBusy, Updates, UNCHANGED <<stage, verdicts>>, \A t \in Tx : ~MayReplay(t)
    PROVE  \/ UNCHANGED Life!vars
           \/ \E t \in Tx : Life!Index(t) \/ \E d \in Life!Decisions : Life!Decide(t, d)
<1> DEFINE n == Done + 1
           o == outcomes[n]
           t == o.tx
<1>1. /\ AiType /\ SearchType /\ RowType /\ OutcomeInv /\ RowInv /\ Sent
  BY PipelineInvTypes DEF PipelineInv
<1>2. RowWork # << >>
  BY <1>1, RowWorkType
<1>3. n \in DOMAIN outcomes /\ n \in Nat /\ o \in Reports /\ Faithful(o) /\ t \in Tx /\ copies[t] > 0
  BY <1>1, <1>2, RowHeadIs
<1>4. /\ \A u \in Tx : u # t => row'[u] = row[u]
      /\ FromBase(o) => row'[t].state = "AI_PROCESSING"
      /\ ~FromBase(o) => row'[t].state = Decision(Says(o))
  BY <1>1, <1>3, RowUpdates
<1>5. stage[t] # "unwritten" /\ row[t].state \in {"INITIATED", "AI_PROCESSING", "REJECTED_MODERATION", "READY"}
  <2>1. row[t] \in Row!Rows
    BY <1>1, <1>3 DEF RowType
  <2> QED
    BY <1>1, <1>3, <2>1 DEF Sent, Row!Rows
<1>6. LifeOf[t] = row[t].state /\ LifeOf[t] # "absent"
  BY <1>3, <1>5 DEF LifeOf
<1>7. LifeOf' = [LifeOf EXCEPT ![t] = row'[t].state]
  BY <1>3, <1>4, <1>5 DEF LifeOf
<1>8. VerdictOf' = VerdictOf
  BY VerdictOfSame
<1>9. PICK u \in Tx : u = t
  BY <1>3
<1>10. CASE FromBase(o)
  <2>1. row[t].state \notin {"READY", "REJECTED_MODERATION"}
    <3> SUFFICES ASSUME row[t].state \in {"READY", "REJECTED_MODERATION"}
                 PROVE  FALSE
      OBVIOUS
    <3>1. PICK j \in DOMAIN outcomes : j <= n /\ outcomes[j].tx = t /\ ~FromBase(outcomes[j])
      BY <1>1, <1>3 DEF RowInv, RowCauses
    <3>2. j \in Nat /\ j # n
      BY <1>1, <1>10, <3>1 DEF SearchType
    <3>3. j < n
      BY <1>3, <3>1, <3>2
    <3> QED
      BY <1>1, <1>3, <1>10, <3>1, <3>3 DEF OutcomeInv, OutcomesOrdered
  <2>2. CASE row[t].state = "INITIATED"
    <3>1. LifeOf[t] = "INITIATED" /\ LifeOf' = [LifeOf EXCEPT ![t] = "AI_PROCESSING"]
      BY <1>4, <1>6, <1>7, <1>10, <2>2
    <3>2. Life!Index(u)
      BY <1>8, <1>9, <3>1 DEF LifeOf, VerdictOf, Life!Index
    <3> QED
      BY <3>2
  <2>3. CASE row[t].state = "AI_PROCESSING"
    <3>1. LifeOf' = LifeOf
      BY <1>4, <1>6, <1>7, <1>10, <2>3 DEF LifeOf
    <3> QED
      BY <1>8, <3>1, LifeSame
  <2> QED
    BY <1>5, <2>1, <2>2, <2>3
<1>11. CASE ~FromBase(o)
  <2> DEFINE d == Decision(Says(o))
  <2>1. PICK k \in DOMAIN verdicts : o = ReportOn(k)
    BY <1>3, <1>11 DEF Faithful
  <2>2. d = Decision(Moderated(verdicts[k])) /\ verdicts[k].tx = t
    BY <1>1, <2>1, SaysModerated, ReportIs
  <2>3. d \in VerdictOf[t]
    BY <1>3, <2>2 DEF VerdictOf, VerdictsAbout
  <2>4. d \in Life!Decisions
    BY DEF Decision, Life!Decisions
  <2>5. LifeOf' = [LifeOf EXCEPT ![t] = d]
    BY <1>4, <1>7, <1>11
  <2>6. PICK e \in Life!Decisions : e = d
    BY <2>4
  <2>7. Life!Decide(u, e)
    BY <1>6, <1>8, <1>9, <2>3, <2>5, <2>6 DEF LifeOf, VerdictOf, Life!Decide
  <2> QED
    BY <2>7
<1> QED
  BY <1>10, <1>11

LEMMA LifeUnchanged ==
    ASSUME UNCHANGED <<row, verdicts>>,
           \A t \in Tx : stage[t] = "unwritten" <=> stage'[t] = "unwritten"
    PROVE  UNCHANGED Life!vars
<1>1. LifeOf' = LifeOf
  BY DEF LifeOf
<1> QED
  BY <1>1, VerdictOfSame, LifeSame

LEMMA LifeStep ==
    ASSUME SearchPrefetch = 1, RowPrefetch = 1, PipelineInv, \A t \in Tx : ~MayReplay(t), [Next]_vars
    PROVE  [Life!Next]_(Life!vars)
<1>1. /\ AiInv /\ AiType /\ SearchType /\ RowType /\ PromiseType /\ searchQueue \in Seq(Messages)
      /\ rowQueue \in Seq(Results)
  BY PipelineInvTypes DEF PipelineInv
<1>2. CASE OutboxStep
  <2>1. PICK t \in Tx : Promise!Write(t) \/ Promise!Publish(t) \/ Promise!Abandon(t)
    BY <1>2 DEF OutboxStep
  <2>2. UNCHANGED <<row, verdicts>>
    BY <1>2 DEF OutboxStep, rowVars, aiVars
  <2>3. CASE Promise!Write(t)
    BY <2>2, <2>3, LifeCreates DEF Life!Next
  <2>4. CASE Promise!Publish(t) \/ Promise!Abandon(t)
    <3>1. \A u \in Tx : stage[u] = "unwritten" <=> stage'[u] = "unwritten"
      BY <1>1, <2>4 DEF Promise!Publish, Promise!Abandon, PromiseType
    <3> QED
      BY <2>2, <3>1, LifeUnchanged
  <2> QED
    BY <2>1, <2>3, <2>4
<1>3. CASE \E t \in Tx : SendCreated(t)
  <2>1. UNCHANGED <<row, verdicts, stage>>
    BY <1>1, <1>3, Sends DEF rowVars, aiVars
  <2> QED
    BY <2>1, LifeUnchanged
<1>4. CASE AiConsumes \/ AiHandles \/ AiRestart
  <2>1. AiEffect
    BY <1>1, <1>4, AiConsumesShape, AiInvHandles, AiInvRestart
  <2>2. UNCHANGED <<stage, row>>
    BY <2>1 DEF AiEffect, promiseVars, rowVars
  <2>3. CASE UNCHANGED <<verdicts, searchQueue>>
    BY <2>2, <2>3, LifeUnchanged
  <2>4. ASSUME NEW v \in Judgements, VerdictOut(v)
        PROVE  Life!Next
    <3>1. v.tx \in Tx /\ Life!Judge(v.tx, Decision(Moderated(v)))
      BY <2>2, <2>4, LifeJudges DEF VerdictOut
    <3>2. Decision(Moderated(v)) \in Life!Decisions
      BY DEF Decision, Life!Decisions
    <3> QED
      BY <3>1, <3>2 DEF Life!Next
  <2> QED
    BY <2>1, <2>3, <2>4 DEF AiEffect
<1>5. CASE SearchConsumes \/ SearchHandles \/ SearchRestart
  <2>1. UNCHANGED <<row, verdicts, stage>>
    BY <1>5 DEF SearchConsumes, SearchHandles, SearchRestart, ForwardOutcome, promiseVars, aiVars,
                rowVars
  <2> QED
    BY <2>1, LifeUnchanged
<1>6. CASE RowConsumes \/ RowHandles \/ RowRestart
  <2>1. RowStep
    BY <1>1, <1>6, RowConsumesStarts, RowHandlesShape, RowRestartShape DEF RowStep
  <2>2. UNCHANGED <<stage, verdicts>>
    BY <1>6 DEF RowConsumes, RowHandles, RowRestart, RowAlone, promiseVars, aiVars
  <2>3. CASE UNCHANGED row
    BY <2>2, <2>3, LifeUnchanged
  <2>4. CASE RowBusy /\ Updates
    BY <2>2, <2>4, LifeUpdates DEF Life!Next
  <2> QED
    BY <2>1, <2>3, <2>4 DEF RowStep, RowStarts, RowApplies, RowAcks, RowFails, RowRepeats
<1>7. CASE UNCHANGED vars
  BY <1>7, LifeUnchanged DEF vars, promiseVars, aiVars, rowVars
<1> QED
  BY <1>2, <1>3, <1>4, <1>5, <1>6, <1>7 DEF Next

\* No event is handled again by a search-service that forgot it: each is sent once, or
\* search-service is not restarted and has room for every id that comes.
NoReplay ==
    \/ MaxCopies = 1
    \/ SearchRestarts = 0 /\ Cardinality(Tx) + MaxVerdicts < MaxTracked

\* What the bounds of the model mean for it.
Bounded ==
    /\ MaxCopies = 1 => \A t \in Tx : copies[t] <= 1
    /\ SearchRestarts = 0 => searchRestarts = 0

LEMMA BoundedInit == Init => Bounded
  BY DEF Init, Promise!Init, Search!Init, Bounded

LEMMA BoundedNext ==
    ASSUME SearchPrefetch = 1, PipelineInv, Bounded, [Next]_vars
    PROVE  Bounded'
<1>1. SearchType /\ PromiseType /\ AiType
      /\ searchQueue \in Seq(Messages) /\ rowQueue \in Seq(Results)
  BY PipelineInvTypes
<1>2. ASSUME UNCHANGED <<copies, searchRestarts>>
      PROVE  Bounded'
  BY <1>2 DEF Bounded
<1>3. CASE OutboxStep
  BY <1>2, <1>3 DEF OutboxStep, Promise!Write, Promise!Publish, Promise!Abandon, searchVars
<1>4. ASSUME NEW t \in Tx, SendCreated(t)
      PROVE  Bounded'
  <2>1. /\ copies[t] < MaxCopies /\ copies' = [copies EXCEPT ![t] = @ + 1]
        /\ UNCHANGED searchVars
    BY <1>1, <1>4, Sends
  <2>2. ASSUME MaxCopies = 1, NEW u \in Tx
        PROVE  copies'[u] <= 1
    BY <1>1, <2>1, <2>2 DEF Bounded, PromiseType
  <2> QED
    BY <2>1, <2>2 DEF Bounded, searchVars
<1>5. CASE AiConsumes \/ AiHandles \/ AiRestart
  BY <1>2, <1>5 DEF AiConsumes, AiHandles, AiRestart, ForwardVerdict, promiseVars, searchVars
<1>6. CASE SearchConsumes \/ SearchHandles
  <2>1. SkipStep \/ StartStep \/ ReadStep \/ StaleStep \/ WriteStep \/ PublishStep \/ AckStep \/ FailStep
    BY <1>1, <1>6, SearchConsumesShape, SearchHandlesShape
  <2>2. UNCHANGED searchRestarts
    BY <2>1 DEF SkipStep, StartStep, ReadStep, StaleStep, WriteStep, PublishStep, AckStep, FailStep
  <2> QED
    BY <1>2, <1>6, <2>2 DEF SearchConsumes, SearchHandles, ForwardOutcome, promiseVars
<1>7. CASE SearchRestart
  BY <1>1, <1>7 DEF SearchRestart, Search!Restart, ForwardOutcome, promiseVars, Bounded, SearchType
<1>8. CASE RowConsumes \/ RowHandles \/ RowRestart
  BY <1>2, <1>8 DEF RowConsumes, RowHandles, RowRestart, RowAlone, promiseVars, searchVars
<1>9. CASE UNCHANGED vars
  BY <1>2, <1>9 DEF vars, promiseVars, searchVars
<1> QED
  BY <1>3, <1>4, <1>5, <1>6, <1>7, <1>8, <1>9 DEF Next

LEMMA BoundsType ==
    /\ MaxVerdicts \in Nat /\ Cardinality(Tx) \in Nat /\ IsFiniteSet(Tx) /\ MaxTracked \in Nat \ {0}
<1>1. Cardinality(Tx) \in Nat /\ AiErrors \in Nat /\ AiRestarts \in Nat
  BY FS_CardinalityType, PipelineAssumption
<1>2. 1 + AiErrors + AiRestarts \in Nat
  BY <1>1
<1> QED
  BY <1>1, <1>2, PipelineAssumption DEF MaxVerdicts

\* search-service remembers no more than the events and the verdicts there are.
LEMMA RoomInWindow ==
    ASSUME SearchType, AiType, MessagesInv
    PROVE  Len(searchProcessed) <= Cardinality(Tx) + MaxVerdicts
<1> DEFINE w == searchProcessed
           created == {<<u, 0>> : u \in Tx}
           judged == {<<verdicts[k].tx, k>> : k \in DOMAIN verdicts \cap (1..MaxVerdicts)}
           known == created \cup judged
           f == [u \in Tx |-> <<u, 0>>]
           numbers == DOMAIN verdicts \cap (1..MaxVerdicts)
           g == [k \in numbers |-> <<verdicts[k].tx, k>>]
<1>1. MaxVerdicts \in Nat /\ Cardinality(Tx) \in Nat /\ IsFiniteSet(Tx) /\ MaxTracked \in Nat \ {0}
  BY BoundsType
<1>2. IsFiniteSet(created) /\ Cardinality(created) <= Cardinality(Tx)
  <2>1. f \in Surjection(Tx, created)
    BY DEF Surjection
  <2> QED
    BY <1>1, <2>1, FS_Surjection
<1>3. IsFiniteSet(numbers) /\ Cardinality(numbers) <= MaxVerdicts
  <2>1. IsFiniteSet(1..MaxVerdicts) /\ Cardinality(1..MaxVerdicts) = IF 1 > MaxVerdicts THEN 0 ELSE MaxVerdicts - 1 + 1
    BY <1>1, FS_Interval
  <2>2. Cardinality(1..MaxVerdicts) = MaxVerdicts
    BY <1>1, <2>1
  <2>3. numbers \subseteq 1..MaxVerdicts
    OBVIOUS
  <2> HIDE DEF numbers
  <2>4. IsFiniteSet(numbers) /\ Cardinality(numbers) <= Cardinality(1..MaxVerdicts)
    BY <2>1, <2>3, FS_Subset
  <2> QED
    BY <2>2, <2>4
<1>4. IsFiniteSet(judged) /\ Cardinality(judged) <= MaxVerdicts
  <2>1. g \in Surjection(numbers, judged)
    BY DEF Surjection
  <2> HIDE DEF numbers, g, judged
  <2>2. IsFiniteSet(judged) /\ Cardinality(judged) <= Cardinality(numbers)
    BY <1>3, <2>1, FS_Surjection
  <2>3. Cardinality(judged) \in Nat /\ Cardinality(numbers) \in Nat
    BY <1>3, <2>2, FS_CardinalityType
  <2> QED
    BY <1>1, <1>3, <2>2, <2>3
<1>5. IsFiniteSet(known) /\ Cardinality(known) <= Cardinality(Tx) + MaxVerdicts
  <2> HIDE DEF created, judged
  <2>1. IsFiniteSet(known)
        /\ Cardinality(known) = Cardinality(created) + Cardinality(judged)
                                  - Cardinality(created \cap judged)
    BY <1>2, <1>4, FS_Union
  <2>2. IsFiniteSet(created \cap judged)
    BY <1>2, FS_Subset
  <2>3. /\ Cardinality(known) \in Nat /\ Cardinality(created) \in Nat /\ Cardinality(judged) \in Nat
        /\ Cardinality(created \cap judged) \in Nat
    BY <1>2, <1>4, <2>1, <2>2, FS_CardinalityType
  <2> HIDE DEF known
  <2> QED
    BY <1>1, <1>2, <1>4, <2>1, <2>3
<1>6. w \in Window(known, MaxTracked)
  <2>1. /\ w \in Seq(Tx \X Nat) /\ Len(w) <= MaxTracked
        /\ \A i, j \in DOMAIN w : i < j => w[i] # w[j]
    BY DEF SearchType, Window
  <2>2. ASSUME NEW i \in 1..Len(w)
        PROVE  w[i] \in known
    <3>1. PICK u \in Tx, n \in Nat : w[i] = <<u, n>>
      BY <2>1
    <3>2. SearchRemembers(<<u, n>>)
      BY <3>1 DEF SearchRemembers, Remembered
    <3>3. IF n = 0 THEN copies[u] > 0
          ELSE n \in DOMAIN verdicts /\ n <= MaxVerdicts /\ verdicts[n].tx = u
      BY <3>2 DEF MessagesInv, IdsGenuine
    <3>4. n # 0 => n \in 1..MaxVerdicts
      BY <1>1, <3>3
    <3> QED
      BY <3>1, <3>3, <3>4
  <2> HIDE DEF known
  <2>3. w \in Seq(known)
    BY <2>1, <2>2
  <2> QED
    BY <2>1, <2>3 DEF Window
<1>7. Len(w) <= Cardinality(known) /\ Len(w) \in Nat /\ Cardinality(known) \in Nat
  <2> HIDE DEF known, w
  <2> QED
    BY <1>1, <1>5, <1>6, WindowFits
<1> HIDE DEF known
<1> QED
  BY <1>1, <1>5, <1>7

LEMMA NothingReplayed ==
    ASSUME NoReplay, PipelineInv, Bounded, NEW t \in Tx
    PROVE  ~MayReplay(t)
<1>1. SearchType /\ AiType /\ MessagesInv /\ PromiseType
  BY PipelineInvTypes DEF PipelineInv
<1>2. CASE MaxCopies = 1
  BY <1>1, <1>2 DEF Bounded, MayReplay, PromiseType
<1>3. CASE SearchRestarts = 0 /\ Cardinality(Tx) + MaxVerdicts < MaxTracked
  <2>1. Len(searchProcessed) <= Cardinality(Tx) + MaxVerdicts /\ searchRestarts = 0
    BY <1>1, <1>3, RoomInWindow DEF Bounded
  <2>2. /\ Len(searchProcessed) \in Nat /\ Cardinality(Tx) \in Nat /\ MaxVerdicts \in Nat
        /\ MaxTracked \in Nat
    BY <1>1, BoundsType DEF SearchType, Window
  <2>3. Len(searchProcessed) # MaxTracked
    BY <1>3, <2>1, <2>2
  <2> QED
    BY <2>1, <2>3 DEF MayReplay, Forgetful
<1> QED
  BY <1>2, <1>3 DEF NoReplay

\* The services together implement Lifecycle, for every set of transactions: no row
\* skips its creation, is indexed after a decision, is decided without a verdict of
\* ai-service on it or loses a decision, whatever fails, and whatever is repeated while
\* search-service remembers it.
THEOREM PipelineImplementsLifecycle ==
    ASSUME SearchPrefetch = 1, RowPrefetch = 1, NoReplay
    PROVE  Spec => ImplementsLifecycle
<1>1. Spec => []PipelineInv
  BY PipelineInvariant
<1>2. PipelineInv /\ Bounded /\ [Next]_vars => Bounded'
  BY BoundedNext
<1>3. PipelineInv /\ Bounded /\ [Next]_vars => [Life!Next]_(Life!vars)
  BY LifeStep, NothingReplayed
<1> QED
  BY <1>1, <1>2, <1>3, BoundedInit, LifeInit, PTL DEF Spec, Life!Spec, ImplementsLifecycle

=============================================================================
