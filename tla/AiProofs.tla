------------------------------ MODULE AiProofs ------------------------------
(***************************************************************************)
(* Proofs about AiConsumer, for every set of events, every prefetch limit, *)
(* window, retry budget and number of faults.                              *)
(***************************************************************************)
EXTENDS AiConsumer, DeliveryProofs

Ids == {e.id : e \in Events}

Deliveries ==
    [msg : Events, pc : HandlerSteps, attempt : 1..(MaxRetries + 1),
     answer : Answers \cup {"none", "processing_error"}]

\* The broker, the window and the bounds; the handlers and their ids.
BrokerType ==
    /\ queue \in Seq(Events)
    /\ processed \in Window(Ids, MaxTracked)
    /\ arrivals \in [Events -> 0..MaxCopies]
    /\ errors \in 0..MaxErrors
    /\ restarts \in 0..MaxRestarts

HandlersType ==
    /\ inflight \in Seq(Deliveries)
    /\ Len(inflight) <= Prefetch

IInv == BrokerType /\ HandlersType /\ InFlightOnce

BoundsAssumption ==
    MaxCopies \in Nat /\ MaxErrors \in Nat /\ MaxRestarts \in Nat

LEMMA InflightShape ==
    ASSUME HandlersType
    PROVE  /\ DOMAIN inflight = 1..Len(inflight) /\ Len(inflight) \in Nat
           /\ \A i \in DOMAIN inflight :
                 /\ inflight[i] \in Deliveries
                 /\ inflight[i].msg \in Events /\ inflight[i].msg.id \in Ids
                 /\ inflight[i].attempt \in 1..(MaxRetries + 1)
                 /\ inflight[i].answer \in Answers \cup {"none", "processing_error"}
<1>1. \A i \in DOMAIN inflight : inflight[i] \in Deliveries
  BY DEF HandlersType
<1>2. DOMAIN inflight = 1..Len(inflight) /\ Len(inflight) \in Nat
  BY DEF HandlersType
<1> QED
  BY <1>1, <1>2 DEF Deliveries, Ids

\* An assignment to the step of a handler keeps the rest of it.
LEMMA EditStep ==
    ASSUME HandlersType, NEW i \in DOMAIN inflight, NEW pc
    PROVE  [inflight EXCEPT ![i].pc = pc]
             = [inflight EXCEPT ![i] = Handler(inflight[i].msg, pc, inflight[i].attempt,
                                               inflight[i].answer)]
<1>1. inflight[i] \in Deliveries
  BY InflightShape
<1>2. [inflight[i] EXCEPT !.pc = pc]
        = Handler(inflight[i].msg, pc, inflight[i].attempt, inflight[i].answer)
  BY <1>1 DEF Deliveries, Handler
<1>3. [inflight EXCEPT ![i].pc = pc] = [inflight EXCEPT ![i] = [inflight[i] EXCEPT !.pc = pc]]
  OBVIOUS
<1> QED
  BY <1>2, <1>3

-----------------------------------------------------------------------------
(***************************************************************************)
(* The three things a step does to the handlers: it changes the step one   *)
(* is at, it removes one, or it adds one.                                  *)
(***************************************************************************)
\* Handler i goes on and keeps its id.
LEMMA GoesOn ==
    ASSUME HandlersType, InFlightOnce, NEW i \in DOMAIN inflight, NEW h \in Deliveries,
           inflight' = [inflight EXCEPT ![i] = h], h.msg = inflight[i].msg,
           inflight[i].pc # "acking", h.pc # "acking", processing' = processing
    PROVE  HandlersType' /\ InFlightOnce'
<1>1. /\ inflight' \in Seq(Deliveries) /\ Len(inflight') = Len(inflight)
      /\ DOMAIN inflight' = DOMAIN inflight /\ inflight'[i] = h
      /\ \A j \in DOMAIN inflight : j # i => inflight'[j] = inflight[j]
  BY EditShape DEF HandlersType
<1>2. \A j \in DOMAIN inflight : inflight'[j].msg = inflight[j].msg
  BY <1>1
<1>3. Running' = Running
  BY <1>1 DEF Running
<1>4. InFlightOnce'
  BY <1>2, <1>3 DEF InFlightOnce, Running
<1> QED
  BY <1>1, <1>4 DEF HandlersType

\* Handler i has released its id and waits for its acknowledgement.
LEMMA Releases ==
    ASSUME HandlersType, InFlightOnce, NEW i \in DOMAIN inflight, NEW h \in Deliveries,
           inflight' = [inflight EXCEPT ![i] = h],
           inflight[i].pc # "acking", h.pc = "acking",
           processing' = processing \ {inflight[i].msg.id}
    PROVE  HandlersType' /\ InFlightOnce'
<1>1. /\ inflight' \in Seq(Deliveries) /\ Len(inflight') = Len(inflight)
      /\ DOMAIN inflight' = DOMAIN inflight /\ inflight'[i] = h
      /\ \A j \in DOMAIN inflight : j # i => inflight'[j] = inflight[j]
  BY EditShape DEF HandlersType
<1>2. Running' = Running \ {i} /\ i \in Running
  BY <1>1 DEF Running
<1>3. \A j \in Running' : inflight'[j] = inflight[j]
  BY <1>1, <1>2 DEF Running
<1>4. \A j, k \in Running' : inflight'[j].msg.id = inflight'[k].msg.id => j = k
  BY <1>2, <1>3 DEF InFlightOnce
<1>5. processing' = {inflight'[j].msg.id : j \in Running'}
  BY <1>2, <1>3 DEF InFlightOnce
<1> QED
  BY <1>1, <1>4, <1>5 DEF HandlersType, InFlightOnce

\* Handler i leaves; if it was running, its id goes with it.
LEMMA Leaves ==
    ASSUME HandlersType, InFlightOnce, NEW i \in DOMAIN inflight,
           inflight' = RemoveAt(inflight, i),
           processing' = IF inflight[i].pc = "acking" THEN processing
                         ELSE processing \ {inflight[i].msg.id}
    PROVE  HandlersType' /\ InFlightOnce'
<1>1. /\ inflight' \in Seq(Deliveries) /\ Len(inflight') = Len(inflight) - 1
      /\ \A j \in DOMAIN inflight' :
            Before(i, j) \in DOMAIN inflight \ {i} /\ inflight'[j] = inflight[Before(i, j)]
      /\ \A j, k \in DOMAIN inflight' : Before(i, j) = Before(i, k) => j = k
      /\ \A k \in DOMAIN inflight \ {i} : \E j \in DOMAIN inflight' : Before(i, j) = k
  BY RemoveAtIndex DEF HandlersType
<1>2. \A j \in Running' : Before(i, j) \in Running \ {i}
  BY <1>1 DEF Running
<1>3. \A k \in Running \ {i} : \E j \in Running' : Before(i, j) = k
  BY <1>1 DEF Running
<1>4. \A j, k \in Running' : inflight'[j].msg.id = inflight'[k].msg.id => j = k
  <2> SUFFICES ASSUME NEW j \in Running', NEW k \in Running',
                      inflight'[j].msg.id = inflight'[k].msg.id
               PROVE  j = k
    OBVIOUS
  <2>1. j \in DOMAIN inflight' /\ k \in DOMAIN inflight'
    BY DEF Running
  <2>2. inflight[Before(i, j)].msg.id = inflight[Before(i, k)].msg.id
    BY <1>1, <2>1
  <2>3. Before(i, j) = Before(i, k)
    BY <1>2, <2>2 DEF InFlightOnce
  <2> QED
    BY <1>1, <2>1, <2>3
<1>5. processing' = {inflight[k].msg.id : k \in Running \ {i}}
  BY DEF InFlightOnce, Running
<1>6. {inflight[k].msg.id : k \in Running \ {i}} = {inflight'[j].msg.id : j \in Running'}
  <2>1. ASSUME NEW k \in Running \ {i}
        PROVE  inflight[k].msg.id \in {inflight'[j].msg.id : j \in Running'}
    <3>1. PICK j \in Running' : Before(i, j) = k
      BY <1>3
    <3>2. inflight'[j] = inflight[k]
      BY <1>1, <3>1 DEF Running
    <3> QED
      BY <3>2
  <2>2. ASSUME NEW j \in Running'
        PROVE  inflight'[j].msg.id \in {inflight[k].msg.id : k \in Running \ {i}}
    <3>1. inflight'[j] = inflight[Before(i, j)]
      BY <1>1 DEF Running
    <3> QED
      BY <1>2, <3>1
  <2> QED
    BY <2>1, <2>2
<1>7. Len(inflight') <= Prefetch
  BY <1>1, AiAssumption DEF HandlersType
<1> QED
  BY <1>1, <1>4, <1>5, <1>6, <1>7 DEF HandlersType, InFlightOnce

\* A new handler starts on an id nobody works on.
LEMMA Starts ==
    ASSUME HandlersType, InFlightOnce, NEW h \in Deliveries, h.pc # "acking",
           Len(inflight) < Prefetch, h.msg.id \notin processing,
           inflight' = Append(inflight, h), processing' = processing \cup {h.msg.id}
    PROVE  HandlersType' /\ InFlightOnce'
<1> DEFINE n == Len(inflight) + 1
<1>1. /\ inflight' \in Seq(Deliveries) /\ Len(inflight') = n
      /\ DOMAIN inflight' = DOMAIN inflight \cup {n} /\ n \notin DOMAIN inflight
      /\ inflight'[n] = h
      /\ \A j \in DOMAIN inflight : inflight'[j] = inflight[j]
  BY DEF HandlersType
<1> HIDE DEF n
<1>2. Running' = Running \cup {n} /\ n \notin Running
  BY <1>1 DEF Running
<1>3. \A j \in Running : inflight'[j] = inflight[j] /\ inflight[j].msg.id \in processing
  BY <1>1 DEF Running, InFlightOnce
<1>4. \A j, k \in Running' : inflight'[j].msg.id = inflight'[k].msg.id => j = k
  <2> SUFFICES ASSUME NEW j \in Running', NEW k \in Running',
                      inflight'[j].msg.id = inflight'[k].msg.id
               PROVE  j = k
    OBVIOUS
  <2>1. CASE j \in Running /\ k \in Running
    BY <1>3, <2>1 DEF InFlightOnce
  <2>2. CASE j \in Running /\ k = n
    BY <1>1, <1>3, <2>2
  <2>3. CASE j = n /\ k \in Running
    BY <1>1, <1>3, <2>3
  <2> QED
    BY <1>2, <2>1, <2>2, <2>3
<1>5. processing' = {inflight'[j].msg.id : j \in Running'}
  <2>1. ASSUME NEW j \in Running'
        PROVE  inflight'[j].msg.id \in processing'
    BY <1>1, <1>2, <1>3
  <2>2. ASSUME NEW x \in processing'
        PROVE  \E j \in Running' : x = inflight'[j].msg.id
    <3>1. CASE x = h.msg.id
      BY <1>1, <1>2, <3>1
    <3>2. CASE x \in processing
      <4>1. PICK j \in Running : x = inflight[j].msg.id
        BY <3>2 DEF InFlightOnce
      <4> QED
        BY <1>2, <1>3, <4>1
    <3> QED
      BY <3>1, <3>2
  <2> QED
    BY <2>1, <2>2
<1>6. Len(inflight') <= Prefetch
  BY <1>1, AiAssumption DEF HandlersType, n
<1> QED
  BY <1>1, <1>4, <1>5, <1>6 DEF HandlersType, InFlightOnce

-----------------------------------------------------------------------------
(***************************************************************************)
(* Type correctness and InFlightOnce.                                      *)
(***************************************************************************)
LEMMA IInvInit == ASSUME BoundsAssumption PROVE Init => IInv
<1> SUFFICES ASSUME Init PROVE IInv
  OBVIOUS
<1>1. BrokerType
  BY EmptyWindow, AiAssumption DEF Init, BrokerType, BoundsAssumption
<1>2. HandlersType
  BY AiAssumption DEF Init, HandlersType
<1>3. InFlightOnce
  BY DEF Init, InFlightOnce, Running
<1> QED
  BY <1>1, <1>2, <1>3 DEF IInv

\* The steps that leave the handlers alone.
LEMMA HandlersUnchanged ==
    ASSUME HandlersType, InFlightOnce, UNCHANGED <<inflight, processing>>
    PROVE  HandlersType' /\ InFlightOnce'
  BY DEF HandlersType, InFlightOnce, Running

LEMMA RememberedType ==
    ASSUME BrokerType, NEW id \in Ids, ~Remembered(processed, id),
           processed' = Remember(processed, id, MaxTracked)
    PROVE  processed' \in Window(Ids, MaxTracked)
  BY RememberShape, AiAssumption DEF BrokerType

LEMMA ConsumeStep ==
    ASSUME BoundsAssumption, IInv, Consume
    PROVE  IInv'
<1> USE DEF IInv
<1>1. ASSUME NEW m \in Events, Delivers(m)
      PROVE  queue' \in Seq(Events) /\ Len(inflight) < Prefetch /\ m.id \in Ids
  BY <1>1 DEF Delivers, BrokerType, Ids
<1>2. CASE SkipDuplicate
  BY <1>1, <1>2, HandlersUnchanged DEF SkipDuplicate, BrokerType
<1>3. CASE IgnoreEvent
  <2>1. PICK m \in Events : /\ Delivers(m) /\ ~Known(m.id)
                            /\ processed' = Remember(processed, m.id, MaxTracked)
    BY <1>3 DEF IgnoreEvent
  <2>2. processed' \in Window(Ids, MaxTracked)
    BY <1>1, <2>1, RememberedType DEF Known
  <2> QED
    BY <1>1, <1>3, <2>1, <2>2, HandlersUnchanged DEF IgnoreEvent, BrokerType
<1>4. CASE RefuseEvent
  BY <1>1, <1>4, HandlersUnchanged DEF RefuseEvent, BrokerType
<1>5. CASE StartHandler
  <2>1. PICK m \in Events :
           /\ Delivers(m) /\ ~Known(m.id)
           /\ processing' = processing \cup {m.id}
           /\ inflight' = Append(inflight, Handler(m, "fetching", 1, "none"))
    BY <1>5 DEF StartHandler
  <2> DEFINE h == Handler(m, "fetching", 1, "none")
  <2>2. h \in Deliveries /\ h.msg.id = m.id /\ h.pc # "acking"
    BY AiAssumption DEF Deliveries, HandlerSteps, Handler
  <2>3. HandlersType' /\ InFlightOnce'
    BY <1>1, <2>1, <2>2, Starts DEF Known
  <2> QED
    BY <1>1, <1>5, <2>1, <2>3 DEF StartHandler, BrokerType
<1> QED
  BY <1>2, <1>3, <1>4, <1>5 DEF Consume

\* Every step of a handler, by what it does to the handler.
LEMMA HandlersStep ==
    ASSUME BoundsAssumption, IInv, NEW i \in DOMAIN inflight, HandlerStep(i)
    PROVE  IInv'
<1> USE DEF IInv
<1> DEFINE h == inflight[i]
<1>0. /\ inflight[i] \in Deliveries /\ inflight[i].msg.id \in Ids
      /\ h.attempt \in 1..(MaxRetries + 1)
      /\ h.answer \in Answers \cup {"none", "processing_error"}
      /\ inflight \in Seq(Deliveries)
  BY InflightShape DEF HandlersType
<1>1. \A pc \in HandlerSteps, n \in 1..(MaxRetries + 1),
         a \in Answers \cup {"none", "processing_error"} : Handler(h.msg, pc, n, a) \in Deliveries
  BY <1>0 DEF Deliveries, Handler
<1>2. ASSUME NEW pc \in HandlerSteps \ {"acking"}, NEW n \in 1..(MaxRetries + 1),
             NEW a \in Answers \cup {"none", "processing_error"},
             inflight' = [inflight EXCEPT ![i] = Handler(h.msg, pc, n, a)],
             inflight[i].pc # "acking", processing' = processing
      PROVE  HandlersType' /\ InFlightOnce'
  <2>1. Handler(h.msg, pc, n, a) \in Deliveries /\ Handler(h.msg, pc, n, a).msg = inflight[i].msg
        /\ Handler(h.msg, pc, n, a).pc # "acking"
    BY <1>1 DEF Handler
  <2> QED
    BY <1>2, <2>1, GoesOn
<1>3. CASE HeadersArrive(i)
  <2>1. inflight' = [inflight EXCEPT ![i] = Handler(h.msg, "body", h.attempt, h.answer)]
    BY <1>3, EditStep DEF HeadersArrive
  <2>2. "body" \in HandlerSteps \ {"acking"}
    BY DEF HandlerSteps
  <2>3. HandlersType' /\ InFlightOnce'
    BY <1>0, <1>2, <1>3, <2>1, <2>2 DEF HeadersArrive
  <2> QED
    BY <1>3, <2>3 DEF HeadersArrive, BrokerType, brokerVars
<1>4. CASE AttemptFails(i)
  <2>1. CASE h.attempt > MaxRetries
    <3>1. inflight' = [inflight EXCEPT ![i] =
                          Handler(h.msg, "rejecting", h.attempt, "processing_error")]
      BY <1>4, <2>1 DEF AttemptFails
    <3>2. "rejecting" \in HandlerSteps \ {"acking"}
      BY DEF HandlerSteps
    <3> QED
      BY <1>0, <1>2, <1>4, <3>1, <3>2 DEF AttemptFails, BrokerType, brokerVars
  <2>2. CASE ~(h.attempt > MaxRetries)
    <3>1. inflight' = [inflight EXCEPT ![i] =
                          Handler(h.msg, "fetching", h.attempt + 1, h.answer)]
      BY <1>4, <2>2 DEF AttemptFails
    <3>2. "fetching" \in HandlerSteps \ {"acking"}
      BY DEF HandlerSteps
    <3>3. h.attempt + 1 \in 1..(MaxRetries + 1)
      BY <1>0, <2>2, AiAssumption
    <3> QED
      BY <1>0, <1>2, <1>4, <3>1, <3>2, <3>3 DEF AttemptFails, BrokerType, brokerVars
  <2> QED
    BY <2>1, <2>2
<1>5. CASE AnswerArrives(i)
  <2>1. PICK answer \in Answers :
           inflight' = [inflight EXCEPT ![i] =
              Handler(@.msg, IF answer = "invalid" THEN "rejecting" ELSE "publishing",
                      @.attempt, answer)]
    BY <1>5 DEF AnswerArrives
  <2> DEFINE pc == IF answer = "invalid" THEN "rejecting" ELSE "publishing"
  <2>2. inflight' = [inflight EXCEPT ![i] = Handler(h.msg, pc, h.attempt, answer)]
    BY <2>1
  <2>3. pc \in HandlerSteps \ {"acking"}
    BY DEF HandlerSteps
  <2>4. HandlersType' /\ InFlightOnce'
    <3> HIDE DEF pc
    <3> QED
      BY <1>0, <1>2, <1>5, <2>2, <2>3 DEF AnswerArrives
  <2> QED
    BY <1>5, <2>4 DEF AnswerArrives, BrokerType, brokerVars
<1>6. CASE BrokerAccepts(i)
  <2> DEFINE pc == IF inflight[i].pc = "publishing" THEN "confirming" ELSE "confirmingReject"
  <2>1. inflight' = [inflight EXCEPT ![i] = Handler(h.msg, pc, h.attempt, h.answer)]
    <3>1. inflight' = [inflight EXCEPT ![i].pc = pc]
      BY <1>6 DEF BrokerAccepts
    <3> HIDE DEF pc
    <3> QED
      BY <3>1, EditStep
  <2>2. pc \in HandlerSteps \ {"acking"}
    BY DEF HandlerSteps
  <2>3. HandlersType' /\ InFlightOnce'
    <3> HIDE DEF pc
    <3> QED
      BY <1>0, <1>2, <1>6, <2>1, <2>2 DEF BrokerAccepts
  <2> QED
    BY <1>6, <2>3 DEF BrokerAccepts, BrokerType, brokerVars
<1>7. CASE Confirmed(i)
  <2>1. inflight' = [inflight EXCEPT ![i] = Handler(h.msg, "acking", h.attempt, h.answer)]
    BY <1>7, EditStep DEF Confirmed
  <2>2. Handler(h.msg, "acking", h.attempt, h.answer) \in Deliveries
    BY <1>0, <1>1 DEF HandlerSteps
  <2>3. HandlersType' /\ InFlightOnce'
    BY <1>7, <2>1, <2>2, Releases DEF Confirmed, Handler
  <2>4. processed' \in Window(Ids, MaxTracked)
    BY <1>0, <1>7, RememberedType DEF Confirmed, MarkEventProcessed, BrokerType
  <2> QED
    BY <1>7, <2>3, <2>4 DEF Confirmed, BrokerType, brokerVars
<1>8. CASE PublishFails(i)
  <2>1. inflight' = [inflight EXCEPT ![i] =
                        Handler(h.msg, "rejecting", h.attempt, "processing_error")]
    BY <1>8 DEF PublishFails
  <2>2. "rejecting" \in HandlerSteps \ {"acking"}
    BY DEF HandlerSteps
  <2>3. HandlersType' /\ InFlightOnce'
    BY <1>0, <1>2, <1>8, <2>1, <2>2 DEF PublishFails
  <2> QED
    BY <1>8, <2>3 DEF PublishFails, BrokerType, brokerVars, BoundsAssumption
<1>9. CASE RejectFails(i)
  <2>1. HandlersType' /\ InFlightOnce'
    BY <1>9, Leaves DEF RejectFails
  <2> QED
    BY <1>9, <2>1 DEF RejectFails, BrokerType, brokerVars, BoundsAssumption
<1>10. CASE Ack(i)
  <2>1. HandlersType' /\ InFlightOnce'
    BY <1>10, Leaves DEF Ack
  <2> QED
    BY <1>10, <2>1 DEF Ack, BrokerType, brokerVars
<1> QED
  BY <1>3, <1>4, <1>5, <1>6, <1>7, <1>8, <1>9, <1>10 DEF HandlerStep

LEMMA IInvStep == ASSUME BoundsAssumption PROVE IInv /\ [Next]_vars => IInv'
<1> SUFFICES ASSUME IInv, [Next]_vars
             PROVE  IInv'
  OBVIOUS
<1>1. ASSUME NEW e \in Events, Arrive(e)
      PROVE  IInv'
  <2>1. queue' \in Seq(Events) /\ arrivals' \in [Events -> 0..MaxCopies]
    BY <1>1 DEF Arrive, IInv, BrokerType, BoundsAssumption
  <2> QED
    BY <1>1, <2>1, HandlersUnchanged DEF Arrive, IInv, BrokerType
<1>2. CASE Restart
  <2>1. queue' \in Seq(Events)
    <3>1. \A h \in Deliveries : h.msg \in Events
      BY DEF Deliveries
    <3> QED
      BY <1>2, <3>1, RequeueShape DEF Restart, IInv, BrokerType, HandlersType
  <2>2. processed' \in Window(Ids, MaxTracked)
    BY <1>2, EmptyWindow, AiAssumption DEF Restart
  <2>3. HandlersType' /\ InFlightOnce'
    BY <1>2, AiAssumption DEF Restart, HandlersType, InFlightOnce, Running
  <2> QED
    BY <1>2, <2>1, <2>2, <2>3 DEF Restart, IInv, BrokerType, BoundsAssumption
<1>3. CASE UNCHANGED vars
  BY <1>3, HandlersUnchanged DEF vars, brokerVars, IInv, BrokerType
<1> QED
  BY <1>1, <1>2, <1>3, ConsumeStep, HandlersStep DEF Next

\* TypeOK of the run ai_verdicts, for every instance: in particular no event costs
\* more than MaxRetries + 1 attempts, and the prefetch limit holds.
THEOREM TypeCorrect ==
    ASSUME BoundsAssumption
    PROVE  Spec => []TypeOK
<1>1. Init => IInv
  BY IInvInit
<1>2. IInv /\ [Next]_vars => IInv'
  BY IInvStep
<1>3. IInv => TypeOK
  <2>1. IInv => processing \subseteq Ids
    BY InflightShape DEF IInv, InFlightOnce, Running
  <2> QED
    BY <2>1 DEF IInv, BrokerType, HandlersType, TypeOK, Ids, Deliveries
<1> QED
  BY <1>1, <1>2, <1>3, PTL DEF Spec

\* InFlightOnce of the same run: whatever is delivered twice, fails or restarts, no
\* two handlers work on one event and no id outlives its handler.
THEOREM WorkedOnOnce ==
    ASSUME BoundsAssumption
    PROVE  Spec => []InFlightOnce
<1>1. Init => IInv
  BY IInvInit
<1>2. IInv /\ [Next]_vars => IInv'
  BY IInvStep
<1>3. IInv => InFlightOnce
  BY DEF IInv
<1> QED
  BY <1>1, <1>2, <1>3, PTL DEF Spec

-----------------------------------------------------------------------------
(***************************************************************************)
(* RememberedWasAnswered.  It is inductive together with: a handler that   *)
(* waits for a confirm has published its verdict.                          *)
(***************************************************************************)
Verdicts ==
    [type : {"ai.enriched", "ai.rejected"}, tx : Tx \cup {NoTx}, sourceId : Ids,
     moderation : {"ALLOW", "REVIEW", "none"}]

VerdictsType == verdicts \in Seq(Verdicts)

ConfirmingWasPublished ==
    \A i \in DOMAIN inflight :
        inflight[i].pc \in {"confirming", "confirmingReject"} =>
            VerdictsOn(inflight[i].msg.id) # {}

AnsweredInv == VerdictsType /\ ConfirmingWasPublished /\ RememberedWasAnswered

\* An event is known by its id.
IdsDistinct == \A e, f \in Events : e.id = f.id => e = f

LEMMA VerdictsGrow ==
    ASSUME VerdictsType, NEW v \in Verdicts, verdicts' = Append(verdicts, v),
           NEW source, v.sourceId = source
    PROVE  /\ VerdictsType'
           /\ VerdictsOn(source)' # {}
           /\ \A id : VerdictsOn(id) # {} => VerdictsOn(id)' # {}
<1> DEFINE n == Len(verdicts) + 1
<1>1. /\ verdicts' \in Seq(Verdicts) /\ n \in DOMAIN verdicts' /\ verdicts'[n] = v
      /\ \A k \in DOMAIN verdicts : k \in DOMAIN verdicts' /\ verdicts'[k] = verdicts[k]
  BY DEF VerdictsType
<1>2. n \in VerdictsOn(source)'
  BY <1>1 DEF VerdictsOn
<1>3. ASSUME NEW id, NEW k \in VerdictsOn(id)
      PROVE  k \in VerdictsOn(id)'
  BY <1>1, <1>3 DEF VerdictsOn
<1> QED
  BY <1>1, <1>2, <1>3 DEF VerdictsType

\* A handler that did not reach a confirm, next to the others.
LEMMA StillPublished ==
    ASSUME HandlersType, ConfirmingWasPublished, verdicts' = verdicts,
           NEW i \in DOMAIN inflight, DOMAIN inflight' = DOMAIN inflight,
           inflight'[i].pc \notin {"confirming", "confirmingReject"},
           \A j \in DOMAIN inflight : j # i => inflight'[j] = inflight[j]
    PROVE  ConfirmingWasPublished'
  BY DEF ConfirmingWasPublished, VerdictsOn

LEMMA AnsweredConsume ==
    ASSUME IdsDistinct, IInv, AnsweredInv, Consume
    PROVE  AnsweredInv'
<1> USE DEF IInv, AnsweredInv
<1>0. processed \in Seq(Ids)
  BY DEF BrokerType, Window
<1>1. verdicts' = verdicts /\ VerdictsType'
  BY DEF Consume, SkipDuplicate, IgnoreEvent, RefuseEvent, StartHandler, VerdictsType
<1>2. CASE SkipDuplicate \/ RefuseEvent
  BY <1>1, <1>2 DEF SkipDuplicate, RefuseEvent, ConfirmingWasPublished, RememberedWasAnswered,
                    VerdictsOn, Remembered
<1>3. CASE IgnoreEvent
  <2>1. PICK m \in Events : /\ m.type \notin Supported
                            /\ processed' = Remember(processed, m.id, MaxTracked)
    BY <1>3 DEF IgnoreEvent
  <2>2. ASSUME NEW e \in Events, Remembered(processed', e.id), e.type \in Supported
        PROVE  Remembered(processed, e.id)
    <3>1. e.id = m.id \/ Remembered(processed, e.id)
      BY <1>0, <2>1, <2>2, RememberAdds, AiAssumption DEF Ids
    <3> QED
      BY <2>1, <2>2, <3>1 DEF IdsDistinct
  <2>3. RememberedWasAnswered'
    BY <1>1, <2>2 DEF RememberedWasAnswered, VerdictsOn
  <2>4. ConfirmingWasPublished'
    BY <1>1, <1>3 DEF IgnoreEvent, ConfirmingWasPublished, VerdictsOn
  <2> QED
    BY <1>1, <2>3, <2>4
<1>4. CASE StartHandler
  <2>1. RememberedWasAnswered'
    BY <1>1, <1>4 DEF StartHandler, RememberedWasAnswered, VerdictsOn
  <2>2. PICK m \in Events : inflight' = Append(inflight, Handler(m, "fetching", 1, "none"))
    BY <1>4 DEF StartHandler
  <2>3. ConfirmingWasPublished'
    BY <1>1, <2>2, InflightShape DEF ConfirmingWasPublished, VerdictsOn, HandlersType, Handler
  <2> QED
    BY <1>1, <2>1, <2>3
<1> QED
  BY <1>2, <1>3, <1>4 DEF Consume

\* Before the publish, a handler moves among the steps before the publish.
LEMMA StaysUnconfirmed ==
    ASSUME HandlersType, NEW i \in DOMAIN inflight,
           HeadersArrive(i) \/ AttemptFails(i) \/ AnswerArrives(i) \/ PublishFails(i)
    PROVE  \E h \in Deliveries : /\ h.pc \notin {"confirming", "confirmingReject", "acking"}
                                 /\ h.msg = inflight[i].msg
                                 /\ inflight' = [inflight EXCEPT ![i] = h]
<1> DEFINE h == inflight[i]
           Goal == \E g \in Deliveries : /\ g.pc \notin {"confirming", "confirmingReject", "acking"}
                                         /\ g.msg = inflight[i].msg
                                         /\ inflight' = [inflight EXCEPT ![i] = g]
<1>0. h.msg \in Events /\ h.attempt \in 1..(MaxRetries + 1)
      /\ h.answer \in Answers \cup {"none", "processing_error"}
  BY InflightShape
<1>1. ASSUME NEW pc \in {"fetching", "body", "publishing", "rejecting"},
             NEW n \in 1..(MaxRetries + 1), NEW a \in Answers \cup {"none", "processing_error"},
             inflight' = [inflight EXCEPT ![i] = Handler(h.msg, pc, n, a)]
      PROVE  Goal
  <2>1. Handler(h.msg, pc, n, a) \in Deliveries /\ Handler(h.msg, pc, n, a).pc = pc
        /\ Handler(h.msg, pc, n, a).msg = h.msg
    BY <1>0 DEF Deliveries, Handler, HandlerSteps
  <2> QED
    BY <1>1, <2>1
<1>2. CASE HeadersArrive(i)
  <2>1. inflight' = [inflight EXCEPT ![i] = Handler(h.msg, "body", h.attempt, h.answer)]
    BY <1>2, EditStep DEF HeadersArrive
  <2> QED
    BY <1>0, <1>1, <2>1
<1>3. CASE AttemptFails(i)
  <2>1. CASE h.attempt > MaxRetries
    <3>1. inflight' = [inflight EXCEPT ![i] =
                          Handler(h.msg, "rejecting", h.attempt, "processing_error")]
      BY <1>3, <2>1 DEF AttemptFails
    <3> QED
      BY <1>0, <1>1, <3>1
  <2>2. CASE ~(h.attempt > MaxRetries)
    <3>1. h.attempt + 1 \in 1..(MaxRetries + 1)
      BY <1>0, <2>2, AiAssumption
    <3>2. inflight' = [inflight EXCEPT ![i] =
                          Handler(h.msg, "fetching", h.attempt + 1, h.answer)]
      BY <1>3, <2>2 DEF AttemptFails
    <3> QED
      BY <1>0, <1>1, <3>1, <3>2
  <2> QED
    BY <2>1, <2>2
<1>4. CASE AnswerArrives(i)
  <2>1. PICK answer \in Answers :
           inflight' = [inflight EXCEPT ![i] =
              Handler(h.msg, IF answer = "invalid" THEN "rejecting" ELSE "publishing",
                      h.attempt, answer)]
    BY <1>4 DEF AnswerArrives
  <2> QED
    BY <1>0, <1>1, <2>1
<1>5. CASE PublishFails(i)
  <2>1. inflight' = [inflight EXCEPT ![i] =
                        Handler(h.msg, "rejecting", h.attempt, "processing_error")]
    BY <1>5 DEF PublishFails
  <2> QED
    BY <1>0, <1>1, <2>1
<1> QED
  BY <1>2, <1>3, <1>4, <1>5

LEMMA AnsweredHandlers ==
    ASSUME IdsDistinct, IInv, AnsweredInv, NEW i \in DOMAIN inflight, HandlerStep(i)
    PROVE  AnsweredInv'
<1> USE DEF IInv, AnsweredInv
<1>0. /\ inflight[i] \in Deliveries /\ inflight[i].msg \in Events /\ inflight[i].msg.id \in Ids
      /\ inflight \in Seq(Deliveries) /\ DOMAIN inflight = 1..Len(inflight)
      /\ Len(inflight) \in Nat /\ processed \in Seq(Ids)
  BY InflightShape DEF HandlersType, BrokerType, Window
<1>1. CASE HeadersArrive(i) \/ AttemptFails(i) \/ AnswerArrives(i) \/ PublishFails(i)
  <2>1. verdicts' = verdicts /\ processed' = processed
    BY <1>1 DEF HeadersArrive, AttemptFails, AnswerArrives, PublishFails
  <2>2. /\ DOMAIN inflight' = DOMAIN inflight
        /\ \A j \in DOMAIN inflight : j # i => inflight'[j] = inflight[j]
        /\ inflight'[i].pc \notin {"confirming", "confirmingReject"}
    <3>1. PICK h \in Deliveries : /\ h.pc \notin {"confirming", "confirmingReject"}
                                 /\ inflight' = [inflight EXCEPT ![i] = h]
      BY <1>0, <1>1, StaysUnconfirmed
    <3> QED
      BY <1>0, <3>1, EditShape
  <2>3. ConfirmingWasPublished'
    BY <2>1, <2>2, StillPublished
  <2> QED
    BY <2>1, <2>3 DEF VerdictsType, RememberedWasAnswered, VerdictsOn
<1>2. CASE BrokerAccepts(i)
  <2> DEFINE v == Verdict(inflight[i])
  <2>1. v \in Verdicts /\ v.sourceId = inflight[i].msg.id
    BY <1>0, AiAssumption DEF Verdict, Verdicts
  <2>2. verdicts' = Append(verdicts, v) /\ processed' = processed
    BY <1>2 DEF BrokerAccepts
  <2> HIDE DEF v
  <2>0. PICK id : id = inflight[i].msg.id
    OBVIOUS
  <2>3. /\ VerdictsType' /\ VerdictsOn(id)' # {}
        /\ \A other : VerdictsOn(other) # {} => VerdictsOn(other)' # {}
    <3>1. v.sourceId = id
      BY <2>0, <2>1
    <3> QED
      BY <2>1, <2>2, <3>1, VerdictsGrow
  <2>4. /\ DOMAIN inflight' = DOMAIN inflight
        /\ \A j \in DOMAIN inflight : inflight'[j].msg = inflight[j].msg
        /\ \A j \in DOMAIN inflight : j # i => inflight'[j] = inflight[j]
    BY <1>0, <1>2 DEF BrokerAccepts, Deliveries
  <2>5. ConfirmingWasPublished'
    <3>1. ASSUME NEW j \in DOMAIN inflight', NEW jd, jd = inflight'[j].msg.id,
                 inflight'[j].pc \in {"confirming", "confirmingReject"}
          PROVE  VerdictsOn(jd)' # {}
      <4>1. CASE j = i
        BY <2>0, <2>3, <2>4, <3>1, <4>1
      <4>2. CASE j # i
        <5>1. VerdictsOn(jd) # {}
          BY <2>4, <3>1, <4>2 DEF ConfirmingWasPublished
        <5> QED
          BY <2>3, <5>1
      <4> QED
        BY <4>1, <4>2
    <3> QED
      BY <3>1 DEF ConfirmingWasPublished, VerdictsOn
  <2>6. RememberedWasAnswered'
    BY <2>2, <2>3 DEF RememberedWasAnswered
  <2> QED
    BY <2>3, <2>5, <2>6
<1>3. CASE Confirmed(i)
  <2>1. verdicts' = verdicts /\ VerdictsOn(inflight[i].msg.id) # {}
    BY <1>3 DEF Confirmed, ConfirmingWasPublished
  <2>2. /\ DOMAIN inflight' = DOMAIN inflight
        /\ \A j \in DOMAIN inflight : j # i => inflight'[j] = inflight[j]
        /\ inflight'[i].pc \notin {"confirming", "confirmingReject"}
    BY <1>0, <1>3 DEF Confirmed, Deliveries
  <2>3. ConfirmingWasPublished'
    BY <2>1, <2>2, StillPublished
  <2>4. ASSUME NEW e \in Events, Remembered(processed', e.id), e.type \in Supported
        PROVE  VerdictsOn(e.id) # {}
    <3>1. e.id = inflight[i].msg.id \/ Remembered(processed, e.id)
      BY <1>0, <1>3, <2>4, RememberAdds, AiAssumption DEF Confirmed, MarkEventProcessed
    <3> QED
      BY <2>1, <2>4, <3>1 DEF RememberedWasAnswered
  <2>5. RememberedWasAnswered'
    BY <2>1, <2>4 DEF RememberedWasAnswered, VerdictsOn
  <2> QED
    BY <2>1, <2>3, <2>5 DEF VerdictsType
<1>4. CASE RejectFails(i) \/ Ack(i)
  <2>1. verdicts' = verdicts /\ processed' = processed /\ inflight' = RemoveAt(inflight, i)
    BY <1>4 DEF RejectFails, Ack
  <2>2. \A j \in DOMAIN inflight' :
            Before(i, j) \in DOMAIN inflight /\ inflight'[j] = inflight[Before(i, j)]
    <3>1. \A j \in DOMAIN RemoveAt(inflight, i) :
             /\ Before(i, j) \in DOMAIN inflight \ {i}
             /\ RemoveAt(inflight, i)[j] = inflight[Before(i, j)]
      BY <1>0, RemoveAtIndex
    <3> QED
      BY <2>1, <3>1
  <2>3. ConfirmingWasPublished'
    BY <2>1, <2>2 DEF ConfirmingWasPublished, VerdictsOn
  <2> QED
    BY <2>1, <2>3 DEF VerdictsType, RememberedWasAnswered, VerdictsOn
<1> QED
  BY <1>1, <1>2, <1>3, <1>4 DEF HandlerStep

LEMMA AnsweredInit == Init => AnsweredInv
  BY DEF Init, AnsweredInv, VerdictsType, ConfirmingWasPublished, RememberedWasAnswered,
         Remembered

LEMMA AnsweredStep ==
    ASSUME IdsDistinct, IInv, AnsweredInv, [Next]_vars
    PROVE  AnsweredInv'
<1>1. CASE (\E e \in Events : Arrive(e)) \/ UNCHANGED vars
  BY <1>1 DEF Arrive, vars, AnsweredInv, VerdictsType, ConfirmingWasPublished,
              RememberedWasAnswered, VerdictsOn
<1>2. CASE Restart
  BY <1>2 DEF Restart, AnsweredInv, VerdictsType, ConfirmingWasPublished,
              RememberedWasAnswered, Remembered, VerdictsOn
<1> QED
  BY <1>1, <1>2, AnsweredConsume, AnsweredHandlers DEF Next

\* RememberedWasAnswered of the same run, for every instance in which an id names
\* one event: an event that later copies of it will be skipped for was answered.
THEOREM Answered ==
    ASSUME BoundsAssumption, IdsDistinct
    PROVE  Spec => []RememberedWasAnswered
<1>1. Init => IInv /\ AnsweredInv
  BY IInvInit, AnsweredInit
<1>2. IInv /\ AnsweredInv /\ [Next]_vars => (IInv /\ AnsweredInv)'
  BY IInvStep, AnsweredStep
<1>3. AnsweredInv => RememberedWasAnswered
  BY DEF AnsweredInv
<1> QED
  BY <1>1, <1>2, <1>3, PTL DEF Spec

-----------------------------------------------------------------------------
(***************************************************************************)
(* EveryEventAnswered.  An event that was published and that the service   *)
(* answers has its verdict, or waits in the queue, or a running handler    *)
(* works on it.  A duplicate that is skipped is known, so by               *)
(* RememberedWasAnswered and InFlightOnce one of the others still holds.   *)
(***************************************************************************)
ToAnswer(e) == arrivals[e] > 0 /\ e.type \in Supported /\ e.tx # NoTx

Queued(e) == \E k \in DOMAIN queue : queue[k] = e

WorkedOn(e) == \E i \in Running : inflight[i].msg = e

NoneLost ==
    errors = 0 => \A e \in Events :
        ToAnswer(e) => VerdictsOn(e.id) # {} \/ Queued(e) \/ WorkedOn(e)

LEMMA DeliveredOrQueued ==
    ASSUME BrokerType, NEW m \in Events, Delivers(m), NEW e, Queued(e)
    PROVE  e = m \/ Queued(e)'
<1>1. queue \in Seq(Events) /\ queue # << >> /\ m = Head(queue) /\ queue' = Tail(queue)
  BY DEF BrokerType, Delivers
<1>2. PICK k \in DOMAIN queue : queue[k] = e
  BY DEF Queued
<1> QED
  BY <1>1, <1>2, HeadOrTail DEF Queued

\* Handlers that keep their messages and their ids.
LEMMA StillWorkedOn ==
    ASSUME HandlersType, NEW e, WorkedOn(e), DOMAIN inflight' = DOMAIN inflight,
           \A j \in DOMAIN inflight : /\ inflight'[j].msg = inflight[j].msg
                                      /\ inflight[j].pc # "acking" => inflight'[j].pc # "acking"
    PROVE  WorkedOn(e)'
  BY DEF WorkedOn, Running

LEMMA NoneLostConsume ==
    ASSUME IdsDistinct, IInv, AnsweredInv, NoneLost, Consume
    PROVE  NoneLost'
<1> USE DEF IInv
<1>1. /\ verdicts' = verdicts /\ arrivals' = arrivals /\ errors' = errors
      /\ \A e : ToAnswer(e)' <=> ToAnswer(e)
      /\ \A id : VerdictsOn(id)' = VerdictsOn(id)
  BY DEF Consume, SkipDuplicate, IgnoreEvent, RefuseEvent, StartHandler, ToAnswer, VerdictsOn
<1>2. \A e : WorkedOn(e) => WorkedOn(e)'
  <2>1. CASE SkipDuplicate \/ IgnoreEvent \/ RefuseEvent
    BY <2>1 DEF SkipDuplicate, IgnoreEvent, RefuseEvent, WorkedOn, Running
  <2>2. CASE StartHandler
    <3>1. PICK h : inflight' = Append(inflight, h)
      BY <2>2 DEF StartHandler
    <3>2. \A j \in DOMAIN inflight : j \in DOMAIN inflight' /\ inflight'[j] = inflight[j]
      BY <3>1, InflightShape DEF HandlersType
    <3> QED
      BY <3>2 DEF WorkedOn, Running
  <2> QED
    BY <2>1, <2>2 DEF Consume
<1>3. PICK m \in Events :
         /\ Delivers(m)
         /\ m.type \in Supported /\ m.tx # NoTx =>
               \/ Known(m.id)
               \/ inflight' = Append(inflight, Handler(m, "fetching", 1, "none"))
  BY DEF Consume, SkipDuplicate, IgnoreEvent, RefuseEvent, StartHandler
<1>4. ASSUME ToAnswer(m)
      PROVE  VerdictsOn(m.id) # {} \/ WorkedOn(m)'
  <2>1. m.type \in Supported /\ m.tx # NoTx
    BY <1>4 DEF ToAnswer
  <2>2. CASE Remembered(processed, m.id)
    BY <2>1, <2>2 DEF AnsweredInv, RememberedWasAnswered
  <2>3. CASE m.id \in processing
    <3>1. PICK i \in Running : inflight[i].msg.id = m.id
      BY <2>3 DEF InFlightOnce
    <3>2. inflight[i].msg = m
      BY <3>1, InflightShape DEF IdsDistinct, Running
    <3> QED
      BY <1>2, <3>1, <3>2 DEF WorkedOn
  <2>4. CASE inflight' = Append(inflight, Handler(m, "fetching", 1, "none"))
    <3> DEFINE n == Len(inflight) + 1
    <3>1. n \in DOMAIN inflight' /\ inflight'[n] = Handler(m, "fetching", 1, "none")
      BY <2>4 DEF HandlersType
    <3>2. inflight'[n].msg = m /\ inflight'[n].pc # "acking"
      BY <3>1 DEF Handler
    <3> QED
      BY <3>1, <3>2 DEF WorkedOn, Running
  <2> QED
    BY <1>3, <2>1, <2>2, <2>3, <2>4 DEF Known
<1> QED
  BY <1>1, <1>2, <1>3, <1>4, DeliveredOrQueued DEF NoneLost

LEMMA NoneLostHandlers ==
    ASSUME IInv, AnsweredInv, NoneLost, NEW i \in DOMAIN inflight, HandlerStep(i)
    PROVE  NoneLost'
<1> USE DEF IInv
<1>0. /\ inflight[i] \in Deliveries /\ inflight[i].msg \in Events
      /\ inflight \in Seq(Deliveries) /\ DOMAIN inflight = 1..Len(inflight)
      /\ Len(inflight) \in Nat
  BY InflightShape DEF HandlersType
<1>1. \A e : (ToAnswer(e)' <=> ToAnswer(e)) /\ (Queued(e)' <=> Queued(e))
  BY DEF HandlerStep, HeadersArrive, AttemptFails, AnswerArrives, BrokerAccepts, Confirmed,
         PublishFails, RejectFails, Ack, brokerVars, ToAnswer, Queued
<1>2. CASE HeadersArrive(i) \/ AttemptFails(i) \/ AnswerArrives(i)
  <2>1. PICK h \in Deliveries : /\ inflight' = [inflight EXCEPT ![i] = h]
                                /\ h.msg = inflight[i].msg /\ h.pc # "acking"
    BY <1>0, <1>2, StaysUnconfirmed
  <2>2. /\ DOMAIN inflight' = DOMAIN inflight
        /\ \A j \in DOMAIN inflight : /\ inflight'[j].msg = inflight[j].msg
                                      /\ inflight[j].pc # "acking" => inflight'[j].pc # "acking"
    BY <1>0, <2>1, EditShape
  <2>3. \A id : VerdictsOn(id)' = VerdictsOn(id)
    BY <1>2 DEF HeadersArrive, AttemptFails, AnswerArrives, VerdictsOn
  <2>4. errors' = errors
    BY <1>2 DEF HeadersArrive, AttemptFails, AnswerArrives
  <2> QED
    BY <1>1, <2>2, <2>3, <2>4, StillWorkedOn DEF NoneLost
<1>3. CASE BrokerAccepts(i)
  <2> DEFINE v == Verdict(inflight[i])
  <2>1. v \in Verdicts /\ verdicts' = Append(verdicts, v)
    BY <1>0, <1>3, InflightShape, AiAssumption DEF Verdict, Verdicts, BrokerAccepts
  <2> HIDE DEF v
  <2>2. \A id : VerdictsOn(id) # {} => VerdictsOn(id)' # {}
    BY <2>1, VerdictsGrow DEF AnsweredInv
  <2>3. /\ DOMAIN inflight' = DOMAIN inflight
        /\ \A j \in DOMAIN inflight : /\ inflight'[j].msg = inflight[j].msg
                                      /\ inflight[j].pc # "acking" => inflight'[j].pc # "acking"
    BY <1>0, <1>3 DEF BrokerAccepts, Deliveries
  <2>4. errors' = errors
    BY <1>3 DEF BrokerAccepts
  <2> QED
    BY <1>1, <2>2, <2>3, <2>4, StillWorkedOn DEF NoneLost
<1>4. CASE Confirmed(i)
  <2>1. /\ \A id : VerdictsOn(id)' = VerdictsOn(id)
        /\ VerdictsOn(inflight[i].msg.id) # {} /\ errors' = errors
    BY <1>4 DEF Confirmed, VerdictsOn, AnsweredInv, ConfirmingWasPublished
  <2>2. /\ DOMAIN inflight' = DOMAIN inflight
        /\ \A j \in DOMAIN inflight : j # i => inflight'[j] = inflight[j]
    BY <1>0, <1>4 DEF Confirmed, Deliveries
  <2>3. \A e : WorkedOn(e) => e = inflight[i].msg \/ WorkedOn(e)'
    BY <2>2 DEF WorkedOn, Running
  <2> QED
    BY <1>1, <2>1, <2>3 DEF NoneLost
<1>5. CASE PublishFails(i) \/ RejectFails(i)
  <2>1. errors' # 0
    BY <1>5 DEF PublishFails, RejectFails, BrokerType
  <2> QED
    BY <2>1 DEF NoneLost
<1>6. CASE Ack(i)
  <2>1. inflight' = RemoveAt(inflight, i) /\ inflight[i].pc = "acking" /\ errors' = errors
        /\ \A id : VerdictsOn(id)' = VerdictsOn(id)
    BY <1>6 DEF Ack, VerdictsOn
  <2>2. \A e : WorkedOn(e) => WorkedOn(e)'
    <3> SUFFICES ASSUME NEW e, NEW k \in Running, inflight[k].msg = e
                 PROVE  WorkedOn(e)'
      BY DEF WorkedOn
    <3>1. k \in DOMAIN inflight \ {i} /\ inflight[k].pc # "acking"
      BY <2>1 DEF Running
    <3>2. PICK j \in DOMAIN RemoveAt(inflight, i) :
             Before(i, j) = k /\ RemoveAt(inflight, i)[j] = inflight[k]
      <4>1. /\ \A j \in DOMAIN RemoveAt(inflight, i) :
                  RemoveAt(inflight, i)[j] = inflight[Before(i, j)]
            /\ \A m \in DOMAIN inflight \ {i} :
                  \E j \in DOMAIN RemoveAt(inflight, i) : Before(i, j) = m
        BY RemoveAtIndex DEF HandlersType
      <4> QED
        BY <3>1, <4>1
    <3> QED
      BY <2>1, <3>1, <3>2 DEF WorkedOn, Running
  <2> QED
    BY <1>1, <2>1, <2>2 DEF NoneLost
<1> QED
  BY <1>2, <1>3, <1>4, <1>5, <1>6 DEF HandlerStep

LEMMA NoneLostRestart ==
    ASSUME IInv, NoneLost, Restart
    PROVE  NoneLost'
<1> USE DEF IInv
<1>1. /\ \A e : ToAnswer(e)' <=> ToAnswer(e)
      /\ \A id : VerdictsOn(id)' = VerdictsOn(id)
      /\ errors' = errors /\ queue' = Requeue(inflight, queue)
  BY DEF Restart, ToAnswer, VerdictsOn
<1>2. /\ inflight \in Seq(Deliveries) /\ queue \in Seq(Events)
      /\ \A h \in Deliveries : h.msg \in Events
  BY DEF HandlersType, BrokerType, Deliveries
<1>3. ASSUME NEW e, WorkedOn(e) \/ Queued(e)
      PROVE  Queued(e)'
  <2>1. CASE WorkedOn(e)
    BY <1>1, <1>2, <2>1, RequeueOrder DEF WorkedOn, Running, Queued
  <2>2. CASE Queued(e)
    BY <1>1, <1>2, <2>2, RequeueOrder DEF Queued
  <2> QED
    BY <1>3, <2>1, <2>2
<1> QED
  BY <1>1, <1>3 DEF NoneLost

LEMMA NoneLostArrive ==
    ASSUME IInv, NoneLost, NEW e \in Events, Arrive(e)
    PROVE  NoneLost'
<1>1. queue \in Seq(Events) /\ queue' = Append(queue, e) /\ arrivals \in [Events -> Nat]
  BY DEF Arrive, IInv, BrokerType
<1>2. Queued(e)' /\ \A f : Queued(f) => Queued(f)'
  BY <1>1 DEF Queued
<1>3. \A f \in Events : f # e /\ ToAnswer(f)' => ToAnswer(f)
  BY <1>1 DEF Arrive, ToAnswer
<1>4. /\ \A f : WorkedOn(f)' <=> WorkedOn(f)
      /\ \A id : VerdictsOn(id)' = VerdictsOn(id)
      /\ errors' = errors
  BY DEF Arrive, WorkedOn, Running, VerdictsOn
<1> QED
  BY <1>2, <1>3, <1>4 DEF NoneLost

\* EveryEventAnswered of the same run, for every instance in which an id names one
\* event: however often the model fails, answers nonsense or the process dies, no
\* event is dropped without a verdict as long as no publish of one fails.
THEOREM NoEventUnanswered ==
    ASSUME BoundsAssumption, IdsDistinct
    PROVE  Spec => []EveryEventAnswered
<1>1. Init => IInv /\ AnsweredInv /\ NoneLost
  <2>1. Init => NoneLost
    BY DEF Init, NoneLost, ToAnswer
  <2> QED
    BY <2>1, IInvInit, AnsweredInit
<1>2. (IInv /\ AnsweredInv /\ NoneLost) /\ [Next]_vars => (IInv /\ AnsweredInv /\ NoneLost)'
  <2> SUFFICES ASSUME IInv, AnsweredInv, NoneLost, [Next]_vars
               PROVE  NoneLost'
    BY IInvStep, AnsweredStep
  <2>1. CASE UNCHANGED vars
    BY <2>1 DEF vars, brokerVars, NoneLost, ToAnswer, VerdictsOn, Queued, WorkedOn, Running
  <2> QED
    BY <2>1, NoneLostArrive, NoneLostConsume, NoneLostHandlers, NoneLostRestart DEF Next
<1>3. IInv /\ NoneLost => EveryEventAnswered
  BY DEF EveryEventAnswered, AtRest, NoneLost, ToAnswer, Queued, WorkedOn, Running
<1> QED
  BY <1>1, <1>2, <1>3, PTL DEF Spec

-----------------------------------------------------------------------------
(***************************************************************************)
(* VerdictsBounded.  A publish of a verdict is paid for by a failed        *)
(* publish, by a restart, or by the one delivery that is being confirmed   *)
(* or was remembered.  The last holds only while the window keeps the id,  *)
(* so the window is assumed to have room for every id.                     *)
(***************************************************************************)
WindowHoldsAll == IsFiniteSet(Ids) /\ Cardinality(Ids) <= MaxTracked

Confirming(id) ==
    \E i \in DOMAIN inflight : /\ inflight[i].msg.id = id
                               /\ inflight[i].pc \in {"confirming", "confirmingReject"}

PaidFor ==
    \A id \in Ids :
        /\ Cardinality(VerdictsOn(id)) <= errors + restarts + 1
        /\ ~Remembered(processed, id) /\ ~Confirming(id)
              => Cardinality(VerdictsOn(id)) <= errors + restarts

WorkedOnNotRemembered == \A id \in processing : ~Remembered(processed, id)

BoundedInv == VerdictsType /\ PaidFor /\ WorkedOnNotRemembered

LEMMA VerdictsFinite ==
    ASSUME VerdictsType, NEW id
    PROVE  IsFiniteSet(VerdictsOn(id)) /\ Cardinality(VerdictsOn(id)) \in Nat
<1>1. Len(verdicts) \in Nat /\ DOMAIN verdicts = 1..Len(verdicts)
  BY DEF VerdictsType
<1>2. IsFiniteSet(1..Len(verdicts))
  BY <1>1, FS_Interval
<1>3. VerdictsOn(id) \in SUBSET (1..Len(verdicts))
  BY <1>1 DEF VerdictsOn
<1> QED
  BY <1>2, <1>3, FS_Subset, FS_CardinalityType

\* A verdict counts for its own event only.
LEMMA VerdictsCount ==
    ASSUME VerdictsType, NEW v \in Verdicts, verdicts' = Append(verdicts, v), NEW id
    PROVE  /\ Cardinality(VerdictsOn(id))' \in Nat
           /\ Cardinality(VerdictsOn(id))' <= Cardinality(VerdictsOn(id))
                                                 + (IF v.sourceId = id THEN 1 ELSE 0)
<1> DEFINE n == Len(verdicts) + 1
<1>1. /\ n \in DOMAIN verdicts' /\ verdicts'[n] = v /\ n \notin DOMAIN verdicts
      /\ DOMAIN verdicts' = DOMAIN verdicts \cup {n}
      /\ \A k \in DOMAIN verdicts : verdicts'[k] = verdicts[k]
  BY DEF VerdictsType
<1> HIDE DEF n
<1>2. CASE v.sourceId = id
  <2>1. VerdictsOn(id)' = VerdictsOn(id) \cup {n} /\ n \notin VerdictsOn(id)
    BY <1>1, <1>2 DEF VerdictsOn
  <2>2. Cardinality(VerdictsOn(id) \cup {n}) = Cardinality(VerdictsOn(id)) + 1
    BY <2>1, VerdictsFinite, FS_AddElement
  <2> QED
    BY <1>2, <2>1, <2>2, VerdictsFinite
<1>3. CASE v.sourceId # id
  <2>1. VerdictsOn(id)' = VerdictsOn(id)
    BY <1>1, <1>3 DEF VerdictsOn
  <2> QED
    BY <1>3, <2>1, VerdictsFinite
<1> QED
  BY <1>2, <1>3

\* A step that publishes nothing and neither forgets an id nor drops a confirm.
LEMMA StillPaidFor ==
    ASSUME PaidFor, UNCHANGED <<verdicts, errors, restarts>>,
           \A id \in Ids : Remembered(processed, id) => Remembered(processed, id)',
           \A id \in Ids : Confirming(id) => Confirming(id)' \/ Remembered(processed, id)'
    PROVE  PaidFor'
  BY DEF PaidFor, VerdictsOn

LEMMA BoundedConsume ==
    ASSUME WindowHoldsAll, IInv, BoundedInv, Consume
    PROVE  BoundedInv'
<1> USE DEF IInv, BoundedInv
<1>0. UNCHANGED <<verdicts, errors, restarts>> /\ VerdictsType'
  BY DEF Consume, SkipDuplicate, IgnoreEvent, RefuseEvent, StartHandler, VerdictsType
<1>1. CASE SkipDuplicate \/ RefuseEvent
  BY <1>0, <1>1, StillPaidFor DEF SkipDuplicate, RefuseEvent, Confirming, WorkedOnNotRemembered
<1>2. CASE IgnoreEvent
  <2>1. PICK m \in Events : ~Known(m.id) /\ processed' = Remember(processed, m.id, MaxTracked)
    BY <1>2 DEF IgnoreEvent
  <2>2. \A id : Remembered(processed', id) <=> id = m.id \/ Remembered(processed, id)
    BY <2>1, WindowHasRoom, AiAssumption DEF WindowHoldsAll, BrokerType, Ids, Known
  <2>3. WorkedOnNotRemembered'
    BY <1>2, <2>1, <2>2 DEF IgnoreEvent, WorkedOnNotRemembered, Known
  <2>4. \A id : Confirming(id) => Confirming(id)'
    BY <1>2 DEF IgnoreEvent, Confirming
  <2> QED
    BY <1>0, <2>2, <2>3, <2>4, StillPaidFor
<1>3. CASE StartHandler
  <2>1. PICK m \in Events :
               /\ ~Known(m.id) /\ processing' = processing \cup {m.id}
               /\ inflight' = Append(inflight, Handler(m, "fetching", 1, "none"))
    BY <1>3 DEF StartHandler
  <2>2. \A j \in DOMAIN inflight : j \in DOMAIN inflight' /\ inflight'[j] = inflight[j]
    BY <2>1, InflightShape DEF HandlersType
  <2>3. \A id : Confirming(id) => Confirming(id)'
    BY <2>2 DEF Confirming
  <2>4. processed' = processed
    BY <1>3 DEF StartHandler
  <2>5. WorkedOnNotRemembered'
    BY <2>1, <2>4 DEF WorkedOnNotRemembered, Known
  <2> QED
    BY <1>0, <2>3, <2>4, <2>5, StillPaidFor
<1> QED
  BY <1>1, <1>2, <1>3 DEF Consume

\* A handler that is not at a confirm may change its step: confirms elsewhere stay.
LEMMA ConfirmsStay ==
    ASSUME NEW i \in DOMAIN inflight, DOMAIN inflight' = DOMAIN inflight,
           \A j \in DOMAIN inflight : j # i => inflight'[j] = inflight[j],
           NEW id, Confirming(id),
           \/ inflight[i].pc \notin {"confirming", "confirmingReject"}
           \/ inflight[i].msg.id # id
    PROVE  Confirming(id)'
  BY DEF Confirming

LEMMA BoundedAccepts ==
    ASSUME IInv, BoundedInv, NEW i \in DOMAIN inflight, BrokerAccepts(i)
    PROVE  BoundedInv'
<1> USE DEF IInv, BoundedInv
<1> DEFINE v == Verdict(inflight[i])
<1>0. /\ inflight \in Seq(Deliveries) /\ DOMAIN inflight = 1..Len(inflight)
      /\ inflight[i] \in Deliveries /\ inflight[i].msg \in Events /\ inflight[i].msg.id \in Ids
  BY InflightShape DEF HandlersType
<1>1. v \in Verdicts /\ v.sourceId = inflight[i].msg.id
  BY <1>0, AiAssumption DEF Verdict, Verdicts
<1>2. /\ verdicts' = Append(verdicts, v) /\ UNCHANGED <<processed, processing, errors, restarts>>
      /\ inflight[i].pc \in {"publishing", "rejecting"}
  BY DEF BrokerAccepts
<1> HIDE DEF v
<1>3. /\ DOMAIN inflight' = DOMAIN inflight
      /\ \A j \in DOMAIN inflight : j # i => inflight'[j] = inflight[j]
      /\ inflight'[i].msg = inflight[i].msg
      /\ inflight'[i].pc \in {"confirming", "confirmingReject"}
  BY <1>0 DEF BrokerAccepts, Deliveries
<1>4. i \in Running /\ ~Remembered(processed, inflight[i].msg.id)
  BY <1>2 DEF Running, InFlightOnce, WorkedOnNotRemembered
<1>5. ~Confirming(inflight[i].msg.id)
  BY <1>2, <1>4 DEF Confirming, Running, InFlightOnce
<1>6. ASSUME NEW id \in Ids
      PROVE  /\ Cardinality(VerdictsOn(id))' <= errors' + restarts' + 1
             /\ ~Remembered(processed', id) /\ ~Confirming(id)'
                   => Cardinality(VerdictsOn(id))' <= errors' + restarts'
  <2>0. Cardinality(VerdictsOn(id)) \in Nat /\ errors \in Nat /\ restarts \in Nat
        /\ Cardinality(VerdictsOn(id))' \in Nat
    BY <1>1, <1>2, VerdictsFinite, VerdictsCount DEF BrokerType
  <2>1. CASE id = inflight[i].msg.id
    <3>1. Cardinality(VerdictsOn(id)) <= errors + restarts
      BY <1>4, <1>5, <2>1 DEF PaidFor
    <3>2. Cardinality(VerdictsOn(id))' <= Cardinality(VerdictsOn(id)) + 1
      BY <1>1, <1>2, <2>1, VerdictsCount
    <3>3. Confirming(id)'
      BY <1>3, <2>1 DEF Confirming
    <3> QED
      BY <1>2, <2>0, <3>1, <3>2, <3>3
  <2>2. CASE id # inflight[i].msg.id
    <3>1. Cardinality(VerdictsOn(id))' <= Cardinality(VerdictsOn(id)) + 0
      BY <1>1, <1>2, <2>2, VerdictsCount
    <3>2. Confirming(id) => Confirming(id)'
      BY <1>3, <2>2, ConfirmsStay
    <3> QED
      BY <1>2, <2>0, <3>1, <3>2 DEF PaidFor
  <2> QED
    BY <2>1, <2>2
<1>7. WorkedOnNotRemembered'
  BY <1>2 DEF WorkedOnNotRemembered
<1>8. VerdictsType'
  BY <1>1, <1>2 DEF VerdictsType
<1> QED
  BY <1>6, <1>7, <1>8 DEF PaidFor

LEMMA BoundedHandlers ==
    ASSUME WindowHoldsAll, IInv, BoundedInv, NEW i \in DOMAIN inflight, HandlerStep(i)
    PROVE  BoundedInv'
<1> USE DEF IInv, BoundedInv
<1>0. /\ inflight \in Seq(Deliveries) /\ inflight[i] \in Deliveries
      /\ inflight[i].msg.id \in Ids /\ errors \in Nat /\ restarts \in Nat
      /\ \A id : VerdictsOn(id)' = VerdictsOn(id) \/ BrokerAccepts(i)
  BY InflightShape DEF HandlersType, BrokerType, HandlerStep, HeadersArrive, AttemptFails,
     AnswerArrives, Confirmed, PublishFails, RejectFails, Ack, VerdictsOn
<1>1. CASE HeadersArrive(i) \/ AttemptFails(i) \/ AnswerArrives(i)
  <2>1. PICK h \in Deliveries : /\ inflight' = [inflight EXCEPT ![i] = h]
                                /\ h.pc \notin {"confirming", "confirmingReject", "acking"}
    BY <1>0, <1>1, StaysUnconfirmed
  <2>2. /\ DOMAIN inflight' = DOMAIN inflight
        /\ \A j \in DOMAIN inflight : j # i => inflight'[j] = inflight[j]
    BY <1>0, <2>1, EditShape
  <2>3. inflight[i].pc \notin {"confirming", "confirmingReject"}
    BY <1>1 DEF HeadersArrive, AttemptFails, AnswerArrives
  <2>4. \A id : Confirming(id) => Confirming(id)'
    BY <2>2, <2>3, ConfirmsStay
  <2>5. UNCHANGED <<verdicts, errors, restarts, processed, processing>>
    BY <1>1 DEF HeadersArrive, AttemptFails, AnswerArrives
  <2> QED
    BY <2>4, <2>5, StillPaidFor DEF VerdictsType, WorkedOnNotRemembered
<1>2. CASE BrokerAccepts(i)
  BY <1>2, BoundedAccepts
<1>3. CASE Confirmed(i)
  <2>1. /\ UNCHANGED <<verdicts, errors, restarts>> /\ MarkEventProcessed(inflight[i].msg.id)
        /\ processing' = processing \ {inflight[i].msg.id}
    BY <1>3 DEF Confirmed
  <2>2. \A id : Remembered(processed', id)
                   <=> id = inflight[i].msg.id \/ Remembered(processed, id)
    <3>1. CASE Remembered(processed, inflight[i].msg.id)
      BY <2>1, <3>1 DEF MarkEventProcessed
    <3>2. CASE ~Remembered(processed, inflight[i].msg.id)
      BY <1>0, <2>1, <3>2, WindowHasRoom, AiAssumption
         DEF MarkEventProcessed, WindowHoldsAll, BrokerType
    <3> QED
      BY <3>1, <3>2
  <2>3. /\ DOMAIN inflight' = DOMAIN inflight
        /\ \A j \in DOMAIN inflight : j # i => inflight'[j] = inflight[j]
    BY <1>0, <1>3 DEF Confirmed, Deliveries
  <2>4. \A id : Confirming(id) => Confirming(id)' \/ id = inflight[i].msg.id
    BY <2>3, ConfirmsStay
  <2>5. WorkedOnNotRemembered'
    BY <2>1, <2>2 DEF WorkedOnNotRemembered
  <2> QED
    BY <2>1, <2>2, <2>4, <2>5, StillPaidFor DEF VerdictsType
<1>4. CASE PublishFails(i) \/ RejectFails(i)
  <2>1. /\ errors' = errors + 1 /\ UNCHANGED <<verdicts, restarts, processed>>
        /\ processing' \subseteq processing
    BY <1>4 DEF PublishFails, RejectFails
  <2>2. \A id : VerdictsOn(id)' = VerdictsOn(id)
    BY <2>1 DEF VerdictsOn
  <2>3. PaidFor'
    <3>1. \A id \in Ids : /\ Cardinality(VerdictsOn(id)) <= errors + restarts + 1
                          /\ Cardinality(VerdictsOn(id)) \in Nat
      BY VerdictsFinite DEF PaidFor
    <3>2. \A id \in Ids : /\ Cardinality(VerdictsOn(id)) <= errors' + restarts'
                          /\ Cardinality(VerdictsOn(id)) <= errors' + restarts' + 1
      BY <1>0, <2>1, <3>1
    <3> QED
      BY <2>2, <3>2 DEF PaidFor
  <2> QED
    BY <2>1, <2>3 DEF VerdictsType, WorkedOnNotRemembered
<1>5. CASE Ack(i)
  <2>1. /\ inflight' = RemoveAt(inflight, i) /\ inflight[i].pc = "acking"
        /\ UNCHANGED <<verdicts, errors, restarts, processed, processing>>
    BY <1>5 DEF Ack
  <2>2. /\ \A j \in DOMAIN RemoveAt(inflight, i) :
              RemoveAt(inflight, i)[j] = inflight[Before(i, j)]
        /\ \A k \in DOMAIN inflight \ {i} :
              \E j \in DOMAIN RemoveAt(inflight, i) : Before(i, j) = k
    BY RemoveAtIndex DEF HandlersType
  <2>3. ASSUME NEW id, Confirming(id)
        PROVE  Confirming(id)'
    <3>1. PICK k \in DOMAIN inflight \ {i} :
             inflight[k].msg.id = id /\ inflight[k].pc \in {"confirming", "confirmingReject"}
      BY <2>1, <2>3 DEF Confirming
    <3>2. PICK j \in DOMAIN inflight' : inflight'[j] = inflight[k]
      BY <2>1, <2>2
    <3> QED
      BY <3>1, <3>2 DEF Confirming
  <2> QED
    BY <2>1, <2>3, StillPaidFor DEF VerdictsType, WorkedOnNotRemembered
<1> QED
  BY <1>1, <1>2, <1>3, <1>4, <1>5 DEF HandlerStep

LEMMA BoundedRestart ==
    ASSUME IInv, BoundedInv, Restart
    PROVE  BoundedInv'
<1> USE DEF IInv, BoundedInv
<1>1. /\ restarts' = restarts + 1 /\ UNCHANGED <<verdicts, errors>>
      /\ processing' = {} /\ errors \in Nat /\ restarts \in Nat
  BY DEF Restart, BrokerType
<1>2. \A id : VerdictsOn(id)' = VerdictsOn(id)
  BY <1>1 DEF VerdictsOn
<1>3. \A id \in Ids : /\ Cardinality(VerdictsOn(id)) <= errors + restarts + 1
                      /\ Cardinality(VerdictsOn(id)) \in Nat
  BY VerdictsFinite DEF PaidFor
<1>4. \A id \in Ids : /\ Cardinality(VerdictsOn(id)) <= errors' + restarts'
                      /\ Cardinality(VerdictsOn(id)) <= errors' + restarts' + 1
  BY <1>1, <1>3
<1> QED
  BY <1>1, <1>2, <1>4 DEF PaidFor, VerdictsType, WorkedOnNotRemembered

\* VerdictsBounded of the same run, for every instance whose window has room for
\* every event id: duplicates alone never cost a second call of the model.
THEOREM NoVerdictUnpaid ==
    ASSUME BoundsAssumption, WindowHoldsAll
    PROVE  Spec => []VerdictsBounded
<1>1. Init => IInv /\ BoundedInv
  <2> SUFFICES ASSUME Init PROVE BoundedInv
    BY IInvInit
  <2>1. \A id : VerdictsOn(id) = {}
    BY DEF Init, VerdictsOn
  <2>2. PaidFor
    BY <2>1, FS_EmptySet DEF Init, PaidFor
  <2> QED
    BY <2>2 DEF Init, BoundedInv, VerdictsType, WorkedOnNotRemembered
<1>2. (IInv /\ BoundedInv) /\ [Next]_vars => (IInv /\ BoundedInv)'
  <2> SUFFICES ASSUME IInv, BoundedInv, [Next]_vars
               PROVE  BoundedInv'
    BY IInvStep
  <2>1. CASE (\E e \in Events : Arrive(e)) \/ UNCHANGED vars
    BY <2>1 DEF Arrive, vars, BoundedInv, VerdictsType, PaidFor, Confirming,
                WorkedOnNotRemembered, VerdictsOn
  <2> QED
    BY <2>1, BoundedConsume, BoundedHandlers, BoundedRestart DEF Next
<1>3. BoundedInv /\ IInv => VerdictsBounded
  <2> SUFFICES ASSUME BoundedInv, IInv, NEW e \in Events
               PROVE  Cardinality(VerdictsOn(e.id)) <= 1 + errors + restarts
    BY DEF VerdictsBounded
  <2>1. Cardinality(VerdictsOn(e.id)) <= errors + restarts + 1
    BY DEF BoundedInv, PaidFor, Ids
  <2>2. Cardinality(VerdictsOn(e.id)) \in Nat /\ errors \in Nat /\ restarts \in Nat
    BY VerdictsFinite DEF BoundedInv, IInv, BrokerType
  <2> QED
    BY <2>1, <2>2
<1> QED
  BY <1>1, <1>2, <1>3, PTL DEF Spec

=============================================================================
