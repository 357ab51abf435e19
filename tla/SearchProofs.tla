---------------------------- MODULE SearchProofs ----------------------------
(***************************************************************************)
(* Proofs about SearchConsumer: type correctness for every instance, and,  *)
(* with the prefetch limit of one the deployment sets, what the index      *)
(* holds and what is reported about it, for every number of transactions,  *)
(* events, copies, failures and restarts.                                  *)
(***************************************************************************)
EXTENDS SearchConsumer, DeliveryProofs

Ids == {e.id : e \in Events}

BoundsAssumption ==
    MaxCopies \in Nat /\ MaxErrors \in Nat /\ MaxRestarts \in Nat

\* A handler knows its transaction, and only an upsert gets to read and write.
Fits(h) ==
    /\ h.msg.tx \in Tx /\ h.msg.type \in Handled
    /\ h.pc \in {"reading", "writing", "publishing"} => h.msg.type \in BaseTypes \cup AiTypes

HandlersFit == \A i \in DOMAIN inflight : Fits(inflight[i])

IInv == TypeOK /\ HandlersFit

-----------------------------------------------------------------------------
(***************************************************************************)
(* Type correctness.                                                       *)
(***************************************************************************)
LEMMA MergedShape ==
    ASSUME NEW m \in Events, NEW known \in Documents, NEW current \in Documents
    PROVE  /\ m.type \in BaseTypes =>
                Merged(m, known, current) =
                    [base |-> TRUE,
                     searchStatus |-> IF known.moderationStatus = "REJECT" THEN "FAILED"
                                                                           ELSE "READY",
                     aiStatus |-> current.aiStatus,
                     moderationStatus |-> current.moderationStatus,
                     lastBase |-> m.at, lastAi |-> current.lastAi]
           /\ m.type = "ai.enriched" =>
                Merged(m, known, current) =
                    [base |-> current.base,
                     searchStatus |-> IF known.base THEN "READY" ELSE "PENDING_BASE",
                     aiStatus |-> "COMPLETED", moderationStatus |-> "ALLOW",
                     lastBase |-> current.lastBase, lastAi |-> m.at]
           /\ m.type \notin BaseTypes /\ m.type # "ai.enriched" =>
                Merged(m, known, current) =
                    [base |-> current.base,
                     searchStatus |-> IF known.base THEN "FAILED" ELSE "PENDING_BASE",
                     aiStatus |-> "FAILED", moderationStatus |-> "REJECT",
                     lastBase |-> current.lastBase, lastAi |-> m.at]
<1>1. CASE m.type \in BaseTypes
  BY <1>1 DEF Merged, Documents, BaseTypes
<1>2. CASE m.type = "ai.enriched"
  BY <1>2 DEF Merged, Documents, BaseTypes
<1>3. CASE m.type \notin BaseTypes /\ m.type # "ai.enriched"
  BY <1>3 DEF Merged, Documents, BaseTypes
<1> QED
  BY <1>1, <1>2, <1>3 DEF BaseTypes

LEMMA MergedType ==
    ASSUME NEW m \in Events, NEW known \in Documents, NEW current \in Documents
    PROVE  Merged(m, known, current) \in Documents
<1>1. /\ m.at \in Nat /\ current.lastBase \in Nat /\ current.lastAi \in Nat
      /\ current.base \in BOOLEAN
      /\ current.aiStatus \in {"NONE", "COMPLETED", "FAILED"}
      /\ current.moderationStatus \in {"NONE", "ALLOW", "REJECT"}
  BY SearchAssumption DEF Documents
<1>2. CASE m.type \in BaseTypes
  <2>1. Merged(m, known, current) =
            [base |-> TRUE,
             searchStatus |-> IF known.moderationStatus = "REJECT" THEN "FAILED" ELSE "READY",
             aiStatus |-> current.aiStatus, moderationStatus |-> current.moderationStatus,
             lastBase |-> m.at, lastAi |-> current.lastAi]
    BY <1>2, MergedShape
  <2> QED
    BY <1>1, <2>1 DEF Documents
<1>3. CASE m.type = "ai.enriched"
  BY <1>1, <1>3, MergedShape DEF Documents
<1>4. CASE m.type \notin BaseTypes /\ m.type # "ai.enriched"
  BY <1>1, <1>4, MergedShape DEF Documents
<1> QED
  BY <1>2, <1>3, <1>4

LEMMA NoDocumentType == NoDocument \in Documents
  BY DEF NoDocument, Documents

LEMMA InflightShape ==
    ASSUME IInv
    PROVE  /\ inflight \in Seq(Handlers) /\ Len(inflight) <= Prefetch
           /\ DOMAIN inflight = 1..Len(inflight) /\ Len(inflight) \in Nat
           /\ \A i \in DOMAIN inflight :
                 /\ inflight[i] \in Handlers /\ Fits(inflight[i])
                 /\ inflight[i].msg \in Events /\ inflight[i].known \in Documents
<1>1. inflight \in Seq(Handlers) /\ Len(inflight) <= Prefetch
  BY DEF IInv, TypeOK
<1>2. \A i \in DOMAIN inflight : inflight[i] \in Handlers
  BY <1>1
<1> QED
  BY <1>1, <1>2 DEF Handlers, IInv, HandlersFit

\* What becomes of the other handlers when one goes on, and when one leaves.
LEMMA GoesOn ==
    ASSUME IInv, NEW i \in DOMAIN inflight, NEW h \in Handlers, Fits(h),
           inflight' = [inflight EXCEPT ![i] = h]
    PROVE  inflight' \in Seq(Handlers) /\ Len(inflight') <= Prefetch /\ HandlersFit'
<1>1. /\ inflight' \in Seq(Handlers) /\ Len(inflight') = Len(inflight)
      /\ DOMAIN inflight' = DOMAIN inflight /\ inflight'[i] = h
      /\ \A j \in DOMAIN inflight : j # i => inflight'[j] = inflight[j]
  BY EditShape, InflightShape
<1>2. \A j \in DOMAIN inflight' : Fits(inflight'[j])
  BY <1>1, InflightShape
<1> QED
  BY <1>1, <1>2, InflightShape DEF HandlersFit, Fits

LEMMA Leaves ==
    ASSUME IInv, NEW i \in DOMAIN inflight, Leave(i)
    PROVE  inflight' \in Seq(Handlers) /\ Len(inflight') <= Prefetch /\ HandlersFit'
<1>0. inflight \in Seq(Handlers)
  BY InflightShape
<1>1. /\ inflight' \in Seq(Handlers) /\ Len(inflight') = Len(inflight) - 1
      /\ \A j \in DOMAIN inflight' :
            Before(i, j) \in DOMAIN inflight \ {i} /\ inflight'[j] = inflight[Before(i, j)]
  <2>1. /\ RemoveAt(inflight, i) \in Seq(Handlers)
        /\ Len(RemoveAt(inflight, i)) = Len(inflight) - 1
        /\ \A j \in DOMAIN RemoveAt(inflight, i) :
              /\ Before(i, j) \in DOMAIN inflight \ {i}
              /\ RemoveAt(inflight, i)[j] = inflight[Before(i, j)]
    BY <1>0, RemoveAtIndex
  <2> QED
    BY <2>1 DEF Leave
<1>2. \A j \in DOMAIN inflight' : Fits(inflight'[j])
  BY <1>1, InflightShape
<1> QED
  BY <1>1, <1>2, InflightShape, SearchAssumption DEF HandlersFit, Fits

\* The handler with its next step, for the steps that keep the rest of it.
LEMMA GotoShape ==
    ASSUME IInv, NEW i \in DOMAIN inflight, NEW step, Goto(i, step)
    PROVE  inflight' = [inflight EXCEPT ![i] =
                [msg |-> inflight[i].msg, known |-> inflight[i].known, pc |-> step]]
<1>1. [inflight[i] EXCEPT !.pc = step]
        = [msg |-> inflight[i].msg, known |-> inflight[i].known, pc |-> step]
  BY InflightShape DEF Handlers
<1>2. inflight' = [inflight EXCEPT ![i] = [inflight[i] EXCEPT !.pc = step]]
  BY DEF Goto
<1> QED
  BY <1>1, <1>2

LEMMA Goes ==
    ASSUME IInv, NEW i \in DOMAIN inflight,
           NEW step \in {"publishing", "acking"}, Goto(i, step),
           inflight[i].pc = "writing" \/ step = "acking"
    PROVE  inflight' \in Seq(Handlers) /\ Len(inflight') <= Prefetch /\ HandlersFit'
<1> DEFINE h == [msg |-> inflight[i].msg, known |-> inflight[i].known, pc |-> step]
<1>1. h \in Handlers
  BY InflightShape DEF Handlers
<1>2. Fits(h)
  BY InflightShape DEF Fits
<1> QED
  BY <1>1, <1>2, GotoShape, GoesOn

LEMMA UpsertType ==
    ASSUME IInv, NEW i \in DOMAIN inflight, Upsert(inflight[i])
    PROVE  doc' \in [Tx -> Documents]
<1>1. /\ inflight[i].msg \in Events /\ inflight[i].known \in Documents
      /\ inflight[i].msg.tx \in Tx
  BY InflightShape DEF Fits
<1>2. doc \in [Tx -> Documents] /\ doc[inflight[i].msg.tx] \in Documents
  BY <1>1 DEF IInv, TypeOK
<1>3. Merged(inflight[i].msg, inflight[i].known, doc[inflight[i].msg.tx]) \in Documents
  BY <1>1, <1>2, MergedType
<1> QED
  BY <1>2, <1>3 DEF Upsert

LEMMA DeleteType ==
    ASSUME IInv, NEW i \in DOMAIN inflight, Delete(inflight[i])
    PROVE  doc' \in [Tx -> Documents]
  BY NoDocumentType DEF IInv, TypeOK, Delete

LEMMA DeliversShape ==
    ASSUME IInv, NEW m \in Events, Delivers(m)
    PROVE  queue' \in Seq(Events) /\ Len(inflight) < Prefetch
  BY DEF IInv, TypeOK, Delivers

LEMMA AcceptShape ==
    ASSUME IInv, NEW m \in Events, Accept(m)
    PROVE  /\ queue' \in Seq(Events) /\ Len(inflight) < Prefetch
           /\ processed' \in Window(Ids, MaxTracked)
<1>1. m.id \in Ids
  BY DEF Ids
<1>2. processed \in Window(Ids, MaxTracked)
  BY DEF IInv, TypeOK, Ids
<1>3. processed' \in Window(Ids, MaxTracked)
  BY <1>1, <1>2, RememberShape, SearchAssumption DEF Accept
<1> QED
  BY <1>3, DeliversShape DEF Accept

LEMMA IInvInit == ASSUME BoundsAssumption PROVE Init => IInv
<1> SUFFICES ASSUME Init PROVE IInv
  OBVIOUS
<1>1. processed \in Window(Ids, MaxTracked)
  BY EmptyWindow, SearchAssumption DEF Init
<1>2. doc \in [Tx -> Documents]
  BY NoDocumentType DEF Init
<1>3. Len(inflight) <= Prefetch
  BY SearchAssumption DEF Init
<1>4. arrivals \in [Events -> 0..MaxCopies] /\ errors \in 0..MaxErrors /\ restarts \in 0..MaxRestarts
  BY DEF Init, BoundsAssumption
<1>5. TypeOK
  BY <1>1, <1>2, <1>3, <1>4 DEF Init, TypeOK, Ids
<1>6. HandlersFit
  BY DEF Init, HandlersFit
<1> QED
  BY <1>5, <1>6 DEF IInv

LEMMA ConsumeStep ==
    ASSUME BoundsAssumption, IInv, Consume
    PROVE  IInv'
<1>1. CASE SkipDuplicate
  <2>1. queue' \in Seq(Events)
    BY <1>1, DeliversShape DEF SkipDuplicate
  <2> QED
    BY <1>1, <2>1 DEF SkipDuplicate, IInv, TypeOK, HandlersFit, Fits
<1>2. CASE IgnoreEvent
  <2>1. queue' \in Seq(Events) /\ processed' \in Window(Ids, MaxTracked)
    BY <1>2, AcceptShape DEF IgnoreEvent
  <2> QED
    BY <1>2, <2>1 DEF IgnoreEvent, IInv, TypeOK, HandlersFit, Fits, Ids
<1>3. CASE StartHandler
  <2>1. PICK m \in Events :
           /\ Accept(m) /\ m.type \in Handled /\ m.tx # NoTx
           /\ inflight' = Append(inflight,
                 [msg |-> m, known |-> NoDocument,
                  pc |-> IF m.type = "transaction.deleted" THEN "deleting" ELSE "reading"])
    BY <1>3 DEF StartHandler
  <2> DEFINE h == [msg |-> m, known |-> NoDocument,
                   pc |-> IF m.type = "transaction.deleted" THEN "deleting" ELSE "reading"]
  <2>2. /\ queue' \in Seq(Events) /\ Len(inflight) < Prefetch
        /\ processed' \in Window(Ids, MaxTracked)
    BY <2>1, AcceptShape
  <2>0. inflight \in Seq(Handlers)
    BY InflightShape
  <2>3. h \in Handlers
    BY NoDocumentType DEF Handlers
  <2>4. Fits(h)
    BY <2>1, SearchAssumption DEF Fits, Handled
  <2> HIDE DEF h
  <2>5. /\ inflight' \in Seq(Handlers) /\ Len(inflight') <= Prefetch
        /\ \A j \in DOMAIN inflight' :
              inflight'[j] = h \/ (j \in DOMAIN inflight /\ inflight'[j] = inflight[j])
    <3>1. inflight' = Append(inflight, h)
      BY <2>1 DEF h
    <3> QED
      <4>1. inflight' \in Seq(Handlers) /\ Len(inflight') = Len(inflight) + 1
        BY <2>0, <2>3, <3>1
      <4>2. Len(inflight') <= Prefetch
        BY <2>0, <2>2, <4>1, SearchAssumption
      <4>3. inflight'[Len(inflight) + 1] = h /\ \A j \in DOMAIN inflight : inflight'[j] = inflight[j]
        BY <2>0, <2>3, <3>1
      <4>4. DOMAIN inflight' = DOMAIN inflight \cup {Len(inflight) + 1}
        BY <2>0, <4>1
      <4>5. \A j \in DOMAIN inflight' :
               inflight'[j] = h \/ (j \in DOMAIN inflight /\ inflight'[j] = inflight[j])
        BY <4>3, <4>4
      <4> QED
        BY <4>1, <4>2, <4>5
  <2>6. \A j \in DOMAIN inflight' : Fits(inflight'[j])
    BY <2>4, <2>5, InflightShape
  <2> QED
    BY <1>3, <2>2, <2>5, <2>6 DEF StartHandler, IInv, TypeOK, HandlersFit, Fits, Ids
<1> QED
  BY <1>1, <1>2, <1>3 DEF Consume

LEMMA HandlersStep ==
    ASSUME BoundsAssumption, IInv, NEW i \in DOMAIN inflight, HandlerStep(i)
    PROVE  IInv'
<1>1. CASE ReadDocument(i)
  <2> DEFINE h == [msg |-> inflight[i].msg, known |-> doc[inflight[i].msg.tx], pc |-> "writing"]
  <2>1. h \in Handlers
    BY InflightShape DEF Handlers, Fits, IInv, TypeOK
  <2>2. Fits(h)
    BY <1>1, InflightShape DEF Fits, ReadDocument
  <2>3. inflight' = [inflight EXCEPT ![i] = h]
    BY <1>1 DEF ReadDocument
  <2>4. inflight' \in Seq(Handlers) /\ Len(inflight') <= Prefetch /\ HandlersFit'
    BY <2>1, <2>2, <2>3, GoesOn
  <2> QED
    BY <1>1, <2>4 DEF ReadDocument, brokerVars, IInv, TypeOK
<1>2. CASE SkipStale(i)
  BY <1>2, Leaves DEF SkipStale, brokerVars, IInv, TypeOK
<1>3. CASE UpsertDocument(i)
  <2>1. doc' \in [Tx -> Documents]
    BY <1>3, UpsertType DEF UpsertDocument
  <2>2. inflight' \in Seq(Handlers) /\ Len(inflight') <= Prefetch /\ HandlersFit'
    BY <1>3, Goes DEF UpsertDocument
  <2> QED
    BY <1>3, <2>1, <2>2 DEF UpsertDocument, brokerVars, IInv, TypeOK
<1>4. CASE PublishOutcome(i)
  BY <1>4, Goes DEF PublishOutcome, brokerVars, IInv, TypeOK
<1>5. CASE DeleteDocument(i)
  <2>1. doc' \in [Tx -> Documents]
    BY <1>5, DeleteType DEF DeleteDocument
  <2> QED
    BY <1>5, <2>1, Goes DEF DeleteDocument, brokerVars, IInv, TypeOK
<1>6. CASE Ack(i)
  BY <1>6, Leaves DEF Ack, brokerVars, IInv, TypeOK
<1>7. CASE HandlerFails(i)
  <2>1. doc' \in [Tx -> Documents]
    BY <1>7, UpsertType, DeleteType DEF HandlerFails, IInv, TypeOK
  <2>2. errors' \in 0..MaxErrors
    BY <1>7 DEF HandlerFails, IInv, TypeOK, BoundsAssumption
  <2> QED
    BY <1>7, <2>1, <2>2, Leaves DEF HandlerFails, brokerVars, IInv, TypeOK
<1> QED
  BY <1>1, <1>2, <1>3, <1>4, <1>5, <1>6, <1>7 DEF HandlerStep

LEMMA RestartStep ==
    ASSUME BoundsAssumption, IInv, Restart
    PROVE  IInv'
<1>1. queue' \in Seq(Events)
  <2>1. \A h \in Handlers : h.msg \in Events
    BY DEF Handlers
  <2> QED
    BY <2>1, RequeueShape, InflightShape DEF Restart, IInv, TypeOK
<1>2. processed' \in Window(Ids, MaxTracked)
  BY EmptyWindow, SearchAssumption DEF Restart
<1>3. inflight' \in Seq(Handlers) /\ Len(inflight') <= Prefetch /\ HandlersFit'
  BY SearchAssumption DEF Restart, HandlersFit
<1>4. restarts' \in 0..MaxRestarts
  BY DEF Restart, IInv, TypeOK, BoundsAssumption
<1> QED
  BY <1>1, <1>2, <1>3, <1>4 DEF Restart, IInv, TypeOK, Ids

LEMMA IInvStep == BoundsAssumption /\ IInv /\ [Next]_vars => IInv'
<1> SUFFICES ASSUME BoundsAssumption, IInv, [Next]_vars
             PROVE  IInv'
  OBVIOUS
<1>1. ASSUME NEW e \in Events, Arrive(e)
      PROVE  IInv'
  BY <1>1 DEF Arrive, IInv, TypeOK, HandlersFit, Fits, BoundsAssumption
<1>2. CASE UNCHANGED vars
  BY <1>2 DEF vars, brokerVars, IInv, TypeOK, HandlersFit, Fits
<1> QED
  BY <1>1, <1>2, ConsumeStep, HandlersStep, RestartStep DEF Next

\* TypeOK of the run search_merge, for every instance.
THEOREM TypeCorrect ==
    ASSUME BoundsAssumption
    PROVE  Spec => []TypeOK
<1>1. Init => IInv
  BY IInvInit
<1>2. IInv /\ [Next]_vars => IInv'
  BY IInvStep
<1>3. IInv => TypeOK
  BY DEF IInv
<1> QED
  BY <1>1, <1>2, <1>3, PTL DEF Spec

-----------------------------------------------------------------------------
(***************************************************************************)
(* One delivery at a time.  Between the read and the publish nothing else  *)
(* touches the document, so that what a handler read, wrote and reports is *)
(* what the index holds.                                                   *)
(***************************************************************************)
Consistent(d) ==
    d # NoDocument =>
        d.searchStatus = IF ~d.base THEN "PENDING_BASE"
                         ELSE IF d.moderationStatus = "REJECT" THEN "FAILED"
                         ELSE "READY"

\* What a handler that is about to write, or to publish, knows of the index.
InStep(h) ==
    /\ h.pc = "writing" =>
           /\ h.known = doc[h.msg.tx]
           /\ IsIncomingEventApplicable(h.msg.at, LastApplied(h.msg, h.known))
    /\ h.pc = "publishing" =>
           OutcomeDue(h) /\ doc[h.msg.tx] = Merged(h.msg, h.known, h.known)

OutcomeRecords == {Outcome(h) : h \in Handlers}

SerialInv ==
    /\ outcomes \in Seq(OutcomeRecords)
    /\ \A i \in DOMAIN inflight : InStep(inflight[i])
    /\ \A t \in Tx : Consistent(doc[t])

\* Whatever is merged into the document that was read leaves it consistent.
LEMMA MergedConsistent ==
    ASSUME NEW m \in Events, m.type \in BaseTypes \cup AiTypes, NEW d \in Documents
    PROVE  Consistent(Merged(m, d, d))
<1>0. d.moderationStatus \in {"NONE", "ALLOW", "REJECT"} /\ d.base \in BOOLEAN
  BY DEF Documents
<1>1. CASE m.type \in BaseTypes
  <2>1. Merged(m, d, d) =
            [base |-> TRUE,
             searchStatus |-> IF d.moderationStatus = "REJECT" THEN "FAILED" ELSE "READY",
             aiStatus |-> d.aiStatus, moderationStatus |-> d.moderationStatus,
             lastBase |-> m.at, lastAi |-> d.lastAi]
    BY <1>1, MergedShape
  <2> QED
    BY <2>1 DEF Consistent
<1>2. CASE m.type = "ai.enriched"
  <2>1. Merged(m, d, d) =
            [base |-> d.base, searchStatus |-> IF d.base THEN "READY" ELSE "PENDING_BASE",
             aiStatus |-> "COMPLETED", moderationStatus |-> "ALLOW",
             lastBase |-> d.lastBase, lastAi |-> m.at]
    BY <1>2, MergedShape
  <2> QED
    BY <1>0, <2>1 DEF Consistent
<1>3. CASE m.type \notin BaseTypes /\ m.type # "ai.enriched"
  <2>1. Merged(m, d, d) =
            [base |-> d.base, searchStatus |-> IF d.base THEN "FAILED" ELSE "PENDING_BASE",
             aiStatus |-> "FAILED", moderationStatus |-> "REJECT",
             lastBase |-> d.lastBase, lastAi |-> m.at]
    BY <1>3, MergedShape
  <2> QED
    BY <1>0, <2>1 DEF Consistent
<1> QED
  BY <1>1, <1>2, <1>3

\* With a prefetch limit of one there is one handler at most.
LEMMA OneHandler ==
    ASSUME Prefetch = 1, IInv, NEW i \in DOMAIN inflight
    PROVE  inflight \in Seq(Handlers) /\ DOMAIN inflight = {i} /\ i = 1 /\ Len(inflight) = 1
<1>1. inflight \in Seq(Handlers) /\ Len(inflight) <= 1
  BY InflightShape
<1>2. DOMAIN inflight = 1..Len(inflight) /\ Len(inflight) \in Nat
  BY <1>1
<1>3. Len(inflight) = 1 /\ i = 1
  BY <1>1, <1>2
<1> QED
  BY <1>1, <1>2, <1>3

LEMMA OnlyOne ==
    ASSUME Prefetch = 1, IInv, NEW i \in DOMAIN inflight, NEW h \in Handlers,
           inflight' = [inflight EXCEPT ![i] = h]
    PROVE  DOMAIN inflight' = {i} /\ inflight'[i] = h
<1>1. inflight \in Seq(Handlers) /\ DOMAIN inflight = {i}
  BY OneHandler
<1> QED
  BY <1>1, EditShape

LEMMA NoneLeft ==
    ASSUME Prefetch = 1, IInv, NEW i \in DOMAIN inflight, Leave(i)
    PROVE  DOMAIN inflight' = {}
<1>1. inflight \in Seq(Handlers) /\ DOMAIN inflight = {i} /\ Len(inflight) = 1
  BY OneHandler
<1>2. inflight' \in Seq(Handlers) /\ Len(inflight') = 0
  BY <1>1, RemoveAtIndex DEF Leave
<1> QED
  BY <1>2

\* What an upsert does to the document of a handler in step.
LEMMA UpsertInStep ==
    ASSUME IInv, SerialInv, NEW i \in DOMAIN inflight, inflight[i].pc = "writing",
           Upsert(inflight[i])
    PROVE  LET h == inflight[i] IN
           /\ doc' = [doc EXCEPT ![h.msg.tx] = Merged(h.msg, h.known, h.known)]
           /\ \A t \in Tx : Consistent(doc'[t])
           /\ h.msg.tx \in Tx /\ h.msg \in Events /\ h.known \in Documents
           /\ h.msg.type \in BaseTypes \cup AiTypes
           /\ doc \in [Tx -> Documents]
<1> DEFINE h == inflight[i]
<1>1. /\ h.msg.tx \in Tx /\ h.msg \in Events /\ h.known \in Documents
      /\ h.msg.type \in BaseTypes \cup AiTypes
  BY InflightShape DEF Fits
<1>2. h.known = doc[h.msg.tx]
  BY DEF SerialInv, InStep
<1>3. doc \in [Tx -> Documents]
  BY DEF IInv, TypeOK
<1>4. doc' = [doc EXCEPT ![h.msg.tx] = Merged(h.msg, h.known, h.known)]
  BY <1>2 DEF Upsert
<1>5. Consistent(Merged(h.msg, h.known, h.known))
  BY <1>1, MergedConsistent
<1>6. \A t \in Tx : Consistent(doc'[t])
  <2> SUFFICES ASSUME NEW t \in Tx PROVE Consistent(doc'[t])
    OBVIOUS
  <2>1. CASE t = h.msg.tx
    <3>1. doc'[t] = Merged(h.msg, h.known, h.known)
      BY <1>3, <1>4, <2>1
    <3> QED
      BY <1>5, <3>1
  <2>2. CASE t # h.msg.tx
    <3>1. doc'[t] = doc[t]
      BY <1>3, <1>4, <2>2
    <3> QED
      BY <3>1 DEF SerialInv
  <2> QED
    BY <2>1, <2>2
<1> QED
  BY <1>1, <1>3, <1>4, <1>6

LEMMA DeleteConsistent ==
    ASSUME IInv, SerialInv, NEW i \in DOMAIN inflight, Delete(inflight[i])
    PROVE  \A t \in Tx : Consistent(doc'[t])
<1>1. doc \in [Tx -> Documents] /\ doc' = [doc EXCEPT ![inflight[i].msg.tx] = NoDocument]
  BY DEF IInv, TypeOK, Delete
<1>2. \A t \in Tx : doc'[t] = NoDocument \/ doc'[t] = doc[t]
  BY <1>1
<1> QED
  BY <1>2 DEF SerialInv, Consistent

LEMMA EmitType ==
    ASSUME IInv, SerialInv, NEW i \in DOMAIN inflight, Emit(inflight[i])
    PROVE  outcomes' \in Seq(OutcomeRecords) /\ Last(outcomes') = Outcome(inflight[i])
<1>1. inflight[i] \in Handlers
  BY InflightShape
<1>2. Outcome(inflight[i]) \in OutcomeRecords
  BY <1>1 DEF OutcomeRecords
<1> DEFINE o == Outcome(inflight[i])
<1>3. o \in OutcomeRecords /\ outcomes' = Append(outcomes, o) /\ outcomes \in Seq(OutcomeRecords)
  BY <1>2 DEF Emit, SerialInv
<1> HIDE DEF o
<1>4. outcomes' \in Seq(OutcomeRecords) /\ Last(outcomes') = o
  BY <1>3 DEF Last
<1> QED
  BY <1>4 DEF o

LEMMA SerialConsume ==
    ASSUME Prefetch = 1, IInv, SerialInv, Consume
    PROVE  SerialInv'
<1>1. doc' = doc /\ outcomes' = outcomes
  BY DEF Consume, SkipDuplicate, IgnoreEvent, StartHandler
<1>2. \A i \in DOMAIN inflight' : InStep(inflight'[i])
  <2>1. CASE SkipDuplicate \/ IgnoreEvent
    BY <2>1 DEF SkipDuplicate, IgnoreEvent, SerialInv
  <2>2. CASE StartHandler
    <3>1. PICK m \in Events :
             /\ Accept(m)
             /\ inflight' = Append(inflight,
                   [msg |-> m, known |-> NoDocument,
                    pc |-> IF m.type = "transaction.deleted" THEN "deleting" ELSE "reading"])
      BY <2>2 DEF StartHandler
    <3> DEFINE h == [msg |-> m, known |-> NoDocument,
                     pc |-> IF m.type = "transaction.deleted" THEN "deleting" ELSE "reading"]
    <3>2. InStep(h)
      BY DEF InStep
    <3>3. inflight' = Append(inflight, h) /\ h \in Handlers
      BY <3>1, NoDocumentType DEF Handlers
    <3> HIDE DEF h
    <3>4. inflight \in Seq(Handlers) /\ Len(inflight) < 1
      BY <3>1, AcceptShape, InflightShape
    <3>5. DOMAIN inflight' = {1} /\ inflight'[1] = h
      BY <3>3, <3>4
    <3> QED
      BY <3>2, <3>5
  <2> QED
    BY <2>1, <2>2 DEF Consume
<1> QED
  BY <1>1, <1>2 DEF SerialInv, InStep

LEMMA SerialHandlers ==
    ASSUME Prefetch = 1, IInv, SerialInv, NEW i \in DOMAIN inflight, HandlerStep(i)
    PROVE  SerialInv'
<1> DEFINE h == inflight[i]
<1>0. /\ h \in Handlers /\ h.msg \in Events /\ h.msg.tx \in Tx /\ h.known \in Documents
      /\ doc \in [Tx -> Documents]
  BY InflightShape DEF Fits, IInv, TypeOK
<1>1. CASE ReadDocument(i)
  <2> DEFINE g == [msg |-> h.msg, known |-> doc[h.msg.tx], pc |-> "writing"]
  <2>1. g \in Handlers /\ inflight' = [inflight EXCEPT ![i] = g] /\ doc' = doc
        /\ outcomes' = outcomes
    BY <1>0, <1>1 DEF ReadDocument, Handlers
  <2>2. InStep(g)
    BY <1>1 DEF InStep, ReadDocument, LastApplied
  <2> HIDE DEF g
  <2>3. \A j \in DOMAIN inflight' : InStep(inflight'[j])
    BY <2>1, <2>2, OnlyOne
  <2> QED
    BY <2>1, <2>3 DEF SerialInv, InStep
<1>2. CASE UpsertDocument(i)
  <2> DEFINE step == IF OutcomeDue(h) THEN "publishing" ELSE "acking"
             g == [msg |-> h.msg, known |-> h.known, pc |-> step]
  <2>1. /\ doc' = [doc EXCEPT ![h.msg.tx] = Merged(h.msg, h.known, h.known)]
        /\ \A t \in Tx : Consistent(doc'[t])
    BY <1>2, UpsertInStep DEF UpsertDocument
  <2>2. g \in Handlers /\ inflight' = [inflight EXCEPT ![i] = g]
    BY <1>0, <1>2, GotoShape DEF UpsertDocument, Handlers
  <2>3. DOMAIN inflight' = {i} /\ inflight'[i] = g
    <3> HIDE DEF g
    <3> QED
      BY <2>2, OnlyOne
  <2>4. g.pc = "publishing" =>
            OutcomeDue(g) /\ doc'[g.msg.tx] = Merged(g.msg, g.known, g.known)
    BY <1>0, <2>1 DEF OutcomeDue
  <2>5. g.pc # "writing"
    OBVIOUS
  <2> HIDE DEF g
  <2>6. \A j \in DOMAIN inflight' :
           /\ inflight'[j].pc # "writing"
           /\ inflight'[j].pc = "publishing" =>
                 /\ OutcomeDue(inflight'[j])
                 /\ doc'[inflight'[j].msg.tx]
                      = Merged(inflight'[j].msg, inflight'[j].known, inflight'[j].known)
    BY <2>3, <2>4, <2>5
  <2>7. outcomes' = outcomes
    BY <1>2 DEF UpsertDocument
  <2> QED
    BY <2>1, <2>6, <2>7 DEF SerialInv, InStep, OutcomeDue, Consistent
<1>3. CASE PublishOutcome(i) \/ DeleteDocument(i)
  <2> DEFINE g == [msg |-> h.msg, known |-> h.known, pc |-> "acking"]
  <2>1. g \in Handlers /\ inflight' = [inflight EXCEPT ![i] = g]
    BY <1>0, <1>3, GotoShape DEF PublishOutcome, DeleteDocument, Handlers
  <2>2. g.pc = "acking"
    OBVIOUS
  <2> HIDE DEF g
  <2>3. \A j \in DOMAIN inflight' : inflight'[j].pc = "acking"
    BY <2>1, <2>2, OnlyOne
  <2>4. outcomes' \in Seq(OutcomeRecords)
    BY <1>3, EmitType DEF PublishOutcome, DeleteDocument, SerialInv
  <2>5. \A t \in Tx : Consistent(doc'[t])
    BY <1>3, DeleteConsistent DEF PublishOutcome, DeleteDocument, SerialInv
  <2> QED
    BY <2>3, <2>4, <2>5 DEF SerialInv, InStep, Consistent
<1>4. CASE SkipStale(i) \/ Ack(i) \/ HandlerFails(i)
  <2>1. DOMAIN inflight' = {}
    BY <1>4, NoneLeft DEF SkipStale, Ack, HandlerFails
  <2>2. outcomes' \in Seq(OutcomeRecords)
    BY <1>4, EmitType DEF SkipStale, Ack, HandlerFails, SerialInv
  <2>3. \A t \in Tx : Consistent(doc'[t])
    <3>1. doc' = doc \/ (h.pc = "writing" /\ Upsert(h)) \/ Delete(h)
      BY <1>4 DEF SkipStale, Ack, HandlerFails
    <3>2. CASE doc' = doc
      BY <3>2 DEF SerialInv
    <3>3. CASE h.pc = "writing" /\ Upsert(h)
      BY <3>3, UpsertInStep
    <3>4. CASE Delete(h)
      BY <3>4, DeleteConsistent
    <3> QED
      BY <3>1, <3>2, <3>3, <3>4
  <2> QED
    BY <2>1, <2>2, <2>3 DEF SerialInv, InStep, Consistent
<1> QED
  BY <1>1, <1>2, <1>3, <1>4 DEF HandlerStep

LEMMA SerialStep ==
    Prefetch = 1 /\ IInv /\ SerialInv /\ [Next]_vars => SerialInv'
<1> SUFFICES ASSUME Prefetch = 1, IInv, SerialInv, [Next]_vars
             PROVE  SerialInv'
  OBVIOUS
<1>1. CASE (\E e \in Events : Arrive(e)) \/ UNCHANGED vars
  BY <1>1 DEF Arrive, vars, SerialInv, InStep, Consistent
<1>2. CASE Restart
  <2>1. inflight' = << >> /\ doc' = doc /\ outcomes' = outcomes
    BY <1>2 DEF Restart
  <2> QED
    BY <2>1 DEF SerialInv, InStep, Consistent
<1> QED
  BY <1>1, <1>2, SerialConsume, SerialHandlers DEF Next

LEMMA SerialInit == Init => SerialInv
  BY DEF Init, SerialInv, Consistent

LEMMA Serially ==
    ASSUME BoundsAssumption, Prefetch = 1
    PROVE  Spec => [](IInv /\ SerialInv)
<1>1. Init => IInv /\ SerialInv
  BY IInvInit, SerialInit
<1>2. IInv /\ SerialInv /\ [Next]_vars => (IInv /\ SerialInv)'
  BY IInvStep, SerialStep
<1> QED
  BY <1>1, <1>2, PTL DEF Spec

\* StatusMatchesContent of the run search_merge.  The assumption on Prefetch is
\* needed: the run search_prefetch shows what a limit of two does.
THEOREM StatusAlwaysMatches ==
    ASSUME BoundsAssumption, Prefetch = 1
    PROVE  Spec => []StatusMatchesContent
<1>1. IInv /\ SerialInv => StatusMatchesContent
  BY DEF SerialInv, Consistent, StatusMatchesContent, Exists
<1> QED
  BY <1>1, Serially, PTL

-----------------------------------------------------------------------------
(***************************************************************************)
(* What a step may never do, with one delivery at a time.                  *)
(***************************************************************************)
LEMMA MergedNotOlder ==
    ASSUME NEW m \in Events, m.type \in BaseTypes \cup AiTypes, NEW d \in Documents,
           IsIncomingEventApplicable(m.at, LastApplied(m, d))
    PROVE  /\ Merged(m, d, d).lastBase >= d.lastBase
           /\ Merged(m, d, d).lastAi >= d.lastAi
<1>0. m.at \in Nat \ {0} /\ d.lastBase \in Nat /\ d.lastAi \in Nat
  BY SearchAssumption DEF Documents
<1>1. CASE m.type \in BaseTypes
  <2>1. Merged(m, d, d).lastBase = m.at /\ Merged(m, d, d).lastAi = d.lastAi
    BY <1>1, MergedShape
  <2>2. d.lastBase = 0 \/ m.at >= d.lastBase
    BY <1>1 DEF IsIncomingEventApplicable, LastApplied
  <2> QED
    BY <1>0, <2>1, <2>2
<1>2. CASE m.type \notin BaseTypes
  <2>1. Merged(m, d, d).lastBase = d.lastBase /\ Merged(m, d, d).lastAi = m.at
    BY <1>2, MergedShape DEF BaseTypes
  <2>2. d.lastAi = 0 \/ m.at >= d.lastAi
    BY <1>2 DEF IsIncomingEventApplicable, LastApplied
  <2> QED
    BY <1>0, <2>1, <2>2
<1> QED
  BY <1>1, <1>2

\* A document stays as it is, goes, or gets something at least as new.
LEMMA NoOlderDocument ==
    ASSUME IInv, SerialInv, [Next]_vars, NEW t \in Tx, doc'[t] # NoDocument
    PROVE  doc'[t].lastBase >= doc[t].lastBase /\ doc'[t].lastAi >= doc[t].lastAi
<1>0. doc \in [Tx -> Documents] /\ doc[t].lastBase \in Nat /\ doc[t].lastAi \in Nat
  BY DEF IInv, TypeOK, Documents
<1>1. CASE doc' = doc
  BY <1>0, <1>1
<1>2. ASSUME NEW i \in DOMAIN inflight, inflight[i].pc = "writing", Upsert(inflight[i])
      PROVE  doc'[t].lastBase >= doc[t].lastBase /\ doc'[t].lastAi >= doc[t].lastAi
  <2> DEFINE h == inflight[i]
  <2>1. /\ doc' = [doc EXCEPT ![h.msg.tx] = Merged(h.msg, h.known, h.known)]
        /\ h.msg.tx \in Tx /\ h.msg \in Events /\ h.known \in Documents
        /\ h.msg.type \in BaseTypes \cup AiTypes
    BY <1>2, UpsertInStep
  <2>2. /\ h.known = doc[h.msg.tx]
        /\ IsIncomingEventApplicable(h.msg.at, LastApplied(h.msg, h.known))
    BY <1>2 DEF SerialInv, InStep
  <2>3. CASE t = h.msg.tx
    <3>1. doc'[t] = Merged(h.msg, h.known, h.known)
      BY <1>0, <2>1, <2>3
    <3>2. /\ Merged(h.msg, h.known, h.known).lastBase >= h.known.lastBase
          /\ Merged(h.msg, h.known, h.known).lastAi >= h.known.lastAi
      BY <2>1, <2>2, MergedNotOlder
    <3> QED
      BY <2>2, <2>3, <3>1, <3>2
  <2>4. CASE t # h.msg.tx
    <3>1. doc'[t] = doc[t]
      BY <1>0, <2>1, <2>4
    <3> QED
      BY <1>0, <3>1
  <2> QED
    BY <2>3, <2>4
<1>3. ASSUME NEW i \in DOMAIN inflight, Delete(inflight[i])
      PROVE  doc'[t].lastBase >= doc[t].lastBase /\ doc'[t].lastAi >= doc[t].lastAi
  <2>1. doc'[t] = NoDocument \/ doc'[t] = doc[t]
    BY <1>0, <1>3 DEF Delete
  <2> QED
    BY <1>0, <2>1
<1>4. ASSUME NEW i \in DOMAIN inflight, HandlerStep(i)
      PROVE  \/ doc' = doc
             \/ inflight[i].pc = "writing" /\ Upsert(inflight[i])
             \/ Delete(inflight[i])
  BY <1>4 DEF HandlerStep, ReadDocument, SkipStale, UpsertDocument, PublishOutcome,
              DeleteDocument, Ack, HandlerFails
<1>5. CASE ~(\E i \in DOMAIN inflight : HandlerStep(i))
  BY <1>1, <1>5 DEF Next, Consume, SkipDuplicate, IgnoreEvent, StartHandler, Arrive, Restart, vars
<1> QED
  BY <1>1, <1>2, <1>3, <1>4, <1>5

\* NewestEventWins of the run search_merge: no event that comes late, or again,
\* takes the place of a newer one, over any number of copies and restarts.
THEOREM NewestAlwaysWins ==
    ASSUME BoundsAssumption, Prefetch = 1
    PROVE  Spec => NewestEventWins
<1>1. IInv /\ SerialInv /\ [Next]_vars =>
        [\A t \in Tx : Exists(t) /\ Exists(t)' => /\ doc'[t].lastBase >= doc[t].lastBase
                                                 /\ doc'[t].lastAi >= doc[t].lastAi]_vars
  BY NoOlderDocument DEF Exists
<1>2. Spec => [](IInv /\ SerialInv)
  BY Serially
<1> QED
  BY <1>1, <1>2, PTL DEF Spec, NewestEventWins

\* An outcome is sent from the step "publishing", and from nowhere else.
LEMMA OutcomeFits ==
    ASSUME IInv, SerialInv, NEW i \in DOMAIN inflight, inflight[i].pc = "publishing",
           Emit(inflight[i])
    PROVE  /\ doc[Last(outcomes').tx].base
           /\ Last(outcomes').type = "search.index.rejected"
                <=> doc[Last(outcomes').tx].moderationStatus = "REJECT"
<1> DEFINE h == inflight[i]
           o == Outcome(h)
<1>1. Last(outcomes') = o
  BY EmitType
<1>2. /\ h.msg \in Events /\ h.known \in Documents /\ h.msg.type \in BaseTypes \cup AiTypes
  BY InflightShape DEF Fits
<1>3. OutcomeDue(h) /\ doc[h.msg.tx] = Merged(h.msg, h.known, h.known)
  BY DEF SerialInv, InStep
<1>4. o.tx = h.msg.tx
  BY DEF Outcome
<1>5. o.type = "search.index.rejected" <=>
         \/ h.msg.type = "ai.rejected"
         \/ h.msg.type \in BaseTypes /\ h.known.moderationStatus = "REJECT"
  BY DEF Outcome
<1> HIDE DEF o
<1>6. h.known.base \in BOOLEAN /\ h.known.moderationStatus \in {"NONE", "ALLOW", "REJECT"}
  BY <1>2 DEF Documents
<1>7. CASE h.msg.type \in BaseTypes
  <2>1. /\ doc[h.msg.tx].base = TRUE
        /\ doc[h.msg.tx].moderationStatus = h.known.moderationStatus
    BY <1>2, <1>3, <1>7, MergedShape
  <2>2. h.msg.type # "ai.rejected"
    BY <1>7 DEF BaseTypes
  <2> QED
    BY <1>1, <1>4, <1>5, <1>7, <2>1, <2>2
<1>8. CASE h.msg.type = "ai.enriched"
  <2>1. /\ doc[h.msg.tx].base = h.known.base
        /\ doc[h.msg.tx].moderationStatus = "ALLOW"
    BY <1>2, <1>3, <1>8, MergedShape
  <2>2. h.known.base
    BY <1>3, <1>8 DEF OutcomeDue, BaseTypes
  <2> QED
    BY <1>1, <1>4, <1>5, <1>8, <2>1, <2>2 DEF BaseTypes
<1>9. CASE h.msg.type = "ai.rejected"
  <2>1. /\ doc[h.msg.tx].base = h.known.base
        /\ doc[h.msg.tx].moderationStatus = "REJECT"
    BY <1>2, <1>3, <1>9, MergedShape DEF BaseTypes
  <2>2. h.known.base
    BY <1>3, <1>9 DEF OutcomeDue, BaseTypes
  <2> QED
    BY <1>1, <1>4, <1>5, <1>9, <2>1, <2>2
<1> QED
  BY <1>2, <1>7, <1>8, <1>9 DEF AiTypes

LEMMA OutcomeStep ==
    ASSUME IInv, SerialInv, [Next]_vars, outcomes' # outcomes
    PROVE  \E i \in DOMAIN inflight : inflight[i].pc = "publishing" /\ Emit(inflight[i])
<1>1. ASSUME NEW i \in DOMAIN inflight, HandlerStep(i)
      PROVE  inflight[i].pc = "publishing" /\ Emit(inflight[i])
  BY <1>1 DEF HandlerStep, ReadDocument, SkipStale, UpsertDocument, PublishOutcome,
              DeleteDocument, Ack, HandlerFails
<1>2. CASE ~(\E i \in DOMAIN inflight : HandlerStep(i))
  BY <1>2 DEF Next, Consume, SkipDuplicate, IgnoreEvent, StartHandler, Arrive, Restart, vars
<1> QED
  BY <1>1, <1>2

\* OutcomeReportsIndex of the same run: transaction-service is never told of a
\* verdict the index does not hold at that moment.
THEOREM OutcomesReportIndex ==
    ASSUME BoundsAssumption, Prefetch = 1
    PROVE  Spec => OutcomeReportsIndex
<1>1. IInv /\ SerialInv /\ [Next]_vars =>
        [outcomes' # outcomes =>
          LET o == Last(outcomes') IN
          /\ doc[o.tx].base
          /\ o.type = "search.index.rejected" <=> doc[o.tx].moderationStatus = "REJECT"]_vars
  BY OutcomeStep, OutcomeFits
<1>2. Spec => [](IInv /\ SerialInv)
  BY Serially
<1> QED
  BY <1>1, <1>2, PTL DEF Spec, OutcomeReportsIndex

-----------------------------------------------------------------------------
(***************************************************************************)
(* LastOutcomeMatchesIndex, with one delivery at a time.  If the last      *)
(* outcome of an indexed transaction is not what the index holds, a report *)
(* is owed: by the handler that has the message in hand or, after a        *)
(* restart, by the message at the head of the queue, which is not          *)
(* remembered, is not stale (the index may hold it, not a later one) and   *)
(* so is handled again.                                                    *)
(***************************************************************************)
Reported(t) ==
    /\ OutcomesOf(t) # {}
    /\ outcomes[Max(OutcomesOf(t))].type =
          IF doc[t].moderationStatus = "REJECT" THEN "search.index.rejected"
                                                ELSE "search.index.updated"

\* Handling m would write, and report, the document of t.
WouldReport(m, t) ==
    /\ m.tx = t /\ m.type \in BaseTypes \cup AiTypes
    /\ IsIncomingEventApplicable(m.at, LastApplied(m, doc[t]))

InHand(m) ==
    \E i \in DOMAIN inflight : /\ inflight[i].msg = m
                               /\ inflight[i].pc \in {"reading", "writing", "publishing"}

Redelivered(m) ==
    /\ inflight = << >> /\ queue # << >>
    /\ Head(queue) = m /\ ~Remembered(processed, m.id)

Owed(t) == \E m \in Events : WouldReport(m, t) /\ (InHand(m) \/ Redelivered(m))

ReportedInv == errors = 0 => \A t \in Tx : doc[t].base => Reported(t) \/ Owed(t)

\* What is reported stays reported while the index and the outcomes of t stay.
LEMMA ReportedKept ==
    ASSUME NEW t, Reported(t), outcomes' = outcomes,
           doc'[t].moderationStatus = doc[t].moderationStatus
    PROVE  Reported(t)'
  BY DEF Reported, OutcomesOf

\* Handler i at a step of its own, and no other handler.
LEMMA InHandOnly ==
    ASSUME Prefetch = 1, IInv, NEW i \in DOMAIN inflight, NEW m, InHand(m)
    PROVE  m = inflight[i].msg /\ inflight[i].pc \in {"reading", "writing", "publishing"}
  BY OneHandler DEF InHand

LEMMA ReportedConsume ==
    ASSUME Prefetch = 1, IInv, SerialInv, ReportedInv, Consume
    PROVE  ReportedInv'
<1>1. UNCHANGED <<doc, outcomes, errors>>
  BY DEF Consume, SkipDuplicate, IgnoreEvent, StartHandler
<1>2. PICK m \in Events :
         /\ Delivers(m)
         /\ \/ Remembered(processed, m.id) /\ inflight' = inflight
            \/ (m.type \notin Handled \/ m.tx = NoTx) /\ inflight' = inflight
            \/ inflight' = Append(inflight,
                  [msg |-> m, known |-> NoDocument,
                   pc |-> IF m.type = "transaction.deleted" THEN "deleting" ELSE "reading"])
  BY DEF Consume, SkipDuplicate, IgnoreEvent, StartHandler, Accept
<1>3. inflight = << >> /\ m = Head(queue)
  <2>1. inflight \in Seq(Handlers) /\ Len(inflight) < 1
    BY <1>2, InflightShape DEF Delivers
  <2> QED
    BY <1>2, <2>1 DEF Delivers
<1> SUFFICES ASSUME errors = 0, NEW t \in Tx, doc[t].base
             PROVE  Reported(t)' \/ Owed(t)'
  BY <1>1 DEF ReportedInv
<1>4. CASE Reported(t)
  BY <1>1, <1>4, ReportedKept
<1>5. CASE Owed(t)
  <2>1. WouldReport(m, t) /\ ~Remembered(processed, m.id)
    BY <1>3, <1>5 DEF Owed, InHand, Redelivered
  <2>2. m.type \in Handled /\ m.tx # NoTx /\ m.type # "transaction.deleted"
    BY <2>1, SearchAssumption DEF WouldReport, Handled, BaseTypes, AiTypes
  <2>3. inflight' = Append(inflight, [msg |-> m, known |-> NoDocument, pc |-> "reading"])
    BY <1>2, <2>1, <2>2
  <2>4. 1 \in DOMAIN inflight' /\ inflight'[1].msg = m /\ inflight'[1].pc = "reading"
    BY <1>3, <2>3
  <2>5. WouldReport(m, t)'
    BY <1>1, <2>1 DEF WouldReport
  <2> QED
    BY <2>4, <2>5 DEF Owed, InHand
<1> QED
  BY <1>4, <1>5 DEF ReportedInv

\* A restart puts the message of the handler at the head of the queue.
LEMMA ReportedRestart ==
    ASSUME Prefetch = 1, IInv, SerialInv, ReportedInv, Restart
    PROVE  ReportedInv'
<1>1. /\ UNCHANGED <<doc, outcomes, errors>> /\ queue' = Requeue(inflight, queue)
      /\ inflight' = << >> /\ processed' = << >>
  BY DEF Restart
<1> SUFFICES ASSUME errors = 0, NEW t \in Tx, doc[t].base
             PROVE  Reported(t)' \/ Owed(t)'
  BY <1>1 DEF ReportedInv
<1>2. CASE Reported(t)
  BY <1>1, <1>2, ReportedKept
<1>3. CASE Owed(t)
  <2>1. PICK m \in Events : WouldReport(m, t) /\ (InHand(m) \/ Redelivered(m))
    BY <1>3 DEF Owed
  <2>2. queue \in Seq(Events) /\ inflight \in Seq(Handlers) /\ \A h \in Handlers : h.msg \in Events
    BY InflightShape DEF IInv, TypeOK, Handlers
  <2>3. queue' # << >> /\ Head(queue') = m
    <3>0. /\ queue' \in Seq(Events) /\ Len(queue') = Len(inflight) + Len(queue)
          /\ \A i \in DOMAIN inflight : queue'[i] = inflight[i].msg
          /\ \A i \in DOMAIN queue : queue'[Len(inflight) + i] = queue[i]
      BY <1>1, <2>2, RequeueOrder, RequeueShape
    <3>1. CASE InHand(m)
      <4>1. PICK i \in DOMAIN inflight : inflight[i].msg = m
        BY <3>1 DEF InHand
      <4>2. i = 1 /\ Len(inflight) = 1
        BY OneHandler
      <4>3. Len(queue') > 0 /\ queue'[1] = m
        BY <2>2, <3>0, <4>1, <4>2
      <4> QED
        BY <3>0, <4>3
    <3>2. CASE Redelivered(m)
      <4>1. inflight = << >> /\ Len(queue) > 0 /\ queue[1] = m
        BY <2>2, <3>2 DEF Redelivered
      <4>2. Len(queue') > 0 /\ queue'[1] = m
        BY <2>2, <3>0, <4>1
      <4> QED
        BY <3>0, <4>2
    <3> QED
      BY <2>1, <3>1, <3>2
  <2>4. WouldReport(m, t)' /\ Redelivered(m)'
    BY <1>1, <2>1, <2>3 DEF WouldReport, Redelivered, Remembered
  <2> QED
    BY <2>4 DEF Owed
<1> QED
  BY <1>2, <1>3 DEF ReportedInv

LEMMA ReportedArrive ==
    ASSUME IInv, ReportedInv, NEW e \in Events, Arrive(e)
    PROVE  ReportedInv'
<1>1. /\ UNCHANGED <<doc, outcomes, errors, inflight, processed>>
      /\ queue' = Append(queue, e) /\ queue \in Seq(Events)
  BY DEF Arrive, IInv, TypeOK
<1>2. ASSUME NEW m, Redelivered(m)
      PROVE  Redelivered(m)'
  <2>1. queue # << >> /\ queue' # << >> /\ Head(queue') = Head(queue)
    BY <1>1, <1>2 DEF Redelivered
  <2> QED
    BY <1>1, <1>2, <2>1 DEF Redelivered, Remembered
<1>3. \A m, t : (WouldReport(m, t) => WouldReport(m, t)') /\ (InHand(m) => InHand(m)')
  BY <1>1 DEF WouldReport, InHand
<1> QED
  BY <1>1, <1>2, <1>3, ReportedKept DEF ReportedInv, Owed

\* With a handler at work, whatever is owed is owed by that handler.
LEMMA OwedByHandler ==
    ASSUME Prefetch = 1, IInv, NEW i \in DOMAIN inflight, NEW t, Owed(t)
    PROVE  WouldReport(inflight[i].msg, t) /\ InHand(inflight[i].msg)
<1>1. PICK m \in Events : WouldReport(m, t) /\ (InHand(m) \/ Redelivered(m))
  BY DEF Owed
<1>2. ~Redelivered(m)
  <2>1. inflight \in Seq(Handlers) /\ Len(inflight) = 1
    BY OneHandler
  <2>2. inflight # << >>
    BY <2>1
  <2> QED
    BY <2>2 DEF Redelivered
<1> QED
  BY <1>1, <1>2, InHandOnly

\* A handler in place of the one there was, with the same message in hand.
LEMMA StillOwed ==
    ASSUME Prefetch = 1, IInv, NEW i \in DOMAIN inflight, NEW g \in Handlers,
           inflight' = [inflight EXCEPT ![i] = g],
           g.pc \in {"reading", "writing", "publishing"},
           NEW m \in Events, g.msg = m, NEW t, WouldReport(m, t)'
    PROVE  Owed(t)'
<1>1. DOMAIN inflight' = {i} /\ inflight'[i] = g
  BY OnlyOne
<1>2. InHand(m)'
  BY <1>1 DEF InHand
<1> QED
  BY <1>2 DEF Owed

LEMMA ReportedRead ==
    ASSUME Prefetch = 1, IInv, SerialInv, ReportedInv,
           NEW i \in DOMAIN inflight, ReadDocument(i)
    PROVE  ReportedInv'
<1> DEFINE h == inflight[i]
           g == [msg |-> h.msg, known |-> doc[h.msg.tx], pc |-> "writing"]
<1>1. UNCHANGED <<doc, outcomes, errors>> /\ inflight' = [inflight EXCEPT ![i] = g]
  BY DEF ReadDocument
<1>2. g \in Handlers
  BY InflightShape DEF Handlers, Fits, IInv, TypeOK
<1>3. PICK m \in Events : g.msg = m /\ m = h.msg
  BY InflightShape
<1>5. g.pc \in {"reading", "writing", "publishing"}
  OBVIOUS
<1> HIDE DEF g
<1>4. ASSUME NEW t \in Tx, Owed(t)
      PROVE  Owed(t)'
  <2>1. WouldReport(m, t)
    BY <1>3, <1>4, OwedByHandler
  <2>2. WouldReport(m, t)'
    BY <1>1, <2>1 DEF WouldReport
  <2> QED
    BY <1>1, <1>2, <1>3, <1>5, <2>2, StillOwed
<1> QED
  BY <1>1, <1>4, ReportedKept DEF ReportedInv

\* A handler that drops a stale event, or is done, owes nothing.
LEMMA ReportedLeave ==
    ASSUME Prefetch = 1, IInv, SerialInv, ReportedInv,
           NEW i \in DOMAIN inflight, SkipStale(i) \/ Ack(i)
    PROVE  ReportedInv'
<1>1. UNCHANGED <<doc, outcomes, errors>>
  BY DEF SkipStale, Ack
<1>2. ASSUME NEW t \in Tx, Owed(t)
      PROVE  FALSE
  <2>1. WouldReport(inflight[i].msg, t) /\ InHand(inflight[i].msg)
    BY <1>2, OwedByHandler
  <2>2. inflight[i].pc # "acking"
    BY <2>1, InHandOnly
  <2> QED
    BY <2>1, <2>2 DEF SkipStale, Ack, WouldReport
<1> QED
  BY <1>1, <1>2, ReportedKept DEF ReportedInv

\* The event just written is as new as the document and may be handled again.
LEMMA WrittenIsApplicable ==
    ASSUME NEW m \in Events, m.type \in BaseTypes \cup AiTypes, NEW d \in Documents
    PROVE  IsIncomingEventApplicable(m.at, LastApplied(m, Merged(m, d, d)))
<1>1. m.at \in Nat
  BY SearchAssumption
<1>2. LastApplied(m, Merged(m, d, d)) = m.at
  BY MergedShape DEF LastApplied
<1> QED
  BY <1>1, <1>2 DEF IsIncomingEventApplicable

LEMMA ReportedUpsert ==
    ASSUME Prefetch = 1, IInv, SerialInv, ReportedInv,
           NEW i \in DOMAIN inflight, UpsertDocument(i)
    PROVE  ReportedInv'
<1> DEFINE h == inflight[i]
           d == Merged(h.msg, h.known, h.known)
           g == [msg |-> h.msg, known |-> h.known,
                 pc |-> IF OutcomeDue(h) THEN "publishing" ELSE "acking"]
<1>0. /\ h.msg \in Events /\ h.msg.tx \in Tx /\ h.known \in Documents
      /\ h.msg.type \in BaseTypes \cup AiTypes
      /\ doc \in [Tx -> Documents] /\ doc' = [doc EXCEPT ![h.msg.tx] = d]
  BY UpsertInStep DEF UpsertDocument
<1>1. outcomes' = outcomes /\ errors' = errors
  BY DEF UpsertDocument
<1>2. g \in Handlers /\ inflight' = [inflight EXCEPT ![i] = g]
  BY <1>0, GotoShape DEF UpsertDocument, Handlers
<1>3. d.base => OutcomeDue(h)
  BY <1>0, MergedShape DEF OutcomeDue
<1>4. g.msg = h.msg /\ (OutcomeDue(h) => g.pc = "publishing")
  OBVIOUS
<1>8. PICK m \in Events : m = h.msg
  BY <1>0
<1>5. IsIncomingEventApplicable(h.msg.at, LastApplied(h.msg, d))
  BY <1>0, WrittenIsApplicable
<1> HIDE DEF g, d
<1> SUFFICES ASSUME errors = 0, NEW t \in Tx, doc'[t].base
             PROVE  Reported(t)' \/ Owed(t)'
  BY <1>1 DEF ReportedInv
<1>6. CASE t = h.msg.tx
  <2>1. doc'[t] = d
    BY <1>0, <1>6
  <2>2. g.pc = "publishing"
    BY <1>3, <1>4, <2>1
  <2>3. WouldReport(m, t)'
    BY <1>0, <1>5, <1>6, <1>8, <2>1 DEF WouldReport
  <2> QED
    BY <1>2, <1>4, <1>8, <2>2, <2>3, StillOwed
<1>7. CASE t # h.msg.tx
  <2>1. doc'[t] = doc[t]
    BY <1>0, <1>7
  <2>2. ~Owed(t)
    BY <1>7, OwedByHandler DEF WouldReport
  <2>3. Reported(t)
    BY <2>1, <2>2 DEF ReportedInv
  <2> QED
    BY <1>1, <2>1, <2>3, ReportedKept
<1> QED
  BY <1>6, <1>7

LEMMA ReportedPublish ==
    ASSUME Prefetch = 1, IInv, SerialInv, ReportedInv,
           NEW i \in DOMAIN inflight, PublishOutcome(i)
    PROVE  ReportedInv'
<1> DEFINE h == inflight[i]
           o == Outcome(h)
           n == Len(outcomes) + 1
<1>0. doc' = doc /\ errors' = errors /\ Emit(h) /\ h.pc = "publishing"
  BY DEF PublishOutcome
<1>1. h \in Handlers /\ o \in OutcomeRecords
  BY InflightShape DEF OutcomeRecords
<1>2. outcomes \in Seq(OutcomeRecords) /\ outcomes' = Append(outcomes, o)
  BY <1>0 DEF SerialInv, Emit
<1>3. /\ o.tx = h.msg.tx
      /\ o.type \in {"search.index.rejected", "search.index.updated"}
  BY DEF Outcome
<1>4. o.type = "search.index.rejected" <=> doc[o.tx].moderationStatus = "REJECT"
  BY <1>0, OutcomeFits, EmitType
<1> HIDE DEF o
<1>5. /\ n \in Nat \ {0} /\ n - 1 \in Nat /\ DOMAIN outcomes = 1..(n - 1) /\ DOMAIN outcomes' = 1..n
      /\ outcomes'[n] = o /\ \A k \in DOMAIN outcomes : outcomes'[k] = outcomes[k]
  BY <1>1, <1>2
<1> HIDE DEF n
<1> SUFFICES ASSUME errors = 0, NEW t \in Tx, doc[t].base
             PROVE  Reported(t)'
  BY <1>0 DEF ReportedInv
<1>6. CASE t = o.tx
  <2> DEFINE sent == {k \in DOMAIN outcomes' : outcomes'[k].tx = t}
             top == Max(sent)
  <2>1. n \in sent /\ sent \in SUBSET (1..n)
    BY <1>5, <1>6
  <2>2. top \in 1..n /\ n <= top
    <3> HIDE DEF sent
    <3> QED
      BY <1>5, <2>1, LastPosition
  <2>3. top = n
    BY <1>5, <2>2
  <2>4. outcomes'[top].type = IF doc'[t].moderationStatus = "REJECT"
                              THEN "search.index.rejected" ELSE "search.index.updated"
    BY <1>0, <1>3, <1>4, <1>5, <1>6, <2>3
  <2> QED
    BY <2>1, <2>4 DEF Reported, OutcomesOf
<1>7. CASE t # o.tx
  <2>1. ~Owed(t)
    BY <1>3, <1>7, OwedByHandler DEF WouldReport
  <2>2. Reported(t)
    BY <2>1 DEF ReportedInv
  <2>3. {k \in DOMAIN outcomes' : outcomes'[k].tx = t}
          = {k \in DOMAIN outcomes : outcomes[k].tx = t}
    BY <1>5, <1>7
  <2>4. Max(OutcomesOf(t)) \in OutcomesOf(t)
    <3>1. OutcomesOf(t) \in SUBSET (1..(n - 1)) /\ OutcomesOf(t) # {}
      BY <1>5, <2>2 DEF Reported, OutcomesOf
    <3> QED
      BY <1>5, <3>1, LastPosition
  <2>5. outcomes'[Max(OutcomesOf(t))] = outcomes[Max(OutcomesOf(t))]
    BY <1>5, <2>4 DEF OutcomesOf
  <2> QED
    BY <1>0, <2>2, <2>3, <2>5 DEF Reported, OutcomesOf
<1> QED
  BY <1>6, <1>7

\* What is deleted has no base data, and the rest is not touched.
LEMMA ReportedDelete ==
    ASSUME Prefetch = 1, IInv, SerialInv, ReportedInv,
           NEW i \in DOMAIN inflight, DeleteDocument(i)
    PROVE  ReportedInv'
<1>1. /\ doc \in [Tx -> Documents] /\ outcomes' = outcomes /\ errors' = errors
      /\ doc' = [doc EXCEPT ![inflight[i].msg.tx] = NoDocument]
      /\ inflight[i].pc = "deleting"
  BY DEF DeleteDocument, Delete, IInv, TypeOK
<1>2. \A t \in Tx : doc'[t] = NoDocument \/ doc'[t] = doc[t]
  BY <1>1
<1>3. ~NoDocument.base
  BY DEF NoDocument
<1>4. \A t : ~Owed(t)
  BY <1>1, OwedByHandler, InHandOnly
<1> QED
  BY <1>1, <1>2, <1>3, <1>4, ReportedKept DEF ReportedInv

LEMMA ReportedStep ==
    Prefetch = 1 /\ IInv /\ SerialInv /\ ReportedInv /\ [Next]_vars => ReportedInv'
<1> SUFFICES ASSUME Prefetch = 1, IInv, SerialInv, ReportedInv, [Next]_vars
             PROVE  ReportedInv'
  OBVIOUS
<1>1. CASE UNCHANGED vars
  <2>1. UNCHANGED <<doc, outcomes, errors, inflight, queue, processed>>
    BY <1>1 DEF vars, brokerVars
  <2>2. ASSUME NEW t, Owed(t)
        PROVE  Owed(t)'
    <3>1. PICK m \in Events : WouldReport(m, t) /\ (InHand(m) \/ Redelivered(m))
      BY <2>2 DEF Owed
    <3>2. WouldReport(m, t)' /\ (InHand(m)' \/ Redelivered(m)')
      BY <2>1, <3>1 DEF WouldReport, InHand, Redelivered, Remembered
    <3> QED
      BY <3>2 DEF Owed
  <2>3. \A t : Reported(t) => Reported(t)'
    BY <2>1, ReportedKept
  <2> QED
    BY <2>1, <2>2, <2>3 DEF ReportedInv
<1>2. ASSUME NEW i \in DOMAIN inflight, HandlerFails(i)
      PROVE  ReportedInv'
  <2>1. errors' # 0
    BY <1>2 DEF HandlerFails, IInv, TypeOK
  <2> QED
    BY <2>1 DEF ReportedInv
<1>3. ASSUME NEW i \in DOMAIN inflight, HandlerStep(i)
      PROVE  ReportedInv'
  BY <1>2, <1>3, ReportedRead, ReportedLeave, ReportedUpsert, ReportedPublish, ReportedDelete
     DEF HandlerStep
<1> QED
  BY <1>1, <1>3, ReportedConsume, ReportedRestart, ReportedArrive DEF Next

\* LastOutcomeMatchesIndex of the run search_merge: with nothing under way,
\* transaction-service has been told, and told last, what the index holds.
THEOREM LastOutcomeAlwaysMatches ==
    ASSUME BoundsAssumption, Prefetch = 1
    PROVE  Spec => []LastOutcomeMatchesIndex
<1>1. Init => ReportedInv
  BY DEF Init, ReportedInv, NoDocument
<1>2. IInv /\ SerialInv /\ ReportedInv /\ [Next]_vars => ReportedInv'
  BY ReportedStep
<1>3. ReportedInv => LastOutcomeMatchesIndex
  <2>1. AtRest => \A t : ~Owed(t)
    BY DEF AtRest, Owed, InHand, Redelivered
  <2> QED
    BY <2>1 DEF ReportedInv, LastOutcomeMatchesIndex, Reported
<1> QED
  BY <1>1, <1>2, <1>3, Serially, PTL DEF Spec

-----------------------------------------------------------------------------
(***************************************************************************)
(* HandledOncePerLife, with one delivery at a time.  Each event e has some *)
(* number c of lapses: each cost a whole window of messages about other    *)
(* events that were taken from the queue, and allowed one more handling.   *)
(* While e is remembered, the messages since then count towards the next   *)
(* lapse.  A restart allows a handling too; the delivery it puts back into *)
(* the queue takes one message, at most a lapse, from what was counted.    *)
(***************************************************************************)
IdsDistinct == \A e, f \in Events : e.id = f.id => e = f

\* The messages about other events that were taken from the queue.
Passed(e) == OthersArrived(e) - Cardinality(Others(queue, e))

Reports(e) == {i \in DOMAIN outcomes : outcomes[i].sourceId = e.id}

\* A handler of e that may yet report.
Unreported(e) == \E i \in DOMAIN inflight : inflight[i].msg = e /\ inflight[i].pc # "acking"

Handlings(e) == Cardinality(Reports(e)) + IF Unreported(e) THEN 1 ELSE 0

\* c lapses account for the handlings of e.
EventLapsed(e, c) ==
    Lapsed(processed, e.id, MaxTracked, Passed(e), Handlings(e), restarts, c)

\* The event in hand is the one remembered last.
HandledIsLast ==
    \A i \in DOMAIN inflight :
        processed # << >> /\ processed[Len(processed)] = inflight[i].msg.id

RepeatInv == HandledIsLast /\ \A e \in Events : \E c \in Int : EventLapsed(e, c)

\* The variables the counts are taken of.
LEMMA CountsType ==
    ASSUME BoundsAssumption, IsFiniteSet(Events), IInv, SerialInv, NEW e \in Events
    PROVE  /\ OthersArrived(e) \in Int /\ OthersArrived(e) = Total(arrivals, Events \ {e})
           /\ Cardinality(Others(queue, e)) \in Nat /\ Passed(e) \in Int
           /\ IsFiniteSet(Reports(e)) /\ Cardinality(Reports(e)) \in Nat
           /\ Handlings(e) \in Nat /\ restarts \in Nat
           /\ MaxTracked \in Nat \ {0}
<1>1. \A x \in Events \ {e} : arrivals[x] \in Int
  BY DEF IInv, TypeOK, BoundsAssumption
<1>2. IsFiniteSet(Events \ {e})
  BY FS_RemoveElement
<1>3. Total(arrivals, Events \ {e}) \in Int
  <2> DEFINE more == [x \in Events \ {e} |-> arrivals[x] + 0]
  <2>1. \A x \in Events \ {e} : more[x] = IF x = e THEN arrivals[x] + 1 ELSE arrivals[x]
    BY <1>1
  <2> HIDE DEF more
  <2> QED
    BY <1>1, <1>2, <2>1, TotalGrows
<1>4. OthersArrived(e) = Total(arrivals, Events \ {e})
  BY DEF OthersArrived, Total
<1>5. Cardinality(Others(queue, e)) \in Nat
  BY OthersFinite DEF IInv, TypeOK
<1>6. IsFiniteSet(Reports(e)) /\ Cardinality(Reports(e)) \in Nat
  <2>1. DOMAIN outcomes = 1..Len(outcomes) /\ Len(outcomes) \in Nat
    BY DEF SerialInv
  <2>2. IsFiniteSet(1..Len(outcomes)) /\ Reports(e) \subseteq 1..Len(outcomes)
    BY <2>1, FS_Interval DEF Reports
  <2> QED
    BY <2>2, FS_Subset, FS_CardinalityType
<1>7. restarts \in Nat
  BY DEF IInv, TypeOK, BoundsAssumption
<1>8. Passed(e) \in Int
  BY <1>3, <1>4, <1>5 DEF Passed
<1>9. Handlings(e) \in Nat
  BY <1>6 DEF Handlings
<1> QED
  BY <1>3, <1>4, <1>5, <1>6, <1>7, <1>8, <1>9, SearchAssumption

\* A message taken from the queue has passed, unless it is one of e.
LEMMA DeliveryPasses ==
    ASSUME BoundsAssumption, IsFiniteSet(Events), IInv, SerialInv, NEW e \in Events,
           NEW m \in Events, Delivers(m), arrivals' = arrivals
    PROVE  Passed(e)' = Passed(e) + IF m = e THEN 0 ELSE 1
<1>1. queue \in Seq(Events) /\ queue # << >> /\ m = Head(queue) /\ queue' = Tail(queue)
  BY DEF Delivers, IInv, TypeOK
<1>2. Cardinality(Others(queue, e))
        = Cardinality(Others(queue', e)) + IF m = e THEN 0 ELSE 1
  BY <1>1, OthersTail
<1>3. OthersArrived(e)' = OthersArrived(e)
  BY DEF OthersArrived, MapThenSumSet, MapThenFoldSet
<1>4. queue' \in Seq(Events)
  BY <1>1
<1>5. Cardinality(Others(queue', e)) \in Nat
  BY <1>4, OthersFinite
<1>6. OthersArrived(e) \in Int /\ Cardinality(Others(queue, e)) \in Nat
  BY CountsType
<1>7. /\ Passed(e) = OthersArrived(e) - Cardinality(Others(queue, e))
      /\ Passed(e)' = OthersArrived(e) - Cardinality(Others(queue', e))
  BY <1>3 DEF Passed
<1> QED
  BY <1>2, <1>5, <1>6, <1>7

\* A message that arrives has not passed.
LEMMA ArrivalStays ==
    ASSUME BoundsAssumption, IsFiniteSet(Events), IInv, SerialInv, NEW e \in Events,
           NEW m \in Events, Arrive(m)
    PROVE  Passed(e)' = Passed(e)
<1>1. queue \in Seq(Events) /\ queue' = Append(queue, m)
      /\ arrivals \in [Events -> 0..MaxCopies]
      /\ arrivals' = [arrivals EXCEPT ![m] = arrivals[m] + 1]
  BY DEF Arrive, IInv, TypeOK
<1>2. Cardinality(Others(queue', e))
        = Cardinality(Others(queue, e)) + IF m = e THEN 0 ELSE 1
  BY <1>1, OthersAppend
<1>3. IsFiniteSet(Events \ {e}) /\ (m \in Events \ {e} <=> m # e)
  BY FS_RemoveElement
<1>4. \A x \in Events \ {e} :
         /\ arrivals[x] \in Int
         /\ arrivals'[x] = IF x = m THEN arrivals[x] + 1 ELSE arrivals[x]
  BY <1>1 DEF BoundsAssumption
<1> DEFINE f == arrivals
           g == arrivals'
           S == Events \ {e}
<1>5. Total(arrivals', Events \ {e})
        = IF m = e THEN Total(arrivals, Events \ {e}) ELSE Total(arrivals, Events \ {e}) + 1
  <2>1. \A x \in S : f[x] \in Int /\ g[x] = IF x = m THEN f[x] + 1 ELSE f[x]
    BY <1>4
  <2>2. IsFiniteSet(S) /\ (m \in S <=> m # e)
    BY <1>3
  <2> HIDE DEF f, g, S
  <2>3. Total(g, S) = IF m \in S THEN Total(f, S) + 1 ELSE Total(f, S)
    BY <2>1, <2>2, TotalGrows
  <2> QED
    BY <2>2, <2>3 DEF f, g, S
<1>6. OthersArrived(e)' = Total(arrivals', Events \ {e})
  BY DEF OthersArrived, Total, MapThenSumSet, MapThenFoldSet
<1> QED
  BY <1>2, <1>5, <1>6, CountsType DEF Passed

\* With a report the handling it belongs to is over.
LEMMA EmitCounts ==
    ASSUME BoundsAssumption, IsFiniteSet(Events), IdsDistinct, IInv, SerialInv, NEW e \in Events,
           NEW i \in DOMAIN inflight, Emit(inflight[i])
    PROVE  Cardinality(Reports(e))'
                = Cardinality(Reports(e)) + IF inflight[i].msg = e THEN 1 ELSE 0
<1> DEFINE o == Outcome(inflight[i])
           n == Len(outcomes) + 1
<1>1. o \in OutcomeRecords
  BY InflightShape DEF OutcomeRecords
<1>2. /\ outcomes' = Append(outcomes, o) /\ outcomes \in Seq(OutcomeRecords)
  BY DEF Emit, SerialInv
<1>3. inflight[i].msg = e <=> o.sourceId = e.id
  BY InflightShape DEF Outcome, IdsDistinct
<1> HIDE DEF o
<1>4. /\ DOMAIN outcomes' = DOMAIN outcomes \cup {n} /\ n \notin DOMAIN outcomes
      /\ outcomes'[n] = o /\ \A k \in DOMAIN outcomes : outcomes'[k] = outcomes[k]
  BY <1>1, <1>2
<1> HIDE DEF n
<1>5. Reports(e)' = Reports(e) \cup (IF o.sourceId = e.id THEN {n} ELSE {})
  BY <1>4 DEF Reports
<1>6. /\ n \notin Reports(e) /\ IsFiniteSet(Reports(e)) /\ Cardinality(Reports(e)) \in Nat
  BY <1>4, CountsType DEF Reports
<1>7. CASE o.sourceId = e.id
  <2>1. Cardinality(Reports(e) \cup {n}) = Cardinality(Reports(e)) + 1
    BY <1>6, FS_AddElement
  <2> QED
    BY <1>3, <1>5, <1>7, <2>1
<1>8. CASE o.sourceId # e.id
  BY <1>3, <1>5, <1>6, <1>8
<1> QED
  BY <1>7, <1>8

LEMMA HandlerCounts ==
    ASSUME BoundsAssumption, IsFiniteSet(Events), IdsDistinct, Prefetch = 1, IInv, SerialInv,
           NEW e \in Events, NEW i \in DOMAIN inflight, HandlerStep(i)
    PROVE  Handlings(e)' <= Handlings(e)
<1> DEFINE h == inflight[i]
<1>0. /\ DOMAIN inflight = {i} /\ Cardinality(Reports(e)) \in Nat
      /\ h \in Handlers /\ inflight \in Seq(Handlers)
  BY OneHandler, CountsType, InflightShape
<1>1. CASE Emit(h) /\ h.pc = "publishing" /\ (Leave(i) \/ Goto(i, "acking"))
  <2>1. ~Unreported(e)'
    <3>1. CASE Leave(i)
      BY <3>1, NoneLeft DEF Unreported
    <3>2. CASE Goto(i, "acking")
      <4> DEFINE g == [msg |-> h.msg, known |-> h.known, pc |-> "acking"]
      <4>1. g \in Handlers /\ inflight' = [inflight EXCEPT ![i] = g] /\ g.pc = "acking"
        BY <1>0, <3>2, GotoShape DEF Handlers
      <4> HIDE DEF g
      <4>2. DOMAIN inflight' = {i} /\ inflight'[i] = g
        BY <4>1, OnlyOne
      <4> QED
        BY <4>1, <4>2 DEF Unreported
    <3> QED
      BY <1>1, <3>1, <3>2
  <2>2. h.msg = e => Unreported(e)
    BY <1>1 DEF Unreported
  <2>3. Cardinality(Reports(e))' = Cardinality(Reports(e)) + IF h.msg = e THEN 1 ELSE 0
    BY <1>1, EmitCounts
  <2>4. CASE h.msg = e
    BY <1>0, <2>1, <2>2, <2>3, <2>4 DEF Handlings
  <2>5. CASE h.msg # e
    BY <1>0, <2>1, <2>3, <2>5 DEF Handlings
  <2> QED
    BY <2>4, <2>5
<1>2. CASE outcomes' = outcomes
  <2>1. Unreported(e)' => Unreported(e)
    <3>1. CASE Leave(i)
      BY <3>1, NoneLeft DEF Unreported
    <3>2. CASE ReadDocument(i)
      <4> DEFINE g == [msg |-> h.msg, known |-> doc[h.msg.tx], pc |-> "writing"]
      <4>1. g \in Handlers /\ inflight' = [inflight EXCEPT ![i] = g] /\ g.msg = h.msg
            /\ h.pc = "reading"
        BY <1>0, <3>2, InflightShape DEF ReadDocument, Handlers, IInv, TypeOK, Fits
      <4> HIDE DEF g
      <4>2. DOMAIN inflight' = {i} /\ inflight'[i] = g
        BY <4>1, OnlyOne
      <4> QED
        BY <1>0, <4>1, <4>2 DEF Unreported
    <3>3. CASE UpsertDocument(i) \/ DeleteDocument(i)
      <4>1. PICK step \in {"publishing", "acking"} : Goto(i, step) /\ h.pc # "acking"
        BY <3>3 DEF UpsertDocument, DeleteDocument
      <4> DEFINE g == [msg |-> h.msg, known |-> h.known, pc |-> step]
      <4>2. g \in Handlers /\ inflight' = [inflight EXCEPT ![i] = g] /\ g.msg = h.msg
        BY <1>0, <4>1, GotoShape DEF Handlers
      <4> HIDE DEF g
      <4>3. DOMAIN inflight' = {i} /\ inflight'[i] = g
        BY <4>2, OnlyOne
      <4> QED
        BY <1>0, <4>1, <4>2, <4>3 DEF Unreported
    <3>4. CASE PublishOutcome(i)
      <4> DEFINE g == [msg |-> h.msg, known |-> h.known, pc |-> "acking"]
      <4>1. g \in Handlers /\ inflight' = [inflight EXCEPT ![i] = g] /\ g.pc = "acking"
        BY <1>0, <3>4, GotoShape DEF Handlers, PublishOutcome
      <4> HIDE DEF g
      <4>2. DOMAIN inflight' = {i} /\ inflight'[i] = g
        BY <4>1, OnlyOne
      <4> QED
        BY <4>1, <4>2 DEF Unreported
    <3> QED
      BY <3>1, <3>2, <3>3, <3>4 DEF HandlerStep, SkipStale, Ack, HandlerFails
  <2>2. Reports(e)' = Reports(e)
    BY <1>2 DEF Reports
  <2>3. Handlings(e)' = Cardinality(Reports(e)) + IF Unreported(e)' THEN 1 ELSE 0
    BY <2>2 DEF Handlings
  <2> QED
    BY <1>0, <2>1, <2>3 DEF Handlings
<1> QED
  BY <1>1, <1>2 DEF HandlerStep, ReadDocument, SkipStale, UpsertDocument, PublishOutcome,
                    DeleteDocument, Ack, HandlerFails

LEMMA WindowOfIds ==
    ASSUME IInv
    PROVE  processed \in Window(Ids, MaxTracked) /\ MaxTracked \in Nat \ {0}
  BY SearchAssumption DEF IInv, TypeOK, Ids

LEMMA LapsesStay ==
    ASSUME BoundsAssumption, IsFiniteSet(Events), IInv, SerialInv,
           NEW e \in Events, NEW c \in Int, EventLapsed(e, c), UNCHANGED <<processed, restarts>>,
           Passed(e)' \in Int, Passed(e)' >= Passed(e),
           Handlings(e)' \in Nat, Handlings(e)' <= Handlings(e)
    PROVE  EventLapsed(e, c)'
<1>1. /\ processed \in Window(Ids, MaxTracked) /\ MaxTracked \in Nat \ {0}
      /\ Passed(e) \in Int /\ Handlings(e) \in Nat /\ restarts \in Nat
  BY WindowOfIds, CountsType
<1>2. Lapsed(processed, e.id, MaxTracked, Passed(e), Handlings(e), restarts, c)
  BY DEF EventLapsed
<1>3. Lapsed(processed, e.id, MaxTracked, Passed(e)', Handlings(e)', restarts, c)
  BY <1>1, <1>2, LapsedStays
<1> QED
  BY <1>3 DEF EventLapsed

\* A new event is remembered: it is e, or it moves e towards its next lapse.
LEMMA LapsesAccept ==
    ASSUME BoundsAssumption, IsFiniteSet(Events), IdsDistinct, IInv, SerialInv,
           NEW e \in Events, NEW c \in Int, EventLapsed(e, c),
           NEW m \in Events, Accept(m), UNCHANGED <<arrivals, restarts>>,
           Handlings(e)' \in Nat, Handlings(e)' <= Handlings(e) + IF m = e THEN 1 ELSE 0
    PROVE  \E d \in Int : EventLapsed(e, d)'
<1> DEFINE v == processed'
           p == Passed(e)'
           h == Handlings(e)'
<1>1. /\ processed \in Window(Ids, MaxTracked) /\ MaxTracked \in Nat \ {0}
      /\ Passed(e) \in Int /\ Handlings(e) \in Nat /\ restarts \in Nat
  BY WindowOfIds, CountsType
<1>2. Lapsed(processed, e.id, MaxTracked, Passed(e), Handlings(e), restarts, c)
  BY DEF EventLapsed
<1>3. /\ p = Passed(e) + IF m = e THEN 0 ELSE 1
      /\ ~Remembered(processed, m.id) /\ v = Remember(processed, m.id, MaxTracked)
  BY DeliveryPasses DEF Accept
<1>4. m.id \in Ids /\ e.id \in Ids /\ h \in Nat
  BY DEF Ids
<1>5. ASSUME NEW d \in Int, Lapsed(v, e.id, MaxTracked, p, h, restarts, d)
      PROVE  \E x \in Int : EventLapsed(e, x)'
  <2>1. EventLapsed(e, d)'
    BY <1>5 DEF EventLapsed
  <2> QED
    BY <2>1
<1>6. CASE m = e
  <2>1. p = Passed(e) /\ h <= Handlings(e) + 1
    BY <1>1, <1>3, <1>6
  <2> HIDE DEF v, p, h
  <2>2. Lapsed(v, e.id, MaxTracked, Passed(e), h, restarts, c)
    BY <1>1, <1>2, <1>3, <1>4, <1>6, <2>1, LapsedOwn
  <2> QED
    BY <1>5, <2>1, <2>2
<1>7. CASE m # e
  <2>1. p = Passed(e) + 1 /\ h <= Handlings(e) /\ m.id # e.id
    BY <1>1, <1>3, <1>7 DEF IdsDistinct
  <2> HIDE DEF v, p, h
  <2>2. \E d \in Int : Lapsed(v, e.id, MaxTracked, Passed(e) + 1, h, restarts, d)
    BY <1>1, <1>2, <1>3, <1>4, <2>1, LapsedOther
  <2> QED
    BY <1>5, <2>1, <2>2
<1> QED
  BY <1>6, <1>7

\* A restart allows another handling, and puts back a delivery of another event
\* that has just been remembered, or that took e one lapse further.
LEMMA LapsesRestart ==
    ASSUME BoundsAssumption, IsFiniteSet(Events), IdsDistinct, Prefetch = 1, IInv, SerialInv,
           HandledIsLast, NEW e \in Events, NEW c \in Int, EventLapsed(e, c), Restart
    PROVE  \E d \in Int : EventLapsed(e, d)'
<1> DEFINE passed == Passed(e)
           handlings == Handlings(e)
           arrived == OthersArrived(e)
           waiting == Cardinality(Others(queue, e))
<1>0. /\ passed \in Int /\ arrived \in Int /\ waiting \in Nat /\ passed = arrived - waiting
      /\ handlings \in Nat /\ restarts \in Nat /\ MaxTracked \in Nat \ {0}
      /\ processed \in Window(Ids, MaxTracked)
      /\ Lapsed(processed, e.id, MaxTracked, passed, handlings, restarts, c)
  <2>1. passed = arrived - waiting
    BY DEF Passed
  <2>2. Lapsed(processed, e.id, MaxTracked, passed, handlings, restarts, c)
    BY DEF EventLapsed
  <2> QED
    BY <2>1, <2>2, WindowOfIds, CountsType
<1>1. /\ processed' = << >> /\ inflight' = << >> /\ restarts' = restarts + 1
      /\ outcomes' = outcomes /\ arrivals' = arrivals /\ queue' = Requeue(inflight, queue)
  BY DEF Restart
<1>3. Handlings(e)' \in Nat /\ Handlings(e)' <= handlings
  <2>1. Reports(e)' = Reports(e) /\ ~Unreported(e)'
    BY <1>1 DEF Reports, Unreported
  <2>2. Handlings(e)' = Cardinality(Reports(e)) + 0
    BY <2>1 DEF Handlings
  <2>3. handlings \in {Cardinality(Reports(e)) + 0, Cardinality(Reports(e)) + 1}
    BY DEF Handlings
  <2>4. Cardinality(Reports(e)) \in Nat
    BY CountsType
  <2> HIDE DEF handlings
  <2> QED
    BY <2>2, <2>3, <2>4
<1>4. OthersArrived(e)' = arrived
  BY <1>1 DEF OthersArrived, MapThenSumSet, MapThenFoldSet
<1>5. ASSUME \/ Passed(e)' = passed
             \/ Passed(e)' = passed - 1 /\ processed[Len(processed)] # e.id
      PROVE  \E d \in Int : EventLapsed(e, d)'
  <2> DEFINE p == Passed(e)'
             h == Handlings(e)'
  <2>0. processed[Len(processed)] = e.id => p = passed
    BY <1>5
  <2>1. h \in Nat /\ h <= handlings
    BY <1>3
  <2>2. p \in Int /\ (p = passed \/ p = passed - 1)
    BY <1>0, <1>5
  <2> HIDE DEF p, h, passed, handlings
  <2>3. \E d \in Int : Lapsed(<< >>, e.id, MaxTracked, p, h, restarts + 1, d)
    <3>1. /\ passed \in Int /\ handlings \in Nat /\ restarts \in Nat /\ MaxTracked \in Nat \ {0}
          /\ processed \in Window(Ids, MaxTracked)
          /\ Lapsed(processed, e.id, MaxTracked, passed, handlings, restarts, c)
      BY <1>0
    <3> QED
      BY <2>0, <2>1, <2>2, <3>1, LapsedForgotten
  <2>4. PICK d \in Int : Lapsed(<< >>, e.id, MaxTracked, p, h, restarts + 1, d)
    BY <2>3
  <2>5. EventLapsed(e, d)'
    BY <1>1, <2>4 DEF EventLapsed, p, h
  <2> QED
    BY <2>5
<1>6. queue \in Seq(Events) /\ inflight \in Seq(Handlers) /\ Len(inflight) \in {0, 1}
      /\ \A h \in Handlers : h.msg \in Events
  <2>1. queue \in Seq(Events) /\ inflight \in Seq(Handlers) /\ Len(inflight) <= 1
    BY InflightShape DEF IInv, TypeOK
  <2>2. Len(inflight) \in Nat
    BY <2>1
  <2>3. \A h \in Handlers : h.msg \in Events
    BY DEF Handlers
  <2>4. Len(inflight) \in {0, 1}
    <3> DEFINE l == Len(inflight)
    <3>1. l \in Nat /\ l <= 1
      BY <2>1, <2>2
    <3> HIDE DEF l
    <3>2. l \in {0, 1}
      BY <3>1
    <3> QED
      BY <3>2 DEF l
  <2> QED
    BY <2>1, <2>3, <2>4
<1>9. CASE Len(inflight) = 0 \/ \E i \in DOMAIN inflight : inflight[i].msg = e
  <2>1. Cardinality(Others(queue', e)) = waiting
    <3>1. CASE Len(inflight) = 0
      <4>1. inflight = << >>
        BY <1>6, <3>1
      <4> QED
        BY <1>1, <1>6, <4>1, RequeueNone
    <3>2. ASSUME NEW i \in DOMAIN inflight, inflight[i].msg = e
          PROVE  Cardinality(Others(queue', e)) = waiting
      <4>1. i = 1 /\ Len(inflight) = 1
        BY OneHandler
      <4>2. queue' \in Seq(Events) /\ queue' # << >> /\ Head(queue') = e /\ Tail(queue') = queue
        BY <1>1, <1>6, <3>2, <4>1, RequeueOne
      <4>3. Cardinality(Others(queue', e))
              = Cardinality(Others(Tail(queue'), e)) + IF Head(queue') = e THEN 0 ELSE 1
        BY <4>2, OthersTail
      <4>4. Cardinality(Others(queue', e)) = Cardinality(Others(queue, e)) + 0
        BY <4>2, <4>3
      <4> QED
        BY <1>0, <4>4
    <3> QED
      BY <1>9, <3>1, <3>2
  <2>2. Passed(e)' = passed
    BY <1>0, <1>4, <2>1 DEF Passed
  <2> QED
    BY <1>5, <2>2
<1>10. ASSUME NEW i \in DOMAIN inflight, inflight[i].msg # e
       PROVE  \E d \in Int : EventLapsed(e, d)'
  <2>1. i = 1 /\ Len(inflight) = 1 /\ inflight[i].msg \in Events
    BY OneHandler, InflightShape
  <2>2. /\ queue' \in Seq(Events) /\ queue' # << >>
        /\ Head(queue') = inflight[i].msg /\ Tail(queue') = queue
    BY <1>1, <1>6, <2>1, RequeueOne
  <2>3. Cardinality(Others(queue', e))
              = Cardinality(Others(Tail(queue'), e)) + IF Head(queue') = e THEN 0 ELSE 1
    BY <2>2, OthersTail
  <2>4. Passed(e)' = passed - 1
    <3>1. Cardinality(Others(queue', e)) = waiting + 1
      BY <1>10, <2>2, <2>3
    <3>2. Passed(e)' = arrived - Cardinality(Others(queue', e))
      BY <1>4 DEF Passed
    <3> HIDE DEF passed, arrived, waiting
    <3> QED
      BY <1>0, <3>1, <3>2
  <2>5. processed[Len(processed)] # e.id
    BY <1>10, <2>1 DEF HandledIsLast, IdsDistinct
  <2> QED
    BY <1>5, <2>4, <2>5
<1> QED
  <2>1. Len(inflight) = 1 => 1 \in DOMAIN inflight
    BY <1>6
  <2> QED
    BY <1>6, <1>9, <1>10, <2>1

\* A handler that goes on keeps its message, and what is remembered.
LEMMA HandlerKeeps ==
    ASSUME Prefetch = 1, IInv, NEW i \in DOMAIN inflight, HandlerStep(i)
    PROVE  /\ UNCHANGED <<queue, arrivals, processed, restarts>>
           /\ \A j \in DOMAIN inflight' : j = i /\ inflight'[j].msg = inflight[i].msg
<1> DEFINE h == inflight[i]
<1>0. h \in Handlers /\ inflight \in Seq(Handlers) /\ DOMAIN inflight = {i}
  BY OneHandler, InflightShape
<1>1. UNCHANGED <<queue, arrivals, processed, restarts>>
  BY DEF HandlerStep, ReadDocument, SkipStale, UpsertDocument, PublishOutcome,
         DeleteDocument, Ack, HandlerFails, brokerVars
<1>2. CASE Leave(i)
  BY <1>1, <1>2, NoneLeft
<1>3. ASSUME NEW g, inflight' = [inflight EXCEPT ![i] = g], g.msg = h.msg
      PROVE  \A j \in DOMAIN inflight' : j = i /\ inflight'[j].msg = inflight[i].msg
  BY <1>0, <1>3
<1>4. CASE ReadDocument(i)
  BY <1>1, <1>3, <1>4 DEF ReadDocument
<1>5. ASSUME NEW step, Goto(i, step)
      PROVE  \A j \in DOMAIN inflight' : j = i /\ inflight'[j].msg = inflight[i].msg
  BY <1>3, <1>5, GotoShape
<1> QED
  BY <1>1, <1>2, <1>4, <1>5 DEF HandlerStep, SkipStale, UpsertDocument, PublishOutcome,
                                DeleteDocument, Ack, HandlerFails

LEMMA RepeatConsume ==
    ASSUME BoundsAssumption, IsFiniteSet(Events), IdsDistinct, Prefetch = 1, IInv, SerialInv,
           RepeatInv, Consume
    PROVE  RepeatInv'
<1>1. /\ UNCHANGED <<arrivals, outcomes, restarts>>
      /\ \A e \in Events : /\ Handlings(e) \in Nat /\ Passed(e) \in Int
                           /\ Handlings(e)' \in Nat /\ Passed(e)' \in Int
                           /\ Cardinality(Reports(e)) \in Nat
  <2>1. UNCHANGED <<arrivals, outcomes, restarts>>
    BY DEF Consume, SkipDuplicate, IgnoreEvent, StartHandler
  <2>2. ASSUME NEW e \in Events
        PROVE  /\ Handlings(e) \in Nat /\ Passed(e) \in Int
               /\ Handlings(e)' \in Nat /\ Passed(e)' \in Int
               /\ Cardinality(Reports(e)) \in Nat
    <3>1. /\ Handlings(e) \in Nat /\ Passed(e) \in Int /\ Cardinality(Reports(e)) \in Nat
      BY CountsType
    <3>2. Reports(e)' = Reports(e)
      BY <2>1 DEF Reports
    <3>3. Handlings(e)' \in Nat
      BY <3>1, <3>2 DEF Handlings
    <3>4. PICK m \in Events : Delivers(m)
      BY DEF Consume, SkipDuplicate, IgnoreEvent, StartHandler, Accept
    <3>5. Passed(e)' = Passed(e) + IF m = e THEN 0 ELSE 1
      BY <2>1, <3>4, DeliveryPasses
    <3> QED
      BY <3>1, <3>3, <3>5
  <2> QED
    BY <2>1, <2>2
<1>2. CASE SkipDuplicate
  <2>1. PICK m \in Events : Delivers(m)
    BY <1>2 DEF SkipDuplicate
  <2>2. UNCHANGED <<processed, inflight>>
    BY <1>2 DEF SkipDuplicate
  <2>3. ASSUME NEW e \in Events, NEW c \in Int, EventLapsed(e, c)
        PROVE  EventLapsed(e, c)'
    <3>1. Passed(e)' >= Passed(e)
      <4>1. Passed(e)' = Passed(e) + IF m = e THEN 0 ELSE 1
        BY <1>1, <2>1, DeliveryPasses
      <4> QED
        BY <1>1, <4>1
    <3>2. Handlings(e)' = Handlings(e)
      BY <1>1, <2>2 DEF Handlings, Reports, Unreported
    <3>3. Handlings(e)' <= Handlings(e)
      BY <1>1, <3>2
    <3> QED
      BY <1>1, <2>2, <2>3, <3>1, <3>3, LapsesStay
  <2> QED
    BY <2>2, <2>3 DEF RepeatInv, HandledIsLast
<1>3. ASSUME NEW m \in Events, Accept(m),
             \A e \in Events : Unreported(e)' => Unreported(e) \/ m = e,
             HandledIsLast'
      PROVE  RepeatInv'
  <2>1. ASSUME NEW e \in Events, NEW c \in Int, EventLapsed(e, c)
        PROVE  \E d \in Int : EventLapsed(e, d)'
    <3>1. Reports(e)' = Reports(e)
      BY <1>1 DEF Reports
    <3>2. Handlings(e)' = Cardinality(Reports(e)) + IF Unreported(e)' THEN 1 ELSE 0
      BY <3>1 DEF Handlings
    <3>3. Handlings(e)' <= Handlings(e) + IF m = e THEN 1 ELSE 0
      BY <1>1, <1>3, <3>2 DEF Handlings
    <3> QED
      BY <1>1, <1>3, <2>1, <3>3, LapsesAccept
  <2> QED
    BY <1>3, <2>1 DEF RepeatInv
<1>4. inflight = << >>
  <2>1. inflight \in Seq(Handlers) /\ Len(inflight) < 1
    BY InflightShape DEF Consume, SkipDuplicate, IgnoreEvent, StartHandler, Accept, Delivers
  <2> QED
    BY <2>1
<1>5. CASE IgnoreEvent
  <2>1. inflight' = inflight /\ \E m \in Events : Accept(m)
    BY <1>5 DEF IgnoreEvent
  <2>2. HandledIsLast' /\ \A e \in Events : ~Unreported(e)'
    BY <1>4, <2>1 DEF HandledIsLast, Unreported
  <2> QED
    BY <1>3, <2>1, <2>2
<1>6. CASE StartHandler
  <2>1. PICK m \in Events :
           /\ Accept(m)
           /\ inflight' = Append(inflight,
                 [msg |-> m, known |-> NoDocument,
                  pc |-> IF m.type = "transaction.deleted" THEN "deleting" ELSE "reading"])
    BY <1>6 DEF StartHandler
  <2>2. DOMAIN inflight' = {1} /\ inflight'[1].msg = m
    BY <1>4, <2>1
  <2>3. processed' # << >> /\ processed'[Len(processed')] = m.id
    <3> DEFINE v == processed'
    <3>1. /\ processed \in Window(Ids, MaxTracked) /\ m.id \in Ids
          /\ v = Remember(processed, m.id, MaxTracked)
      BY <2>1 DEF IInv, TypeOK, Ids, Accept
    <3> HIDE DEF v
    <3>2. /\ v \in Seq(Ids) /\ Len(v) \in Nat \ {0} /\ v[Len(v)] = m.id
      BY <3>1, RememberPlaces, SearchAssumption
    <3> QED
      BY <3>2 DEF v
  <2>4. HandledIsLast' /\ \A e \in Events : Unreported(e)' => m = e
    BY <2>2, <2>3 DEF HandledIsLast, Unreported
  <2> QED
    BY <1>3, <2>1, <2>4
<1> QED
  BY <1>2, <1>5, <1>6 DEF Consume

LEMMA RepeatHandlers ==
    ASSUME BoundsAssumption, IsFiniteSet(Events), IdsDistinct, Prefetch = 1, IInv, SerialInv,
           RepeatInv, NEW i \in DOMAIN inflight, HandlerStep(i)
    PROVE  RepeatInv'
<1>1. /\ UNCHANGED <<queue, arrivals, processed, restarts>>
      /\ \A j \in DOMAIN inflight' : j = i /\ inflight'[j].msg = inflight[i].msg
  BY HandlerKeeps
<1>2. HandledIsLast'
  BY <1>1 DEF HandledIsLast, RepeatInv
<1>3. ASSUME NEW e \in Events, NEW c \in Int, EventLapsed(e, c)
      PROVE  EventLapsed(e, c)'
  <2>1. Passed(e)' = Passed(e)
    BY <1>1 DEF Passed, OthersArrived, MapThenSumSet, MapThenFoldSet
  <2>2. Handlings(e)' <= Handlings(e)
    BY HandlerCounts
  <2>3. Passed(e) \in Int /\ Handlings(e) \in Nat
    BY CountsType
  <2>4. Passed(e)' \in Int /\ Passed(e)' >= Passed(e)
    BY <2>1, <2>3
  <2>5. Handlings(e)' \in Nat
    <3>1. Cardinality(Reports(e))' \in Nat
      <4>1. Cardinality(Reports(e)) \in Nat
        BY CountsType
      <4>2. CASE Emit(inflight[i])
        BY <4>1, <4>2, EmitCounts
      <4>3. CASE outcomes' = outcomes
        <5>1. Reports(e)' = Reports(e)
          BY <4>3 DEF Reports
        <5> QED
          BY <4>1, <5>1
      <4> QED
        BY <4>2, <4>3 DEF HandlerStep, ReadDocument, SkipStale, UpsertDocument,
                          PublishOutcome, DeleteDocument, Ack, HandlerFails
    <3> QED
      BY <3>1 DEF Handlings
  <2> QED
    BY <1>1, <1>3, <2>2, <2>4, <2>5, LapsesStay
<1> QED
  BY <1>2, <1>3 DEF RepeatInv

LEMMA RepeatStep ==
    ASSUME BoundsAssumption, IsFiniteSet(Events), IdsDistinct, Prefetch = 1, IInv, SerialInv,
           RepeatInv, [Next]_vars
    PROVE  RepeatInv'
<1>1. CASE UNCHANGED vars
  <2>1. UNCHANGED <<queue, arrivals, inflight, processed, outcomes, restarts>>
    BY <1>1 DEF vars, brokerVars
  <2>2. ASSUME NEW e \in Events, NEW c \in Int, EventLapsed(e, c)
        PROVE  EventLapsed(e, c)'
    <3>1. Passed(e)' = Passed(e)
      BY <2>1 DEF Passed, OthersArrived, MapThenSumSet, MapThenFoldSet
    <3>2. Handlings(e)' = Handlings(e)
      BY <2>1 DEF Handlings, Reports, Unreported
    <3> QED
      BY <2>1, <2>2, <3>1, <3>2 DEF EventLapsed
  <2> QED
    BY <2>1, <2>2 DEF RepeatInv, HandledIsLast
<1>2. ASSUME NEW m \in Events, Arrive(m)
      PROVE  RepeatInv'
  <2>1. UNCHANGED <<inflight, processed, outcomes, restarts>>
    BY <1>2 DEF Arrive
  <2>2. ASSUME NEW e \in Events, NEW c \in Int, EventLapsed(e, c)
        PROVE  EventLapsed(e, c)'
    <3>1. Passed(e)' = Passed(e)
      BY <1>2, ArrivalStays
    <3>2. Handlings(e)' = Handlings(e)
      BY <2>1 DEF Handlings, Reports, Unreported
    <3> QED
      BY <2>1, <2>2, <3>1, <3>2 DEF EventLapsed
  <2> QED
    BY <2>1, <2>2 DEF RepeatInv, HandledIsLast
<1>3. CASE Restart
  <2>1. HandledIsLast'
    BY <1>3 DEF Restart, HandledIsLast
  <2>2. ASSUME NEW e \in Events, NEW c \in Int, EventLapsed(e, c)
        PROVE  \E d \in Int : EventLapsed(e, d)'
    BY <1>3, <2>2, LapsesRestart DEF RepeatInv
  <2> QED
    BY <2>1, <2>2 DEF RepeatInv
<1> QED
  BY <1>1, <1>2, <1>3, RepeatConsume, RepeatHandlers DEF Next

LEMMA RepeatInit ==
    ASSUME BoundsAssumption, IsFiniteSet(Events), Init
    PROVE  RepeatInv
<1>1. ASSUME NEW e \in Events
      PROVE  EventLapsed(e, 0)
  <2>1. OthersArrived(e) = 0
    <3>1. IsFiniteSet(Events \ {e}) /\ \A x \in Events \ {e} : arrivals[x] = 0
      BY FS_RemoveElement DEF Init
    <3>2. Total(arrivals, Events \ {e}) = 0
      BY <3>1, TotalOfZeros
    <3> QED
      BY <3>2 DEF OthersArrived, Total
  <2>2. Others(queue, e) = {} /\ Reports(e) = {} /\ ~Unreported(e)
    BY DEF Init, Others, Reports, Unreported
  <2>3. Cardinality({}) = 0
    BY FS_EmptySet
  <2>4. Passed(e) = 0 /\ Handlings(e) = 0 /\ restarts = 0
    BY <2>1, <2>2, <2>3 DEF Passed, Handlings, Init
  <2>5. ~Remembered(processed, e.id) /\ DOMAIN processed = {}
    BY DEF Init, Remembered
  <2>6. 0 * MaxTracked = 0
    BY SearchAssumption
  <2> QED
    BY <2>4, <2>5, <2>6 DEF EventLapsed, Lapsed
<1>2. HandledIsLast
  BY DEF Init, HandledIsLast
<1> QED
  BY <1>1, <1>2 DEF RepeatInv

LEMMA RepeatEnough ==
    ASSUME BoundsAssumption, IsFiniteSet(Events), IInv, SerialInv, RepeatInv
    PROVE  HandledOncePerLife
<1> SUFFICES ASSUME NEW e \in Events
             PROVE  Cardinality(Reports(e)) <= 1 + restarts + (OthersArrived(e) \div MaxTracked)
  BY DEF HandledOncePerLife, Reports
<1>1. PICK c \in Int : EventLapsed(e, c)
  BY DEF RepeatInv
<1>2. /\ OthersArrived(e) \in Int /\ Cardinality(Others(queue, e)) \in Nat
      /\ Cardinality(Reports(e)) \in Nat /\ restarts \in Nat /\ MaxTracked \in Nat \ {0}
  BY CountsType
<1>3. Passed(e) <= OthersArrived(e) /\ Passed(e) \in Int
  BY <1>2 DEF Passed
<1>4. Cardinality(Reports(e)) <= Handlings(e) /\ Handlings(e) \in Nat
  <2>1. Handlings(e) \in {Cardinality(Reports(e)) + 0, Cardinality(Reports(e)) + 1}
    BY DEF Handlings
  <2> QED
    BY <1>2, <2>1
<1>5. /\ OthersArrived(e) \div MaxTracked \in Int
      /\ Handlings(e) <= 1 + restarts + (OthersArrived(e) \div MaxTracked)
  <2>1. Lapsed(processed, e.id, MaxTracked, Passed(e), Handlings(e), restarts, c)
    BY <1>1 DEF EventLapsed
  <2>2. processed \in Window(Ids, MaxTracked)
    BY WindowOfIds
  <2> QED
    BY <1>2, <1>3, <1>4, <2>1, <2>2, LapsedEnough
<1> QED
  BY <1>2, <1>4, <1>5

\* HandledOncePerLife of the run SearchMerge: with one delivery at a time, an
\* event is reported once, and once more for each restart and for each window
\* of messages about other events (the sum needs finitely many events; ids are
\* random UUIDs).
THEOREM HandledOnceAlways ==
    ASSUME BoundsAssumption, IsFiniteSet(Events), IdsDistinct, Prefetch = 1
    PROVE  Spec => []HandledOncePerLife
<1>1. Spec => [](IInv /\ SerialInv)
  BY Serially
<1>2. Init => RepeatInv
  BY RepeatInit
<1>3. IInv /\ SerialInv /\ RepeatInv /\ [Next]_vars => RepeatInv'
  BY RepeatStep
<1>4. IInv /\ SerialInv /\ RepeatInv => HandledOncePerLife
  BY RepeatEnough
<1> QED
  BY <1>1, <1>2, <1>3, <1>4, PTL DEF Spec

=============================================================================
