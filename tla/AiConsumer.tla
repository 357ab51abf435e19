----------------------------- MODULE AiConsumer -----------------------------
(***************************************************************************)
(* The consumer of ai-service: it asks the language model about each       *)
(* created or updated transaction and publishes one verdict.               *)
(*                                                                         *)
(* Covered: the delivery callback, AiConsumer.handleMessage, the attempts  *)
(* of AiClientService.createChatCompletion (its timer covers the wait for  *)
(* the response headers, not the reading of the body), publishes the       *)
(* broker may have accepted although they are reported as failed, several  *)
(* deliveries of one event at a time, restarts.                            *)
(*                                                                         *)
(* Not covered: prompts and the text of an answer.  What the answer is     *)
(* worth after parseResponse and parseValidAiEnrichmentOutput is one of    *)
(* ALLOW, REVIEW, REJECT and invalid.                                      *)
(***************************************************************************)
EXTENDS Delivery, Integers, FiniteSets, SequencesExt

CONSTANTS
    Tx,           \* transactions
    NoTx,         \* the transactionId of an event that carries none
    Events,       \* the events that may reach the queue
    Prefetch,     \* RABBITMQ_PREFETCH
    MaxTracked,   \* maxTrackedEventIds
    MaxRetries,   \* AI_MAX_RETRIES
    MaxCopies,    \* bound: how often one event may be published
    MaxArrivals,  \* bound: how many messages arrive in all
    MaxErrors,    \* bound: publishes reported as failed
    MaxRestarts   \* bound: crashes and restarts

ASSUME AiAssumption ==
    /\ NoTx \notin Tx
    /\ Prefetch \in Nat \ {0} /\ MaxTracked \in Nat \ {0} /\ MaxRetries \in Nat
    /\ \A e \in Events : DOMAIN e = {"id", "type", "tx"} /\ e.tx \in Tx \cup {NoTx}

VARIABLES
    queue,       \* messages the broker has not delivered yet
    inflight,    \* deliveries being handled, in order of delivery
    processed,   \* processedEventIds
    processing,  \* processingEventIds
    verdicts,    \* what the broker accepted on the AI exchange
    arrivals,    \* how often each event was published
    errors,
    restarts

brokerVars == <<queue, arrivals>>
vars == <<brokerVars, inflight, processed, processing, verdicts, errors, restarts>>

Init ==
    /\ queue = << >>
    /\ inflight = << >>
    /\ processed = << >>
    /\ processing = {}
    /\ verdicts = << >>
    /\ arrivals = [e \in Events |-> 0]
    /\ errors = 0
    /\ restarts = 0

Supported == {"transaction.created", "transaction.updated"}
Answers   == {"ALLOW", "REVIEW", "REJECT", "invalid"}

-----------------------------------------------------------------------------
(***************************************************************************)
(* handleMessage, up to the first await.                                   *)
(***************************************************************************)
\* The broker delivers the message at the head of the queue.
Delivers(m) ==
    /\ queue # << >>
    /\ Len(inflight) < Prefetch
    /\ m = Head(queue)
    /\ queue' = Tail(queue)

\* hasProcessedEvent, or a duplicate of a delivery that is still in flight.
Known(id) == Remembered(processed, id) \/ id \in processing

SkipDuplicate ==
    /\ \E m \in Events : Delivers(m) /\ Known(m.id)
    /\ UNCHANGED <<arrivals, inflight, processed, processing, verdicts, errors, restarts>>

\* An event of another type is remembered and acknowledged.
IgnoreEvent ==
    /\ \E m \in Events :
          /\ Delivers(m)
          /\ ~Known(m.id)
          /\ m.type \notin Supported
          /\ processed' = Remember(processed, m.id, MaxTracked)
    /\ UNCHANGED <<arrivals, inflight, processing, verdicts, errors, restarts>>

\* Without a transactionId the handler throws: nacked and not remembered.
RefuseEvent ==
    /\ \E m \in Events : /\ Delivers(m)
                         /\ ~Known(m.id)
                         /\ m.type \in Supported /\ m.tx = NoTx
    /\ UNCHANGED <<arrivals, inflight, processed, processing, verdicts, errors, restarts>>

\* A handler: the step it is at, its attempt and what became of its answer.
Handler(m, pc, attempt, answer) ==
    [msg |-> m, pc |-> pc, attempt |-> attempt, answer |-> answer]

\* Variant: the event is remembered when its handling starts.
StartHandlerRemembered ==
    /\ \E m \in Events :
          /\ Delivers(m)
          /\ ~Known(m.id)
          /\ m.type \in Supported /\ m.tx # NoTx
          /\ processing' = processing \cup {m.id}
          /\ processed' = Remember(processed, m.id, MaxTracked)
          /\ inflight' = Append(inflight, Handler(m, "fetching", 1, "none"))
    /\ UNCHANGED <<arrivals, verdicts, errors, restarts>>

StartHandler ==
    /\ \E m \in Events :
          /\ Delivers(m)
          /\ ~Known(m.id)
          /\ m.type \in Supported /\ m.tx # NoTx
          /\ processing' = processing \cup {m.id}
          /\ inflight' = Append(inflight, Handler(m, "fetching", 1, "none"))
    /\ UNCHANGED <<arrivals, processed, verdicts, errors, restarts>>

-----------------------------------------------------------------------------
(***************************************************************************)
(* createChatCompletion: at most MaxRetries + 1 attempts.                  *)
(***************************************************************************)
\* fetch resolves: the timer is cleared and the body is read.
HeadersArrive(i) ==
    /\ inflight[i].pc = "fetching"
    /\ inflight' = [inflight EXCEPT ![i].pc = "body"]
    /\ UNCHANGED <<brokerVars, processed, processing, verdicts, errors, restarts>>

\* Variant: the loop ends one attempt too late.
AttemptFailsLate(i) ==
    /\ inflight[i].pc \in {"fetching", "body"}
    /\ inflight' =
          IF inflight[i].attempt > MaxRetries + 1
          THEN [inflight EXCEPT ![i] = Handler(@.msg, "rejecting", @.attempt, "processing_error")]
          ELSE [inflight EXCEPT ![i] = Handler(@.msg, "fetching", @.attempt + 1, @.answer)]
    /\ UNCHANGED <<brokerVars, processed, processing, verdicts, errors, restarts>>

\* Variant: the loop does not count its attempts.
AttemptFailsUncounted(i) ==
    /\ inflight[i].pc \in {"fetching", "body"}
    /\ inflight' = [inflight EXCEPT ![i].pc = "fetching"]
    /\ UNCHANGED <<brokerVars, processed, processing, verdicts, errors, restarts>>

\* Variant: the error after the last attempt escapes the handler's own catch.
AttemptFailsUncaught(i) ==
    /\ inflight[i].pc \in {"fetching", "body"}
    /\ IF inflight[i].attempt > MaxRetries
       THEN /\ inflight' = RemoveAt(inflight, i)
            /\ processing' = processing \ {inflight[i].msg.id}
       ELSE /\ inflight' = [inflight EXCEPT ![i] = Handler(@.msg, "fetching", @.attempt + 1, @.answer)]
            /\ UNCHANGED processing
    /\ UNCHANGED <<brokerVars, processed, verdicts, errors, restarts>>

\* The timer aborts the request, the network fails, the status is not ok, the
\* body breaks off or has no content: another attempt, or the error that makes
\* handleMessage publish a rejection ("processing_error").
AttemptFails(i) ==
    /\ inflight[i].pc \in {"fetching", "body"}
    /\ inflight' =
          IF inflight[i].attempt > MaxRetries
          THEN [inflight EXCEPT ![i] = Handler(@.msg, "rejecting", @.attempt, "processing_error")]
          ELSE [inflight EXCEPT ![i] = Handler(@.msg, "fetching", @.attempt + 1, @.answer)]
    /\ UNCHANGED <<brokerVars, processed, processing, verdicts, errors, restarts>>

\* The model has answered; an invalid answer is rejected from the catch block.
AnswerArrives(i) ==
    /\ inflight[i].pc = "body"
    /\ \E answer \in Answers :
          inflight' = [inflight EXCEPT ![i] =
              Handler(@.msg, IF answer = "invalid" THEN "rejecting" ELSE "publishing",
                      @.attempt, answer)]
    /\ UNCHANGED <<brokerVars, processed, processing, verdicts, errors, restarts>>

-----------------------------------------------------------------------------
(***************************************************************************)
(* Publishing the verdict.  "publishing" and "confirming" are inside the   *)
(* try block, "rejecting" and "confirmingReject" in its catch block.       *)
(***************************************************************************)
Verdict(h) ==
    [type       |-> IF h.answer \in {"ALLOW", "REVIEW"} THEN "ai.enriched" ELSE "ai.rejected",
     tx         |-> h.msg.tx,
     sourceId   |-> h.msg.id,
     moderation |-> IF h.answer \in {"ALLOW", "REVIEW"} THEN h.answer ELSE "none"]

BrokerAccepts(i) ==
    LET h == inflight[i] IN
    /\ h.pc \in {"publishing", "rejecting"}
    /\ verdicts' = Append(verdicts, Verdict(h))
    /\ inflight' = [inflight EXCEPT
          ![i].pc = IF h.pc = "publishing" THEN "confirming" ELSE "confirmingReject"]
    /\ UNCHANGED <<brokerVars, processed, processing, errors, restarts>>

\* Variant: nothing is remembered once the verdict is out.
MarkNothing(id) == UNCHANGED processed

\* markEventProcessed does nothing for an id that is remembered already.
MarkEventProcessed(id) ==
    processed' = IF Remembered(processed, id) THEN processed
                 ELSE Remember(processed, id, MaxTracked)

\* Variant: the id is released only on the error path.
ConfirmedNotReleased(i) ==
    LET h == inflight[i] IN
    /\ h.pc \in {"confirming", "confirmingReject"}
    /\ MarkEventProcessed(h.msg.id)
    /\ inflight' = [inflight EXCEPT ![i].pc = "acking"]
    /\ UNCHANGED <<brokerVars, processing, verdicts, errors, restarts>>

\* The publish resolves: the event is remembered and, finally, released.
Confirmed(i) ==
    LET h == inflight[i] IN
    /\ h.pc \in {"confirming", "confirmingReject"}
    /\ MarkEventProcessed(h.msg.id)
    /\ processing' = processing \ {h.msg.id}
    /\ inflight' = [inflight EXCEPT ![i].pc = "acking"]
    /\ UNCHANGED <<brokerVars, verdicts, errors, restarts>>

\* A publish inside the try block is reported as failed, accepted or not: the
\* catch block publishes a rejection instead.
PublishFails(i) ==
    /\ errors < MaxErrors
    /\ errors' = errors + 1
    /\ inflight[i].pc \in {"publishing", "confirming"}
    /\ inflight' = [inflight EXCEPT ![i] = Handler(@.msg, "rejecting", @.attempt, "processing_error")]
    /\ UNCHANGED <<brokerVars, processed, processing, verdicts, restarts>>

\* The rejection fails too: the event is released, not remembered, and nacked
\* without requeue.
RejectFails(i) ==
    /\ errors < MaxErrors
    /\ errors' = errors + 1
    /\ inflight[i].pc \in {"rejecting", "confirmingReject"}
    /\ processing' = processing \ {inflight[i].msg.id}
    /\ inflight' = RemoveAt(inflight, i)
    /\ UNCHANGED <<brokerVars, processed, verdicts, restarts>>

Ack(i) ==
    /\ inflight[i].pc = "acking"
    /\ inflight' = RemoveAt(inflight, i)
    /\ UNCHANGED <<brokerVars, processed, processing, verdicts, errors, restarts>>

-----------------------------------------------------------------------------
(***************************************************************************)
(* The environment.                                                        *)
(***************************************************************************)
\* The outbox's message reaches the queue; it may be published again.
Arrive(e) ==
    /\ arrivals[e] < MaxCopies
    /\ SumFunction(arrivals) < MaxArrivals
    /\ arrivals' = [arrivals EXCEPT ![e] = @ + 1]
    /\ queue' = Append(queue, e)
    /\ UNCHANGED <<inflight, processed, processing, verdicts, errors, restarts>>

\* The process dies and comes back: memory is lost, deliveries are repeated.
Restart ==
    /\ restarts < MaxRestarts
    /\ restarts' = restarts + 1
    /\ queue' = Requeue(inflight, queue)
    /\ inflight' = << >>
    /\ processed' = << >>
    /\ processing' = {}
    /\ UNCHANGED <<arrivals, verdicts, errors>>

HandlerStep(i) ==
    \/ HeadersArrive(i) \/ AttemptFails(i) \/ AnswerArrives(i) \/ BrokerAccepts(i)
    \/ Confirmed(i) \/ PublishFails(i) \/ RejectFails(i) \/ Ack(i)

Consume == SkipDuplicate \/ IgnoreEvent \/ RefuseEvent \/ StartHandler

Next ==
    \/ \E e \in Events : Arrive(e)
    \/ Consume
    \/ \E i \in DOMAIN inflight : HandlerStep(i)
    \/ Restart

Spec == Init /\ [][Next]_vars

-----------------------------------------------------------------------------
(***************************************************************************)
(* Properties.                                                             *)
(***************************************************************************)
HandlerSteps == {"fetching", "body", "publishing", "confirming", "rejecting",
                 "confirmingReject", "acking"}

\* The values each variable may hold; attempt never exceeds MaxRetries + 1.
TypeOK ==
    /\ queue \in Seq(Events)
    /\ inflight \in Seq([msg : Events, pc : HandlerSteps, attempt : 1..(MaxRetries + 1),
                         answer : Answers \cup {"none", "processing_error"}])
    /\ Len(inflight) <= Prefetch
    /\ processed \in Window({e.id : e \in Events}, MaxTracked)
    /\ processing \subseteq {e.id : e \in Events}
    /\ arrivals \in [Events -> 0..MaxCopies]
    /\ errors \in 0..MaxErrors
    /\ restarts \in 0..MaxRestarts

Running == {i \in DOMAIN inflight : inflight[i].pc # "acking"}

\* "does not run AI for a second message while the first is still in flight": no
\* two handlers work on one event, and an id stays in processingEventIds exactly
\* while its handler runs, on every path out of it (else a retry is lost).
InFlightOnce ==
    /\ \A i, j \in Running : inflight[i].msg.id = inflight[j].msg.id => i = j
    /\ processing = {inflight[i].msg.id : i \in Running}

VerdictsOn(id) == {k \in DOMAIN verdicts : verdicts[k].sourceId = id}

\* "does not record eventId as processed when validation throws so a retry can
\* succeed": an event that will be skipped from now on had its verdict, or needs none.
RememberedWasAnswered ==
    \A e \in Events : Remembered(processed, e.id) /\ e.type \in Supported => VerdictsOn(e.id) # {}

AtRest == queue = << >> /\ inflight = << >>

\* However often the model fails, answers nonsense or the process dies, an event
\* is answered; only a failed publish of a rejection loses one.
EveryEventAnswered ==
    AtRest /\ errors = 0 => \A e \in Events :
        arrivals[e] > 0 /\ e.type \in Supported /\ e.tx # NoTx => VerdictsOn(e.id) # {}

\* Duplicate deliveries never buy a second verdict: each one beyond the first is
\* due to a failed publish or to a restart (as long as the window holds the id).
VerdictsBounded ==
    \A e \in Events : Cardinality(VerdictsOn(e.id)) <= 1 + errors + restarts

=============================================================================
