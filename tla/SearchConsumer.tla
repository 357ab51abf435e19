--------------------------- MODULE SearchConsumer ---------------------------
(***************************************************************************)
(* The consumer of search-service: it merges transaction events and AI     *)
(* verdicts, in whatever order they come, into one Elasticsearch document  *)
(* per transaction, and reports the outcome to transaction-service.        *)
(*                                                                         *)
(* Covered: the delivery callback (prefetch, ack, nack without requeue),   *)
(* one action per awaited call of a handler, duplicate and stale events,   *)
(* calls that fail before or after they took effect, restarts that lose    *)
(* the remembered ids and redeliver what was not acknowledged.             *)
(*                                                                         *)
(* Not covered: the text of the documents (a document has base data or     *)
(* not), events without a parsable occurredAt (no producer makes one), the *)
(* declaration of the queue.                                               *)
(***************************************************************************)
EXTENDS Delivery, Integers, FiniteSets, SequencesExt

CONSTANTS
    Tx,           \* transactions
    NoTx,         \* the transactionId of an event that carries none
    Events,       \* the events that may reach the queue
    Prefetch,     \* RABBITMQ_PREFETCH
    MaxTracked,   \* maxTrackedEventIds
    MaxCopies,    \* bound: how often one event may be published
    MaxArrivals,  \* bound: how many messages arrive in all
    MaxErrors,    \* bound: failed calls
    MaxRestarts   \* bound: crashes and restarts

BaseTypes == {"transaction.created", "transaction.updated"}
AiTypes   == {"ai.enriched", "ai.rejected"}
Handled   == BaseTypes \cup AiTypes \cup {"transaction.deleted"}

ASSUME SearchAssumption ==
    /\ NoTx \notin Tx
    /\ Prefetch \in Nat \ {0} /\ MaxTracked \in Nat \ {0}
    /\ \A e \in Events : /\ DOMAIN e = {"id", "type", "tx", "at", "moderation"}
                         /\ e.tx \in Tx \cup {NoTx}
                         /\ e.at \in Nat \ {0}

VARIABLES
    queue,      \* messages the broker has not delivered yet
    inflight,   \* deliveries being handled, in order of delivery
    processed,  \* the remembered event ids
    doc,        \* the index: one document per transaction
    outcomes,   \* what has been published to the search exchange
    arrivals,   \* how often each event was published
    errors,
    restarts

brokerVars == <<queue, arrivals>>
vars == <<brokerVars, inflight, processed, doc, outcomes, errors, restarts>>

\* A document that does not exist reads as one with nothing in it.
NoDocument == [base |-> FALSE, searchStatus |-> "NONE", aiStatus |-> "NONE",
               moderationStatus |-> "NONE", lastBase |-> 0, lastAi |-> 0]

Init ==
    /\ queue = << >>
    /\ inflight = << >>
    /\ processed = << >>
    /\ doc = [t \in Tx |-> NoDocument]
    /\ outcomes = << >>
    /\ arrivals = [e \in Events |-> 0]
    /\ errors = 0
    /\ restarts = 0

-----------------------------------------------------------------------------
(***************************************************************************)
(* handleMessage, up to the first await of a handler.                      *)
(***************************************************************************)
\* Variant: the channel has no prefetch limit.
DeliversUnlimited(m) ==
    /\ queue # << >>
    /\ m = Head(queue)
    /\ queue' = Tail(queue)

\* The broker delivers the message at the head of the queue.
Delivers(m) ==
    /\ queue # << >>
    /\ Len(inflight) < Prefetch
    /\ m = Head(queue)
    /\ queue' = Tail(queue)

\* An event already remembered is acknowledged and nothing else.
SkipDuplicate ==
    /\ \E m \in Events : Delivers(m) /\ Remembered(processed, m.id)
    /\ UNCHANGED <<arrivals, inflight, processed, doc, outcomes, errors, restarts>>

\* Variant: the id is checked and never added.
AcceptForgetful(m) ==
    /\ Delivers(m)
    /\ ~Remembered(processed, m.id)
    /\ UNCHANGED processed

\* isDuplicateEvent remembers the id before the event is handled.
Accept(m) ==
    /\ Delivers(m)
    /\ ~Remembered(processed, m.id)
    /\ processed' = Remember(processed, m.id, MaxTracked)

\* An event of another type, or without a transaction, is acknowledged too.
IgnoreEvent ==
    /\ \E m \in Events : /\ Accept(m)
                         /\ m.type \notin Handled \/ m.tx = NoTx
    /\ UNCHANGED <<arrivals, inflight, doc, outcomes, errors, restarts>>

StartHandler ==
    /\ \E m \in Events :
          /\ Accept(m)
          /\ m.type \in Handled /\ m.tx # NoTx
          /\ inflight' = Append(inflight,
                [msg |-> m, known |-> NoDocument,
                 pc |-> IF m.type = "transaction.deleted" THEN "deleting" ELSE "reading"])
    /\ UNCHANGED <<arrivals, doc, outcomes, errors, restarts>>

-----------------------------------------------------------------------------
(***************************************************************************)
(* The handlers.                                                           *)
(***************************************************************************)
\* Handler i is done: its delivery is acknowledged, or nacked without requeue.
Leave(i) == inflight' = RemoveAt(inflight, i)

Goto(i, step) == inflight' = [inflight EXCEPT ![i].pc = step]

\* Variants: no comparison; an event as old as the last one is stale.
ApplicableAlways(at, last) == TRUE
ApplicableIfNewer(at, last) == last = 0 \/ at > last

\* isIncomingEventApplicable; 0 stands for a document without a timestamp.
IsIncomingEventApplicable(at, last) == last = 0 \/ at >= last

LastApplied(m, known) == IF m.type \in BaseTypes THEN known.lastBase ELSE known.lastAi

\* getDocument answers and the event is not stale.
ReadDocument(i) ==
    LET h == inflight[i] IN
    /\ h.pc = "reading"
    /\ IsIncomingEventApplicable(h.msg.at, LastApplied(h.msg, doc[h.msg.tx]))
    /\ inflight' = [inflight EXCEPT ![i] =
          [msg |-> h.msg, known |-> doc[h.msg.tx], pc |-> "writing"]]
    /\ UNCHANGED <<brokerVars, processed, doc, outcomes, errors, restarts>>

SkipStale(i) ==
    LET h == inflight[i] IN
    /\ h.pc = "reading"
    /\ ~IsIncomingEventApplicable(h.msg.at, LastApplied(h.msg, doc[h.msg.tx]))
    /\ Leave(i)
    /\ UNCHANGED <<brokerVars, processed, doc, outcomes, errors, restarts>>

\* Variant: an AI verdict marks the document as if its base data were there.
MergedIgnoringBase(m, known, current) ==
    IF m.type \in BaseTypes
    THEN    [current EXCEPT
                !.base = TRUE,
                !.searchStatus = IF known.moderationStatus = "REJECT" THEN "FAILED" ELSE "READY",
                !.lastBase = m.at]
    ELSE IF m.type = "ai.enriched"
    THEN    [current EXCEPT !.aiStatus = "COMPLETED", !.moderationStatus = "ALLOW",
                            !.searchStatus = "READY", !.lastAi = m.at]
    ELSE    [current EXCEPT !.aiStatus = "FAILED", !.moderationStatus = "REJECT",
                            !.searchStatus = "FAILED", !.lastAi = m.at]

\* The partial document each handler writes, merged into what the index holds.
\* Statuses are computed from the document that was read.
Merged(m, known, current) ==
    IF m.type \in BaseTypes
    THEN    [current EXCEPT
                !.base = TRUE,
                !.searchStatus = IF known.moderationStatus = "REJECT" THEN "FAILED" ELSE "READY",
                !.lastBase = m.at]
    ELSE IF m.type = "ai.enriched"
    THEN    [current EXCEPT
                !.aiStatus = "COMPLETED",
                !.moderationStatus = "ALLOW",
                !.searchStatus = IF known.base THEN "READY" ELSE "PENDING_BASE",
                !.lastAi = m.at]
    ELSE    [current EXCEPT
                !.aiStatus = "FAILED",
                !.moderationStatus = "REJECT",
                !.searchStatus = IF known.base THEN "FAILED" ELSE "PENDING_BASE",
                !.lastAi = m.at]

Upsert(h) == doc' = [doc EXCEPT ![h.msg.tx] = Merged(h.msg, h.known, @)]

\* An AI verdict is reported only when there is base data to go with it.
OutcomeDue(h) == h.msg.type \in BaseTypes \/ h.known.base

UpsertDocument(i) ==
    LET h == inflight[i] IN
    /\ h.pc = "writing"
    /\ Upsert(h)
    /\ Goto(i, IF OutcomeDue(h) THEN "publishing" ELSE "acking")
    /\ UNCHANGED <<brokerVars, processed, outcomes, errors, restarts>>

\* Variant: an upsert is always reported as updated.
OutcomeIgnoringReject(h) ==
    [type       |-> IF h.msg.type = "ai.rejected" THEN "search.index.rejected"
                                                  ELSE "search.index.updated",
     tx         |-> h.msg.tx,
     source     |-> h.msg.type,
     sourceId   |-> h.msg.id,
     moderation |-> IF h.msg.type = "ai.enriched" THEN h.msg.moderation ELSE "none"]

\* publishStatusUpdated or publishStatusRejected; only ai.enriched carries an
\* enrichment snapshot, whose moderation may be ALLOW or REVIEW.
Outcome(h) ==
    LET rejected == \/ h.msg.type = "ai.rejected"
                    \/ h.msg.type \in BaseTypes /\ h.known.moderationStatus = "REJECT"
    IN  [type       |-> IF rejected THEN "search.index.rejected" ELSE "search.index.updated",
         tx         |-> h.msg.tx,
         source     |-> h.msg.type,
         sourceId   |-> h.msg.id,
         moderation |-> IF h.msg.type = "ai.enriched" THEN h.msg.moderation ELSE "none"]

Emit(h) == outcomes' = Append(outcomes, Outcome(h))

PublishOutcome(i) ==
    LET h == inflight[i] IN
    /\ h.pc = "publishing"
    /\ Emit(h)
    /\ Goto(i, "acking")
    /\ UNCHANGED <<brokerVars, processed, doc, errors, restarts>>

\* deleteDocument does not look at occurredAt, and a missing document is fine.
Delete(h) == doc' = [doc EXCEPT ![h.msg.tx] = NoDocument]

DeleteDocument(i) ==
    LET h == inflight[i] IN
    /\ h.pc = "deleting"
    /\ Delete(h)
    /\ Goto(i, "acking")
    /\ UNCHANGED <<brokerVars, processed, outcomes, errors, restarts>>

Ack(i) ==
    /\ inflight[i].pc = "acking"
    /\ Leave(i)
    /\ UNCHANGED <<brokerVars, processed, doc, outcomes, errors, restarts>>

\* Variant: nothing nacks the delivery.
HandlerFailsUnsettled(i) ==
    /\ errors < MaxErrors
    /\ errors' = errors + 1
    /\ inflight[i].pc # "acking"
    /\ Goto(i, "failed")
    /\ UNCHANGED <<brokerVars, processed, doc, outcomes, restarts>>

\* The awaited call rejects, before or after it took effect: the delivery is
\* nacked without requeue, and the event stays remembered.
HandlerFails(i) ==
    LET h == inflight[i] IN
    /\ errors < MaxErrors
    /\ errors' = errors + 1
    /\ \/ h.pc # "acking"      /\ UNCHANGED <<doc, outcomes>>
       \/ h.pc = "writing"    /\ Upsert(h) /\ UNCHANGED outcomes
       \/ h.pc = "deleting"   /\ Delete(h) /\ UNCHANGED outcomes
       \/ h.pc = "publishing" /\ Emit(h)   /\ UNCHANGED doc
    /\ Leave(i)
    /\ UNCHANGED <<brokerVars, processed, restarts>>

-----------------------------------------------------------------------------
(***************************************************************************)
(* The environment.                                                        *)
(***************************************************************************)
\* Some producer's message reaches the queue; the outbox may publish it again.
Arrive(e) ==
    /\ arrivals[e] < MaxCopies
    /\ SumFunction(arrivals) < MaxArrivals
    /\ arrivals' = [arrivals EXCEPT ![e] = @ + 1]
    /\ queue' = Append(queue, e)
    /\ UNCHANGED <<inflight, processed, doc, outcomes, errors, restarts>>

\* The process dies and comes back: memory is lost, deliveries are repeated.
Restart ==
    /\ restarts < MaxRestarts
    /\ restarts' = restarts + 1
    /\ queue' = Requeue(inflight, queue)
    /\ inflight' = << >>
    /\ processed' = << >>
    /\ UNCHANGED <<arrivals, doc, outcomes, errors>>

HandlerStep(i) ==
    \/ ReadDocument(i) \/ SkipStale(i) \/ UpsertDocument(i) \/ PublishOutcome(i)
    \/ DeleteDocument(i) \/ Ack(i) \/ HandlerFails(i)

Consume == SkipDuplicate \/ IgnoreEvent \/ StartHandler

Next ==
    \/ \E e \in Events : Arrive(e)
    \/ Consume
    \/ \E i \in DOMAIN inflight : HandlerStep(i)
    \/ Restart

Spec == Init /\ [][Next]_vars

\* The broker keeps delivering, and every call a handler awaits returns.
FairSpec == /\ Spec
            /\ WF_vars(Consume)
            /\ WF_vars(\E i \in DOMAIN inflight : HandlerStep(i))

-----------------------------------------------------------------------------
(***************************************************************************)
(* Properties.                                                             *)
(***************************************************************************)
Documents ==
    [base : BOOLEAN, searchStatus : {"NONE", "PENDING_BASE", "READY", "FAILED"},
     aiStatus : {"NONE", "COMPLETED", "FAILED"}, moderationStatus : {"NONE", "ALLOW", "REJECT"},
     lastBase : Nat, lastAi : Nat]

Handlers ==
    [msg : Events, known : Documents,
     pc : {"reading", "writing", "deleting", "publishing", "acking"}]

\* The values each variable may hold.
TypeOK ==
    /\ queue \in Seq(Events)
    /\ inflight \in Seq(Handlers) /\ Len(inflight) <= Prefetch
    /\ processed \in Window({e.id : e \in Events}, MaxTracked)
    /\ doc \in [Tx -> Documents]
    /\ arrivals \in [Events -> 0..MaxCopies]
    /\ errors \in 0..MaxErrors
    /\ restarts \in 0..MaxRestarts

Exists(t) == doc[t] # NoDocument

\* Whatever arrived, failed or was repeated, the searchStatus of a document says
\* what the document holds: a rejected listing is never READY, and a verdict
\* without base data waits for it.  The status is computed from an earlier read.
StatusMatchesContent ==
    \A t \in Tx : Exists(t) =>
        doc[t].searchStatus = IF ~doc[t].base THEN "PENDING_BASE"
                              ELSE IF doc[t].moderationStatus = "REJECT" THEN "FAILED"
                              ELSE "READY"

\* The newest verdict and the newest base data win: an older event that is
\* delivered, or redelivered, late never overwrites them.
NewestEventWins ==
    [][\A t \in Tx : Exists(t) /\ Exists(t)' => /\ doc'[t].lastBase >= doc[t].lastBase
                                               /\ doc'[t].lastAi >= doc[t].lastAi]_vars

\* Delivered and acted upon, with nothing left to do.
AtRest == queue = << >> /\ inflight = << >>

OutcomesOf(t) == {i \in DOMAIN outcomes : outcomes[i].tx = t}

\* The last word sent to transaction-service about an indexed transaction is
\* the verdict the index holds, even after crashes between the write and the
\* publish (failed calls are excluded: their deliveries are dropped).
LastOutcomeMatchesIndex ==
    AtRest /\ errors = 0 => \A t \in Tx : doc[t].base =>
        /\ OutcomesOf(t) # {}
        /\ outcomes[Max(OutcomesOf(t))].type =
              IF doc[t].moderationStatus = "REJECT" THEN "search.index.rejected"
                                                    ELSE "search.index.updated"

\* An outcome never runs ahead of the index: when it is sent, the document
\* it reports has base data and carries that verdict.
OutcomeReportsIndex ==
    [][outcomes' # outcomes =>
          LET o == Last(outcomes') IN
          /\ doc[o.tx].base
          /\ o.type = "search.index.rejected" <=> doc[o.tx].moderationStatus = "REJECT"]_vars

\* Messages about other events: so many could push the id of e out of the window.
OthersArrived(e) == MapThenSumSet(LAMBDA f : arrivals[f], Events \ {e})

\* "skips duplicate eventIds for idempotency": in one life of the process a repeated
\* event is handled again only after a whole window of other messages.
HandledOncePerLife ==
    \A e \in Events :
        Cardinality({i \in DOMAIN outcomes : outcomes[i].sourceId = e.id})
            <= 1 + restarts + (OthersArrived(e) \div MaxTracked)

\* Every delivery is settled in the end: the queue drains and no handler keeps
\* its place in the prefetch window.
QueueDrains == <>[]AtRest

\* "does not publish rejected until base exists, then transaction upsert
\* publishes rejected" (elasticsearch.consumer.spec.ts:144).
RejectionReported ==
    AtRest => \A t \in Tx : doc[t].base /\ doc[t].moderationStatus = "REJECT" =>
        \E i \in OutcomesOf(t) : outcomes[i].type = "search.index.rejected"

\* "state - e.g. READY when enrichment completed with ALLOW" (README.md:168):
\* transaction-service makes a row READY only for an outcome whose source is
\* ai.enriched, so an enriched document with base data needs one.
EnrichmentReported ==
    AtRest => \A t \in Tx : doc[t].base /\ doc[t].aiStatus = "COMPLETED" =>
        \E i \in OutcomesOf(t) : outcomes[i].source = "ai.enriched"

=============================================================================
