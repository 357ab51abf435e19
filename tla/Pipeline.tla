------------------------------ MODULE Pipeline ------------------------------
(***************************************************************************)
(* The life of a transaction across the services: transaction-service      *)
(* writes it and its outbox event, the event goes to search-service and    *)
(* ai-service, the verdict of ai-service goes to search-service, and the   *)
(* outcomes of search-service come back to the row.                        *)
(*                                                                         *)
(* The components are AtLeastOnce (which Outbox implements), AiConsumer,   *)
(* SearchConsumer and TransactionConsumer; this module adds that an event  *)
(* is put into the queues its routing key is bound to in the step that     *)
(* publishes it.                                                           *)
(*                                                                         *)
(* Not covered: events of types no service publishes (transaction.updated  *)
(* and transaction.deleted), the declaration of the queues (Startup).      *)
(***************************************************************************)
EXTENDS Topology

CONSTANTS
    Tx, NoTx,
    SearchPrefetch, AiPrefetch, RowPrefetch,  \* RABBITMQ_PREFETCH of each service
    AiRetries,                                \* AI_MAX_RETRIES
    MaxTracked,                               \* maxTrackedEventIds
    MaxCopies,      \* bound: how often the outbox sends one event
    SearchErrors, AiErrors, RowErrors,        \* bounds: failed calls
    SearchRestarts, AiRestarts, RowRestarts   \* bounds: crashes and restarts

ASSUME PipelineAssumption ==
    /\ NoTx \notin Tx
    /\ IsFiniteSet(Tx)
    /\ MaxTracked \in Nat \ {0}
    /\ {SearchErrors, AiErrors, RowErrors, SearchRestarts, AiRestarts, RowRestarts} \subseteq Nat

VARIABLES
    stage, copies,
    searchQueue, searchInflight, searchProcessed, doc, outcomes, searchErrors, searchRestarts,
    aiQueue, aiInflight, aiProcessed, aiProcessing, verdicts, aiErrors, aiRestarts,
    rowQueue, rowInflight, rowProcessed, row, rowErrors, rowRestarts

promiseVars == <<stage, copies>>
searchVars  == <<searchInflight, searchProcessed, doc, outcomes, searchErrors, searchRestarts>>
aiVars      == <<aiInflight, aiProcessed, aiProcessing, verdicts, aiErrors, aiRestarts>>
rowVars     == <<rowInflight, rowProcessed, row, rowErrors, rowRestarts>>
vars        == <<promiseVars, searchQueue, searchVars, aiQueue, aiVars, rowQueue, rowVars>>

-----------------------------------------------------------------------------
(***************************************************************************)
(* The messages.  ai-service and search-service give each event they       *)
(* publish an id of its own and the present time; the outbox's event keeps *)
(* its id and time in every copy.                                          *)
(***************************************************************************)
MaxVerdicts == Cardinality(Tx) * (1 + AiErrors + AiRestarts)
MaxOutcomes == (Cardinality(Tx) + MaxVerdicts) * (1 + SearchRestarts)

\* What the outbox's event is to ai-service and to search-service.
ListingEvent(t) == [id |-> <<t, 0>>, type |-> "transaction.created", tx |-> t]
CreatedEvent(t) == [id |-> <<t, 0>>, type |-> "transaction.created", tx |-> t,
                    at |-> 1, moderation |-> "none"]

\* What the k-th verdict is to search-service, the k-th outcome to the row.
VerdictEvent(k, v) ==
    [id |-> <<v.tx, k>>, type |-> v.type, tx |-> v.tx, at |-> k, moderation |-> v.moderation]
OutcomeEvent(k, o) ==
    [id |-> k, type |-> o.type, tx |-> o.tx, source |-> o.source, moderation |-> o.moderation]

VerdictEvents ==
    [id : Tx \X (1..MaxVerdicts), type : {"ai.enriched"}, tx : Tx, at : 1..MaxVerdicts,
     moderation : {"ALLOW", "REVIEW"}]
    \cup
    [id : Tx \X (1..MaxVerdicts), type : {"ai.rejected"}, tx : Tx, at : 1..MaxVerdicts,
     moderation : {"none"}]

OutcomeEvents ==
    [id : 1..MaxOutcomes, type : {"search.index.updated", "search.index.rejected"}, tx : Tx,
     source : {"transaction.created", "ai.enriched", "ai.rejected"},
     moderation : {"none", "ALLOW", "REVIEW"}]

-----------------------------------------------------------------------------
(***************************************************************************)
(* The components.  What a component models of its own environment (the    *)
(* messages that arrive) is not used: it is replaced by the routing below. *)
(***************************************************************************)
Promise == INSTANCE AtLeastOnce

Ai == INSTANCE AiConsumer WITH
    Events <- {ListingEvent(t) : t \in Tx}, Prefetch <- AiPrefetch, MaxRetries <- AiRetries,
    MaxArrivals <- 0, MaxErrors <- AiErrors, MaxRestarts <- AiRestarts,
    queue <- aiQueue, inflight <- aiInflight, processed <- aiProcessed,
    processing <- aiProcessing, errors <- aiErrors, restarts <- aiRestarts,
    arrivals <- [e \in {ListingEvent(t) : t \in Tx} |-> 0]

SearchEvents == {CreatedEvent(t) : t \in Tx} \cup {e \in VerdictEvents : e.id = <<e.tx, e.at>>}

Search == INSTANCE SearchConsumer WITH
    Events <- SearchEvents, Prefetch <- SearchPrefetch,
    MaxArrivals <- 0, MaxErrors <- SearchErrors, MaxRestarts <- SearchRestarts,
    queue <- searchQueue, inflight <- searchInflight, processed <- searchProcessed,
    errors <- searchErrors, restarts <- searchRestarts,
    arrivals <- [e \in SearchEvents |-> 0]

OutcomeHistory == [k \in DOMAIN outcomes |-> OutcomeEvent(k, outcomes[k])]

Row == INSTANCE TransactionConsumer WITH
    Outcomes <- OutcomeEvents, Prefetch <- RowPrefetch,
    MaxArrivals <- 0, MaxErrors <- RowErrors, MaxRestarts <- RowRestarts,
    queue <- rowQueue, inflight <- rowInflight, processed <- rowProcessed,
    errors <- rowErrors, restarts <- rowRestarts,
    history <- OutcomeHistory

Init == Promise!Init /\ Ai!Init /\ Search!Init /\ Row!Init

-----------------------------------------------------------------------------
(***************************************************************************)
(* The steps.                                                              *)
(***************************************************************************)
\* What the broker appends to a queue when message m is published.
RoutedTo(queue, m) == IF queue \in QueuesFor(m.type) THEN <<m>> ELSE << >>

\* The request commits, or the outbox settles the event.
OutboxStep ==
    /\ \E t \in Tx : Promise!Write(t) \/ Promise!Publish(t) \/ Promise!Abandon(t)
    /\ UNCHANGED <<searchQueue, searchVars, aiQueue, aiVars, rowQueue, rowVars>>

SendCreated(t) ==
    /\ copies[t] < MaxCopies
    /\ Promise!Send(t)
    /\ searchQueue' = searchQueue \o RoutedTo("search-service.queue", CreatedEvent(t))
    /\ aiQueue' = aiQueue \o RoutedTo("ai-service.queue", ListingEvent(t))
    /\ UNCHANGED <<searchVars, aiVars, rowQueue, rowVars>>

\* The verdict ai-service has just published, if any, goes to its queues.
ForwardVerdict ==
    /\ searchQueue' =
          IF verdicts' = verdicts THEN searchQueue
          ELSE searchQueue \o RoutedTo("search-service.queue",
                                      VerdictEvent(Len(verdicts'), Last(verdicts')))
    /\ UNCHANGED <<promiseVars, searchVars, rowQueue, rowVars>>

AiConsumes == Ai!Consume /\ ForwardVerdict
AiHandles  == (\E i \in DOMAIN aiInflight : Ai!HandlerStep(i)) /\ ForwardVerdict
AiRestart  == Ai!Restart /\ ForwardVerdict

\* The outcome search-service has just published, if any, goes to its queue.
ForwardOutcome ==
    /\ rowQueue' =
          IF outcomes' = outcomes THEN rowQueue
          ELSE rowQueue \o RoutedTo("transaction-service.queue",
                                   OutcomeEvent(Len(outcomes'), Last(outcomes')))
    /\ UNCHANGED <<promiseVars, aiQueue, aiVars, rowVars>>

SearchConsumes == Search!Consume /\ ForwardOutcome
SearchHandles  == (\E i \in DOMAIN searchInflight : Search!HandlerStep(i)) /\ ForwardOutcome
SearchRestart  == Search!Restart /\ ForwardOutcome

\* transaction-service publishes nothing while it handles an outcome.
RowAlone == UNCHANGED <<promiseVars, aiQueue, aiVars, searchQueue, searchVars>>

RowConsumes == RowAlone /\ Row!Consume
RowHandles  == RowAlone /\ \E i \in DOMAIN rowInflight : Row!HandlerStep(i)
RowRestart  == RowAlone /\ Row!Restart

Next ==
    \/ OutboxStep
    \/ \E t \in Tx : SendCreated(t)
    \/ AiConsumes \/ AiHandles \/ AiRestart
    \/ SearchConsumes \/ SearchHandles \/ SearchRestart
    \/ RowConsumes \/ RowHandles \/ RowRestart

Spec == Init /\ [][Next]_vars

Consumers ==
    \/ AiConsumes \/ AiHandles
    \/ SearchConsumes \/ SearchHandles
    \/ RowConsumes \/ RowHandles

\* While a delivery waits or a call is awaited, some consumer goes on.  The broker
\* keeps delivering to each of them and every awaited call returns, so this is less
\* than the code gives: no step of a consumer takes the work of another one.
FairSpec == Spec /\ WF_vars(Consumers)

-----------------------------------------------------------------------------
(***************************************************************************)
(* Properties.                                                             *)
(***************************************************************************)
AtRest == Ai!AtRest /\ Search!AtRest /\ Row!AtRest

NoFailedCalls == aiErrors = 0 /\ searchErrors = 0 /\ rowErrors = 0

VerdictsAbout(t) == {k \in DOMAIN verdicts : verdicts[k].tx = t}

\* What the row shows of a verdict.
Moderated(v) == IF v.type = "ai.rejected" THEN "REJECT" ELSE v.moderation

Decision(verdict) == IF verdict = "REJECT" THEN "REJECTED_MODERATION" ELSE "READY"

\* search-service may have forgotten ids it handled: it was restarted, or as many
\* ids as its window holds have come.
Forgetful == searchRestarts > 0 \/ Len(searchProcessed) = MaxTracked

\* Then a second copy of the event of t may be indexed and reported after a verdict,
\* which undoes the decision (PipelineReplay).
MayReplay(t) == copies[t] > 1 /\ Forgetful

\* When nothing is under way any more and no call failed, every transaction whose
\* event was sent has been judged, and its row shows the last verdict ai-service
\* published, whatever was redelivered, judged twice or skipped as a copy on the way.
\* Excepted is a transaction whose event was sent again to a search-service that may
\* have forgotten the first copy.
RowShowsLastVerdict ==
    AtRest /\ NoFailedCalls => \A t \in Tx : copies[t] > 0 /\ ~MayReplay(t) =>
        /\ VerdictsAbout(t) # {}
        /\ LET verdict == Moderated(verdicts[Max(VerdictsAbout(t))])
           IN  /\ row[t].moderationStatus = verdict
               /\ row[t].state = Decision(verdict)

Decided(t) == row[t].state \in {"READY", "REJECTED_MODERATION"}

\* A published transaction is decided in the end, and stays decided, unless a call
\* fails (what was being handled then is dropped) or a copy of its event is sent to a
\* search-service that may have forgotten the first one (nothing decides it again, as
\* ai-service skips the copy).
PublishedIsDecided ==
    \A t \in Tx : stage[t] = "published" ~> [](Decided(t) \/ ~NoFailedCalls \/ MayReplay(t))

\* Whatever fails or restarts, every delivery is settled in the end, by a service
\* that waits for nothing but its own calls.
QueuesDrain == <>[]AtRest

\* "state - e.g. READY when enrichment completed with ALLOW" (README.md:168): a
\* row that is READY is not sent back to AI_PROCESSING.
ReadyIsKept ==
    [][\A t \in Tx : row[t].state = "READY" => row'[t].state # "AI_PROCESSING"]_vars

\* The services together implement Lifecycle: whatever call fails or queue lags
\* behind, and however the outbox repeats an event while search-service remembers
\* it, no row skips its creation, is decided without a verdict of ai-service on it,
\* or loses a decision.
Life == INSTANCE Lifecycle WITH
    life    <- [t \in Tx |-> IF stage[t] = "unwritten" THEN "absent" ELSE row[t].state],
    verdict <- [t \in Tx |-> {Decision(Moderated(verdicts[k])) : k \in VerdictsAbout(t)}]

ImplementsLifecycle == Life!Spec

=============================================================================
