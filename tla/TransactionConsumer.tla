------------------------ MODULE TransactionConsumer ------------------------
(***************************************************************************)
(* The consumer of transaction-service: it applies the outcomes that       *)
(* search-service publishes to the authoritative row of a transaction.     *)
(*                                                                         *)
(* Covered: the delivery callback, TransactionConsumer.handleMessage and   *)
(* the single UPDATE of TransactionRepository each handler awaits, calls   *)
(* that fail before or after they took effect, duplicates, restarts.       *)
(*                                                                         *)
(* Not covered: the AI texts of a row (one flag says whether they are      *)
(* there) and updateState, updateStateOptimistic, which nothing calls.     *)
(***************************************************************************)
EXTENDS Delivery, Integers, FiniteSets, SequencesExt

CONSTANTS
    Tx,           \* transactions with a row
    NoTx,         \* a transactionId no row has
    Outcomes,     \* the messages that may reach the queue
    Prefetch,     \* RABBITMQ_PREFETCH
    MaxTracked,   \* maxTrackedEventIds
    MaxCopies,    \* bound: how often one message may be published
    MaxArrivals,  \* bound: how many messages arrive in all
    MaxErrors,    \* bound: failed calls
    MaxRestarts   \* bound: crashes and restarts

\* moderation is that of the enrichment snapshot; "none" when there is none or
\* isValidSearchIndexEnrichment refuses it.
ASSUME TransactionAssumption ==
    /\ NoTx \notin Tx
    /\ Prefetch \in Nat \ {0} /\ MaxTracked \in Nat \ {0}
    /\ \A o \in Outcomes : /\ DOMAIN o = {"id", "type", "tx", "source", "moderation"}
                           /\ o.tx \in Tx \cup {NoTx}
                           /\ o.moderation \in {"none", "ALLOW", "REVIEW", "REJECT"}

VARIABLES
    queue,      \* messages the broker has not delivered yet
    inflight,   \* deliveries being handled, in order of delivery
    processed,  \* the remembered event ids
    row,        \* the rows of the transactions table
    history,    \* the outcomes in the order in which they were published
    errors,
    restarts

vars == <<queue, inflight, processed, row, history, errors, restarts>>

\* The column defaults of a row createTransaction has inserted.
NewRow == [state |-> "INITIATED", aiStatus |-> "PENDING", searchStatus |-> "PENDING",
           moderationStatus |-> "PENDING", enriched |-> FALSE, version |-> 1]

Init ==
    /\ queue = << >>
    /\ inflight = << >>
    /\ processed = << >>
    /\ row = [t \in Tx |-> NewRow]
    /\ history = << >>
    /\ errors = 0
    /\ restarts = 0

-----------------------------------------------------------------------------
(***************************************************************************)
(* applySearchIndexUpdated and applySearchIndexRejected: one UPDATE each.  *)
(***************************************************************************)
BaseSources == {"transaction.created", "transaction.updated"}

\* The outcome events a handler acts on; any other source type is "Unsupported"
\* and acknowledged.
Applicable(o) ==
    \/ o.type = "search.index.updated" /\ o.source \in BaseSources \cup {"ai.enriched"}
    \/ o.type = "search.index.rejected"

\* Variant: the moderation column is written only from a snapshot.
UpdatedNoDefault(o, r) ==
    IF o.type = "search.index.rejected"
    THEN    [r EXCEPT !.searchStatus = "FAILED", !.state = "REJECTED_MODERATION",
                      !.aiStatus = "FAILED", !.moderationStatus = "REJECT", !.version = @ + 1]
    ELSE IF o.source \in BaseSources
    THEN    [r EXCEPT !.searchStatus = "INDEXED_BASE", !.state = "AI_PROCESSING",
                      !.version = @ + 1]
    ELSE    [r EXCEPT !.searchStatus = "INDEXED_ENRICHED", !.state = "READY",
                      !.aiStatus = "COMPLETED", !.version = @ + 1,
                      !.moderationStatus = IF o.moderation = "none" THEN @ ELSE o.moderation,
                      !.enriched = @ \/ o.moderation # "none"]

\* The row after outcome o, which is applicable.
Updated(o, r) ==
    IF o.type = "search.index.rejected"
    THEN    [r EXCEPT !.searchStatus = "FAILED", !.state = "REJECTED_MODERATION",
                      !.aiStatus = "FAILED", !.moderationStatus = "REJECT", !.version = @ + 1]
    ELSE IF o.source \in BaseSources
    THEN    [r EXCEPT !.searchStatus = "INDEXED_BASE", !.state = "AI_PROCESSING",
                      !.version = @ + 1]
    ELSE    [r EXCEPT !.searchStatus = "INDEXED_ENRICHED", !.state = "READY",
                      !.aiStatus = "COMPLETED", !.version = @ + 1,
                      !.moderationStatus = IF o.moderation = "none" THEN "ALLOW" ELSE o.moderation,
                      !.enriched = @ \/ o.moderation # "none"]

-----------------------------------------------------------------------------
(***************************************************************************)
(* handleMessage.                                                          *)
(***************************************************************************)
\* Variant: the channel has no prefetch limit.
DeliversUnlimited(o) ==
    /\ queue # << >>
    /\ o = Head(queue)
    /\ queue' = Tail(queue)

\* The broker delivers the message at the head of the queue.
Delivers(o) ==
    /\ queue # << >>
    /\ Len(inflight) < Prefetch
    /\ o = Head(queue)
    /\ queue' = Tail(queue)

SkipDuplicate ==
    /\ \E o \in Outcomes : Delivers(o) /\ Remembered(processed, o.id)
    /\ UNCHANGED <<inflight, processed, row, history, errors, restarts>>

\* Variant: the id is checked and never added.
AcceptForgetful(o) ==
    /\ Delivers(o)
    /\ ~Remembered(processed, o.id)
    /\ UNCHANGED processed

\* isDuplicateEvent remembers the id before the outcome is applied.
Accept(o) ==
    /\ Delivers(o)
    /\ ~Remembered(processed, o.id)
    /\ processed' = Remember(processed, o.id, MaxTracked)

\* Not a search outcome, or one from a source it does not know.
IgnoreOutcome ==
    /\ \E o \in Outcomes : Accept(o) /\ ~Applicable(o)
    /\ UNCHANGED <<inflight, row, history, errors, restarts>>

StartHandler ==
    /\ \E o \in Outcomes : /\ Accept(o)
                           /\ Applicable(o)
                           /\ inflight' = Append(inflight, [msg |-> o, pc |-> "applying"])
    /\ UNCHANGED <<row, history, errors, restarts>>

\* Handler i is done: its delivery is acknowledged, or nacked without requeue.
Leave(i) == inflight' = RemoveAt(inflight, i)

Goto(i, step) == inflight' = [inflight EXCEPT ![i].pc = step]

Update(o) ==
    /\ o.tx \in Tx
    /\ row' = [row EXCEPT ![o.tx] = Updated(o, @)]

ApplyOutcome(i) ==
    /\ inflight[i].pc = "applying"
    /\ Update(inflight[i].msg)
    /\ Goto(i, "acking")
    /\ UNCHANGED <<queue, processed, history, errors, restarts>>

\* P2025: there is no such transaction; the outcome is acknowledged.
RecordNotFound(i) ==
    /\ inflight[i].pc = "applying"
    /\ inflight[i].msg.tx \notin Tx
    /\ Goto(i, "acking")
    /\ UNCHANGED <<queue, processed, row, history, errors, restarts>>

Ack(i) ==
    /\ inflight[i].pc = "acking"
    /\ Leave(i)
    /\ UNCHANGED <<queue, processed, row, history, errors, restarts>>

\* The UPDATE is reported as failed, whether or not it was applied: the
\* delivery is nacked without requeue.
HandlerFails(i) ==
    /\ errors < MaxErrors
    /\ errors' = errors + 1
    /\ inflight[i].pc = "applying"
    /\ \/ Update(inflight[i].msg)
       \/ UNCHANGED row
    /\ Leave(i)
    /\ UNCHANGED <<queue, processed, history, restarts>>

-----------------------------------------------------------------------------
(***************************************************************************)
(* The environment.                                                        *)
(***************************************************************************)
\* A message is published to the queue, some messages more than once.
Arrive(o) ==
    /\ Len(history) < MaxArrivals
    /\ Cardinality({k \in DOMAIN history : history[k] = o}) < MaxCopies
    /\ history' = Append(history, o)
    /\ queue' = Append(queue, o)
    /\ UNCHANGED <<inflight, processed, row, errors, restarts>>

\* The process dies and comes back: memory is lost, deliveries are repeated.
Restart ==
    /\ restarts < MaxRestarts
    /\ restarts' = restarts + 1
    /\ queue' = Requeue(inflight, queue)
    /\ inflight' = << >>
    /\ processed' = << >>
    /\ UNCHANGED <<row, history, errors>>

HandlerStep(i) == ApplyOutcome(i) \/ RecordNotFound(i) \/ Ack(i) \/ HandlerFails(i)

Consume == SkipDuplicate \/ IgnoreOutcome \/ StartHandler

Next ==
    \/ \E o \in Outcomes : Arrive(o)
    \/ Consume
    \/ \E i \in DOMAIN inflight : HandlerStep(i)
    \/ Restart

Spec == Init /\ [][Next]_vars

-----------------------------------------------------------------------------
(***************************************************************************)
(* Properties.                                                             *)
(***************************************************************************)
Rows ==
    [state : {"INITIATED", "AI_PROCESSING", "REJECTED_MODERATION", "READY"},
     aiStatus : {"PENDING", "COMPLETED", "FAILED"},
     searchStatus : {"PENDING", "INDEXED_BASE", "INDEXED_ENRICHED", "FAILED"},
     moderationStatus : {"PENDING", "ALLOW", "REVIEW", "REJECT"},
     enriched : BOOLEAN, version : Nat \ {0}]

\* The values each variable may hold.
TypeOK ==
    /\ queue \in Seq(Outcomes)
    /\ inflight \in Seq([msg : Outcomes, pc : {"applying", "acking"}])
    /\ Len(inflight) <= Prefetch
    /\ processed \in Window({o.id : o \in Outcomes}, MaxTracked)
    /\ row \in [Tx -> Rows]
    /\ history \in Seq(Outcomes)
    /\ errors \in 0..MaxErrors
    /\ restarts \in 0..MaxRestarts

\* Whatever outcomes were applied, lost or repeated before, in whatever order, a
\* row that is READY was moderated and its verdict is not REJECT, and a rejected
\* row carries the reject in all its columns.
VerdictColumnsAgree ==
    \A t \in Tx :
        /\ row[t].state = "READY" => /\ row[t].aiStatus = "COMPLETED"
                                     /\ row[t].moderationStatus \in {"ALLOW", "REVIEW"}
                                     /\ row[t].searchStatus = "INDEXED_ENRICHED"
        /\ row[t].state = "REJECTED_MODERATION" => /\ row[t].aiStatus = "FAILED"
                                                   /\ row[t].moderationStatus = "REJECT"
                                                   /\ row[t].searchStatus = "FAILED"

AtRest == queue = << >> /\ inflight = << >>

Published(t) == {k \in DOMAIN history : history[k].tx = t /\ Applicable(history[k])}

\* No column says which outcome is newer: the row follows the last outcome that
\* was published only because outcomes are applied one at a time and a restart
\* puts deliveries back in their order.  search-service gives each message an id
\* of its own, so none is repeated; failed calls, whose deliveries are dropped,
\* are excluded.
LastOutcomeWins ==
    AtRest /\ errors = 0 /\ IsInjective(history) =>
        \A t \in Tx : Published(t) # {} =>
            LET o == history[Max(Published(t))]
            IN  Updated(o, row[t]) = [row[t] EXCEPT !.version = @ + 1]

\* Messages other than o: so many could push its id out of the window.
OthersPublished(o) == Cardinality({k \in DOMAIN history : history[k] # o})

\* In each life of the process a message is applied once however often it is
\* repeated, unless a whole window of other messages came in between: version never
\* runs further ahead of the outcomes there are.
VersionCountsOutcomes ==
    \A t \in Tx :
        row[t].version - 1 <=
            MapThenSumSet(LAMBDA o : 1 + restarts + (OthersPublished(o) \div MaxTracked),
                          {history[k] : k \in Published(t)})

=============================================================================
