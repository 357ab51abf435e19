------------------------------- MODULE Outbox -------------------------------
(***************************************************************************)
(* The transactional outbox of transaction-service: the create request     *)
(* that writes a transaction and its outbox row in one database            *)
(* transaction, and the poller that publishes the rows to RabbitMQ.        *)
(*                                                                         *)
(* Covered: one action per awaited call of TransactionsService             *)
(* .createTransaction, OutboxProcessor.processPendingBatch, OutboxPublisher*)
(* .publish and OutboxRepository, the failures each await can return       *)
(* (a database statement may be applied and still be reported as failed),  *)
(* a channel that closes and is never reopened, a crash of the process at  *)
(* any point and its restart.                                              *)
(*                                                                         *)
(* Not covered: the content of the envelope; several instances of the      *)
(* service (the code claims no row, so the deployment runs one); clock     *)
(* values (availableAt is reduced to "is due", createdAt is left out).       *)
(***************************************************************************)
EXTENDS Naturals, Sequences, FiniteSets, SequencesExt

CONSTANTS
    Tx,          \* the create requests: each makes one transaction and one outbox row
    Slots,       \* the activations of processPendingBatch that may be running
    BatchSize,   \* OUTBOX_BATCH_SIZE
    MaxRetries,  \* OUTBOX_MAX_RETRIES
    MaxFaults    \* bound: crashes, closed channels, failed list and failed markFailed calls

\* getNumericConfig replaces a value that is not a positive number by the default.
ASSUME ConfigAssumption == /\ BatchSize \in Nat \ {0}
                           /\ MaxRetries \in Nat \ {0}
                           /\ MaxFaults \in Nat

VARIABLES
    create,       \* progress of the interactive database transaction of each request
    status,       \* OutboxEvent.status, as other sessions see it
    retryCount,   \* OutboxEvent.retryCount
    due,          \* OutboxEvent.availableAt <= now
    deliveries,   \* copies of the row's event the broker has accepted
    up,           \* is the process running
    channelOpen,  \* is the confirm channel usable
    isProcessing, \* OutboxProcessor.isProcessing
    pc,           \* where each activation of processPendingBatch waits
    batch,        \* the events each activation has still to handle
    seen,         \* the retryCount markFailed has read
    faults        \* how many of the bounded faults have happened

rowVars     == <<status, retryCount, due>>
slotVars    == <<pc, batch, seen, isProcessing>>
envVars     == <<up, channelOpen, faults>>
vars        == <<create, rowVars, slotVars, envVars, deliveries>>

CreateSteps == {"idle", "inserted", "enqueued", "committed", "rolledBack"}
PollSteps   == {"idle", "listing", "publishing", "confirming", "marking", "reading", "updating"}

-----------------------------------------------------------------------------
Init ==
    /\ create       = [t \in Tx |-> "idle"]
    /\ status       = [t \in Tx |-> "absent"]
    /\ retryCount   = [t \in Tx |-> 0]
    /\ due          = [t \in Tx |-> FALSE]
    /\ deliveries   = [t \in Tx |-> 0]
    /\ up           = TRUE
    /\ channelOpen  = TRUE
    /\ isProcessing = FALSE
    /\ pc           = [s \in Slots |-> "idle"]
    /\ batch        = [s \in Slots |-> << >>]
    /\ seen         = [s \in Slots |-> 0]
    /\ faults       = 0

-----------------------------------------------------------------------------
(***************************************************************************)
(* createTransaction.  What the open database transaction has written is   *)
(* invisible to the poller until it commits.                               *)
(***************************************************************************)
\* transactionRepository.create(payload, tx)
InsertTransaction(t) ==
    /\ up
    /\ create[t] = "idle"
    /\ create' = [create EXCEPT ![t] = "inserted"]
    /\ UNCHANGED <<rowVars, slotVars, envVars, deliveries>>

\* Variant: the insert is made without the tx argument, outside the transaction.
EnqueueOutsideTx(t) ==
    /\ up
    /\ create[t] = "inserted"
    /\ create' = [create EXCEPT ![t] = "enqueued"]
    /\ status' = [status EXCEPT ![t] = "PENDING"]
    /\ due' = [due EXCEPT ![t] = TRUE]
    /\ UNCHANGED <<retryCount, slotVars, envVars, deliveries>>

\* outboxRepository.enqueueTransactionCreated(created.id, envelope, tx)
EnqueueTransactionCreated(t) ==
    /\ up
    /\ create[t] = "inserted"
    /\ create' = [create EXCEPT ![t] = "enqueued"]
    /\ UNCHANGED <<rowVars, slotVars, envVars, deliveries>>

CommitCreate(t) ==
    /\ up
    /\ create[t] = "enqueued"
    /\ create' = [create EXCEPT ![t] = "committed"]
    /\ status' = [status EXCEPT ![t] = "PENDING"]
    /\ due' = [due EXCEPT ![t] = TRUE]
    /\ UNCHANGED <<retryCount, slotVars, envVars, deliveries>>

\* Either insert, or the commit, fails: nothing of the transaction stays.
RollbackCreate(t) ==
    /\ create[t] \in {"inserted", "enqueued"}
    /\ create' = [create EXCEPT ![t] = "rolledBack"]
    /\ UNCHANGED <<rowVars, slotVars, envVars, deliveries>>

-----------------------------------------------------------------------------
(***************************************************************************)
(* processPendingBatch.                                                    *)
(***************************************************************************)
\* Variant: without the early return on isProcessing.
TickUnguarded(s) ==
    /\ up
    /\ pc[s] = "idle"
    /\ isProcessing' = TRUE
    /\ pc' = [pc EXCEPT ![s] = "listing"]
    /\ UNCHANGED <<batch, seen, create, rowVars, envVars, deliveries>>

\* The interval timer fires, or startProcessing calls it at once.
Tick(s) ==
    /\ up
    /\ ~isProcessing
    /\ pc[s] = "idle"
    /\ isProcessing' = TRUE
    /\ pc' = [pc EXCEPT ![s] = "listing"]
    /\ UNCHANGED <<batch, seen, create, rowVars, envVars, deliveries>>

\* Variant: everything that is not PUBLISHED is listed again.
EligibleUnpublished == {t \in Tx : status[t] \notin {"absent", "PUBLISHED"} /\ due[t]}

Eligible == {t \in Tx : status[t] = "PENDING" /\ due[t]}

\* The answers listPending may give: BatchSize eligible rows, or all of them
\* when they are fewer.  orderBy createdAt is left open: rows of different
\* transactions are independent, and no property depends on their order.
Listings ==
    {q \in SeqOf(Eligible, BatchSize) :
        /\ \A i, j \in DOMAIN q : i < j => q[i] # q[j]
        /\ Len(q) = BatchSize \/ Eligible = {q[i] : i \in DOMAIN q}}

\* What the for loop and the finally block do once the events of q are left.
Continue(s, q) ==
    /\ batch' = [batch EXCEPT ![s] = q]
    /\ pc' = [pc EXCEPT ![s] = IF q = << >> THEN "idle" ELSE "publishing"]
    /\ isProcessing' = (q # << >>)
    /\ seen' = [seen EXCEPT ![s] = 0]

ListPending(s) ==
    /\ pc[s] = "listing"
    /\ \E q \in Listings : Continue(s, q)
    /\ UNCHANGED <<create, rowVars, envVars, deliveries>>

\* Variant: isProcessing is reset after the loop, not in a finally block.
AbortWithoutFinally(s) ==
    /\ faults < MaxFaults
    /\ faults' = faults + 1
    /\ batch' = [batch EXCEPT ![s] = << >>]
    /\ pc' = [pc EXCEPT ![s] = "idle"]
    /\ UNCHANGED <<isProcessing, seen>>

\* A call outside the inner try rejects: the outer catch ends the batch.
AbortBatch(s) ==
    /\ faults < MaxFaults
    /\ faults' = faults + 1
    /\ Continue(s, << >>)

ListPendingFails(s) ==
    /\ pc[s] = "listing"
    /\ AbortBatch(s)
    /\ UNCHANGED <<create, rowVars, up, channelOpen, deliveries>>

\* The broker has the message; the confirm is on its way.
BrokerAccepts(s) ==
    /\ pc[s] = "publishing"
    /\ channelOpen
    /\ deliveries' = [deliveries EXCEPT ![Head(batch[s])] = @ + 1]
    /\ pc' = [pc EXCEPT ![s] = "confirming"]
    /\ UNCHANGED <<batch, seen, isProcessing, create, rowVars, envVars>>

\* Variant: publish swallows its error.
PublishErrorSwallowed(s) ==
    /\ pc[s] = "publishing"
    /\ pc' = [pc EXCEPT ![s] = "marking"]
    /\ UNCHANGED <<batch, seen, isProcessing, create, rowVars, envVars, deliveries>>

\* channel.publish throws, or the broker nacks: the inner catch takes over.
PublishRejected(s) ==
    /\ pc[s] = "publishing"
    /\ pc' = [pc EXCEPT ![s] = "reading"]
    /\ UNCHANGED <<batch, seen, isProcessing, create, rowVars, envVars, deliveries>>

Confirmed(s) ==
    /\ pc[s] = "confirming"
    /\ channelOpen
    /\ pc' = [pc EXCEPT ![s] = "marking"]
    /\ UNCHANGED <<batch, seen, isProcessing, create, rowVars, envVars, deliveries>>

\* The channel closes after the broker took the message: the callback gets an error.
ConfirmFails(s) ==
    /\ pc[s] = "confirming"
    /\ ~channelOpen
    /\ pc' = [pc EXCEPT ![s] = "reading"]
    /\ UNCHANGED <<batch, seen, isProcessing, create, rowVars, envVars, deliveries>>

MarkPublished(s) ==
    /\ pc[s] = "marking"
    /\ status' = [status EXCEPT ![Head(batch[s])] = "PUBLISHED"]
    /\ Continue(s, Tail(batch[s]))
    /\ UNCHANGED <<retryCount, due, create, envVars, deliveries>>

\* The update is reported as failed, whether or not the database applied it.
MarkPublishedFails(s) ==
    /\ pc[s] = "marking"
    /\ \/ status' = [status EXCEPT ![Head(batch[s])] = "PUBLISHED"]
       \/ UNCHANGED status
    /\ pc' = [pc EXCEPT ![s] = "reading"]
    /\ UNCHANGED <<batch, seen, isProcessing, retryCount, due, create, envVars, deliveries>>

\* markFailed: findUnique
ReadRetryCount(s) ==
    /\ pc[s] = "reading"
    /\ seen' = [seen EXCEPT ![s] = retryCount[Head(batch[s])]]
    /\ pc' = [pc EXCEPT ![s] = "updating"]
    /\ UNCHANGED <<batch, isProcessing, create, rowVars, envVars, deliveries>>

\* Variants of FailRow: one retry too many, no increment, a decrement.
FailRowLate(t, count) ==
    LET exceededRetries == count + 1 > MaxRetries
    IN  /\ status' = [status EXCEPT ![t] = IF exceededRetries THEN "FAILED" ELSE "PENDING"]
        /\ retryCount' = [retryCount EXCEPT ![t] = @ + 1]
        /\ due' = [due EXCEPT ![t] = exceededRetries]

FailRowUncounted(t, count) ==
    /\ status' = [status EXCEPT ![t] = "PENDING"]
    /\ due' = [due EXCEPT ![t] = FALSE]
    /\ UNCHANGED retryCount

FailRowCountsDown(t, count) ==
    /\ status' = [status EXCEPT ![t] = IF count = 0 THEN "FAILED" ELSE "PENDING"]
    /\ retryCount' = [retryCount EXCEPT ![t] = @ - 1]
    /\ due' = [due EXCEPT ![t] = FALSE]

\* markFailed: the update it computes from the retryCount it has read.
FailRow(t, count) ==
    LET exceededRetries == count + 1 >= MaxRetries
    IN  /\ status' = [status EXCEPT ![t] = IF exceededRetries THEN "FAILED" ELSE "PENDING"]
        /\ retryCount' = [retryCount EXCEPT ![t] = @ + 1]
        /\ due' = [due EXCEPT ![t] = exceededRetries]

MarkFailed(s) ==
    /\ pc[s] = "updating"
    /\ FailRow(Head(batch[s]), seen[s])
    /\ Continue(s, Tail(batch[s]))
    /\ UNCHANGED <<create, envVars, deliveries>>

\* markFailed itself rejects, inside the catch block: the batch is abandoned.
MarkFailedFails(s) ==
    /\ \/ pc[s] = "reading"  /\ UNCHANGED rowVars
       \/ pc[s] = "updating" /\ UNCHANGED rowVars
       \/ pc[s] = "updating" /\ FailRow(Head(batch[s]), seen[s])
    /\ AbortBatch(s)
    /\ UNCHANGED <<create, up, channelOpen, deliveries>>

-----------------------------------------------------------------------------
(***************************************************************************)
(* The environment: time, the connection, the process.                     *)
(***************************************************************************)
BackoffElapses(t) ==
    /\ status[t] = "PENDING"
    /\ ~due[t]
    /\ due' = [due EXCEPT ![t] = TRUE]
    /\ UNCHANGED <<create, status, retryCount, slotVars, envVars, deliveries>>

\* The broker closes the connection; RabbitMqConnectionService does not reconnect.
ChannelCloses ==
    /\ up
    /\ channelOpen
    /\ faults < MaxFaults
    /\ faults' = faults + 1
    /\ channelOpen' = FALSE
    /\ UNCHANGED <<create, rowVars, slotVars, up, deliveries>>

\* The memory of the process is lost and its open database transactions roll back.
Crash ==
    /\ up
    /\ faults < MaxFaults
    /\ faults' = faults + 1
    /\ up' = FALSE
    /\ channelOpen' = FALSE
    /\ isProcessing' = FALSE
    /\ pc' = [s \in Slots |-> "idle"]
    /\ batch' = [s \in Slots |-> << >>]
    /\ seen' = [s \in Slots |-> 0]
    /\ create' = [t \in Tx |-> IF create[t] \in {"inserted", "enqueued"}
                               THEN "rolledBack" ELSE create[t]]
    /\ UNCHANGED <<rowVars, deliveries>>

\* onApplicationBootstrap: the connection is made before processing starts.
Restart ==
    /\ ~up
    /\ up' = TRUE
    /\ channelOpen' = TRUE
    /\ UNCHANGED <<create, rowVars, slotVars, faults, deliveries>>

-----------------------------------------------------------------------------
CreateStep(t) ==
    \/ InsertTransaction(t) \/ EnqueueTransactionCreated(t)
    \/ CommitCreate(t)      \/ RollbackCreate(t)

BatchStep(s) ==
    \/ ListPending(s)   \/ ListPendingFails(s)
    \/ BrokerAccepts(s) \/ PublishRejected(s)
    \/ Confirmed(s)     \/ ConfirmFails(s)
    \/ MarkPublished(s) \/ MarkPublishedFails(s)
    \/ ReadRetryCount(s) \/ MarkFailed(s) \/ MarkFailedFails(s)

Next ==
    \/ \E t \in Tx : CreateStep(t) \/ BackoffElapses(t)
    \/ \E s \in Slots : Tick(s) \/ BatchStep(s)
    \/ ChannelCloses
    \/ Crash
    \/ Restart

Spec == Init /\ [][Next]_vars

\* The timer keeps firing, every awaited call returns, backoffs elapse and a
\* crashed process is restarted.  Nothing is assumed of the requests, of the
\* broker's answers or of the faults.
Fairness ==
    /\ \A s \in Slots : WF_vars(BatchStep(s))
    /\ WF_vars(\E s \in Slots : Tick(s))
    /\ \A t \in Tx : WF_vars(BackoffElapses(t))
    /\ WF_vars(Restart)

FairSpec == Spec /\ Fairness

-----------------------------------------------------------------------------
(***************************************************************************)
(* Safety.                                                                 *)
(***************************************************************************)
\* The values each variable may hold.
TypeOK ==
    /\ create \in [Tx -> CreateSteps]
    /\ status \in [Tx -> {"absent", "PENDING", "PUBLISHED", "FAILED"}]
    /\ retryCount \in [Tx -> Nat]
    /\ due \in [Tx -> BOOLEAN]
    /\ deliveries \in [Tx -> Nat]
    /\ up \in BOOLEAN
    /\ channelOpen \in BOOLEAN
    /\ isProcessing \in BOOLEAN
    /\ pc \in [Slots -> PollSteps]
    /\ batch \in [Slots -> Seq(Tx)]
    /\ seen \in [Slots -> Nat]
    /\ faults \in 0..MaxFaults

Busy(s) == pc[s] # "idle"

\* isProcessing keeps two activations of processPendingBatch from overlapping,
\* however long an await of the first takes, and it never stays set when none
\* is running: the poller would be stuck for good.
SingleBatch ==
    /\ \A r, s \in Slots : Busy(r) /\ Busy(s) => r = s
    /\ isProcessing <=> \E s \in Slots : Busy(s)

\* "you do not publish events that were never persisted": what the broker has
\* accepted belongs to a committed transaction, also after a rollback or a crash.
NoPhantomEvent == \A t \in Tx : deliveries[t] > 0 => create[t] = "committed"

\* A row is PUBLISHED only if the broker took its event: no error path of
\* publish ends in markPublished.
PublishedWasDelivered == \A t \in Tx : status[t] = "PUBLISHED" => deliveries[t] > 0

\* The retry budget: markFailed gives a row up at exactly MaxRetries counted
\* failures, although it decides on a count read in an earlier statement.
RetryBudget ==
    \A t \in Tx : /\ status[t] = "FAILED" => retryCount[t] = MaxRetries
                  /\ status[t] \in {"absent", "PENDING"} => retryCount[t] < MaxRetries

\* Delivery is at least once, but a copy beyond the first always has a cause:
\* a counted retry, or one of the faults (a crash or a failed markFailed
\* between the broker's confirm and the row's update).
BoundedDuplication == \A t \in Tx : deliveries[t] <= retryCount[t] + faults + 1

-----------------------------------------------------------------------------
(***************************************************************************)
(* Liveness, and the promise the outbox implements.                        *)
(***************************************************************************)
\* Every committed row ends PUBLISHED or FAILED and stays so: no row is left
\* PENDING by an aborted batch, a crash, a closed channel or an ambiguous update.
EveryRowSettles ==
    <>[](\A t \in Tx : create[t] = "committed" => status[t] \in {"PUBLISHED", "FAILED"})

\* The row an activation is working on: its fate is still open.
Held(t) == \E s \in Slots : /\ pc[s] \in {"marking", "reading", "updating"}
                           /\ Head(batch[s]) = t

Stage(t) ==
    IF status[t] = "absent" THEN "unwritten"
    ELSE IF status[t] = "FAILED" THEN "abandoned"
    ELSE IF status[t] = "PUBLISHED" /\ ~Held(t) THEN "published"
    ELSE "owed"

Promise == INSTANCE AtLeastOnce WITH stage  <- [t \in Tx |-> Stage(t)],
                                     copies <- deliveries

\* The outbox implements AtLeastOnce: a committed event is owed until it is
\* published or given up, is sent only while it is owed, and a settled event
\* is never touched again.
ImplementsAtLeastOnce == Promise!Spec

=============================================================================
