---------------------------- MODULE OutboxProofs ----------------------------
(***************************************************************************)
(* Proofs about Outbox, for every set of requests and of activations and   *)
(* every batch size, retry budget and number of faults.                    *)
(***************************************************************************)
EXTENDS Outbox, TLAPS

\* What listPending returns is a sequence of eligible rows, none of them twice.
LEMMA ListingsShape ==
    ASSUME NEW q \in Listings
    PROVE  /\ q \in Seq(Tx)
           /\ \A i \in DOMAIN q : q[i] \in Eligible
           /\ \A i, j \in DOMAIN q : i < j => q[i] # q[j]
<1>1. PICK n \in 0..BatchSize : q \in [1..n -> Eligible]
  BY DEF Listings, SeqOf
<1>2. q \in Seq(Eligible)
  BY <1>1, ConfigAssumption
<1>3. Eligible \subseteq Tx
  BY DEF Eligible
<1> QED
  BY <1>1, <1>2, <1>3, ConfigAssumption DEF Listings

-----------------------------------------------------------------------------
(***************************************************************************)
(* Type correctness.  TypeOK alone is not inductive: Tail(batch[s]) is a   *)
(* sequence of requests only because an activation past listPending has an *)
(* event left to handle.                                                   *)
(***************************************************************************)
Empty(s) == batch[s] = << >>

BatchShape == \A s \in Slots : Empty(s) <=> pc[s] \in {"idle", "listing"}

TypeInv == TypeOK /\ BatchShape

LEMMA EmptyBatch == << >> \in Seq(Tx)
  OBVIOUS

LEMMA TypeInvInit == Init => TypeInv
<1> SUFFICES ASSUME Init PROVE TypeInv
  OBVIOUS
<1>1. TypeOK
  <2>1. batch \in [Slots -> Seq(Tx)]
    BY EmptyBatch DEF Init
  <2>2. faults \in 0..MaxFaults
    BY ConfigAssumption DEF Init
  <2> QED
    BY <2>1, <2>2 DEF Init, TypeOK, CreateSteps, PollSteps
<1>2. BatchShape
  BY DEF Init, BatchShape, Empty
<1> QED
  BY <1>1, <1>2 DEF TypeInv

\* Handing a batch on keeps the poller's state well formed.
LEMMA ContinueType ==
    ASSUME TypeInv, NEW s \in Slots, NEW q \in Seq(Tx), Continue(s, q)
    PROVE  /\ pc' \in [Slots -> PollSteps]
           /\ batch' \in [Slots -> Seq(Tx)]
           /\ seen' \in [Slots -> Nat]
           /\ isProcessing' \in BOOLEAN
           /\ BatchShape'
  BY DEF TypeInv, TypeOK, BatchShape, Empty, Continue, PollSteps

LEMMA FailRowType ==
    ASSUME TypeInv, NEW t \in Tx, NEW n \in Nat, FailRow(t, n)
    PROVE  /\ status' \in [Tx -> {"absent", "PENDING", "PUBLISHED", "FAILED"}]
           /\ retryCount' \in [Tx -> Nat]
           /\ due' \in [Tx -> BOOLEAN]
  BY ConfigAssumption DEF TypeInv, TypeOK, FailRow

\* The event an activation is working on, and what is left after it.
LEMMA HeadAndTail ==
    ASSUME TypeInv, NEW s \in Slots, pc[s] \notin {"idle", "listing"}
    PROVE  /\ Head(batch[s]) \in Tx
           /\ Tail(batch[s]) \in Seq(Tx)
  BY DEF TypeInv, TypeOK, BatchShape, Empty

LEMMA FaultCounted ==
    ASSUME TypeInv, faults < MaxFaults, faults' = faults + 1
    PROVE  faults' \in 0..MaxFaults
  BY ConfigAssumption DEF TypeInv, TypeOK

LEMMA TypeInvStep == TypeInv /\ [Next]_vars => TypeInv'
<1> SUFFICES ASSUME TypeInv, [Next]_vars
             PROVE  TypeInv'
  OBVIOUS
<1> USE ConfigAssumption DEF TypeInv, TypeOK, BatchShape, Empty, rowVars, slotVars, envVars
<1>1. ASSUME NEW t \in Tx, InsertTransaction(t)
      PROVE  TypeInv'
  BY <1>1 DEF InsertTransaction, CreateSteps
<1>2. ASSUME NEW t \in Tx, EnqueueTransactionCreated(t)
      PROVE  TypeInv'
  BY <1>2 DEF EnqueueTransactionCreated, CreateSteps
<1>3. ASSUME NEW t \in Tx, CommitCreate(t)
      PROVE  TypeInv'
  BY <1>3 DEF CommitCreate, CreateSteps
<1>4. ASSUME NEW t \in Tx, RollbackCreate(t)
      PROVE  TypeInv'
  BY <1>4 DEF RollbackCreate, CreateSteps
<1>5. ASSUME NEW t \in Tx, BackoffElapses(t)
      PROVE  TypeInv'
  BY <1>5 DEF BackoffElapses, CreateSteps
<1>6. ASSUME NEW s \in Slots, Tick(s)
      PROVE  TypeInv'
  BY <1>6 DEF Tick, PollSteps
<1>7. ASSUME NEW s \in Slots, ListPending(s)
      PROVE  TypeInv'
  <2>1. PICK q \in Listings : Continue(s, q)
    BY <1>7 DEF ListPending
  <2> QED
    BY <1>7, <2>1, ListingsShape, ContinueType DEF ListPending
<1>8. ASSUME NEW s \in Slots, ListPendingFails(s)
      PROVE  TypeInv'
  BY <1>8, EmptyBatch, ContinueType, FaultCounted DEF ListPendingFails, AbortBatch
<1>9. ASSUME NEW s \in Slots, BrokerAccepts(s)
      PROVE  TypeInv'
  BY <1>9 DEF BrokerAccepts, PollSteps
<1>10. ASSUME NEW s \in Slots, PublishRejected(s)
      PROVE  TypeInv'
  BY <1>10 DEF PublishRejected, PollSteps
<1>11. ASSUME NEW s \in Slots, Confirmed(s)
      PROVE  TypeInv'
  BY <1>11 DEF Confirmed, PollSteps
<1>12. ASSUME NEW s \in Slots, ConfirmFails(s)
      PROVE  TypeInv'
  BY <1>12 DEF ConfirmFails, PollSteps
<1>13. ASSUME NEW s \in Slots, MarkPublished(s)
      PROVE  TypeInv'
  BY <1>13, HeadAndTail, ContinueType DEF MarkPublished
<1>14. ASSUME NEW s \in Slots, MarkPublishedFails(s)
      PROVE  TypeInv'
  BY <1>14 DEF MarkPublishedFails, PollSteps
<1>15. ASSUME NEW s \in Slots, ReadRetryCount(s)
      PROVE  TypeInv'
  BY <1>15 DEF ReadRetryCount, PollSteps
<1>16. ASSUME NEW s \in Slots, MarkFailed(s)
      PROVE  TypeInv'
  <2>1. Head(batch[s]) \in Tx /\ Tail(batch[s]) \in Seq(Tx) /\ seen[s] \in Nat
    BY <1>16, HeadAndTail DEF MarkFailed
  <2> QED
    BY <1>16, <2>1, FailRowType, ContinueType DEF MarkFailed
<1>17. ASSUME NEW s \in Slots, MarkFailedFails(s)
      PROVE  TypeInv'
  <2>1. Head(batch[s]) \in Tx /\ seen[s] \in Nat
    BY <1>17, HeadAndTail DEF MarkFailedFails
  <2>2. /\ status' \in [Tx -> {"absent", "PENDING", "PUBLISHED", "FAILED"}]
        /\ retryCount' \in [Tx -> Nat]
        /\ due' \in [Tx -> BOOLEAN]
    BY <1>17, <2>1, FailRowType DEF MarkFailedFails
  <2> QED
    BY <1>17, <2>2, EmptyBatch, ContinueType, FaultCounted DEF MarkFailedFails, AbortBatch
<1>18. CASE ChannelCloses
  BY <1>18, FaultCounted DEF ChannelCloses
<1>19. CASE Crash
  BY <1>19, FaultCounted, EmptyBatch DEF Crash, CreateSteps, PollSteps
<1>20. CASE Restart
  BY <1>20 DEF Restart, CreateSteps, PollSteps
<1>21. CASE UNCHANGED vars
  BY <1>21 DEF vars
<1> QED
  BY <1>1, <1>2, <1>3, <1>4, <1>5, <1>6, <1>7, <1>8, <1>9, <1>10, <1>11, <1>12, <1>13, <1>14, <1>15, <1>16, <1>17, <1>18, <1>19, <1>20, <1>21 DEF Next, CreateStep, BatchStep

\* Every variable keeps its type, whatever fails and whenever the process dies.
THEOREM TypeCorrectness == Spec => []TypeOK
<1>1. TypeInv => TypeOK
  BY DEF TypeInv
<1> QED
  BY <1>1, TypeInvInit, TypeInvStep, PTL DEF Spec

-----------------------------------------------------------------------------
(***************************************************************************)
(* Mutual exclusion of the activations.                                    *)
(***************************************************************************)
LEMMA SingleBatchStep == TypeInv /\ SingleBatch /\ [Next]_vars => SingleBatch'
<1> SUFFICES ASSUME TypeInv, SingleBatch, [Next]_vars
             PROVE  SingleBatch'
  OBVIOUS
<1> USE DEF TypeInv, TypeOK, SingleBatch, Busy
\* An activation that continues is the busy one: the others stay idle.
<1>1. ASSUME NEW s \in Slots, Busy(s), NEW q, Continue(s, q)
      PROVE  SingleBatch'
  BY <1>1 DEF Continue
\* So does one that moves on without releasing isProcessing.
<1>2. ASSUME NEW s \in Slots, Busy(s), NEW p, p # "idle",
             pc' = [pc EXCEPT ![s] = p], UNCHANGED isProcessing
      PROVE  SingleBatch'
  BY <1>2
<1>3. ASSUME UNCHANGED <<pc, isProcessing>>
      PROVE  SingleBatch'
  BY <1>3
<1>4. ASSUME NEW s \in Slots, Tick(s)
      PROVE  SingleBatch'
  BY <1>4 DEF Tick
<1>5. ASSUME NEW s \in Slots, BatchStep(s)
      PROVE  SingleBatch'
  <2>1. Busy(s)
    BY <1>5 DEF BatchStep, ListPending, ListPendingFails, BrokerAccepts, PublishRejected,
                Confirmed, ConfirmFails, MarkPublished, MarkPublishedFails,
                ReadRetryCount, MarkFailed, MarkFailedFails
  <2>2. CASE ListPending(s) \/ ListPendingFails(s) \/ MarkPublished(s)
             \/ MarkFailed(s) \/ MarkFailedFails(s)
    BY <2>1, <2>2, <1>1 DEF ListPending, ListPendingFails, MarkPublished, MarkFailed,
                            MarkFailedFails, AbortBatch
  <2>3. CASE BrokerAccepts(s) \/ PublishRejected(s) \/ Confirmed(s) \/ ConfirmFails(s)
             \/ MarkPublishedFails(s) \/ ReadRetryCount(s)
    BY <2>1, <2>3, <1>2 DEF BrokerAccepts, PublishRejected, Confirmed, ConfirmFails,
                            MarkPublishedFails, ReadRetryCount
  <2> QED
    BY <1>5, <2>2, <2>3 DEF BatchStep
<1>6. CASE Crash
  BY <1>6 DEF Crash
<1>7. ASSUME NEW t \in Tx, CreateStep(t) \/ BackoffElapses(t)
      PROVE  SingleBatch'
  BY <1>3, <1>7 DEF CreateStep, InsertTransaction, EnqueueTransactionCreated, CommitCreate,
                    RollbackCreate, BackoffElapses, slotVars
<1>8. CASE ChannelCloses \/ Restart \/ UNCHANGED vars
  BY <1>3, <1>8 DEF ChannelCloses, Restart, vars, slotVars
<1> QED
  BY <1>4, <1>5, <1>6, <1>7, <1>8 DEF Next

\* Two activations of processPendingBatch never overlap, and isProcessing is set
\* exactly while one runs.
THEOREM BatchMutualExclusion == Spec => []SingleBatch
<1>1. Init => SingleBatch
  BY DEF Init, SingleBatch, Busy
<1> QED
  BY <1>1, TypeInvInit, TypeInvStep, SingleBatchStep, PTL DEF Spec

-----------------------------------------------------------------------------
(***************************************************************************)
(* The rows and their copies.  RowInv is the inductive strengthening of    *)
(* NoPhantomEvent, PublishedWasDelivered, RetryBudget and                  *)
(* BoundedDuplication: a copy that is not yet paid for by a retry or a     *)
(* fault belongs to a PUBLISHED row or to the one row in doubt.            *)
(***************************************************************************)
\* A row is visible exactly when its request has committed.
CommittedRows == \A t \in Tx : create[t] = "committed" <=> status[t] # "absent"

\* Only committed rows are touched by the poller.
UntouchedRows == \A t \in Tx : status[t] = "absent" => deliveries[t] = 0

Budget == \A t \in Tx : IF status[t] = "FAILED" THEN retryCount[t] = MaxRetries
                                               ELSE retryCount[t] < MaxRetries

\* The events a batch still holds are PENDING, except that the one whose
\* markPublished was reported as failed may be PUBLISHED.
BatchRows ==
    \A s \in Slots : \A i \in DOMAIN batch[s] :
        /\ status[batch[s][i]] \in {"PENDING", "PUBLISHED"}
        /\ status[batch[s][i]] = "PUBLISHED" => i = 1 /\ pc[s] \in {"reading", "updating"}

DistinctBatch ==
    \A s \in Slots : \A i, j \in DOMAIN batch[s] : i < j => batch[s][i] # batch[s][j]

ConfirmedWasSent ==
    \A s \in Slots : pc[s] \in {"confirming", "marking"} => deliveries[batch[s][1]] > 0

SeenIsCurrent ==
    \A s \in Slots : pc[s] = "updating" => seen[s] = retryCount[batch[s][1]]

InDoubt(t) ==
    \E s \in Slots : /\ pc[s] \in {"confirming", "marking", "reading", "updating"}
                     /\ batch[s][1] = t

CopiesPaidFor ==
    \A t \in Tx :
        /\ deliveries[t] <= retryCount[t] + faults + 1
        /\ status[t] # "PUBLISHED" /\ ~InDoubt(t) => deliveries[t] <= retryCount[t] + faults

RowsSound    == CommittedRows /\ UntouchedRows /\ Budget /\ PublishedWasDelivered
BatchesSound == BatchRows /\ DistinctBatch /\ ConfirmedWasSent /\ SeenIsCurrent

RowInv == RowsSound /\ BatchesSound /\ CopiesPaidFor

IInv == TypeInv /\ SingleBatch /\ RowInv

LEMMA RowInvInit == Init => RowInv
  BY ConfigAssumption DEF Init, RowInv, RowsSound, BatchesSound, CommittedRows, UntouchedRows,
     Budget, PublishedWasDelivered, BatchRows, DistinctBatch, ConfirmedWasSent, SeenIsCurrent,
     CopiesPaidFor, InDoubt

\* While one activation is busy, the others are idle and hold no event.
LEMMA OthersIdle ==
    ASSUME IInv, NEW s \in Slots, Busy(s), NEW r \in Slots, r # s
    PROVE  pc[r] = "idle" /\ batch[r] = << >>
  BY DEF IInv, TypeInv, SingleBatch, Busy, BatchShape, Empty

\* The events of a batch in progress, by index.
LEMMA BatchFacts ==
    ASSUME IInv, NEW s \in Slots, pc[s] \notin {"idle", "listing"}
    PROVE  /\ batch[s] \in Seq(Tx)
           /\ 1 \in DOMAIN batch[s]
           /\ Head(batch[s]) = batch[s][1]
           /\ batch[s][1] \in Tx
           /\ Tail(batch[s]) \in Seq(Tx)
           /\ \A i \in DOMAIN Tail(batch[s]) :
                 /\ i \in Nat \ {0}
                 /\ i + 1 \in DOMAIN batch[s]
                 /\ Tail(batch[s])[i] = batch[s][i + 1]
                 /\ Tail(batch[s])[i] # batch[s][1]
                 /\ Tail(batch[s])[i] \in Tx
<1>1. batch[s] \in Seq(Tx) /\ batch[s] # << >>
  BY DEF IInv, TypeInv, TypeOK, BatchShape, Empty
<1>2. \A i, j \in DOMAIN batch[s] : i < j => batch[s][i] # batch[s][j]
  BY DEF IInv, RowInv, BatchesSound, DistinctBatch
<1> QED
  BY <1>1, <1>2

\* The row an activation is working on.
LEMMA HeadRow ==
    ASSUME IInv, NEW s \in Slots, pc[s] \notin {"idle", "listing"}
    PROVE  /\ batch[s][1] \in Tx
           /\ Head(batch[s]) = batch[s][1]
           /\ status[batch[s][1]] \in {"PENDING", "PUBLISHED"}
           /\ status[batch[s][1]] = "PUBLISHED" => pc[s] \in {"reading", "updating"}
           /\ pc[s] \in {"confirming", "marking"} => deliveries[batch[s][1]] > 0
           /\ pc[s] = "updating" => seen[s] = retryCount[batch[s][1]]
  BY BatchFacts DEF IInv, RowInv, BatchesSound, BatchRows, ConfirmedWasSent, SeenIsCurrent

\* markFailed computes a legal row from a current count.
LEMMA FailRowSound ==
    ASSUME IInv, NEW t \in Tx, status[t] \in {"PENDING", "PUBLISHED"},
           FailRow(t, retryCount[t]), UNCHANGED <<create, deliveries>>
    PROVE  RowsSound'
<1> USE DEF IInv, TypeInv, TypeOK, RowInv, RowsSound, FailRow
<1>1. CommittedRows'
  BY DEF CommittedRows
<1>2. UntouchedRows'
  BY DEF UntouchedRows
<1>3. Budget'
  BY ConfigAssumption DEF Budget
<1>4. PublishedWasDelivered'
  BY DEF PublishedWasDelivered
<1> QED
  BY <1>1, <1>2, <1>3, <1>4

LEMMA RowsSoundStep == IInv /\ [Next]_vars => RowsSound'
<1> SUFFICES ASSUME IInv, [Next]_vars
             PROVE  RowsSound'
  OBVIOUS
<1> USE DEF IInv, TypeInv, TypeOK, RowInv, RowsSound, rowVars
<1>1. ASSUME UNCHANGED <<create, status, retryCount, deliveries>>
      PROVE  RowsSound'
  BY <1>1 DEF CommittedRows, UntouchedRows, Budget, PublishedWasDelivered
<1>2. ASSUME NEW t \in Tx, CreateStep(t) \/ BackoffElapses(t)
      PROVE  RowsSound'
  <2>1. CASE InsertTransaction(t) \/ EnqueueTransactionCreated(t) \/ RollbackCreate(t)
    BY <2>1 DEF InsertTransaction, EnqueueTransactionCreated, RollbackCreate, CommittedRows,
                UntouchedRows, Budget, PublishedWasDelivered
  <2>2. CASE CommitCreate(t)
    <3>1. CommittedRows'
      BY <2>2 DEF CommitCreate, CommittedRows
    <3>2. UntouchedRows' /\ PublishedWasDelivered'
      BY <2>2 DEF CommitCreate, UntouchedRows, PublishedWasDelivered
    <3>3. Budget'
      BY <2>2 DEF CommitCreate, CommittedRows, Budget
    <3> QED
      BY <3>1, <3>2, <3>3
  <2>3. CASE BackoffElapses(t)
    BY <1>1, <2>3 DEF BackoffElapses
  <2> QED
    BY <1>2, <2>1, <2>2, <2>3 DEF CreateStep
<1>3. ASSUME NEW s \in Slots, Tick(s) \/ BatchStep(s)
      PROVE  RowsSound'
  <2> DEFINE t == batch[s][1]
  <2>1. CASE Tick(s) \/ ListPending(s) \/ ListPendingFails(s) \/ PublishRejected(s)
             \/ Confirmed(s) \/ ConfirmFails(s) \/ ReadRetryCount(s)
    BY <1>1, <2>1 DEF Tick, ListPending, ListPendingFails, PublishRejected, Confirmed,
                      ConfirmFails, ReadRetryCount
  <2>2. CASE BrokerAccepts(s)
    <3>1. t \in Tx /\ Head(batch[s]) = t /\ status[t] = "PENDING"
      BY <2>2, HeadRow DEF BrokerAccepts
    <3> QED
      BY <2>2, <3>1 DEF BrokerAccepts, CommittedRows, UntouchedRows, Budget, PublishedWasDelivered
  <2>3. CASE MarkPublished(s) \/ MarkPublishedFails(s)
    <3>1. /\ t \in Tx /\ Head(batch[s]) = t
          /\ status[t] = "PENDING" /\ deliveries[t] > 0
      BY <2>3, HeadRow DEF MarkPublished, MarkPublishedFails
    <3>2. \/ status' = [status EXCEPT ![t] = "PUBLISHED"]
          \/ UNCHANGED status
      BY <2>3, <3>1 DEF MarkPublished, MarkPublishedFails
    <3>3. UNCHANGED <<create, retryCount, deliveries>>
      BY <2>3 DEF MarkPublished, MarkPublishedFails
    <3> QED
      BY <3>1, <3>2, <3>3 DEF CommittedRows, UntouchedRows, Budget, PublishedWasDelivered
  <2>4. CASE MarkFailed(s) \/ MarkFailedFails(s)
    <3>1. /\ t \in Tx /\ Head(batch[s]) = t
          /\ status[t] \in {"PENDING", "PUBLISHED"}
          /\ pc[s] = "updating" => seen[s] = retryCount[t]
      BY <2>4, HeadRow DEF MarkFailed, MarkFailedFails
    <3>2. \/ FailRow(t, retryCount[t])
          \/ UNCHANGED <<status, retryCount>>
      BY <2>4, <3>1 DEF MarkFailed, MarkFailedFails
    <3>3. UNCHANGED <<create, deliveries>>
      BY <2>4 DEF MarkFailed, MarkFailedFails
    <3> QED
      BY <1>1, <3>1, <3>2, <3>3, FailRowSound
  <2> QED
    BY <1>3, <2>1, <2>2, <2>3, <2>4 DEF BatchStep
<1>4. CASE Crash
  BY <1>4 DEF Crash, CommittedRows, UntouchedRows, Budget, PublishedWasDelivered
<1>5. CASE ChannelCloses \/ Restart \/ UNCHANGED vars
  BY <1>1, <1>5 DEF ChannelCloses, Restart, vars
<1> QED
  BY <1>2, <1>3, <1>4, <1>5 DEF Next

-----------------------------------------------------------------------------
\* Moving on to the next event of a batch: the row that is left behind may have
\* changed, every other row has not.
LEMMA NextEventSound ==
    ASSUME IInv, NEW s \in Slots, pc[s] \notin {"idle", "listing"},
           Continue(s, Tail(batch[s])),
           \A t \in Tx : t # batch[s][1] => status'[t] = status[t]
    PROVE  BatchesSound'
<1>1. \A r \in Slots : r # s => batch'[r] = << >> /\ pc'[r] = "idle"
  BY OthersIdle DEF IInv, TypeInv, TypeOK, Continue, Busy
<1>2. batch'[s] = Tail(batch[s]) /\ pc'[s] \in {"idle", "publishing"}
  BY DEF IInv, TypeInv, TypeOK, Continue
<1>3. BatchRows'
  <2> SUFFICES ASSUME NEW i \in DOMAIN batch'[s]
               PROVE  status'[batch'[s][i]] = "PENDING"
    BY <1>1 DEF BatchRows
  <2> QED
    BY <1>2, BatchFacts DEF IInv, RowInv, BatchesSound, BatchRows
<1>4. DistinctBatch'
  <2> SUFFICES ASSUME NEW i \in DOMAIN batch'[s], NEW j \in DOMAIN batch'[s], i < j
               PROVE  batch'[s][i] # batch'[s][j]
    BY <1>1 DEF DistinctBatch
  <2>1. /\ i + 1 \in DOMAIN batch[s] /\ j + 1 \in DOMAIN batch[s] /\ i + 1 < j + 1
        /\ batch'[s][i] = batch[s][i + 1] /\ batch'[s][j] = batch[s][j + 1]
    BY <1>2, BatchFacts
  <2> QED
    BY <2>1 DEF IInv, RowInv, BatchesSound, DistinctBatch
<1>5. ConfirmedWasSent' /\ SeenIsCurrent'
  BY <1>1, <1>2 DEF ConfirmedWasSent, SeenIsCurrent
<1> QED
  BY <1>3, <1>4, <1>5 DEF BatchesSound

\* Abandoning a batch leaves no event in any activation.
LEMMA AbortSound ==
    ASSUME IInv, NEW s \in Slots, Busy(s), Continue(s, << >>)
    PROVE  BatchesSound'
<1>1. \A r \in Slots : batch'[r] = << >> /\ pc'[r] = "idle"
  BY OthersIdle DEF IInv, TypeInv, TypeOK, Continue
<1> QED
  BY <1>1 DEF BatchesSound, BatchRows, DistinctBatch, ConfirmedWasSent, SeenIsCurrent

LEMMA BatchesSoundStep == IInv /\ [Next]_vars => BatchesSound'
<1> SUFFICES ASSUME IInv, [Next]_vars
             PROVE  BatchesSound'
  OBVIOUS
<1> USE DEF IInv, TypeInv, TypeOK, RowInv, BatchesSound, rowVars, slotVars
<1>1. ASSUME UNCHANGED <<status, retryCount, deliveries, pc, batch, seen>>
      PROVE  BatchesSound'
  BY <1>1 DEF BatchRows, DistinctBatch, ConfirmedWasSent, SeenIsCurrent
<1>2. ASSUME NEW t \in Tx, CreateStep(t) \/ BackoffElapses(t)
      PROVE  BatchesSound'
  <2>1. CASE CommitCreate(t)
    <3>1. status[t] = "absent"
      BY <2>1 DEF CommitCreate, RowsSound, CommittedRows
    <3> QED
      BY <2>1, <3>1 DEF CommitCreate, BatchRows, DistinctBatch, ConfirmedWasSent, SeenIsCurrent
  <2>2. CASE ~CommitCreate(t)
    BY <1>1, <1>2, <2>2 DEF CreateStep, InsertTransaction, EnqueueTransactionCreated,
                            RollbackCreate, BackoffElapses
  <2> QED
    BY <2>1, <2>2
<1>3. ASSUME NEW s \in Slots, Tick(s)
      PROVE  BatchesSound'
  BY <1>3 DEF Tick, BatchRows, DistinctBatch, ConfirmedWasSent, SeenIsCurrent
<1>4. ASSUME NEW s \in Slots, ListPending(s)
      PROVE  BatchesSound'
  <2>1. PICK q \in Listings : Continue(s, q)
    BY <1>4 DEF ListPending
  <2>2. \A r \in Slots : r # s => batch'[r] = << >> /\ pc'[r] = "idle"
    BY <1>4, <2>1, OthersIdle DEF ListPending, Continue, Busy
  <2>3. batch'[s] = q /\ pc'[s] \in {"idle", "publishing"}
    BY <2>1 DEF Continue
  <2>4. UNCHANGED status
    BY <1>4 DEF ListPending
  <2>0. /\ \A i \in DOMAIN q : status[q[i]] = "PENDING"
        /\ \A i, j \in DOMAIN q : i < j => q[i] # q[j]
    BY ListingsShape DEF Eligible
  <2> HIDE DEF Listings
  <2>5. BatchRows'
    BY <2>0, <2>2, <2>3, <2>4 DEF BatchRows
  <2>6. DistinctBatch'
    <3>1. \A i, j \in DOMAIN batch'[s] : i < j => batch'[s][i] # batch'[s][j]
      BY <2>0, <2>3
    <3>2. \A r \in Slots : r # s => DOMAIN batch'[r] = {}
      BY <2>2
    <3> QED
      BY <3>1, <3>2 DEF DistinctBatch
  <2>7. ConfirmedWasSent' /\ SeenIsCurrent'
    BY <2>2, <2>3 DEF ConfirmedWasSent, SeenIsCurrent
  <2> QED
    BY <2>5, <2>6, <2>7
<1>5. ASSUME NEW s \in Slots, ListPendingFails(s) \/ MarkFailedFails(s)
      PROVE  BatchesSound'
  BY <1>5, AbortSound DEF ListPendingFails, MarkFailedFails, AbortBatch, Busy
<1>6. ASSUME NEW s \in Slots, MarkPublished(s) \/ MarkFailed(s)
      PROVE  BatchesSound'
  <2>1. pc[s] \notin {"idle", "listing"} /\ Continue(s, Tail(batch[s]))
    BY <1>6 DEF MarkPublished, MarkFailed
  <2>2. \A t \in Tx : t # batch[s][1] => status'[t] = status[t]
    BY <1>6, <2>1, HeadRow DEF MarkPublished, MarkFailed, FailRow
  <2> QED
    BY <2>1, <2>2, NextEventSound
<1>7. ASSUME NEW s \in Slots,
             \/ BrokerAccepts(s) \/ PublishRejected(s) \/ Confirmed(s) \/ ConfirmFails(s)
             \/ MarkPublishedFails(s) \/ ReadRetryCount(s)
      PROVE  BatchesSound'
  <2> DEFINE t == batch[s][1]
  <2>1. pc[s] \notin {"idle", "listing"}
    BY <1>7 DEF BrokerAccepts, PublishRejected, Confirmed, ConfirmFails, MarkPublishedFails,
                ReadRetryCount
  <2>2. UNCHANGED batch /\ \A r \in Slots : r # s => batch[r] = << >> /\ pc'[r] = "idle"
    BY <1>7, <2>1, OthersIdle DEF Busy, BrokerAccepts, PublishRejected, Confirmed, ConfirmFails,
                                  MarkPublishedFails, ReadRetryCount
  <2>3. t \in Tx /\ Head(batch[s]) = t /\ 1 \in DOMAIN batch[s]
    BY <2>1, BatchFacts
  <2>4. BatchRows'
    <3>1. \A i \in DOMAIN batch[s] : i # 1 => batch[s][i] # t /\ batch[s][i] \in Tx
      BY <2>1, <2>3, BatchFacts DEF DistinctBatch
    <3> QED
      BY <1>7, <2>2, <2>3, <3>1 DEF BatchRows, BrokerAccepts, PublishRejected, Confirmed,
                                    ConfirmFails, MarkPublishedFails, ReadRetryCount
  <2>5. DistinctBatch'
    BY <2>2 DEF DistinctBatch
  <2>6. ConfirmedWasSent'
    BY <1>7, <2>2, <2>3 DEF ConfirmedWasSent, BrokerAccepts, PublishRejected, Confirmed,
                            ConfirmFails, MarkPublishedFails, ReadRetryCount
  <2>7. SeenIsCurrent'
    BY <1>7, <2>2, <2>3 DEF SeenIsCurrent, BrokerAccepts, PublishRejected, Confirmed,
                            ConfirmFails, MarkPublishedFails, ReadRetryCount
  <2> QED
    BY <2>4, <2>5, <2>6, <2>7
<1>8. CASE Crash
  BY <1>8 DEF Crash, BatchRows, DistinctBatch, ConfirmedWasSent, SeenIsCurrent
<1>9. CASE ChannelCloses \/ Restart \/ UNCHANGED vars
  BY <1>1, <1>9 DEF ChannelCloses, Restart, vars
<1> QED
  BY <1>2, <1>3, <1>4, <1>5, <1>6, <1>7, <1>8, <1>9 DEF Next, BatchStep

-----------------------------------------------------------------------------
\* A step that leaves the counters alone and takes no row out of doubt.
LEMMA CopiesKept ==
    ASSUME IInv, UNCHANGED <<deliveries, retryCount>>, faults' \in Nat, faults' >= faults,
           \A t \in Tx : status[t] = "PUBLISHED" => status'[t] = "PUBLISHED",
           \A t \in Tx : InDoubt(t) => InDoubt(t)' \/ status'[t] = "PUBLISHED" \/ faults' > faults
    PROVE  CopiesPaidFor'
<1> SUFFICES ASSUME NEW t \in Tx
             PROVE  /\ deliveries[t] <= retryCount[t] + faults' + 1
                    /\ status'[t] # "PUBLISHED" /\ ~InDoubt(t)' =>
                          deliveries[t] <= retryCount[t] + faults'
  BY DEF CopiesPaidFor
<1>1. /\ deliveries[t] \in Nat /\ retryCount[t] \in Nat /\ faults \in Nat
      /\ deliveries[t] <= retryCount[t] + faults + 1
      /\ status[t] # "PUBLISHED" /\ ~InDoubt(t) => deliveries[t] <= retryCount[t] + faults
  BY ConfigAssumption DEF IInv, TypeInv, TypeOK, RowInv, CopiesPaidFor
<1>2. CASE status[t] # "PUBLISHED" /\ ~InDoubt(t)
  BY <1>1, <1>2
<1>3. CASE status[t] = "PUBLISHED"
  BY <1>1, <1>3
<1>4. CASE InDoubt(t)
  BY <1>1, <1>4
<1> QED
  BY <1>2, <1>3, <1>4

LEMMA CopiesPaidForStep == IInv /\ [Next]_vars => CopiesPaidFor'
<1> SUFFICES ASSUME IInv, [Next]_vars
             PROVE  CopiesPaidFor'
  OBVIOUS
<1> USE DEF IInv, TypeInv, TypeOK, RowInv, rowVars, slotVars, envVars
<1>0. faults \in Nat
  BY ConfigAssumption
<1>1. ASSUME UNCHANGED <<deliveries, retryCount, faults, pc, batch>>,
             \A t \in Tx : status[t] = "PUBLISHED" => status'[t] = "PUBLISHED"
      PROVE  CopiesPaidFor'
  BY <1>0, <1>1, CopiesKept DEF InDoubt
<1>2. ASSUME NEW t \in Tx, CreateStep(t) \/ BackoffElapses(t)
      PROVE  CopiesPaidFor'
  <2>1. UNCHANGED <<deliveries, retryCount, faults, pc, batch>>
    BY <1>2 DEF CreateStep, InsertTransaction, EnqueueTransactionCreated, CommitCreate,
                RollbackCreate, BackoffElapses
  <2>2. ASSUME NEW u \in Tx, status[u] = "PUBLISHED"
        PROVE  status'[u] = "PUBLISHED"
    BY <1>2, <2>2 DEF RowsSound, CommittedRows, CreateStep, InsertTransaction,
                      EnqueueTransactionCreated, CommitCreate, RollbackCreate, BackoffElapses
  <2> QED
    BY <1>1, <2>1, <2>2
<1>3. ASSUME NEW s \in Slots, Tick(s)
      PROVE  CopiesPaidFor'
  BY <1>0, <1>3, CopiesKept DEF Tick, InDoubt
<1>4. ASSUME NEW s \in Slots, ListPending(s)
      PROVE  CopiesPaidFor'
  <2>1. \A t \in Tx : ~InDoubt(t)
    BY <1>4, OthersIdle DEF ListPending, InDoubt, Busy
  <2> QED
    BY <1>0, <1>4, <2>1, CopiesKept DEF ListPending
<1>5. ASSUME NEW s \in Slots, ListPendingFails(s)
      PROVE  CopiesPaidFor'
  BY <1>0, <1>5, CopiesKept DEF ListPendingFails, AbortBatch
<1>6. ASSUME NEW s \in Slots, BrokerAccepts(s)
      PROVE  CopiesPaidFor'
  <2>0. PICK t \in Tx : t = batch[s][1]
    BY <1>6, HeadRow DEF BrokerAccepts
  <2>1. Head(batch[s]) = t /\ status[t] # "PUBLISHED"
    BY <1>6, <2>0, HeadRow DEF BrokerAccepts
  <2>2. ~InDoubt(t)
    BY <1>6, <2>0, OthersIdle DEF BrokerAccepts, InDoubt, Busy
  <2>3. InDoubt(t)'
    BY <1>6, <2>0 DEF BrokerAccepts, InDoubt
  <2>4. \A u \in Tx : InDoubt(u) => InDoubt(u)'
    BY <1>6, OthersIdle DEF BrokerAccepts, InDoubt, Busy
  <2>5. UNCHANGED <<status, retryCount, faults>> /\ deliveries' = [deliveries EXCEPT ![t] = @ + 1]
    BY <1>6, <2>1 DEF BrokerAccepts
  <2> SUFFICES ASSUME NEW u \in Tx
               PROVE  /\ deliveries'[u] <= retryCount[u] + faults + 1
                      /\ status[u] # "PUBLISHED" /\ ~InDoubt(u)' =>
                            deliveries'[u] <= retryCount[u] + faults
    BY <2>5 DEF CopiesPaidFor
  <2>6. /\ deliveries[u] \in Nat /\ retryCount[u] \in Nat
        /\ deliveries[u] <= retryCount[u] + faults + 1
        /\ status[u] # "PUBLISHED" /\ ~InDoubt(u) => deliveries[u] <= retryCount[u] + faults
    BY DEF CopiesPaidFor
  <2>7. deliveries'[u] = IF u = t THEN deliveries[u] + 1 ELSE deliveries[u]
    BY <2>5
  <2>8. CASE u = t
    BY <1>0, <2>1, <2>2, <2>3, <2>6, <2>7, <2>8
  <2>9. CASE u # t
    BY <2>4, <2>6, <2>7, <2>9
  <2> QED
    BY <2>8, <2>9
<1>7. ASSUME NEW s \in Slots,
             \/ PublishRejected(s) \/ Confirmed(s) \/ ConfirmFails(s)
             \/ MarkPublishedFails(s) \/ ReadRetryCount(s)
      PROVE  CopiesPaidFor'
  <2>1. /\ pc' = [pc EXCEPT ![s] = pc'[s]]
        /\ pc'[s] \in {"marking", "reading", "updating"}
        /\ UNCHANGED <<batch, deliveries, retryCount, faults>>
    BY <1>7 DEF PublishRejected, Confirmed, ConfirmFails, MarkPublishedFails, ReadRetryCount
  <2>2. ASSUME NEW u \in Tx, status[u] = "PUBLISHED"
        PROVE  status'[u] = "PUBLISHED"
    BY <1>7, <2>2 DEF PublishRejected, Confirmed, ConfirmFails, MarkPublishedFails, ReadRetryCount
  <2>3. \A u \in Tx : InDoubt(u) => InDoubt(u)'
    BY <2>1 DEF InDoubt
  <2> QED
    BY <1>0, <2>1, <2>2, <2>3, CopiesKept
<1>8. ASSUME NEW s \in Slots, MarkPublished(s)
      PROVE  CopiesPaidFor'
  <2> DEFINE t == batch[s][1]
  <2>1. t \in Tx /\ Head(batch[s]) = t
    BY <1>8, HeadRow DEF MarkPublished
  <2>2. UNCHANGED <<deliveries, retryCount, faults>> /\ status' = [status EXCEPT ![t] = "PUBLISHED"]
    BY <1>8, <2>1 DEF MarkPublished
  <2>3. \A u \in Tx : InDoubt(u) => u = t
    BY <1>8, OthersIdle DEF MarkPublished, InDoubt, Busy
  <2> QED
    BY <1>0, <2>1, <2>2, <2>3, CopiesKept
<1>9. ASSUME NEW s \in Slots, NEW n \in Nat, pc[s] \notin {"idle", "listing"},
             FailRow(batch[s][1], n), UNCHANGED deliveries, faults' \in Nat, faults' >= faults
      PROVE  CopiesPaidFor'
  <2> DEFINE t == batch[s][1]
  <2>1. t \in Tx
    BY <1>9, HeadRow
  <2>2. retryCount' = [retryCount EXCEPT ![t] = @ + 1]
    BY <1>9 DEF FailRow
  <2>3. \A u \in Tx : InDoubt(u) => u = t
    BY <1>9, OthersIdle DEF InDoubt, Busy
  <2>4. \A u \in Tx : u # t => status'[u] = status[u]
    BY <1>9 DEF FailRow
  <2> SUFFICES ASSUME NEW u \in Tx
               PROVE  /\ deliveries[u] <= retryCount'[u] + faults' + 1
                      /\ status'[u] # "PUBLISHED" /\ ~InDoubt(u)' =>
                            deliveries[u] <= retryCount'[u] + faults'
    BY <1>9 DEF CopiesPaidFor
  <2>5. /\ deliveries[u] \in Nat /\ retryCount[u] \in Nat
        /\ deliveries[u] <= retryCount[u] + faults + 1
        /\ status[u] # "PUBLISHED" /\ ~InDoubt(u) => deliveries[u] <= retryCount[u] + faults
    BY DEF CopiesPaidFor
  <2>6. retryCount'[u] = IF u = t THEN retryCount[u] + 1 ELSE retryCount[u]
    BY <2>2
  <2> HIDE DEF t
  <2>7. CASE u = t
    BY <1>0, <1>9, <2>5, <2>6, <2>7
  <2>8. CASE u # t
    BY <1>0, <1>9, <2>3, <2>4, <2>5, <2>6, <2>8
  <2> QED
    BY <2>7, <2>8
<1>10. ASSUME NEW s \in Slots, MarkFailed(s)
       PROVE  CopiesPaidFor'
  <2>1. /\ pc[s] \notin {"idle", "listing"} /\ seen[s] \in Nat
        /\ UNCHANGED <<deliveries, faults>> /\ FailRow(batch[s][1], seen[s])
    BY <1>10, HeadRow DEF MarkFailed
  <2> QED
    BY <1>0, <1>9, <2>1
<1>11. ASSUME NEW s \in Slots, MarkFailedFails(s)
       PROVE  CopiesPaidFor'
  <2>1. faults' = faults + 1 /\ UNCHANGED deliveries
    BY <1>11 DEF MarkFailedFails, AbortBatch
  <2>2. CASE UNCHANGED rowVars
    BY <1>0, <2>1, <2>2, CopiesKept
  <2>3. CASE pc[s] = "updating" /\ FailRow(Head(batch[s]), seen[s])
    <3>1. /\ pc[s] \notin {"idle", "listing"} /\ seen[s] \in Nat
          /\ FailRow(batch[s][1], seen[s])
      BY <2>3, HeadRow
    <3> QED
      BY <1>0, <1>9, <2>1, <3>1
  <2> QED
    BY <1>11, <2>2, <2>3 DEF MarkFailedFails
<1>12. CASE Crash
  BY <1>0, <1>12, CopiesKept DEF Crash
<1>13. CASE ChannelCloses
  BY <1>0, <1>13, CopiesKept DEF ChannelCloses
<1>14. CASE Restart \/ UNCHANGED vars
  BY <1>1, <1>14 DEF Restart, vars
<1> QED
  BY <1>2, <1>3, <1>4, <1>5, <1>6, <1>7, <1>8, <1>10, <1>11, <1>12, <1>13, <1>14
  DEF Next, BatchStep

-----------------------------------------------------------------------------
LEMMA Invariance == Spec => []IInv
<1>1. Init => IInv
  BY TypeInvInit, RowInvInit DEF IInv, Init, SingleBatch, Busy
<1>2. IInv /\ [Next]_vars => IInv'
  BY TypeInvStep, SingleBatchStep, RowsSoundStep, BatchesSoundStep, CopiesPaidForStep
  DEF IInv, RowInv
<1> QED
  BY <1>1, <1>2, PTL DEF Spec

\* Nothing is published that was not committed, whenever the process dies.
THEOREM NothingPublishedUncommitted == Spec => []NoPhantomEvent
<1>1. IInv => NoPhantomEvent
  BY DEF IInv, TypeInv, TypeOK, RowInv, RowsSound, CommittedRows, UntouchedRows, NoPhantomEvent
<1> QED
  BY <1>1, Invariance, PTL

\* No row is PUBLISHED that the broker never got.
THEOREM PublishedRowsWereDelivered == Spec => []PublishedWasDelivered
<1>1. IInv => PublishedWasDelivered
  BY DEF IInv, RowInv, RowsSound
<1> QED
  BY <1>1, Invariance, PTL

\* A row is given up after exactly MaxRetries counted failures.
THEOREM RetryBudgetHolds == Spec => []RetryBudget
<1>1. IInv => RetryBudget
  BY DEF IInv, TypeInv, TypeOK, RowInv, RowsSound, Budget, RetryBudget
<1> QED
  BY <1>1, Invariance, PTL

\* Each copy beyond the first is paid for by a counted retry or a fault.
THEOREM DuplicationIsBounded == Spec => []BoundedDuplication
<1>1. IInv => BoundedDuplication
  BY DEF IInv, RowInv, CopiesPaidFor, BoundedDuplication
<1> QED
  BY <1>1, Invariance, PTL

-----------------------------------------------------------------------------
(***************************************************************************)
(* Outbox implements AtLeastOnce under the refinement mapping of Outbox:   *)
(* the initial states map to its initial state, and every step maps to one *)
(* of its steps or changes nothing it can see.  The safety invariant IInv  *)
(* is what makes the mapping work.                                         *)
(***************************************************************************)
HeldSteps == {"marking", "reading", "updating"}

Stages == [t \in Tx |-> Stage(t)]

LEMMA PromiseInit == Init => Promise!Init
  BY DEF Init, Promise!Init, Stage

-----------------------------------------------------------------------------
(***************************************************************************)
(* The stages of the rows after a step.                                    *)
(***************************************************************************)
\* While activation s runs, no other one holds a row.
LEMMA HeldNow ==
    ASSUME IInv, NEW s \in Slots, Busy(s), NEW t \in Tx
    PROVE  Held(t) <=> pc[s] \in HeldSteps /\ Head(batch[s]) = t
  BY OthersIdle DEF Held, HeldSteps

\* That stays so when s moves on.
LEMMA HeldNext ==
    ASSUME IInv, NEW s \in Slots, Busy(s), NEW t \in Tx,
           NEW step, pc' = [pc EXCEPT ![s] = step]
    PROVE  Held(t)' <=> step \in HeldSteps /\ Head(batch'[s]) = t
  BY OthersIdle DEF Held, HeldSteps, IInv, TypeInv, TypeOK

\* Between listing and publishing an activation holds no row.
LEMMA NothingHeld ==
    ASSUME IInv, NEW s \in Slots, pc[s] \notin HeldSteps, Busy(s), NEW t \in Tx
    PROVE  ~Held(t)
  BY HeldNow

\* Nothing AtLeastOnce can see has changed.
LEMMA Stutters ==
    ASSUME \A t \in Tx : Stage(t)' = Stage(t), UNCHANGED deliveries
    PROVE  UNCHANGED Promise!vars
  BY DEF Promise!vars

\* One row changed its stage.
LEMMA OneStage ==
    ASSUME NEW t \in Tx, \A u \in Tx \ {t} : Stage(u)' = Stage(u)
    PROVE  Stages' = [Stages EXCEPT ![t] = Stage(t)']
  BY DEF Stages

\* The stage of a row changes only with its status or the hold on it.
LEMMA StageKept ==
    ASSUME NEW t \in Tx, status'[t] = status[t],
           status[t] = "PUBLISHED" => (Held(t)' <=> Held(t))
    PROVE  Stage(t)' = Stage(t)
  BY DEF Stage

-----------------------------------------------------------------------------
(***************************************************************************)
(* The steps of AtLeastOnce, by what they do to the stages.                *)
(***************************************************************************)
LEMMA WriteStep ==
    ASSUME NEW t \in Tx, Stage(t) = "unwritten", Stage(t)' = "owed",
           \A u \in Tx \ {t} : Stage(u)' = Stage(u), UNCHANGED deliveries
    PROVE  Promise!Next
<1>1. Promise!Write(t)
  BY OneStage DEF Promise!Write, Stages
<1> QED
  BY <1>1 DEF Promise!Next

LEMMA SendStep ==
    ASSUME NEW t \in Tx, Stage(t) = "owed", \A u \in Tx : Stage(u)' = Stage(u),
           deliveries' = [deliveries EXCEPT ![t] = @ + 1]
    PROVE  Promise!Next
<1>1. Promise!Send(t)
  BY DEF Promise!Send
<1> QED
  BY <1>1 DEF Promise!Next

LEMMA AbandonStep ==
    ASSUME NEW t \in Tx, Stage(t) = "owed", Stage(t)' = "abandoned",
           \A u \in Tx \ {t} : Stage(u)' = Stage(u), UNCHANGED deliveries
    PROVE  Promise!Next
<1>1. Promise!Abandon(t)
  BY OneStage DEF Promise!Abandon, Stages
<1> QED
  BY <1>1 DEF Promise!Next

LEMMA PublishStep ==
    ASSUME NEW t \in Tx, Stage(t) = "owed", Stage(t)' = "published", deliveries[t] > 0,
           \A u \in Tx \ {t} : Stage(u)' = Stage(u), UNCHANGED deliveries
    PROVE  Promise!Next
<1>1. Promise!Publish(t)
  BY OneStage DEF Promise!Publish, Stages
<1> QED
  BY <1>1 DEF Promise!Next

-----------------------------------------------------------------------------
(***************************************************************************)
(* Steps of the poller.                                                    *)
(***************************************************************************)
PromiseStepOrStutter == [Promise!Next]_(Promise!vars)

\* The row an activation is working on is owed: if it is PUBLISHED already, an
\* ambiguous update left it in the hands of markFailed.
LEMMA HeadIsOwed ==
    ASSUME IInv, NEW s \in Slots, pc[s] \notin {"idle", "listing"}
    PROVE  batch[s][1] \in Tx /\ Stage(batch[s][1]) = "owed"
  BY HeadRow, HeldNow DEF Stage, HeldSteps, Busy

\* A step that touches no row but that one, and keeps hold of no other, leaves
\* it owed or settles it; it is published only with a copy sent.
LEMMA HeadSettles ==
    ASSUME IInv, IInv', NEW s \in Slots, pc[s] \notin {"idle", "listing"},
           NEW t \in Tx, t = batch[s][1],
           \A u \in Tx \ {t} : status'[u] = status[u] /\ ~Held(u)',
           status'[t] \in {"PENDING", "PUBLISHED", "FAILED"},
           UNCHANGED deliveries
    PROVE  PromiseStepOrStutter
<1>1. Stage(t) = "owed"
  BY HeadIsOwed
<1>2. \A u \in Tx \ {t} : ~Held(u)
  BY HeldNow, HeadRow DEF Busy
<1>3. \A u \in Tx \ {t} : Stage(u)' = Stage(u)
  BY <1>2, StageKept
<1>4. CASE Stage(t)' = "owed"
  <2>1. \A u \in Tx : Stage(u)' = Stage(u)
    BY <1>1, <1>3, <1>4
  <2> QED
    BY <2>1, Stutters DEF PromiseStepOrStutter
<1>5. CASE Stage(t)' = "abandoned"
  <2>1. Promise!Next
    BY <1>1, <1>3, <1>5, AbandonStep
  <2> QED
    BY <2>1 DEF PromiseStepOrStutter
<1>6. CASE Stage(t)' = "published"
  <2>1. status'[t] = "PUBLISHED"
    BY <1>6 DEF Stage
  <2>2. deliveries[t] > 0
    BY <1>1, <2>1 DEF IInv, RowInv, RowsSound, PublishedWasDelivered
  <2>3. Promise!Next
    BY <1>1, <1>3, <1>6, <2>2, PublishStep
  <2> QED
    BY <2>3 DEF PromiseStepOrStutter
<1>7. Stage(t)' \in {"owed", "abandoned", "published"}
  BY <1>1 DEF Stage
<1> QED
  BY <1>4, <1>5, <1>6, <1>7

\* No row changes, and no activation holds one, before and after.
LEMMA NoRowMoves ==
    ASSUME IInv, UNCHANGED <<status, deliveries>>, \A t \in Tx : ~Held(t) /\ ~Held(t)'
    PROVE  PromiseStepOrStutter
<1>1. \A t \in Tx : Stage(t)' = Stage(t)
  BY StageKept
<1> QED
  BY <1>1, Stutters DEF PromiseStepOrStutter

LEMMA BatchStepSimulated ==
    ASSUME IInv, IInv', NEW s \in Slots, BatchStep(s)
    PROVE  PromiseStepOrStutter
<1> USE DEF HeldSteps
<1>1. ASSUME pc[s] \notin {"idle", "listing"}
      PROVE  batch[s][1] \in Tx /\ Head(batch[s]) = batch[s][1] /\ Busy(s)
             /\ status[batch[s][1]] \in {"PENDING", "PUBLISHED"}
  BY <1>1, HeadRow DEF Busy
\* One batch handed on.
<1>2. ASSUME NEW q \in Seq(Tx), Busy(s), Continue(s, q)
      PROVE  \A u \in Tx : ~Held(u)'
  <2>1. PICK step \in {"idle", "publishing"} : pc' = [pc EXCEPT ![s] = step]
    BY <1>2 DEF Continue
  <2> QED
    BY <1>2, <2>1, HeldNext
\* The event at the head goes on to another step.
<1>3. ASSUME pc[s] \notin {"idle", "listing"}, NEW step, pc' = [pc EXCEPT ![s] = step],
             batch' = batch
      PROVE  \A u \in Tx \ {batch[s][1]} : ~Held(u)'
  BY <1>1, <1>3, HeldNext
<1>4. CASE ListPending(s)
  <2>1. PICK q \in Listings : Continue(s, q)
    BY <1>4 DEF ListPending
  <2>2. q \in Seq(Tx) /\ Busy(s) /\ pc[s] \notin HeldSteps
    BY <1>4, ListingsShape DEF ListPending, Busy
  <2> QED
    BY <1>2, <1>4, <2>1, <2>2, HeldNow, NoRowMoves DEF ListPending, rowVars
<1>5. CASE ListPendingFails(s)
  <2>1. Busy(s) /\ pc[s] \notin HeldSteps /\ Continue(s, << >>)
    BY <1>5 DEF ListPendingFails, AbortBatch, Busy
  <2> QED
    BY <1>2, <1>5, <2>1, EmptyBatch, HeldNow, NoRowMoves DEF ListPendingFails, rowVars
<1>6. CASE BrokerAccepts(s)
  <2>1. /\ pc[s] = "publishing" /\ pc' = [pc EXCEPT ![s] = "confirming"]
        /\ UNCHANGED <<batch, status>>
        /\ deliveries' = [deliveries EXCEPT ![batch[s][1]] = @ + 1]
    BY <1>1, <1>6 DEF BrokerAccepts, rowVars
  <2>2. \A u \in Tx : ~Held(u)
    BY <1>1, <2>1, NothingHeld
  <2>3. PICK step : step = "confirming" /\ pc' = [pc EXCEPT ![s] = step]
    BY <2>1
  <2>4. \A u \in Tx : ~Held(u)'
    <3>1. Busy(s) /\ step \notin HeldSteps
      BY <1>1, <2>1, <2>3
    <3>2. \A u \in Tx : Held(u)' <=> step \in HeldSteps /\ Head(batch'[s]) = u
      BY <2>3, <3>1, HeldNext
    <3> QED
      BY <3>1, <3>2
  <2>5. \A u \in Tx : Stage(u)' = Stage(u)
    BY <2>1, <2>2, <2>4, StageKept
  <2>6. PICK t \in Tx : t = batch[s][1] /\ Stage(t) = "owed"
    BY <2>1, HeadIsOwed
  <2>7. Promise!Next
    BY <2>1, <2>5, <2>6, SendStep
  <2> QED
    BY <2>7 DEF PromiseStepOrStutter
<1>7. CASE PublishRejected(s) \/ Confirmed(s) \/ ConfirmFails(s) \/ ReadRetryCount(s)
  <2>1. PICK step : pc' = [pc EXCEPT ![s] = step]
    BY <1>7 DEF PublishRejected, Confirmed, ConfirmFails, ReadRetryCount
  <2>2. /\ pc[s] \notin {"idle", "listing"}
        /\ UNCHANGED <<batch, status, deliveries>>
    BY <1>7 DEF PublishRejected, Confirmed, ConfirmFails, ReadRetryCount, rowVars
  <2> QED
    BY <1>1, <1>3, <2>1, <2>2, HeadSettles
<1>8. CASE MarkPublished(s)
  <2>1. /\ pc[s] = "marking" /\ Continue(s, Tail(batch[s])) /\ UNCHANGED deliveries
        /\ status' = [status EXCEPT ![batch[s][1]] = "PUBLISHED"]
    BY <1>1, <1>8 DEF MarkPublished
  <2>2. \A u \in Tx : ~Held(u)'
    BY <1>1, <1>2, <2>1, BatchFacts
  <2>3. /\ \A u \in Tx \ {batch[s][1]} : status'[u] = status[u]
        /\ status'[batch[s][1]] = "PUBLISHED"
    BY <1>1, <2>1 DEF IInv, TypeInv, TypeOK
  <2> QED
    BY <1>1, <2>1, <2>2, <2>3, HeadSettles
<1>9. CASE MarkPublishedFails(s)
  <2>1. /\ pc[s] = "marking" /\ pc' = [pc EXCEPT ![s] = "reading"] /\ UNCHANGED <<batch, deliveries>>
        /\ status' = [status EXCEPT ![batch[s][1]] = "PUBLISHED"] \/ UNCHANGED status
    BY <1>1, <1>9 DEF MarkPublishedFails
  <2>2. /\ \A u \in Tx \ {batch[s][1]} : status'[u] = status[u]
        /\ status'[batch[s][1]] \in {"PENDING", "PUBLISHED"}
    BY <1>1, <2>1 DEF IInv, TypeInv, TypeOK
  <2>3. \A u \in Tx \ {batch[s][1]} : ~Held(u)'
    BY <1>3, <2>1
  <2> QED
    BY <1>1, <2>1, <2>2, <2>3, HeadSettles
<1>10. ASSUME pc[s] \notin {"idle", "listing"}, NEW q \in Seq(Tx), Continue(s, q),
              UNCHANGED deliveries, NEW count,
              FailRow(batch[s][1], count) \/ UNCHANGED status
       PROVE  PromiseStepOrStutter
  <2>1. \A u \in Tx : ~Held(u)'
    BY <1>1, <1>2, <1>10
  <2>2. /\ \A u \in Tx \ {batch[s][1]} : status'[u] = status[u]
        /\ status'[batch[s][1]] \in {"PENDING", "PUBLISHED", "FAILED"}
    BY <1>1, <1>10 DEF FailRow, IInv, TypeInv, TypeOK
  <2> QED
    BY <1>1, <1>10, <2>1, <2>2, HeadSettles
<1>11. CASE MarkFailed(s)
  BY <1>1, <1>10, <1>11, BatchFacts DEF MarkFailed
<1>12. CASE MarkFailedFails(s)
  BY <1>1, <1>10, <1>12, EmptyBatch DEF MarkFailedFails, AbortBatch, rowVars
<1> QED
  BY <1>4, <1>5, <1>6, <1>7, <1>8, <1>9, <1>11, <1>12 DEF BatchStep

-----------------------------------------------------------------------------
(***************************************************************************)
(* Every other step, and the theorem.                                      *)
(***************************************************************************)
\* Steps of requests, the clock, the connection and a restart move no row's hold.
LEMMA HoldsKept ==
    ASSUME UNCHANGED <<pc, batch>>, NEW t \in Tx
    PROVE  Held(t)' <=> Held(t)
  BY DEF Held

LEMMA CommitSimulated ==
    ASSUME IInv, NEW t \in Tx, CommitCreate(t)
    PROVE  Promise!Next
<1>1. status[t] = "absent" /\ status' = [status EXCEPT ![t] = "PENDING"]
  BY DEF CommitCreate, IInv, RowInv, RowsSound, CommittedRows
<1>2. UNCHANGED <<pc, batch, deliveries>>
  BY DEF CommitCreate, slotVars
<1>3. \A u \in Tx \ {t} : Stage(u)' = Stage(u)
  BY <1>1, <1>2, HoldsKept, StageKept
<1>4. Stage(t) = "unwritten" /\ Stage(t)' = "owed"
  BY <1>1 DEF Stage, IInv, TypeInv, TypeOK
<1> QED
  BY <1>2, <1>3, <1>4, WriteStep

\* A crash lets go of the row in hand, which settles it if it is PUBLISHED.
LEMMA CrashSimulated ==
    ASSUME IInv, IInv', Crash
    PROVE  PromiseStepOrStutter
<1>1. \A u \in Tx : ~Held(u)'
  BY DEF Crash, Held
<1>2. UNCHANGED <<status, deliveries>>
  BY DEF Crash, rowVars
<1>3. CASE \E s \in Slots : pc[s] \notin {"idle", "listing"}
  <2>1. PICK s \in Slots : pc[s] \notin {"idle", "listing"}
    BY <1>3
  <2>2. batch[s][1] \in Tx /\ status[batch[s][1]] \in {"PENDING", "PUBLISHED"}
    BY <2>1, HeadRow
  <2> QED
    BY <1>1, <1>2, <2>1, <2>2, HeadSettles
<1>4. CASE \A s \in Slots : pc[s] \in {"idle", "listing"}
  <2>1. \A u \in Tx : ~Held(u)
    BY <1>4 DEF Held
  <2> QED
    BY <1>1, <1>2, <2>1, NoRowMoves
<1> QED
  BY <1>3, <1>4

LEMMA QuietSimulated ==
    ASSUME UNCHANGED <<status, deliveries, pc, batch>>
    PROVE  PromiseStepOrStutter
<1>1. \A t \in Tx : Stage(t)' = Stage(t)
  BY HoldsKept, StageKept
<1> QED
  BY <1>1, Stutters DEF PromiseStepOrStutter

LEMMA PromiseStep == IInv /\ IInv' /\ [Next]_vars => PromiseStepOrStutter
<1> SUFFICES ASSUME IInv, IInv', [Next]_vars
             PROVE  PromiseStepOrStutter
  OBVIOUS
<1>1. ASSUME NEW t \in Tx, CreateStep(t) \/ BackoffElapses(t)
      PROVE  PromiseStepOrStutter
  <2>1. CASE CommitCreate(t)
    BY <2>1, CommitSimulated DEF PromiseStepOrStutter
  <2>2. CASE InsertTransaction(t) \/ EnqueueTransactionCreated(t) \/ RollbackCreate(t)
             \/ BackoffElapses(t)
    BY <2>2, QuietSimulated
    DEF InsertTransaction, EnqueueTransactionCreated, RollbackCreate, BackoffElapses,
        rowVars, slotVars
  <2> QED
    BY <1>1, <2>1, <2>2 DEF CreateStep
<1>2. ASSUME NEW s \in Slots, Tick(s)
      PROVE  PromiseStepOrStutter
  <2>1. \A r \in Slots : pc[r] = "idle"
    BY <1>2 DEF Tick, IInv, SingleBatch, Busy
  <2>2. \A u \in Tx : ~Held(u) /\ ~Held(u)'
    BY <1>2, <2>1 DEF Tick, Held, IInv, TypeInv, TypeOK
  <2> QED
    BY <1>2, <2>2, NoRowMoves DEF Tick, rowVars
<1>3. ASSUME NEW s \in Slots, BatchStep(s)
      PROVE  PromiseStepOrStutter
  BY <1>3, BatchStepSimulated
<1>4. CASE ChannelCloses \/ Restart \/ UNCHANGED vars
  BY <1>4, QuietSimulated DEF ChannelCloses, Restart, vars, rowVars, slotVars
<1>5. CASE Crash
  BY <1>5, CrashSimulated
<1> QED
  BY <1>1, <1>2, <1>3, <1>4, <1>5 DEF Next

\* The outbox implements its promise, for every set of requests: whatever the
\* poller, the database, the broker and crashes do, a committed event is owed
\* until it is published or given up, and is then left alone.
THEOREM OutboxImplementsPromise == Spec => ImplementsAtLeastOnce
<1>1. IInv /\ IInv' /\ [Next]_vars => [Promise!Next]_(Promise!vars)
  BY PromiseStep DEF PromiseStepOrStutter
<1> QED
  BY <1>1, PromiseInit, Invariance, PTL DEF Spec, Promise!Spec, ImplementsAtLeastOnce

=============================================================================
