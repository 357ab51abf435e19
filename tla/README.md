# microAi: TLA+ models, checks and proofs

microAi is a property-listing backend made of four NestJS services. A request
creates a transaction in Postgres; a transactional outbox publishes
`transaction.created`; `search-service` indexes it and `ai-service` asks a
language model about it; the verdict goes to `search-service`, which merges it
into the document and reports the outcome; `transaction-service` applies the
outcome to the authoritative row. A client reads the row through
`GET /transactions/{id}` and the documents through a search. This directory
models the services, their composition and their startup from the code under
`src/`, checks the models with TLC and proves the safety properties of each
service, and of the services together, with TLAPS.

## 1. Inventory

| Component | State | Operations | Interacts with | Modules |
|---|---|---|---|---|
| Transactional outbox (`transactions.service.ts`, `modules/outbox`, `outbox.publisher.ts`, `rabbitmq.connection.service.ts`) | tables `transactions`, `outbox_events`; `isProcessing`; connection and confirm channel | `createTransaction`; the poller `processPendingBatch`; `publish`; `listPending`, `markPublished`, `markFailed` | Postgres, RabbitMQ | `Outbox`, `AtLeastOnce` |
| Search consumer (`elasticsearch.consumer.ts`, `elasticsearch.indexing.service.ts`, `document.mapper.ts`) | one document per transaction; `processedEventIds` and its queue | upsert, delete, enriched, rejected; publish the outcome | queue of transaction and AI events; search exchange | `SearchConsumer`, `Delivery`, `Enrichment` |
| Transaction consumer (`transaction.consumer.ts`, `transaction.repository.ts`) | the row of a transaction; its own window of ids | `search.index.updated`, `search.index.rejected` | queue of outcomes; Postgres | `TransactionConsumer`, `Delivery`, `Enrichment` |
| AI consumer (`ai.consumer.ts`, `ai-client.service.ts`, `ai-event.publisher.ts`) | `processedEventIds`, `processingEventIds` | handle created/updated; attempts against the model; publish a verdict | queue of transaction events; the model; AI exchange | `AiConsumer`, `Delivery` |
| Output validation (`ai-enrichment-output.schema.ts`, `tryBuildSearchIndexEnrichment`, `isValidSearchIndexEnrichment`) | none | parse, coerce, validate, snapshot | called by the consumers | `Enrichment` |
| Topology (`libs/common/src/rabbitmq`) | exchanges, queues, bindings | expand the bind tables, version names, route | RabbitMQ | `Topology` |
| Startup and index bootstrap (the `*startup*` services, `elasticsearch.bootstrap.service.ts`) | the connection, the index | check and create the index; connect, declare, limit, consume | RabbitMQ, Elasticsearch | `Startup` |
| Pipeline | the queues between the services | routing of every published event | all of the above | `Pipeline`, `Lifecycle` |
| Search queries and API gateway | none | reads and translations | gRPC, HTTP | `Views`, `Enrichment` |

What is hard in it:

* **Failure between two systems.** No transaction spans Postgres and RabbitMQ,
  or Elasticsearch and RabbitMQ. Each handler writes, then publishes, then
  acknowledges; it may die or see an error between any two, and a call reported
  as failed may have taken effect.
* **Interleaving at every `await`.** The poller's timer fires during a batch;
  with `RABBITMQ_PREFETCH` above 1 (the default is 10) handlers of one consumer
  read and write around each other; two processes race to create the index.
* **Ordering.** Base events and AI verdicts reach `search-service` from two
  exchanges in any order, the outbox may send an event twice, and the services
  start in any order.
* **Memory that is lost.** Remembered ids live in the process; a restart
  forgets them just when deliveries are repeated.
* **Messages that are dropped.** A handler that throws is nacked without
  requeue, and there is no dead-letter queue.
* **Three validators, two copies.** An answer of the model passes a coercion, a
  strict schema, a snapshot builder and another validator, and ends in a row and
  in a document that a client may compare.

What makes each part correct: the outbox publishes only what was committed,
settles every row, and accounts for every duplicate; the search consumer keeps
status, content and reported outcome in agreement; the transaction consumer
keeps the columns of a row in agreement and follows the last outcome; the AI
consumer answers every event, and never twice without a cause; together they
decide every published transaction by a verdict of `ai-service`, and keep it
decided unless a call fails or a copy of its event meets a `search-service` that
has forgotten the first (finding 3); no event is lost to the order of starts; the
row and the document of a transaction agree in the fields they share. They do not
in all fields (finding 4).

`PROJECT.json` lists the hazards at their lines, with the properties that cover
them or the reason none does.

## 2. How the modules fit together

| Module | What | Uses |
|---|---|---|
| `Outbox` | the write side, one action per awaited call | implements `AtLeastOnce` |
| `AtLeastOnce` | what a client of the outbox may rely on | |
| `Delivery` | window of remembered ids, requeue | |
| `SearchConsumer`, `TransactionConsumer`, `AiConsumer` | the three consumers, each on its own | `Delivery` |
| `Topology` | bind tables and the functions on them; no state | |
| `Pipeline` | the consumers over their queues, behind the outbox's promise | instances of `AtLeastOnce` and the consumers, `Topology`; implements `Lifecycle` |
| `Lifecycle` | what the services together promise about a transaction | |
| `Views` | row and document as a client sees them; no state | |
| `Enrichment` | what becomes of an answer of the model | `Views` |
| `Startup` | starts, declarations, crashes, the broker | `Topology` |
| `MC*` | instances for TLC | |
| `OutboxProofs`, `DeliveryProofs`, `SearchProofs`, `TransactionProofs`, `AiProofs`, `EnrichmentProofs`, `StartupProofs`, `PipelineProofs` | theorems and proofs | |

`Outbox` is shown to implement `AtLeastOnce`, so `Pipeline` takes the promise in
the place of the outbox: any number of copies, at any time after the commit,
also after the row is settled. Each consumer module has an environment of its own (`Arrive`, bounded
by `MaxArrivals`); in `Pipeline` it is switched off and replaced by the
routing. `Enrichment` has whole handlers as steps: what the interleavings do is
the business of the consumer modules, what the values do is its own.

Modules take their parameters as CONSTANTS with named assumptions, have one
action per operation and use no RECURSIVE operator. Operators introduced by a
comment `Variant:` are deliberate faults, one for each property: putting one in
the place of the operator it varies must make TLC find a violation. They are in
no specification.

## 3. The modules and the code

### Outbox

State: `create` is the progress of each request through the interactive
database transaction of `createTransaction`; `status`, `retryCount`, `due` are
the columns of its `outbox_events` row (`due` is `availableAt <= now`) as other
sessions see them; `deliveries` counts what the broker accepted; `pc`, `batch`,
`seen` are the activations of `processPendingBatch`, with `isProcessing`;
`up`, `channelOpen` and `faults` are the environment.

Each awaited call is at least one action, because other activity runs there.
A publish is three: the broker takes the message (`BrokerAccepts`), the confirm
comes (`Confirmed`) or does not (`ConfirmFails`), or the message was never taken
(`PublishRejected`). `markFailed` is a read and an update
(`ReadRetryCount`, `MarkFailed`). `MarkPublishedFails` and `MarkFailedFails`
allow the statement to have been applied although the driver reports an error.
`Continue` is the tail of the loop together with the `finally` block. A closed
channel stays closed until a restart, as `connect` is called only at startup.
A shutdown (the timer cleared, the channel closed, the rest of a batch failing)
is a `ChannelCloses` followed by a `Crash`.

`Slots` bounds how many activations *could* run; `isProcessing` is what keeps
all but one idle, and that is a checked property rather than an assumption.

`AtLeastOnce` says what a client of the outbox may rely on: unwritten, owed,
published or abandoned. `Outbox` implements it under `Stage`, which calls a row
*owed* while an activation still holds it past the confirm: an ambiguous
`markPublished` may be followed by `markFailed`, so the column alone is not yet
the row's fate.

The promise includes *abandoned*: after the last retry `markFailed` makes a row FAILED
and nothing lists it again, and one lost connection is enough for that, since the
channel is never reopened. README.md:9 gives the outbox as the means not to skip a
publication; what the code ensures, and the model shows, is that an event is given up
only when its budget is spent (`RetryBudget`).

### Delivery

The window of remembered ids (`Set` plus queue, the same code in all three
consumers) and the broker's requeue of what was not acknowledged.

### SearchConsumer

One action per await: `ReadDocument` or `SkipStale`, `UpsertDocument`,
`PublishOutcome`, `DeleteDocument`, `Ack`. `known` is the document as it was
read; statuses and the decision to report are computed from it, while the
partial update merges into what the index holds *then*. Everything before the
first await (`isDuplicateEvent`, the type switch, the payload check) is one
atomic step of JavaScript: `SkipDuplicate`, `IgnoreEvent`, `StartHandler`.
`HandlerFails` is any rejected call, applied or not, and the nack without
requeue.

### TransactionConsumer

`Updated(o, r)` is the row after one outcome (the single UPDATE of
`applySearchIndexUpdated` or `applySearchIndexRejected`). `history` records the
order of publication, to say which outcome should win.

### AiConsumer

`fetching` and `body` are separate because the abort timer is cleared between
them. A publish in the `try` block that is reported as failed continues in the
`catch` block, which publishes a rejection: that is how one event can get two
verdicts. A rejection that fails as well leaves through `finally` and is nacked.
The answer of the model is reduced to ALLOW, REVIEW, REJECT or invalid.

### Topology and Startup

`Topology` holds the bind tables as sequences of a routing key and a queue and
derives everything else as the code does: `OutboundBindings`
(`expandOutboundBindings`), `InboundBindings` (`collectInboundBindingsForQueue`),
`BindingTargets` (what one service asserts), `QueuesFor` (where the broker
routes). `Startup` runs it: each process checks and creates or updates the index
(search-service only), connects, declares one binding after the other, sets its
prefetch limit and consumes. A step that throws ends the process (`Ends`), as
the bootstrap rejects. `Crash` may hit anywhere. `BrokerStops` ends what boots;
a running process loses its channel and goes on without one, or ends, as an
error event of the connection has no listener. Bindings and queues are durable
and survive. `Publish` is one event per type, `Consume` hands over one event; the
index is *guessed* when Elasticsearch has to create it from a document.

### Pipeline and Lifecycle

The step that publishes an event appends it to the queues of its routing key
(`RoutedTo`, from `Topology`). `VerdictEvent` and `OutcomeEvent` give a message
the fields its consumer reads; ids of verdicts and outcomes are new for each
publication (`randomUUID`), the outbox's event keeps its id and time in every
copy. `Lifecycle` knows a state and the decisions reached so far: a transaction
is created, indexed at most once and before any decision; every decision is one
`ai-service` reached about it; a decision is replaced, never taken back.

### Views and Enrichment

`DocumentView` is `searchDocumentToTransactionRecord`, `RowView` is
`toTransactionRecord`; `SearchReply`/`GetReply` are the gRPC replies,
`SearchAnswer`/`GetAnswer` those of the gateway. In `Enrichment` a text is
absent, blank, padded with spaces, or one of two plain ones, which is what
`trim` and the schemas tell apart; numbers are counted in thousandths, because the
columns keep two decimals. `VerdictOn` is the way of an answer through
`ai-service` (`Coerced`, `SchemaAccepts`), `Enriched` and `Refused` the document
after it, `Snapshot` what `search-service` sends, `ResolveSearchIndexEnrichment`
what `transaction-service` takes, `Applied` and `AppliedRejection` the row. The
title stands for the texts a client sends: `MinLength` accepts spaces, which the
index drops.

## 4. Runs

| Run | Instance | Shows |
|---|---|---|
| `Outbox` | 3 requests, 2 activations, batch 2, 2 retries, 2 faults, fair | type, `SingleBatch`, `NoPhantomEvent`, `PublishedWasDelivered`, `RetryBudget`, `BoundedDuplication`, `EveryRowSettles`, `ImplementsAtLeastOnce`; no deadlock |
| `SearchMerge` | 7 events on one transaction, prefetch 1, a window of 2 ids, 4 messages with repeats, 1 failed call, 1 restart, fair | type, `StatusMatchesContent`, `NewestEventWins`, `LastOutcomeMatchesIndex`, `OutcomeReportsIndex`, `HandledOncePerLife`, `QueueDrains` |
| `SearchPrefetch` | created and rejected, prefetch 2, no failure | **violated**: `RejectionReported` |
| `SearchEnrichmentFirst` | created and enriched (ALLOW), prefetch 1, no failure | **violated**: `EnrichmentReported` |
| `TransactionOutcomes` | 7 messages, 2 rows, prefetch 1, a window of 2 ids, 4 messages with repeats, 1 failed call, 1 restart | type, `VerdictColumnsAgree`, `LastOutcomeWins`, `VersionCountsOutcomes` |
| `AiVerdicts` | 4 events (one without a transaction, one of another type), prefetch 2, 2 attempts, 3 messages with repeats, 1 failed publish, 1 restart | type, `InFlightOnce`, `RememberedWasAnswered`, `EveryEventAnswered`, `VerdictsBounded` |
| `PipelineDuplicates` | 1 transaction, 2 copies, prefetch 1, 2 (AI) and 1; one failed call in each service, transaction-service restarts once, fair | `ImplementsLifecycle`, `QueuesDrain` |
| `PipelineRestarts` | 2 copies, prefetch 1, search-service and ai-service restart once each, fair | `RowShowsLastVerdict`, `PublishedIsDecided` |
| `PipelineReplay` | 2 copies, search-service restarts once | **violated**: `ReadyIsKept` |
| `EnrichmentData` | 2 answers out of about a hundred, 2 accepted titles, 2 prices | type, `SnapshotIsTaken`, `CoercionSuffices`, `VerdictSurvives`, `RejectionHasReason`, `SharedFieldsAgree` |
| `EnrichmentIndex` | the same | **violated**: `IndexIsDerived` |
| `StartupOrder` | transaction-service and two processes of search-service, a proper and a refused prefetch setting, 1 crash, 1 stop of the broker, fair | type, `RunningIsWired`, `NothingLost`, `IndexIsMapped`, `ServiceComesUp`, `EventsArrive` |

**Bounds.** Rows, documents and events of different transactions share nothing
but the batch (Outbox) and the prefetch window, so two or three requests and one
or two transactions show every interaction. Batch size 2 with three requests gives full
batches, remainders and a row left for the next batch; two retries distinguish
the first failure, the last one and one too many; two faults allow a crash after
a closed channel or an aborted batch after a crash. In the consumers, four
messages (three for the AI consumer) allow an event, its duplicate and two
events of other kinds; timestamps are chosen so that no order of arrival agrees
with all of them. The window holds two ids (10 000 in the code), so that a third
message evicts the first id and a copy of that message is handled again; in
`AiVerdicts` and in `Pipeline` it is larger than what arrives. In `Pipeline` one
transaction with two copies of its event yields up to three verdicts and the outcomes
of all of them in the queues at once. `PipelineRestarts` combines that second copy with
restarts: it may come before or after the restart of search-service, and before or
after any verdict. `RowShowsLastVerdict` and `PublishedIsDecided` leave out a
transaction that `MayReplay` (its event was sent twice and search-service has restarted
or filled its window), as finding 3 is what then happens. They speak of a
second copy without a restart or as long as there is none, and of a restart as long as
there is one copy. In `Enrichment` the answers differ from a proper one in one
respect at a time (moderation, texts, tags, score, form), and two answers in a row are
what a repeated event leads to. In `Startup` one event of each of two exchanges is
published, and one crash and one stop of the broker can meet at any pair of
steps; ai-service starts like transaction-service, and here its queue is that of
a service that never runs; the second process of search-service is what a race
for the index needs. The
counters `MaxFaults`, `MaxErrors`, `MaxRestarts`, `MaxStops`, `MaxAnswers`, `MaxCopies`,
`MaxArrivals` appear only in the guards of the environment's actions.

**Prefetch.** `SearchMerge`, `TransactionOutcomes` and the runs of `Pipeline`
take prefetch 1 for search-service and transaction-service, the setting of
their `.env.example` and the only one under which their properties hold; that
they fail with the default of 10 is what `SearchPrefetch` shows for the first.
The AI consumer's properties are checked with overlapping deliveries, also in
`PipelineDuplicates`.

**Fairness.** Outbox: the interval timer keeps firing (`Tick`), an awaited call
settles (`BatchStep`), time passes (`BackoffElapses`), and somebody starts a
process that died (`Restart`): the compose file restarts only what the services
need, so this is an assumption about the operator, without which a row of a dead
process cannot settle. No fairness is assumed of requests, of the
broker's answers or of faults: every publish may fail. A `channel.publish` whose
confirm never comes would stop the poller, as it has no timeout; amqplib fails
all unconfirmed publishes when the channel closes, which the model relies on.
Consumers and Pipeline: the broker delivers, and each awaited call settles; `Pipeline` asks
only that while some consumer can go on, one does, which is less. For the model
request that is the abort timer or, while the body is read, the limit of `fetch`
itself. Nothing is assumed of what it answers. `PublishedIsDecided` speaks of what
was published, so it needs no fairness of the outbox. Startup: a process that
boots goes on, and a process that runs takes what waits for it. Nothing starts a
process that has ended, nor the broker, so `Boot` and `BrokerStarts` are not fair,
and the liveness properties speak of processes that are already starting or can
take deliveries.

**Deadlock** is checked for Outbox, whose poller never stops. The other models
stop when no bounded input is left, so their runs do not check it.

## 5. Findings

1. *A rejection is lost when deliveries overlap* (`SearchPrefetch`). A base event
   and an `ai.rejected` both read "no document"; the first reports `updated`, the
   second reports nothing. The test at elasticsearch.consumer.spec.ts:144 states
   the intended outcome for the sequential case.
2. *An enrichment that comes first is never reported* (`SearchEnrichmentFirst`).
   A rejection that comes first is reported by the later base event; an
   enrichment is not, so the row stays in AI_PROCESSING although the document is
   complete (README.md:168).
3. *A READY row goes back to AI_PROCESSING* (`PipelineReplay`). The ids of
   handled events are lost in a restart of `search-service`, the copy of
   `transaction.created` has the time of the first one and counts as applicable,
   and its outcome is applied whatever the row says. If `ai-service` still knows the
   event, it skips the copy, and nothing decides the transaction again.
4. *A search shows another verdict than the row* (`EnrichmentIndex`).
   `handleAiEnriched` indexes ALLOW for every enrichment, while the outcome it
   reports carries REVIEW to the row; the branch of the search mapper that reads a
   REVIEW from the index is never taken. README.md:169 lists REVIEW among the values
   of `moderationStatus`, in records that a search returns as well. This is
   the shortest violation of `IndexIsDerived`; its second part, `NothingLeftOver`,
   fails on its own as well: the patch leaves out an empty list of tags, and
   `handleAiEnriched` does not write the reason of the moderation, so after a
   verdict without tags a search shows the old ones, and after a rejection followed by
   an ALLOW the reason of the rejection. The row has those of the new verdict, and
   README.md:13 calls the index derived.

Finding 2 bears on the pipeline too: `PublishedIsDecided` holds there because
one queue feeds `search-service` and the model puts the base event into it in the same
step as the copy for `ai-service`, so that no verdict overtakes it with a
prefetch of 1; `SearchConsumer` on its own also takes the other order, which a base event
that failed and was resent, or one that is published late, leads to.

## 6. Proofs

Each theorem holds for every value of the constants that satisfies the named
assumptions: any number of requests, transactions, processes, events, copies,
failures and restarts.

| Module | Theorem | States | Assumes |
|---|---|---|---|
| `OutboxProofs` | `TypeCorrectness` | `TypeOK` | `ConfigAssumption` |
| | `BatchMutualExclusion` | `SingleBatch` | |
| | `NothingPublishedUncommitted` | `NoPhantomEvent` | |
| | `PublishedRowsWereDelivered` | `PublishedWasDelivered` | |
| | `RetryBudgetHolds` | `RetryBudget` | |
| | `DuplicationIsBounded` | `BoundedDuplication` | |
| | `OutboxImplementsPromise` | `ImplementsAtLeastOnce` | |
| `SearchProofs` | `TypeCorrect` | `TypeOK` | bounds are numbers |
| | `StatusAlwaysMatches` | `StatusMatchesContent` | and `Prefetch = 1` |
| | `NewestAlwaysWins` | `NewestEventWins` | and `Prefetch = 1` |
| | `OutcomesReportIndex` | `OutcomeReportsIndex` | and `Prefetch = 1` |
| | `LastOutcomeAlwaysMatches` | `LastOutcomeMatchesIndex` | and `Prefetch = 1` |
| | `HandledOnceAlways` | `HandledOncePerLife` | and `Prefetch = 1`, ids are unique, finitely many events |
| `TransactionProofs` | `TypeCorrect` | `TypeOK` | bounds are numbers |
| | `ColumnsAgreeAlways` | `VerdictColumnsAgree` | and no snapshot says REJECT |
| | `LastOutcomeAlwaysWins` | `LastOutcomeWins` | and `Prefetch = 1`, ids are unique |
| | `VersionAlwaysCounts` | `VersionCountsOutcomes` | and `Prefetch = 1`, ids are unique |
| `AiProofs` | `TypeCorrect` | `TypeOK` | bounds are numbers |
| | `WorkedOnOnce` | `InFlightOnce` | |
| | `Answered` | `RememberedWasAnswered` | and ids are unique |
| | `NoEventUnanswered` | `EveryEventAnswered` | and ids are unique |
| | `NoVerdictUnpaid` | `VerdictsBounded` | and the window holds all ids |
| `EnrichmentProofs` | `TypeCorrect` | `TypeOK` | `EnrichmentAssumption`, `AbsentAssumption` |
| | `SnapshotIsAlwaysTaken` | `SnapshotIsTaken` | |
| | `CoercionAlwaysSuffices` | `CoercionSuffices` | |
| | `RejectionAlwaysHasReason` | `RejectionHasReason` | |
| | `VerdictAlwaysSurvives` | `VerdictSurvives` | |
| | `SharedFieldsAlwaysAgree` | `SharedFieldsAgree` | |
| `StartupProofs` | `TypeCorrect` | `TypeOK` | bounds are numbers, `StartupAssumption`, `TopologyAssumption` |
| | `AlwaysWired` | `RunningIsWired` | |
| | `AlwaysMapped` | `IndexIsMapped` | |
| | `NeverLost` | `NothingLost` | |
| `PipelineProofs` | `RowAlwaysShowsLastVerdict` | `RowShowsLastVerdict` | `PipelineAssumption`, `SearchPrefetch = 1`, `RowPrefetch = 1` |
| | `PipelineImplementsLifecycle` | `ImplementsLifecycle` | and `NoReplay` |

The named assumptions of the modules say what the code ensures: batch size and
retry budget are positive (`getNumericConfig`), the prefetch limit and the window
are positive (Joi, a constant), events have the fields their producers give
them. `TopologyAssumption` says that filtering the bind tables gives a sequence of
bindings; TLC evaluates it on the tables themselves. The assumptions added to a
theorem are what the deployment gives: a prefetch of 1 is in the `.env.example` of
search-service and transaction-service; an id is made by `randomUUID` (`IdsDistinct`);
the window of ai-service holds 10 000 ids (`WindowHoldsAll`: as long as no more
events than that are in question, nothing is forgotten but by a restart);
`ai-service` publishes a REJECT as `ai.rejected`, which carries no snapshot; and
`HandledOncePerLife` sums over the events, which has a meaning for finitely many.
`NoReplay` says that no event is handled twice by search-service: either the outbox
sends each event once (no failure between a publish and its `markPublished`), or
search-service is not restarted and its window of 10 000 ids has room for more than the
transactions and verdicts in question; `PipelineDuplicates` has the second, and
`PipelineReplay` refutes what follows without either. `RowAlwaysShowsLastVerdict` does
without it: there the exception is `MayReplay`, transaction by transaction, so that one
that was sent once is covered whatever happens to the others. ai-service may have any
prefetch limit, forget, restart and answer an event any number of times.
`SearchPrefetch` refutes the serial theorems for a limit of two. In `Enrichment`
the name of the model is not blank (Joi), and `Absent` and `NoMessage` are no values
of the data.

**Outbox.** `TypeOK` is not inductive: `Tail(batch[s])` is a sequence of requests
only if the batch is not empty. `BatchShape` (a batch is empty exactly while its
activation is idle or listing) makes it so: `TypeInv`. `SingleBatch` is inductive
over it: `Tick` needs `~isProcessing`, hence nobody busy; every other step moves
the busy activation or frees it together with the flag. `RowInv` strengthens the
other four: `CommittedRows` ties a row's existence to its commit; `UntouchedRows`
says that only existing rows were sent; `Budget` splits on FAILED; `BatchRows` and
`DistinctBatch` say that the events still in a batch are PENDING and different,
except that the head may be PUBLISHED after an ambiguous update; `SeenIsCurrent`
says that the count `markFailed` read is still the count when it updates, which
makes the budget exact; `CopiesPaidFor` says that a row that is neither PUBLISHED
nor in doubt has no more copies than its retries and the faults account for, the
heart of `BoundedDuplication`. For the refinement, `HeadIsOwed` shows that the row
in hand is owed, and `HeadSettles` that a step which touches only that row leaves
it owed, publishes it or abandons it. A crash that hits after an ambiguous
`markPublished` is the step at which the row becomes published for the client.

**Windows, queues and lapses.** `DeliveryProofs` has what the consumers share:
remembering keeps ids and length, requeueing keeps the messages and their order.
Two of the properties count along a history, and their bound is the same argument,
stated once. A copy of a handled message is handled again only after its id has
left the window, and for that as many other messages as the window holds must have
been remembered after it: a *lapse*. `Lapsed` says that *c* lapses account for the
handlings of a message: *c* full windows, and the ids now standing behind its own,
fit into the other messages that were passed. A message of its own keeps it, another
message adds one to both sides, a handling of a forgotten message adds a lapse
(`LapsedForgotten`), and a restart allows one handling and puts at most one message
back, which is at most a window. The sums in these properties are recursive over
sets, where induction is out of reach; `CountUp` and `SetUp` replace it by the
least number at which a fact fails, and `SumExists` and `AnyFirst` show that the
sum is defined and does not depend on the order of its elements.

**Search consumer.** The type invariant needs `HandlersFit` (only an upsert reads
and writes). With a prefetch of 1 there is at most one handler, and `SerialInv` says
that its copy of the document is the document while it writes: then `Merged`,
computed from the copy, is consistent with what it is merged into. For
`LastOutcomeMatchesIndex`, `ReportedInv` says that a document with base data either
is reported as it is, or an outcome about it is `Owed`: by the handler in hand, or,
after a crash between the write and the publish, by the delivery at the head of the
queue, which the new process does not remember. `HandledOncePerLife` is `RepeatInv`:
the lapses above, and that the message in hand is the last one remembered.

**Transaction consumer.** Each UPDATE writes all the columns `VerdictColumnsAgree`
relates, except that an outcome without a snapshot relies on the verdict that is
already there. For `LastOutcomeWins`, `Positions` ties the deliveries to the history:
the queue is the rest of it, the handler has the last one taken, and what is
remembered was taken. `MayShow` then says which beginnings of the history the rows
may show: what was taken, without the outcome that is being applied or with it, or
one more when a crash has put an applied outcome back into the queue; applying it
again changes nothing but the version (`UpdatedShows`). `VersionCountsOutcomes` is `VersionInv`:
a number of handlings for each outcome, which add up to the versions (`Counted`)
and for which lapses account (`Accounted`).

**AI consumer.** `InFlightOnce` is part of the type invariant (an id is released
with its handler), and `AnsweredInv` adds that a handler which awaits a confirm has
published. `NoneLost` says that, while no call has failed, an event is answered,
queued or worked on: a skipped copy is of an event that is remembered, hence
answered, or in `processingEventIds`, hence worked on. `PaidFor` says that the
verdicts about an event exceed the errors and restarts by at most one, and do not
exceed them at all while the event is neither remembered nor awaiting its confirm:
a handler publishes only about such an event.

**Enrichment.** `TypeInv` gives each message, document and row the shape its
producer gives it: no blank or padded text behind the schema, a score and a
confidence in range and, in the row, with two decimals, a reason wherever there is a
rejection. `SnapshotIsTaken`, `CoercionSuffices` and `RejectionHasReason` follow from it,
the lists kept by a validator (`Kept`) being followed element by element.
`ViewsInv` looks one step ahead: the row as it will be `After` the outcome on its way
tells of the last answer, and `SharedInv` that this row agrees with the document in what
the two share. That is inductive where the agreement of the two views is not, as each
handler changes one of them first. What they do not share (the state, REVIEW, scores,
versions, what an earlier verdict left) is named at `SharedFieldsAgree`.

**Startup.** A process that is past declaring number *k* finds its first *k - 1*
bindings in the broker, and bindings are never removed: so a running process has
all of them. A type of event is published by one service only (`KeysApart`), which
runs and hence has bound every queue that type goes to, so the event reaches all
of them (`NothingLost`). The index is mapped as soon as a process of search-service
is past its check, and no document is written earlier.

**Pipeline.** With a prefetch of 1, what a consumer still has to do is one sequence
(`Work`, `RowWork`: the delivery in its hands and then its queue), which a delivery and a
restart leave as it is, a handler shortens at the front and a publication lengthens at the
end. All steps of all services are described by what they do to it, and
`PipelineInv` is inductive over those descriptions:

* `AiInv`: only sent transactions are judged, and, while no publish failed, each of
  them is queued, worked on or judged. What makes ai-service skip a copy is a verdict or a handler.
* `MessagesInv`: every message of `Work` is an event that was sent or the verdict its time
  says it is, the verdicts stand in their order, and none that waits is remembered, nor is
  the event of a transaction that was sent once.
* `SettledInv`: a transaction is *settled* when search-service is done with its event for
  good: it remembers it, or it may forget but has had the only copy there is. A transaction
  is `Past` when it is settled or may be replayed. In front of every verdict about
  a transaction that is not past stands its event, which is where the order of the
  one queue of search-service comes in.
* `DocInv`: no document is newer than what waits for it, so nothing is skipped as stale;
  and without failed calls the document of a settled transaction has its base data, so every
  verdict is reported.
* `OutcomeInv`, for the transactions that may not be replayed: an outcome says what its
  event or verdict said (`Faithful`), the outcome of the event precedes those of the
  verdicts (`OutcomesOrdered`), and the last verdict about a transaction either waits or
  is the last thing reported about it (`LastIsReported`).
* `RowInv`: the work of transaction-service is the rest of the outcomes; a row shows the
  last outcome about it that is done, unless the next one is about it too: a restart may
  repeat that one, and no other.

At rest both works are empty, and the last three give `RowShowsLastVerdict`. `MayReplay`
never becomes false again, and where it becomes true the invariant asks for less; the
steps to look at are a second `SendCreated` and a restart of search-service or a
full window, which must not make the invariant ask for more of the other transactions.
`Lifecycle` needs `NothingReplayed`: under `NoReplay` no transaction ever may be
replayed, as search-service remembers only the events and verdicts there are
(`RoomInWindow`). There the step to look at is the UPDATE: an outcome of an event meets
a row that is not decided yet (a decided one has the outcome of a verdict behind it,
`RowCauses`, and would precede the event's, against `OutcomesOrdered`), and an outcome of
a verdict decides the row as that verdict says.

**Only model-checked.** The liveness properties (`EveryRowSettles`, `QueueDrains`,
`QueuesDrain`, `PublishedIsDecided`, `ServiceComesUp`, `EventsArrive`), since the
prover does not handle fairness. Every other property of a passing run is a
theorem.

## 7. Not modelled

* The early return of the publishers when their exchange is not configured (for the
  outbox outbox.publisher.ts:26-31): its name is built from a constant and never empty.
* In `SharedFieldsAgree`, the fields only one view has: a hit carries the state of the
  creation, and no scores and versions.
* Elasticsearch as a system that stops or lags: reads see the last write, its ping
  succeeds, and ranking, analysis of words and the limit on hits are left out.
* `TransactionService.SearchTransactions`, `updateState` and
  `updateStateOptimistic`: no service calls them.
* `GET /health` and `GET /health/readiness`: they change no state, and nothing in
  the repository acts on the answer. Reading them beside `Startup`: `connect`
  returns at once when there ever was a connection and nothing clears it, so the
  check of RabbitMQ keeps succeeding while `channel` is dead.
* Swagger, the routing of the gateway, the reply to `POST /transactions`.
* The text of prompts, and texts beyond absent, blank, padded and plain.
* Several instances of transaction-service and ai-service: the outbox claims no rows,
  so the repository's deployment runs one. `Startup` allows any number.
* Messages that are no event envelope: no service publishes one.
* The clock of `createdAt` and `updatedAt` in the index.
* The generated Prisma client, apart from its enums and the rounding of its columns.
