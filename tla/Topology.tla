------------------------------ MODULE Topology ------------------------------
(***************************************************************************)
(* Which exchange is bound to which queue: rabbitmqStructureConfig and the *)
(* functions of libs/common that every service derives its declarations    *)
(* from.  The module has no state; Startup runs it, Pipeline routes by it. *)
(***************************************************************************)
EXTENDS Integers, Sequences, FiniteSets, SequencesExt

Apps == {"transactionService", "aiService", "searchService"}

QueueOf(app) ==
    IF app = "transactionService" THEN "transaction-service.queue"
    ELSE IF app = "aiService" THEN "ai-service.queue"
    ELSE "search-service.queue"

ExchangeOf(app) ==
    IF app = "transactionService" THEN "transaction.events"
    ELSE IF app = "aiService" THEN "ai.events"
    ELSE "search.events"

\* Variant: the bind table of transactionService forgets ai-service.
BindWithoutAi(app) ==
    IF app = "transactionService" THEN
        << <<"transaction.created", "search-service.queue">>,
           <<"transaction.updated", "search-service.queue">>,
           <<"transaction.deleted", "search-service.queue">> >>
    ELSE IF app = "aiService" THEN
        << <<"ai.enriched", "search-service.queue">>,
           <<"ai.rejected", "search-service.queue">> >>
    ELSE
        << <<"search.index.updated", "transaction-service.queue">>,
           <<"search.index.rejected", "transaction-service.queue">> >>

\* The bind tables: pairs of a routing key and a queue, in the order in which
\* Object.entries walks them.
Bind(app) ==
    IF app = "transactionService" THEN
        << <<"transaction.created", "search-service.queue">>,
           <<"transaction.created", "ai-service.queue">>,
           <<"transaction.updated", "search-service.queue">>,
           <<"transaction.updated", "ai-service.queue">>,
           <<"transaction.deleted", "search-service.queue">> >>
    ELSE IF app = "aiService" THEN
        << <<"ai.enriched", "search-service.queue">>,
           <<"ai.rejected", "search-service.queue">> >>
    ELSE
        << <<"search.index.updated", "transaction-service.queue">>,
           <<"search.index.rejected", "transaction-service.queue">> >>

\* Exchanges are topics and durable, all of them.
QueueBindingTarget(app, entry) ==
    [exchange |-> ExchangeOf(app), key |-> entry[1], queue |-> entry[2]]

\* expandOutboundBindings
OutboundBindings(app) ==
    [i \in DOMAIN Bind(app) |-> QueueBindingTarget(app, Bind(app)[i])]

AllBindings ==
    OutboundBindings("transactionService") \o OutboundBindings("aiService")
        \o OutboundBindings("searchService")

\* collectInboundBindingsForQueue
InboundBindings(queue) == SelectSeq(AllBindings, LAMBDA b : b.queue = queue)

\* allBindingTargets of a service's initialize.
BindingTargets(app) == OutboundBindings(app) \o InboundBindings(QueueOf(app))

\* buildVersionedName; names that differ in the version never meet.
VersionedName(base, version) == <<base, version>>

\* The queues that get an event published with this key, which is its type: no
\* producer's type has the version part normalizeRoutingKey would drop.
QueuesFor(key) == {AllBindings[i].queue : i \in {j \in DOMAIN AllBindings : AllBindings[j].key = key}}

\* resolveRabbitMqPrefetch; isNumber is false for a setting that Number() turns
\* into NaN or an infinity.
ResolvePrefetch(raw, isNumber) == IF isNumber /\ raw > 0 THEN raw ELSE 10

=============================================================================
