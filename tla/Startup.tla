------------------------------- MODULE Startup -------------------------------
(***************************************************************************)
(* How the services start against the broker and the index, in any order:  *)
(* search-service makes sure of its index, every service declares its      *)
(* queue, its exchange and the bindings of both sides, limits its          *)
(* deliveries and consumes; then it publishes.                             *)
(*                                                                         *)
(* The three calls that declare one binding are one step: each of them is  *)
(* idempotent and none is of use without the next.  When an event is       *)
(* published, and how a delivery is handled, is left to the modules of the *)
(* consumers: here an event is published once and handled at once.         *)
(***************************************************************************)
EXTENDS Topology

CONSTANTS
    Processes,   \* the processes that run
    App,         \* the service each of them is
    Version,     \* RABBITMQ_VERSION, the same for all
    Settings,    \* what RABBITMQ_PREFETCH may hold
    Missing,     \* it is not set
    Keys,        \* the types of events that are published
    MaxRestarts, \* bound: crashes of processes
    MaxStops     \* bound: stops of the broker

ASSUME StartupAssumption ==
    /\ App \in [Processes -> Apps]
    /\ Settings \subseteq Int \cup {Missing}
    /\ Missing \notin Int

\* The bind tables are given; TLC works out what is filtered from them.
ASSUME TopologyAssumption ==
    \A a \in Apps : InboundBindings(QueueOf(a)) \in Seq({AllBindings[i] : i \in DOMAIN AllBindings})

VARIABLES
    pc,        \* where each process is
    next,      \* the declaration it makes next
    setting,   \* its RABBITMQ_PREFETCH
    channel,   \* its channel: it never had one, it is open, it is dead
    limit,     \* the limit on its unacknowledged deliveries, 0 for none
    broker,    \* the broker runs
    bindings,  \* what is bound, which outlives the broker
    queues,    \* what waits in each queue, which outlives it too
    received,  \* what was taken from each queue
    published, \* what was published
    index,     \* the index: none, with the mapping, with a guessed one
    restarts, stops

vars == <<pc, next, setting, channel, limit, broker, bindings, queues, received,
          published, index, restarts, stops>>

messages == <<queues, received, published>>
world    == <<broker, bindings, queues, received, published, index>>
bounds   == <<restarts, stops>>

Queues == {QueueOf(a) : a \in Apps}

\* A binding, under the names that are declared.
Versioned(b) ==
    [exchange |-> VersionedName(b.exchange, Version), key |-> b.key,
     queue |-> VersionedName(b.queue, Version)]

\* Variant: every service binds its own queue only.
TargetsInboundOnly(app) == InboundBindings(QueueOf(app))

\* What a service binds, in order.
Targets(app) == BindingTargets(app)

\* Variant: any number will do.
EnvAcceptsAny(s) == TRUE

\* The environment is validated before anything is started.
EnvAccepts(s) == IF s = Missing THEN TRUE ELSE s >= 1 /\ s <= 500
EnvValue(s)   == IF s = Missing THEN 10 ELSE s

Booting == {"checkIndex", "createIndex", "putMapping", "connecting", "declaring",
            "limiting", "subscribing"}

\* SEARCH_INDEX_MAPPINGS are the types an index has, or has not; "guessed" is one
\* that Elasticsearch made of the first document.
IndexStates == {"none", "mapped", "guessed"}

-----------------------------------------------------------------------------
Init ==
    /\ pc = [p \in Processes |-> "down"]
    /\ next = [p \in Processes |-> 1]
    /\ setting \in [Processes -> Settings]
    /\ channel = [p \in Processes |-> "none"]
    /\ limit = [p \in Processes |-> 0]
    /\ broker = TRUE
    /\ bindings = {}
    /\ queues = [q \in Queues |-> {}]
    /\ received = [q \in Queues |-> {}]
    /\ published = {}
    /\ index = "none"
    /\ restarts = 0 /\ stops = 0

Goes(p, stage) == pc' = [pc EXCEPT ![p] = stage]

\* The bootstrap failed and the process ends.
Ends(p) ==
    /\ Goes(p, "down")
    /\ next' = [next EXCEPT ![p] = 1]
    /\ channel' = [channel EXCEPT ![p] = "none"]
    /\ limit' = [limit EXCEPT ![p] = 0]

\* Variant: the orchestrator of search-service connects at once.
BootWithoutIndex(p) ==
    /\ pc[p] = "down"
    /\ EnvAccepts(setting[p])
    /\ Goes(p, "connecting")
    /\ UNCHANGED <<next, setting, channel, limit, world, bounds>>

\* main, up to onApplicationBootstrap; with a setting that is not accepted the
\* process does not come up at all.
Boot(p) ==
    /\ pc[p] = "down"
    /\ EnvAccepts(setting[p])
    /\ Goes(p, IF App[p] = "searchService" THEN "checkIndex" ELSE "connecting")
    /\ UNCHANGED <<next, setting, channel, limit, world, bounds>>

\* Variant: the index is always created.
CheckIndexNever(p) ==
    /\ pc[p] = "checkIndex"
    /\ Goes(p, "createIndex")
    /\ UNCHANGED <<next, setting, channel, limit, world, bounds>>

\* ElasticsearchBootstrapService.initialize
CheckIndex(p) ==
    /\ pc[p] = "checkIndex"
    /\ Goes(p, IF index = "none" THEN "createIndex" ELSE "putMapping")
    /\ UNCHANGED <<next, setting, channel, limit, world, bounds>>

\* Another process was faster: the index exists and the call throws.
CreateIndex(p) ==
    /\ pc[p] = "createIndex"
    /\ \/ /\ index = "none"
          /\ index' = "mapped"
          /\ Goes(p, "connecting")
          /\ UNCHANGED <<next, channel, limit>>
       \/ /\ index # "none"
          /\ Ends(p)
          /\ UNCHANGED index
    /\ UNCHANGED <<setting, broker, bindings, messages, bounds>>

\* The type of a field that exists cannot be changed.
PutMapping(p) ==
    /\ pc[p] = "putMapping"
    /\ IF index = "mapped" THEN Goes(p, "connecting") /\ UNCHANGED <<next, channel, limit>>
                           ELSE Ends(p)
    /\ UNCHANGED <<setting, world, bounds>>

\* connect: when the broker is not there it throws.
Connect(p) ==
    /\ pc[p] = "connecting"
    /\ \/ /\ broker
          /\ channel' = [channel EXCEPT ![p] = "open"]
          /\ Goes(p, "declaring")
          /\ UNCHANGED <<next, limit>>
       \/ ~broker /\ Ends(p)
    /\ UNCHANGED <<setting, world, bounds>>

\* Own queue and exchange, then assertResolvedTopicBindings.
Declare(p) ==
    /\ pc[p] = "declaring"
    /\ next[p] <= Len(Targets(App[p]))
    /\ bindings' = bindings \cup {Versioned(Targets(App[p])[next[p]])}
    /\ next' = [next EXCEPT ![p] = @ + 1]
    /\ UNCHANGED <<pc, setting, channel, limit, broker, messages, index, bounds>>

Declared(p) ==
    /\ pc[p] = "declaring"
    /\ next[p] > Len(Targets(App[p]))
    /\ Goes(p, "limiting")
    /\ UNCHANGED <<next, setting, channel, limit, world, bounds>>

Prefetch(p) ==
    /\ pc[p] = "limiting"
    /\ limit' = [limit EXCEPT ![p] = ResolvePrefetch(EnvValue(setting[p]), TRUE)]
    /\ Goes(p, "subscribing")
    /\ UNCHANGED <<next, setting, channel, world, bounds>>

\* consume; transaction-service starts the outbox poller after it.
Subscribe(p) ==
    /\ pc[p] = "subscribing"
    /\ Goes(p, "running")
    /\ UNCHANGED <<next, setting, channel, limit, world, bounds>>

-----------------------------------------------------------------------------
Works(p) == pc[p] = "running" /\ channel[p] = "open"

\* The queues an event goes to are those bound at this moment; the broker drops
\* what no binding matches.
Publish(p, b) ==
    /\ Works(p)
    /\ b.key \in Keys /\ b.key \notin published
    /\ published' = published \cup {b.key}
    /\ queues' = [q \in Queues |->
                    IF \E c \in bindings : /\ c.exchange = VersionedName(ExchangeOf(App[p]), Version)
                                           /\ c.key = b.key
                                           /\ c.queue = VersionedName(q, Version)
                    THEN queues[q] \cup {b.key} ELSE queues[q]]
    /\ UNCHANGED <<pc, next, setting, channel, limit, broker, bindings, received, index, bounds>>

\* Elasticsearch makes an index that is missing, and guesses the types.
Consume(p, k) ==
    LET q == QueueOf(App[p]) IN
    /\ Works(p)
    /\ k \in queues[q]
    /\ queues' = [queues EXCEPT ![q] = @ \ {k}]
    /\ received' = [received EXCEPT ![q] = @ \cup {k}]
    /\ index' = IF App[p] = "searchService" /\ index = "none" THEN "guessed" ELSE index
    /\ UNCHANGED <<pc, next, setting, channel, limit, broker, bindings, published, bounds>>

-----------------------------------------------------------------------------
Crash(p) ==
    /\ restarts < MaxRestarts
    /\ pc[p] # "down"
    /\ Ends(p)
    /\ restarts' = restarts + 1
    /\ UNCHANGED <<setting, world, stops>>

\* A process that still boots fails with its call.  One that runs loses its
\* channel and goes on, or it ends: a connection that breaks without the broker
\* closing it emits an error, and nothing listens for it.
BrokerStops(ended) ==
    /\ broker /\ stops < MaxStops
    /\ stops' = stops + 1
    /\ broker' = FALSE
    /\ \A p \in Processes : pc[p] \in Booting /\ channel[p] = "open" => p \in ended
    /\ \A p \in ended : channel[p] = "open"
    /\ pc' = [p \in Processes |-> IF p \in ended THEN "down" ELSE pc[p]]
    /\ next' = [p \in Processes |-> IF p \in ended THEN 1 ELSE next[p]]
    /\ limit' = [p \in Processes |-> IF p \in ended THEN 0 ELSE limit[p]]
    /\ channel' = [p \in Processes |-> IF p \in ended THEN "none"
                                       ELSE IF channel[p] = "open" THEN "dead" ELSE channel[p]]
    /\ UNCHANGED <<setting, bindings, messages, index, restarts>>

BrokerStarts ==
    /\ ~broker
    /\ broker' = TRUE
    /\ UNCHANGED <<pc, next, setting, channel, limit, bindings, messages, index, bounds>>

-----------------------------------------------------------------------------
Boots(p) ==
    \/ Boot(p) \/ CheckIndex(p) \/ CreateIndex(p) \/ PutMapping(p) \/ Connect(p)
    \/ Declare(p) \/ Declared(p) \/ Prefetch(p) \/ Subscribe(p)

Publishes(p) == \E i \in DOMAIN OutboundBindings(App[p]) : Publish(p, OutboundBindings(App[p])[i])
Consumes(p)  == \E k \in Keys : Consume(p, k)

Next ==
    \/ \E p \in Processes : Boots(p) \/ Publishes(p) \/ Consumes(p) \/ Crash(p)
    \/ \E ended \in SUBSET Processes : BrokerStops(ended)
    \/ BrokerStarts

Spec == Init /\ [][Next]_vars

\* Node runs what is ready.  Nothing starts a process that ended: Boot is not fair.
\* Nor is BrokerStarts, or a publish.
FairSpec ==
    Spec /\ \A p \in Processes : WF_vars(Boots(p) /\ pc[p] # "down") /\ WF_vars(Consumes(p))

-----------------------------------------------------------------------------
(***************************************************************************)
(* Properties.                                                             *)
(***************************************************************************)
\* The values the variables may hold: a process that is down holds nothing.
TypeOK ==
    /\ pc \in [Processes -> Booting \cup {"down", "running"}]
    /\ next \in [Processes -> Nat \ {0}]
    /\ setting \in [Processes -> Settings]
    /\ channel \in [Processes -> {"none", "open", "dead"}]
    /\ limit \in [Processes -> 0..500]
    /\ broker \in BOOLEAN
    /\ queues \in [Queues -> SUBSET Keys]
    /\ received \in [Queues -> SUBSET Keys]
    /\ published \subseteq Keys
    /\ index \in IndexStates
    /\ restarts \in 0..MaxRestarts /\ stops \in 0..MaxStops

\* A process takes deliveries only with a limit on them, and when all that it binds
\* is bound, whatever crashed or stopped since.
RunningIsWired ==
    \A p \in Processes : pc[p] = "running" =>
        /\ limit[p] \in 1..500
        /\ \A i \in DOMAIN BindingTargets(App[p]) : Versioned(BindingTargets(App[p])[i]) \in bindings

\* "Ensures queues this app binds for other services exist when search starts
\* first" (rabbitmq.config.ts:28): whichever service starts first, an event reaches
\* the queue of each of its consumers, also of one that never ran, and stays there
\* when processes and broker stop.
NothingLost ==
    \A a \in Apps : \A i \in DOMAIN OutboundBindings(a) :
        LET b == OutboundBindings(a)[i] IN
        b.key \in published => b.key \in queues[b.queue] \cup received[b.queue]

\* No document is written before the index has its mapping.  Types that were
\* guessed could not be corrected, and search-service would not start again.
IndexIsMapped ==
    /\ index # "guessed"
    /\ \A p \in Processes : App[p] = "searchService" /\ pc[p] = "running" => index = "mapped"

\* Another process of search-service has created the index meanwhile.
LostRace(p) == pc[p] = "createIndex" /\ index # "none"

\* Nothing crashes or stops any more.
Quiet == restarts = MaxRestarts /\ stops = MaxStops /\ broker

\* A service that is started after the last crash and stop comes up, in whatever
\* order the services start.  Of two processes that both find no index the slower one
\* ends: it must not take the other with it, nor whoever starts later.
ServiceComesUp ==
    \A a \in Apps :
        Quiet /\ (\E p \in Processes : App[p] = a /\ pc[p] \in Booting /\ ~LostRace(p))
        ~> \E p \in Processes : App[p] = a /\ pc[p] = "running"

\* In the end a service that can take deliveries has got every event for it that was
\* ever published, also those from before it ran, and those its crashed processes or
\* the stopped broker held.
EventsArrive ==
    <>[](\A a \in Apps, p \in Processes : \A i \in DOMAIN OutboundBindings(a) :
        LET b == OutboundBindings(a)[i] IN
        b.key \in published /\ b.queue = QueueOf(App[p]) /\ Works(p) => b.key \in received[b.queue])

=============================================================================
