--------------------------- MODULE StartupProofs ---------------------------
(***************************************************************************)
(* Proofs about Startup, for every number of processes of the services,    *)
(* every prefetch setting and every number of crashes and broker stops.    *)
(***************************************************************************)
EXTENDS Startup, TLAPS

BoundsAssumption == MaxRestarts \in Nat /\ MaxStops \in Nat

BeforeIndex == {"down", "checkIndex", "createIndex", "putMapping"}

\* What a process may rely on, wherever it is in its bootstrap.
Sound(p) ==
    /\ pc[p] # "down" => EnvAccepts(setting[p])
    /\ \A i \in DOMAIN BindingTargets(App[p]) :
          i < next[p] => Versioned(BindingTargets(App[p])[i]) \in bindings
    /\ pc[p] \in {"limiting", "subscribing", "running"} =>
          next[p] > Len(BindingTargets(App[p]))
    /\ pc[p] \in {"subscribing", "running"} => limit[p] \in 1..500
    /\ App[p] = "searchService" /\ pc[p] \notin BeforeIndex => index = "mapped"
    /\ pc[p] = "putMapping" => index # "none"

\* The inductive invariant: RunningIsWired and IndexIsMapped follow from it.
IInv ==
    /\ TypeOK
    /\ index # "guessed"
    /\ \A p \in Processes : Sound(p)

-----------------------------------------------------------------------------
(***************************************************************************)
(* The topology.                                                           *)
(***************************************************************************)
KeysOf(a) ==
    IF a = "transactionService"
    THEN {"transaction.created", "transaction.updated", "transaction.deleted"}
    ELSE IF a = "aiService" THEN {"ai.enriched", "ai.rejected"}
    ELSE {"search.index.updated", "search.index.rejected"}

QueueNames == {"transaction-service.queue", "ai-service.queue", "search-service.queue"}

LEMMA QueuesNamed == Queues = QueueNames
  BY DEF Queues, QueueNames, QueueOf, Apps

\* The entries of a bind table.
LEMMA BindShape ==
    ASSUME NEW a \in Apps
    PROVE  Bind(a) \in Seq(KeysOf(a) \X QueueNames)
<1>1. CASE a = "transactionService"
  <2> DEFINE S == {"transaction.created", "transaction.updated", "transaction.deleted"} \X QueueNames
  <2>1. /\ <<"transaction.created", "search-service.queue">> \in S
        /\ <<"transaction.created", "ai-service.queue">> \in S
        /\ <<"transaction.updated", "search-service.queue">> \in S
        /\ <<"transaction.updated", "ai-service.queue">> \in S
        /\ <<"transaction.deleted", "search-service.queue">> \in S
    BY DEF QueueNames
  <2>2. KeysOf(a) \X QueueNames = S
    BY <1>1 DEF KeysOf
  <2> HIDE DEF S
  <2> QED
    BY <1>1, <2>1, <2>2 DEF Bind
<1>2. CASE a = "aiService"
  <2> DEFINE S == {"ai.enriched", "ai.rejected"} \X QueueNames
  <2>1. /\ <<"ai.enriched", "search-service.queue">> \in S
        /\ <<"ai.rejected", "search-service.queue">> \in S
    BY DEF QueueNames
  <2>2. KeysOf(a) \X QueueNames = S
    BY <1>2 DEF KeysOf
  <2> HIDE DEF S
  <2> QED
    BY <1>2, <2>1, <2>2 DEF Bind
<1>3. CASE a = "searchService"
  <2> DEFINE S == {"search.index.updated", "search.index.rejected"} \X QueueNames
  <2>1. /\ <<"search.index.updated", "transaction-service.queue">> \in S
        /\ <<"search.index.rejected", "transaction-service.queue">> \in S
    BY DEF QueueNames
  <2>2. KeysOf(a) \X QueueNames = S
    BY <1>3 DEF KeysOf
  <2> HIDE DEF S
  <2> QED
    BY <1>3, <2>1, <2>2 DEF Bind
<1> QED
  BY <1>1, <1>2, <1>3 DEF Apps

LEMMA OutboundShape ==
    ASSUME NEW a \in Apps
    PROVE  /\ OutboundBindings(a) \in Seq({OutboundBindings(a)[i] : i \in DOMAIN OutboundBindings(a)})
           /\ \A i \in DOMAIN OutboundBindings(a) :
                 /\ OutboundBindings(a)[i].exchange = ExchangeOf(a)
                 /\ OutboundBindings(a)[i].key \in KeysOf(a)
                 /\ OutboundBindings(a)[i].queue \in Queues
<1>1. PICK S : S = KeysOf(a) \X QueueNames /\ Bind(a) \in Seq(S)
  BY BindShape
<1>2. PICK n \in Nat : DOMAIN Bind(a) = 1..n /\ \A i \in 1..n : Bind(a)[i] \in S
  BY <1>1
<1>3. \A i \in 1..n : Bind(a)[i][1] \in KeysOf(a) /\ Bind(a)[i][2] \in QueueNames
  BY <1>1, <1>2
<1>4. \A i \in 1..n :
         /\ OutboundBindings(a)[i].exchange = ExchangeOf(a)
         /\ OutboundBindings(a)[i].key \in KeysOf(a)
         /\ OutboundBindings(a)[i].queue \in QueueNames
  BY <1>2, <1>3 DEF OutboundBindings, QueueBindingTarget
<1>5. DOMAIN OutboundBindings(a) = 1..n
  BY <1>2 DEF OutboundBindings
<1>6. OutboundBindings(a) = [i \in 1..n |-> OutboundBindings(a)[i]]
  BY <1>5 DEF OutboundBindings
<1>7. OutboundBindings(a) \in Seq({OutboundBindings(a)[i] : i \in DOMAIN OutboundBindings(a)})
  BY <1>2, <1>5, <1>6
<1> QED
  BY <1>4, <1>5, <1>7, QueuesNamed

\* No two services publish the same type of event.
LEMMA KeysApart ==
    ASSUME NEW a \in Apps, NEW c \in Apps,
           NEW i \in DOMAIN OutboundBindings(a), NEW j \in DOMAIN OutboundBindings(c),
           OutboundBindings(a)[i].key = OutboundBindings(c)[j].key
    PROVE  a = c
<1>1. \A app, other \in Apps : KeysOf(app) \cap KeysOf(other) # {} => app = other
  BY DEF Apps, KeysOf
<1> QED
  BY <1>1, OutboundShape

LEMMA TargetsShape ==
    ASSUME NEW a \in Apps
    PROVE  /\ DOMAIN BindingTargets(a) = 1..Len(BindingTargets(a))
           /\ Len(BindingTargets(a)) \in Nat
           /\ \A i \in DOMAIN OutboundBindings(a) :
                 i \in DOMAIN BindingTargets(a) /\ BindingTargets(a)[i] = OutboundBindings(a)[i]
<1>1. PICK S : OutboundBindings(a) \in Seq(S)
  BY OutboundShape
<1>2. PICK T : InboundBindings(QueueOf(a)) \in Seq(T)
  BY TopologyAssumption
<1>3. OutboundBindings(a) \in Seq(S \cup T) /\ InboundBindings(QueueOf(a)) \in Seq(S \cup T)
  BY <1>1, <1>2
<1> QED
  BY <1>3 DEF BindingTargets

-----------------------------------------------------------------------------
(***************************************************************************)
(* One process moves, the others stay where they are.                      *)
(***************************************************************************)
LEMMA StaysSound ==
    ASSUME NEW q \in Processes, Sound(q),
           pc'[q] = pc[q], next'[q] = next[q], limit'[q] = limit[q], setting' = setting,
           bindings \subseteq bindings', index' = index \/ (index = "none" /\ index' = "mapped")
    PROVE  Sound(q)'
  BY DEF Sound

LEMMA EndsSound ==
    ASSUME NEW q \in Processes, pc'[q] = "down", next'[q] = 1
    PROVE  Sound(q)'
<1>1. App[q] \in Apps
  BY StartupAssumption
<1>2. \A i \in DOMAIN BindingTargets(App[q]) : ~(i < 1)
  BY <1>1, TargetsShape
<1> QED
  BY <1>2 DEF Sound, BeforeIndex

LEMMA Accepted ==
    ASSUME NEW s \in Settings, EnvAccepts(s)
    PROVE  ResolvePrefetch(EnvValue(s), TRUE) \in 1..500
<1>1. CASE s = Missing
  BY <1>1 DEF EnvValue, ResolvePrefetch
<1>2. CASE s # Missing
  <2>1. s \in Int /\ s >= 1 /\ s <= 500
    BY <1>2, StartupAssumption DEF EnvAccepts
  <2> QED
    BY <1>2, <2>1 DEF EnvValue, ResolvePrefetch
<1> QED
  BY <1>1, <1>2

LEMMA IInvInit == ASSUME BoundsAssumption PROVE Init => IInv
<1> SUFFICES ASSUME Init PROVE IInv
  OBVIOUS
<1>1. TypeOK
  BY DEF Init, TypeOK, IndexStates, BoundsAssumption
<1>2. ASSUME NEW p \in Processes PROVE Sound(p)
  <2>1. App[p] \in Apps
    BY StartupAssumption
  <2>2. \A i \in DOMAIN BindingTargets(App[p]) : ~(i < 1)
    BY <2>1, TargetsShape
  <2> QED
    BY <2>2 DEF Init, Sound, BeforeIndex
<1> QED
  BY <1>1, <1>2 DEF IInv, Init

\* The steps of a bootstrap.
LEMMA BootStep ==
    ASSUME IInv, NEW p \in Processes, Boots(p)
    PROVE  IInv'
<1> USE DEF IInv
<1>0. /\ Sound(p) /\ App[p] \in Apps /\ setting[p] \in Settings /\ next[p] \in Nat \ {0}
      /\ \A q \in Processes : Sound(q)
  BY StartupAssumption DEF TypeOK, IndexStates
<1>1. TypeOK'
  <2>1. CASE Boot(p)
    BY <2>1 DEF Boot, Goes, TypeOK, IndexStates, Booting,
             world, messages, bounds
  <2>2. CASE CheckIndex(p)
    BY <2>2 DEF CheckIndex, Goes, TypeOK, IndexStates, Booting,
             world, messages, bounds
  <2>3. CASE CreateIndex(p)
    BY <2>3 DEF CreateIndex, Ends, Goes, TypeOK, IndexStates, Booting,
             world, messages, bounds
  <2>4. CASE PutMapping(p)
    BY <2>4 DEF PutMapping, Ends, Goes, TypeOK, IndexStates, Booting,
             world, messages, bounds
  <2>5. CASE Connect(p)
    BY <2>5 DEF Connect, Ends, Goes, TypeOK, IndexStates, Booting,
             world, messages, bounds
  <2>6. CASE Declare(p)
    <3>1. next' \in [Processes -> Nat \ {0}]
      BY <2>6 DEF Declare, TypeOK, IndexStates
    <3> QED
      BY <2>6, <3>1 DEF Declare, TypeOK, IndexStates, messages, bounds
  <2>7. CASE Declared(p)
    BY <2>7 DEF Declared, Goes, TypeOK, IndexStates, Booting,
             world, messages, bounds
  <2>8. CASE Prefetch(p)
    <3>1. EnvAccepts(setting[p])
      BY <1>0, <2>8 DEF Prefetch, Sound
    <3>2. ResolvePrefetch(EnvValue(setting[p]), TRUE) \in 1..500
      BY <1>0, <3>1, Accepted
    <3>3. limit' \in [Processes -> 0..500]
      <4>1. limit \in [Processes -> 0..500]
        BY DEF TypeOK, IndexStates
      <4>2. \E n \in 1..500 : limit' = [limit EXCEPT ![p] = n]
        <5>1. limit' = [limit EXCEPT ![p] = ResolvePrefetch(EnvValue(setting[p]), TRUE)]
          BY <2>8 DEF Prefetch
        <5> QED
          BY <3>2, <5>1, Zenon
      <4> QED
        BY <4>1, <4>2
    <3> QED
      BY <2>8, <3>3 DEF Prefetch, Goes, TypeOK, IndexStates, Booting,
             world, messages, bounds
  <2>9. CASE Subscribe(p)
    BY <2>9 DEF Subscribe, Goes, TypeOK, IndexStates, Booting,
             world, messages, bounds
  <2> QED
    BY <2>1, <2>2, <2>3, <2>4, <2>5, <2>6, <2>7, <2>8, <2>9 DEF Boots
<1>2. /\ setting' = setting /\ bindings \subseteq bindings'
      /\ index' = index \/ (index = "none" /\ index' = "mapped")
      /\ \A q \in Processes \ {p} : /\ pc'[q] = pc[q] /\ next'[q] = next[q]
                                    /\ limit'[q] = limit[q]
  <2>1. setting' = setting /\ bindings \subseteq bindings'
    BY DEF Boots, Boot, CheckIndex, CreateIndex, PutMapping, Connect, Declare, Declared,
           Prefetch, Subscribe, world, messages
  <2>2. index' = index \/ (index = "none" /\ index' = "mapped")
    BY DEF Boots, Boot, CheckIndex, CreateIndex, PutMapping, Connect, Declare, Declared,
           Prefetch, Subscribe, world
  <2>3. \A q \in Processes \ {p} : /\ pc'[q] = pc[q] /\ next'[q] = next[q]
                                   /\ limit'[q] = limit[q]
    BY DEF Boots, Boot, CheckIndex, CreateIndex, PutMapping, Connect, Declare, Declared,
           Prefetch, Subscribe, Ends, Goes, TypeOK
  <2> QED
    BY <2>1, <2>2, <2>3
<1>3. \A q \in Processes \ {p} : Sound(q)'
  BY <1>0, <1>2, StaysSound
<1>4. Sound(p)'
  <2>0. /\ Len(BindingTargets(App[p])) \in Nat
        /\ DOMAIN BindingTargets(App[p]) = 1..Len(BindingTargets(App[p]))
    BY <1>0, TargetsShape
  <2>1. CASE Boot(p)
    <3>1. /\ pc'[p] \in {"checkIndex", "connecting"} /\ EnvAccepts(setting[p])
          /\ App[p] = "searchService" => pc'[p] = "checkIndex"
          /\ next' = next /\ bindings' = bindings
      BY <2>1 DEF Boot, Goes, TypeOK, IndexStates, world
    <3> QED
      BY <1>0, <1>2, <3>1 DEF Sound, BeforeIndex
  <2>2. CASE CheckIndex(p)
    <3>1. /\ pc[p] = "checkIndex" /\ next' = next /\ bindings' = bindings /\ index' = index
          /\ pc'[p] = IF index = "none" THEN "createIndex" ELSE "putMapping"
      BY <2>2 DEF CheckIndex, Goes, TypeOK, IndexStates, world
    <3> QED
      BY <1>0, <1>2, <3>1 DEF Sound, BeforeIndex
  <2>3. CASE CreateIndex(p)
    <3>1. CASE index = "none"
      <4>1. /\ pc[p] = "createIndex" /\ next' = next /\ bindings' = bindings
            /\ index' = "mapped" /\ pc'[p] = "connecting"
        BY <2>3, <3>1 DEF CreateIndex, Goes, TypeOK, IndexStates
      <4> QED
        BY <1>0, <1>2, <4>1 DEF Sound, BeforeIndex
    <3>2. CASE index # "none"
      <4>1. pc'[p] = "down" /\ next'[p] = 1
        BY <2>3, <3>2 DEF CreateIndex, Ends, Goes, TypeOK, IndexStates
      <4> QED
        BY <4>1, EndsSound
    <3> QED
      BY <3>1, <3>2
  <2>4. CASE PutMapping(p)
    <3>1. CASE index = "mapped"
      <4>1. /\ pc[p] = "putMapping" /\ next' = next /\ bindings' = bindings
            /\ index' = "mapped" /\ pc'[p] = "connecting"
        BY <2>4, <3>1 DEF PutMapping, Goes, TypeOK, IndexStates, world
      <4> QED
        BY <1>0, <1>2, <4>1 DEF Sound, BeforeIndex
    <3>2. CASE index # "mapped"
      <4>1. pc'[p] = "down" /\ next'[p] = 1
        BY <2>4, <3>2 DEF PutMapping, Ends, Goes, TypeOK, IndexStates
      <4> QED
        BY <4>1, EndsSound
    <3> QED
      BY <3>1, <3>2
  <2>5. CASE Connect(p)
    <3>1. CASE broker /\ pc'[p] = "declaring"
      <4>1. pc[p] = "connecting" /\ next' = next /\ bindings' = bindings /\ index' = index
        BY <2>5, <3>1 DEF Connect, Ends, Goes, TypeOK, IndexStates, world
      <4> QED
        BY <1>0, <1>2, <3>1, <4>1 DEF Sound, BeforeIndex
    <3>2. CASE pc'[p] = "down" /\ next'[p] = 1
      BY <3>2, EndsSound
    <3> QED
      BY <2>5, <3>1, <3>2 DEF Connect, Ends, Goes, TypeOK, IndexStates
  <2>6. CASE Declare(p)
    <3>1. /\ pc[p] = "declaring" /\ pc' = pc /\ next'[p] = next[p] + 1 /\ index' = index
          /\ next[p] <= Len(BindingTargets(App[p]))
          /\ bindings' = bindings \cup {Versioned(BindingTargets(App[p])[next[p]])}
      BY <2>6 DEF Declare, TypeOK, IndexStates, Targets
    <3>2. ASSUME NEW i \in DOMAIN BindingTargets(App[p]), i < next'[p]
          PROVE  Versioned(BindingTargets(App[p])[i]) \in bindings'
      <4>1. i < next[p] \/ i = next[p]
        BY <1>0, <2>0, <3>1, <3>2
      <4> QED
        BY <1>0, <3>1, <4>1 DEF Sound
    <3> QED
      BY <1>0, <1>2, <3>1, <3>2 DEF Sound, BeforeIndex, Versioned
  <2>7. CASE Declared(p)
    <3>1. /\ pc[p] = "declaring" /\ pc'[p] = "limiting" /\ next' = next /\ index' = index
          /\ bindings' = bindings /\ next[p] > Len(BindingTargets(App[p]))
      BY <2>7 DEF Declared, Goes, TypeOK, IndexStates, world, Targets
    <3> QED
      BY <1>0, <1>2, <3>1 DEF Sound, BeforeIndex
  <2>8. CASE Prefetch(p)
    <3>1. /\ pc[p] = "limiting" /\ pc'[p] = "subscribing" /\ next' = next /\ index' = index
          /\ bindings' = bindings
          /\ limit'[p] = ResolvePrefetch(EnvValue(setting[p]), TRUE)
      BY <2>8 DEF Prefetch, Goes, TypeOK, IndexStates, world
    <3>2. limit'[p] \in 1..500
      BY <1>0, <3>1, Accepted DEF Sound
    <3> QED
      BY <1>0, <1>2, <3>1, <3>2 DEF Sound, BeforeIndex
  <2>9. CASE Subscribe(p)
    <3>1. /\ pc[p] = "subscribing" /\ pc'[p] = "running" /\ next' = next /\ index' = index
          /\ bindings' = bindings /\ limit' = limit
      BY <2>9 DEF Subscribe, Goes, TypeOK, IndexStates, world
    <3> QED
      BY <1>0, <1>2, <3>1 DEF Sound, BeforeIndex
  <2> QED
    BY <2>1, <2>2, <2>3, <2>4, <2>5, <2>6, <2>7, <2>8, <2>9 DEF Boots
<1>5. index' # "guessed"
  BY <1>2
<1> QED
  BY <1>1, <1>3, <1>4, <1>5

\* Events come and go, and the index that has its mapping keeps it.
LEMMA MessageStep ==
    ASSUME IInv, NEW p \in Processes, Publishes(p) \/ Consumes(p)
    PROVE  IInv'
<1> USE DEF IInv
<1>1. CASE Publishes(p)
  <2>1. PICK b : Publish(p, b)
    BY <1>1 DEF Publishes
  <2>2. published' \subseteq Keys /\ queues' \in [Queues -> SUBSET Keys]
    BY <2>1 DEF Publish, TypeOK, IndexStates
  <2>3. TypeOK'
    BY <2>1, <2>2 DEF Publish, TypeOK, IndexStates, bounds
  <2>4. \A q \in Processes : Sound(q)'
    BY <2>1, StaysSound DEF Publish
  <2> QED
    BY <2>1, <2>3, <2>4 DEF Publish
<1>2. CASE Consumes(p)
  <2>1. PICK k \in Keys : Consume(p, k)
    BY <1>2 DEF Consumes
  <2>2. QueueOf(App[p]) \in Queues
    BY StartupAssumption DEF Queues
  <2>3. queues' \in [Queues -> SUBSET Keys] /\ received' \in [Queues -> SUBSET Keys]
    BY <2>1, <2>2 DEF Consume, TypeOK, IndexStates
  <2>4. index' = index
    <3>1. pc[p] = "running" /\ Sound(p)
      BY <2>1 DEF Consume, Works
    <3>2. App[p] = "searchService" => index = "mapped"
      BY <3>1 DEF Sound, BeforeIndex
    <3> QED
      BY <2>1, <3>2 DEF Consume
  <2>5. TypeOK'
    BY <2>1, <2>3, <2>4 DEF Consume, TypeOK, IndexStates, bounds
  <2>6. \A q \in Processes : Sound(q)'
    BY <2>1, <2>4, StaysSound DEF Consume
  <2> QED
    BY <2>4, <2>5, <2>6
<1> QED
  BY <1>1, <1>2

\* Processes crash, the broker stops and starts.
LEMMA FaultStep ==
    ASSUME BoundsAssumption, IInv,
           \/ \E p \in Processes : Crash(p)
           \/ \E ended \in SUBSET Processes : BrokerStops(ended)
           \/ BrokerStarts
    PROVE  IInv'
<1> USE DEF IInv
<1>1. ASSUME NEW p \in Processes, Crash(p)
      PROVE  IInv'
  <2>1. TypeOK'
    BY <1>1 DEF Crash, Ends, Goes, TypeOK, IndexStates, world, messages, BoundsAssumption
  <2>2. Sound(p)'
    BY <1>1, EndsSound DEF Crash, Ends, Goes, TypeOK, IndexStates
  <2>3. \A q \in Processes \ {p} :
           /\ pc'[q] = pc[q] /\ next'[q] = next[q] /\ limit'[q] = limit[q]
    BY <1>1 DEF Crash, Ends, Goes, TypeOK, IndexStates
  <2>4. \A q \in Processes \ {p} : Sound(q)'
    BY <1>1, <2>3, StaysSound DEF Crash, world
  <2> QED
    BY <1>1, <2>1, <2>2, <2>4 DEF Crash, world
<1>2. ASSUME NEW ended \in SUBSET Processes, BrokerStops(ended)
      PROVE  IInv'
  <2>1. /\ pc' = [p \in Processes |-> IF p \in ended THEN "down" ELSE pc[p]]
        /\ next' = [p \in Processes |-> IF p \in ended THEN 1 ELSE next[p]]
        /\ limit' = [p \in Processes |-> IF p \in ended THEN 0 ELSE limit[p]]
        /\ channel' = [p \in Processes |-> IF p \in ended THEN "none"
                                       ELSE IF channel[p] = "open" THEN "dead" ELSE channel[p]]
        /\ broker' = FALSE /\ stops < MaxStops /\ stops' = stops + 1
        /\ UNCHANGED <<setting, bindings, queues, received, published, index, restarts>>
    BY <1>2 DEF BrokerStops, messages
  <2>2. pc' \in [Processes -> Booting \cup {"down", "running"}]
    BY <2>1 DEF TypeOK, IndexStates
  <2>3. next' \in [Processes -> Nat \ {0}] /\ limit' \in [Processes -> 0..500]
    BY <2>1 DEF TypeOK, IndexStates
  <2>4. channel' \in [Processes -> {"none", "open", "dead"}]
    BY <2>1 DEF TypeOK, IndexStates
  <2>5. TypeOK'
    <3>1. /\ broker' = FALSE /\ stops < MaxStops /\ stops' = stops + 1
          /\ UNCHANGED <<setting, queues, received, published, index, restarts>>
      BY <2>1
    <3>2. stops' \in 0..MaxStops
      BY <3>1 DEF TypeOK, IndexStates, BoundsAssumption
    <3> QED
      BY <2>2, <2>3, <2>4, <3>1, <3>2 DEF TypeOK, IndexStates
  <2>6. ASSUME NEW q \in Processes
        PROVE  Sound(q)'
    <3>1. CASE q \in ended
      BY <2>1, <3>1, EndsSound
    <3>2. CASE q \notin ended
      <4>1. pc'[q] = pc[q] /\ next'[q] = next[q] /\ limit'[q] = limit[q]
        BY <2>1, <3>2
      <4> QED
        BY <2>1, <4>1, StaysSound
    <3> QED
      BY <3>1, <3>2
  <2> QED
    BY <2>1, <2>5, <2>6
<1>3. CASE BrokerStarts
  <2>1. \A q \in Processes : Sound(q)'
    BY <1>3, StaysSound DEF BrokerStarts
  <2> QED
    BY <1>3, <2>1 DEF BrokerStarts, TypeOK, IndexStates, messages, bounds
<1> QED
  BY <1>1, <1>2, <1>3

LEMMA IInvStep == BoundsAssumption /\ IInv /\ [Next]_vars => IInv'
<1> SUFFICES ASSUME BoundsAssumption, IInv, [Next]_vars
             PROVE  IInv'
  OBVIOUS
<1>1. CASE UNCHANGED vars
  <2>1. \A q \in Processes : Sound(q)'
    BY <1>1, StaysSound DEF vars, IInv
  <2> QED
    BY <1>1, <2>1 DEF vars, IInv, TypeOK, IndexStates
<1> QED
  BY <1>1, BootStep, MessageStep, FaultStep DEF Next

LEMMA SoundAlways ==
    ASSUME BoundsAssumption
    PROVE  Spec => []IInv
<1>1. Init => IInv
  BY IInvInit
<1> QED
  BY <1>1, IInvStep, PTL DEF Spec

\* TypeOK of the run startup_order, for every instance.
THEOREM TypeCorrect ==
    ASSUME BoundsAssumption
    PROVE  Spec => []TypeOK
<1>1. IInv => TypeOK
  BY DEF IInv
<1> QED
  BY <1>1, SoundAlways, PTL

\* RunningIsWired of the same run: with any number of processes of each service,
\* and whatever their settings, none consumes without a limit and its bindings.
THEOREM AlwaysWired ==
    ASSUME BoundsAssumption
    PROVE  Spec => []RunningIsWired
<1>1. IInv => RunningIsWired
  <2> SUFFICES ASSUME IInv, NEW p \in Processes, pc[p] = "running"
               PROVE  /\ limit[p] \in 1..500
                      /\ \A i \in DOMAIN BindingTargets(App[p]) :
                            Versioned(BindingTargets(App[p])[i]) \in bindings
    BY DEF RunningIsWired
  <2>1. Sound(p) /\ App[p] \in Apps /\ next[p] \in Nat
    BY StartupAssumption DEF IInv, TypeOK, IndexStates
  <2>2. \A i \in DOMAIN BindingTargets(App[p]) : i < next[p]
    <3>1. next[p] > Len(BindingTargets(App[p]))
      BY <2>1 DEF Sound
    <3> QED
      BY <2>1, <3>1, TargetsShape
  <2> QED
    BY <2>1, <2>2 DEF Sound
<1> QED
  BY <1>1, SoundAlways, PTL

\* IndexIsMapped of the same run, also for several processes of search-service
\* that race to create the index.
THEOREM AlwaysMapped ==
    ASSUME BoundsAssumption
    PROVE  Spec => []IndexIsMapped
<1>1. IInv => IndexIsMapped
  BY DEF IInv, Sound, IndexIsMapped, BeforeIndex
<1> QED
  BY <1>1, SoundAlways, PTL

-----------------------------------------------------------------------------
(***************************************************************************)
(* No event is lost to the order in which the services start.              *)
(***************************************************************************)
LEMMA NothingLostStep ==
    IInv /\ NothingLost /\ [Next]_vars => NothingLost'
<1> SUFFICES ASSUME IInv, NothingLost, [Next]_vars,
                    NEW a \in Apps, NEW i \in DOMAIN OutboundBindings(a),
                    OutboundBindings(a)[i].key \in published'
             PROVE  OutboundBindings(a)[i].key
                       \in queues'[OutboundBindings(a)[i].queue]
                           \cup received'[OutboundBindings(a)[i].queue]
  BY DEF NothingLost
<1> DEFINE b == OutboundBindings(a)[i]
<1>0. /\ b.queue \in Queues /\ b.exchange = ExchangeOf(a)
      /\ b.key \in published => b.key \in queues[b.queue] \cup received[b.queue]
      /\ queues \in [Queues -> SUBSET Keys] /\ received \in [Queues -> SUBSET Keys]
  BY OutboundShape DEF NothingLost, IInv, TypeOK, IndexStates
<1>1. CASE queues' = queues /\ received' = received /\ published' = published
  BY <1>0, <1>1
<1>2. ASSUME NEW p \in Processes, NEW j \in DOMAIN OutboundBindings(App[p]),
             Publish(p, OutboundBindings(App[p])[j])
      PROVE  b.key \in queues'[b.queue] \cup received'[b.queue]
  <2> DEFINE k == OutboundBindings(App[p])[j].key
  <2>1. /\ received' = received /\ published' = published \cup {k}
        /\ queues' = [q \in Queues |->
                        IF \E c \in bindings :
                              /\ c.exchange = VersionedName(ExchangeOf(App[p]), Version)
                              /\ c.key = k
                              /\ c.queue = VersionedName(q, Version)
                        THEN queues[q] \cup {k} ELSE queues[q]]
        /\ pc[p] = "running"
    BY <1>2 DEF Publish, Works
  <2>2. CASE b.key \in published
    BY <1>0, <2>1, <2>2
  <2>3. CASE b.key = k
    <3>1. App[p] = a
      BY <1>2, <2>3, KeysApart, StartupAssumption
    <3>2. i \in DOMAIN BindingTargets(a) /\ BindingTargets(a)[i] = b
      BY TargetsShape
    <3>3. Versioned(b) \in bindings
      <4>1. Sound(p) /\ next[p] \in Nat
        BY DEF IInv, TypeOK, IndexStates
      <4>2. i < next[p]
        BY <2>1, <3>1, <3>2, <4>1, TargetsShape DEF Sound
      <4> QED
        BY <3>1, <3>2, <4>1, <4>2 DEF Sound
    <3>4. /\ Versioned(b).exchange = VersionedName(ExchangeOf(App[p]), Version)
          /\ Versioned(b).key = k
          /\ Versioned(b).queue = VersionedName(b.queue, Version)
      BY <1>0, <2>3, <3>1 DEF Versioned
    <3> HIDE DEF k, b
    <3> QED
      BY <1>0, <2>1, <2>3, <3>3, <3>4
  <2> QED
    BY <2>1, <2>2, <2>3
<1>3. ASSUME NEW p \in Processes, NEW k \in Keys, Consume(p, k)
      PROVE  b.key \in queues'[b.queue] \cup received'[b.queue]
  <2>1. /\ queues' = [queues EXCEPT ![QueueOf(App[p])] = @ \ {k}]
        /\ received' = [received EXCEPT ![QueueOf(App[p])] = @ \cup {k}]
        /\ published' = published
    BY <1>3 DEF Consume
  <2> HIDE DEF b
  <2> QED
    BY <1>0, <2>1 DEF b
<1>4. ASSUME NEW p \in Processes, Boots(p) \/ Crash(p)
      PROVE  queues' = queues /\ received' = received /\ published' = published
  BY <1>4 DEF Boots, Boot, CheckIndex, CreateIndex, PutMapping, Connect, Declare, Declared,
              Prefetch, Subscribe, Crash, Ends, world, messages
<1>5. CASE (\E ended \in SUBSET Processes : BrokerStops(ended)) \/ BrokerStarts \/ UNCHANGED vars
  BY <1>1, <1>5 DEF BrokerStops, BrokerStarts, messages, vars
<1> QED
  BY <1>1, <1>2, <1>3, <1>4, <1>5 DEF Next, Publishes, Consumes

\* NothingLost of the run startup_order: in every order of starts, with crashes and
\* stops of the broker between any two steps, a published event is in the queue of
\* each of its consumers, or was taken from it.
THEOREM NeverLost ==
    ASSUME BoundsAssumption
    PROVE  Spec => []NothingLost
<1>1. Init => NothingLost
  BY DEF Init, NothingLost
<1> QED
  BY <1>1, SoundAlways, NothingLostStep, PTL DEF Spec

=============================================================================
