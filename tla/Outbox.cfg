SPECIFICATION FairSpec
CONSTANTS
    t1 = t1
    t2 = t2
    t3 = t3
    s1 = s1
    s2 = s2
    Tx <- MCTx
    Slots <- MCSlots
    BatchSize = 2
    MaxRetries = 2
    MaxFaults = 2
INVARIANTS
    TypeOK
    SingleBatch
    NoPhantomEvent
    PublishedWasDelivered
    RetryBudget
    BoundedDuplication
PROPERTIES
    EveryRowSettles
    ImplementsAtLeastOnce
