SPECIFICATION Spec
CONSTANTS
    t1 = t1
    noTx = noTx
    NoTx <- noTx
    Tx <- MCTx
    Events <- AllEvents
    Prefetch = 2
    MaxTracked = 4
    MaxRetries = 1
    MaxCopies = 2
    MaxArrivals = 3
    MaxErrors = 1
    MaxRestarts = 1
INVARIANTS
    TypeOK
    InFlightOnce
    RememberedWasAnswered
    EveryEventAnswered
    VerdictsBounded
CHECK_DEADLOCK FALSE
