SPECIFICATION Spec
CONSTANTS
    t1 = t1
    noTx = noTx
    NoTx <- noTx
    Tx <- MCTx
    Events <- RaceEvents
    Prefetch = 2
    MaxTracked = 2
    MaxCopies = 1
    MaxArrivals = 2
    MaxErrors = 0
    MaxRestarts = 0
INVARIANT
    RejectionReported
CHECK_DEADLOCK FALSE
