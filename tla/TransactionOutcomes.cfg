SPECIFICATION Spec
CONSTANTS
    t1 = t1
    t2 = t2
    noTx = noTx
    NoTx <- noTx
    Tx <- MCTx
    Outcomes <- MCOutcomes
    Prefetch = 1
    MaxTracked = 2
    MaxCopies = 2
    MaxArrivals = 4
    MaxErrors = 1
    MaxRestarts = 1
INVARIANTS
    TypeOK
    VerdictColumnsAgree
    LastOutcomeWins
    VersionCountsOutcomes
CHECK_DEADLOCK FALSE
