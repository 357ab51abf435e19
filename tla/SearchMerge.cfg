SPECIFICATION FairSpec
CONSTANTS
    t1 = t1
    noTx = noTx
    NoTx <- noTx
    Tx <- MCTx
    Events <- AllEvents
    Prefetch = 1
    MaxTracked = 2
    MaxCopies = 2
    MaxArrivals = 4
    MaxErrors = 1
    MaxRestarts = 1
INVARIANTS
    TypeOK
    StatusMatchesContent
    LastOutcomeMatchesIndex
    HandledOncePerLife
PROPERTIES
    NewestEventWins
    OutcomeReportsIndex
    QueueDrains
CHECK_DEADLOCK FALSE
