SPECIFICATION FairSpec
CONSTANTS
    t1 = t1
    noTx = noTx
    NoTx <- noTx
    Tx <- MCTx
    SearchPrefetch = 1
    AiPrefetch = 2
    RowPrefetch = 1
    AiRetries = 0
    MaxTracked = 8
    MaxCopies = 2
    SearchErrors = 1
    AiErrors = 1
    RowErrors = 1
    SearchRestarts = 0
    AiRestarts = 0
    RowRestarts = 1
PROPERTIES
    ImplementsLifecycle
    QueuesDrain
CHECK_DEADLOCK FALSE
