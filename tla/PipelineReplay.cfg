SPECIFICATION Spec
CONSTANTS
    t1 = t1
    noTx = noTx
    NoTx <- noTx
    Tx <- MCTx
    SearchPrefetch = 1
    AiPrefetch = 1
    RowPrefetch = 1
    AiRetries = 0
    MaxTracked = 8
    MaxCopies = 2
    SearchErrors = 0
    AiErrors = 0
    RowErrors = 0
    SearchRestarts = 1
    AiRestarts = 0
    RowRestarts = 0
PROPERTIES
    ReadyIsKept
CHECK_DEADLOCK FALSE
