SPECIFICATION FairSpec
CONSTANTS
    tx = tx
    search1 = search1
    search2 = search2
    missing = missing
    Missing <- missing
    Processes = {tx, search1, search2}
    App <- MCApp
    Version = "v1"
    Settings <- MCSettings
    Keys <- MCKeys
    MaxRestarts = 1
    MaxStops = 1
INVARIANTS
    TypeOK
    RunningIsWired
    NothingLost
    IndexIsMapped
PROPERTIES
    ServiceComesUp
    EventsArrive
CHECK_DEADLOCK FALSE
