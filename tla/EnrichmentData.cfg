SPECIFICATION Spec
CONSTANTS
    none = none
    absent = absent
    NoMessage <- none
    Absent <- absent
    Prices <- MCPrices
    Titles <- MCTitles
    MaxPrice = 300000
    Model = "padded"
    Outputs <- MCOutputs
    MaxAnswers = 2
INVARIANTS
    TypeOK
    SnapshotIsTaken
    CoercionSuffices
    VerdictSurvives
    RejectionHasReason
    SharedFieldsAgree
CHECK_DEADLOCK FALSE
