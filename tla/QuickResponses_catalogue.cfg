SPECIFICATION FairSpec
CONSTANTS
    Responses <- MCResponses
    Scenarios <- MCScenarios
    MaxAttempts = 3
INVARIANTS
    TypeOK
    OneCopy
PROPERTIES
    CopyBeforeCleanup
    TombstoneHolds
    Settles
CHECK_DEADLOCK FALSE
