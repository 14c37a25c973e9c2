SPECIFICATION Spec
CONSTANTS
    Channels = {"telegram", "web"}
    MaxAttempts = 2
    MaxTopics = 2
    MaxCloses = 1
    MaxBinds = 1
    MaxFaults = 1
INVARIANTS
    TypeOK
    ClaimNotForgotten
    CleanupSparesBound
PROPERTY UnbindsOnlyDeleted
