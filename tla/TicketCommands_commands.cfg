SPECIFICATION FairSpec
CONSTANTS
    Commands <- MCCommands
    Keys <- MCKeys
    Scenarios <- MCScenarios
    MaxAttempts = 2
INVARIANTS
    TypeOK
    AnswersHold
    HistoryMatchesTicket
    RatedOncePerClose
    ChatOrder
    DeliveredIsDone
PROPERTIES
    KeepsJournal
    MessageReopens
    BlockedIsSilent
    UpdatesSettle
CHECK_DEADLOCK FALSE
