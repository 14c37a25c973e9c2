SPECIFICATION FairSpec
CONSTANTS
    t1 = t1
    a1 = a1
    a2 = a2
    Tickets = {t1}
    Actions <- MCActions
    TicketOf <- MCTicketOf
    Scenarios <- MCScenarios
    ReconcileAttempts = 2
    MaxAttempts = 2
    MaxPosts = 1
    Neglect = FALSE
INVARIANTS
    TypeOK
    NotAppliedIsTrue
    CompletedIsTrue
    GiftsDoNotOverlap
    EventFollowsAction
    OneNotice
CHECK_DEADLOCK FALSE
PROPERTIES
    SentOnce
    WebhookInOrder
    UnknownSettles
    TopicJobServed
    EventSettles
