SPECIFICATION Spec
CONSTANTS
    t1 = t1
    a1 = a1
    a2 = a2
    Tickets = {t1}
    Actions <- MCActions
    TicketOf <- MCTicketOf
    Scenarios <- MCPurged
    ReconcileAttempts = 2
    MaxAttempts = 2
    MaxPosts = 1
    Neglect = TRUE
INVARIANT
    ResolvableByHand
CHECK_DEADLOCK FALSE
