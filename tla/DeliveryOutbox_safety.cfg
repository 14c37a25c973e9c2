SPECIFICATION Spec
CONSTANTS
    t1 = t1
    t2 = t2
    d1 = d1
    d2 = d2
    d3 = d3
    k1 = k1
    k2 = k2
    NoToken = NoToken
    Tickets <- MCTickets
    Deliveries <- MCDeliveries
    TicketOf <- MCTicketOf
    Inbound = {d1}
    Reopening = {}
    Unserialized = {d3}
    Tokens <- MCTokens
    BatchLimit = 2
    MaxAttempts = 2
    Blockable = {}
    MaxThreads <- MCMaxThreads
    MaxFaults = 1
INVARIANTS
    TypeOK
    InFlightOwnsClaim
    TicketFIFO
    NoStrandedWaiter
SYMMETRY TokenSymmetry
CHECK_DEADLOCK FALSE
