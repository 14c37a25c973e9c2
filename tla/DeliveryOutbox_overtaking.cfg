SPECIFICATION Spec
CONSTANTS
    t1 = t1
    t2 = t2
    d1 = d1
    d2 = d2
    d3 = d3
    k1 = k1
    k2 = k2
    NoToken = NoToken
    Tickets <- OneTickets
    Deliveries <- OneDeliveries
    TicketOf <- OneTicketOf
    Tokens <- MCTokens
    Inbound = {d1}
    Reopening = {}
    Unserialized = {d1}
    BatchLimit = 1
    MaxAttempts = 2
    Blockable = {t1}
    MaxThreads <- OneMaxThreads
    MaxFaults = 1
INVARIANT TicketFIFO
