--------------------------- MODULE MCDeliveryOutbox ---------------------------
(* Instances of DeliveryOutbox for TLC. *)
EXTENDS DeliveryOutbox, TLC

CONSTANTS t1, t2, d1, d2, d3, k1, k2

\* Ticket t1 gets a message that reopens it and a reply; t2 gets a reply.
MCDeliveries == {d1, d2, d3}
MCTickets == {t1, t2}
MCTicketOf == [d \in MCDeliveries |-> IF d = d3 THEN t2 ELSE t1]
MCMaxThreads == [t \in MCTickets |-> IF t = t1 THEN 2 ELSE 0]
MCTokens == {k1, k2}
TokenSymmetry == Permutations(MCTokens)

\* Ticket t1 alone, small enough for liveness.
OneDeliveries == {d1, d2}
OneTickets == {t1}
OneTicketOf == [d \in OneDeliveries |-> t1]
OneMaxThreads == [t \in OneTickets |-> 2]
=============================================================================
