--------------------------- MODULE OrderedDelivery ---------------------------
(***************************************************************************)
(* What the delivery subsystem promises to the rest of the program, without *)
(* claims, workers, retries or topics: every accepted message waits in the  *)
(* queue of its ticket, only the message at the head of a queue is copied   *)
(* to Telegram, a message counts as delivered only after at least one copy, *)
(* and a settled message is never copied again.  Copies may repeat: the     *)
(* promise is at-least-once, in order.                                      *)
(***************************************************************************)
EXTENDS Naturals

CONSTANTS
    Deliveries,   \* messages that may be queued
    TicketOf      \* the ticket each message belongs to

VARIABLES
    phase,        \* "none", "queued", "delivered" or "dropped"
    rank,         \* position in the queue of the ticket, 0 before it is queued
    copies        \* copies that reached Telegram

vars == <<phase, rank, copies>>

Phases == {"none", "queued", "delivered", "dropped"}

Init ==
    /\ phase = [d \in Deliveries |-> "none"]
    /\ rank = [d \in Deliveries |-> 0]
    /\ copies = [d \in Deliveries |-> 0]

Siblings(d) == {e \in Deliveries : TicketOf[e] = TicketOf[d]}

\* No message of the same ticket that was queued before d is still queued.
AtHead(d) ==
    /\ phase[d] = "queued"
    /\ \A e \in Siblings(d) : rank[e] < rank[d] => phase[e] # "queued"

\* A new message goes behind everything ever queued for its ticket.
Enqueue(d) ==
    /\ phase[d] = "none"
    /\ phase' = [phase EXCEPT ![d] = "queued"]
    /\ \A e \in Siblings(d) \ {d} : rank'[d] > rank[e]
    /\ rank' = [rank EXCEPT ![d] = rank'[d]]
    /\ UNCHANGED copies

Copy(d) ==
    /\ AtHead(d)
    /\ copies' = [copies EXCEPT ![d] = @ + 1]
    /\ UNCHANGED <<phase, rank>>

Deliver(d) ==
    /\ AtHead(d)
    /\ copies[d] > 0
    /\ phase' = [phase EXCEPT ![d] = "delivered"]
    /\ UNCHANGED <<rank, copies>>

Drop(d) ==
    /\ AtHead(d)
    /\ phase' = [phase EXCEPT ![d] = "dropped"]
    /\ UNCHANGED <<rank, copies>>

Next ==
    \E d \in Deliveries : Enqueue(d) \/ Copy(d) \/ Deliver(d) \/ Drop(d)

Spec == Init /\ [][Next]_vars
=============================================================================
