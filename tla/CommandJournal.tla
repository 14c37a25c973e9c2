---------------------------- MODULE CommandJournal ----------------------------
(***************************************************************************)
(* What the commands on a ticket promise to those who send them, without    *)
(* updates, attempts, answers and races: whatever is stored about a ticket   *)
(* is stored by commands, and a key is good for one of them.  A command      *)
(* commits everything it does at once, adds to the tables and never takes    *)
(* back; what it does to the ticket is in the history, and what it sends is  *)
(* a message of the ticket.                                                  *)
(***************************************************************************)
EXTENDS Naturals, Sequences

CONSTANTS
    Keys,       \* idempotency keys
    Unused,     \* entry of a key no command has used
    Past        \* key of the events from before

VARIABLES
    ticket,
    done,       \* what was committed under each key
    messages,   \* messages of the ticket
    events,     \* its history
    outbox      \* deliveries

vars == <<ticket, done, messages, events, outbox>>

Init ==
    /\ done = [k \in Keys |-> Unused]
    /\ messages = <<>>
    /\ \A i \in DOMAIN events : events[i].key = Past
    /\ outbox = {}

\* A table takes at most one row more, with the key of the command.
Extends(new, old, k) ==
    \/ new = old
    \/ /\ new = Append(old, new[Len(new)])
       /\ new[Len(new)].key = k

Changes == ticket'.status # ticket.status \/ ticket'.cycle # ticket.cycle
Closes == ticket.status # "closed" /\ ticket'.status = "closed"

Commit(k) ==
    /\ done[k] = Unused
    /\ done'[k] # Unused
    /\ done' = [done EXCEPT ![k] = done'[k]]
    /\ Extends(messages', messages, k)
    /\ Extends(events', events, k)
    /\ Changes => events' # events
    /\ ticket'.cycle = IF Closes THEN ticket.cycle + 1 ELSE ticket.cycle
    /\ \/ outbox' = outbox
       \/ /\ messages' # messages
          /\ \E d \in outbox' : d.key = k /\ outbox' = outbox \union {d}

Next == \E k \in Keys : Commit(k)

Spec == Init /\ [][Next]_vars
=============================================================================
