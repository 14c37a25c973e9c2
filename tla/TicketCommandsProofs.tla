------------------------- MODULE TicketCommandsProofs -------------------------
(***************************************************************************)
(* Theorems about TicketCommands, for any commands, keys and scenarios.      *)
(*                                                                         *)
(* Every command ends in one commit (Apply) under a key nobody used before, *)
(* or leaves the tables alone.  The invariant says what the used keys have  *)
(* to do with the rows and the answers.                                     *)
(***************************************************************************)
EXTENDS TicketCommands, TLAPS, FiniteSetTheorems

TicketRow == [status : {"none", "open", "closed"}, blocked : BOOLEAN, cycle : Nat]
Sorts == {"customer", "reply", "note", "notice", "rating"}
EventTypes == {"created", "closed", "reopened", "rated"}
MessageRow == [key : Keys, by : Commands, sort : Sorts, cycle : Nat, hidden : BOOLEAN]
EventRow == [type : EventTypes, cycle : Nat, key : Keys \union {"past"}]
Stages == Working \union {"idle", "looked", "ended"}
InboundStatuses == AnyStatus \union {"none", "delivered"}

Types ==
    /\ plan \in Scenarios
    /\ ticket \in TicketRow
    /\ messages \in Seq(MessageRow)
    /\ events \in Seq(EventRow)
    /\ inbound \in [Commands -> [status : InboundStatuses, attempts : Nat]]
    /\ stage \in [Commands -> Stages]
    /\ seen \in [Commands -> [ticket : TicketRow, rated : SUBSET Nat]]
    /\ answer \in [Commands -> Replies \union {"none", "conflict", "error"}]
    /\ done = [k \in Keys |-> done[k]]
    /\ \A k \in Keys :
        \/ done[k] = Unused
        \/ /\ done[k] = [print |-> done[k].print, reply |-> done[k].reply]
           /\ done[k].reply \in Replies

OneWorking ==
    \A u, w \in Updates : stage[u] \in Working /\ stage[w] \in Working => u = w

\* Every row was written under a used key, and no two under the same.
RowsHaveKeys ==
    /\ \A i \in DOMAIN messages : done[messages[i].key] # Unused
    /\ \A i \in DOMAIN events : events[i].key # "past" => done[events[i].key] # Unused

RowsDiffer ==
    /\ \A i, j \in DOMAIN messages : i # j => messages[i].key # messages[j].key
    /\ \A i, j \in DOMAIN events :
        i # j => events[i].key # events[j].key \/ events[i].key = "past"

IInv == Types /\ OneWorking /\ RowsHaveKeys /\ RowsDiffer /\ AnswersHold

-----------------------------------------------------------------------------
\* A scenario has the parts the definitions use.
LEMMA PlanType ==
  ASSUME plan \in Scenarios, NEW c \in Commands
  PROVE  /\ Key(c) \in Keys
         /\ Kind(c) \in RequestKinds \union UpdateKinds
         /\ Kind(c) = "rate" => plan.of[c].cycle \in Nat
         /\ c \in Updates <=> ~ (c \in Requests)
  BY CommandsAssumption DEF Key, Kind, Chat, Updates, Requests

\* What a command decides on is a ticket and the cycles that were rated.
LEMMA CurrentType ==
  ASSUME Types
  PROVE  Current \in [ticket : TicketRow, rated : SUBSET Nat]
<1>1. \A i \in DOMAIN messages : messages[i] \in MessageRow
  BY DEF Types
<1>2. \A i \in DOMAIN messages : messages[i].cycle \in Nat
  BY <1>1 DEF MessageRow
<1> QED
  BY <1>2 DEF Types, Current, RatedCycles

LEMMA ViewType ==
  ASSUME Types, NEW c \in Commands
  PROVE  View(c).ticket \in TicketRow
  BY CurrentType DEF Types, View

\* A sequence that grows by at most one element.
LEMMA Grown ==
  ASSUME NEW S, NEW s \in Seq(S), NEW x \in S
  PROVE  /\ s \o <<x>> \in Seq(S)
         /\ s \o <<>> = s
         /\ DOMAIN (s \o <<x>>) = DOMAIN s \union {Len(s) + 1}
         /\ ~ (Len(s) + 1 \in DOMAIN s)
         /\ \A i \in DOMAIN s : (s \o <<x>>)[i] = s[i]
         /\ (s \o <<x>>)[Len(s) + 1] = x
  OBVIOUS

\* What is added to a table by one commit: nothing, or one row under the key.
Added(Rows, c) == {<<>>} \union {<<x>> : x \in {y \in Rows : y.key = Key(c)}}

-----------------------------------------------------------------------------
\* What becomes of the status and the cycle is in the history, and a cycle begins with
\* a close of a ticket that was not closed.
InHistory(t, es) ==
    \/ t.status = ticket.status /\ t.cycle = ticket.cycle
    \/ t.status # "closed" /\ t.cycle = ticket.cycle /\ es # <<>>
    \/ /\ ticket.status # "closed" /\ t.status = "closed"
       /\ t.cycle = ticket.cycle + 1 /\ es # <<>>

\* What is sent is a message of the ticket.
InTicket(c, ms, ds) == ds = {} \/ (ms # <<>> /\ \E to : ds = {Delivery(c, to)})

\* A commit: the reply is stored, and at most one message and one event written.
Committed(c) ==
    \E reply \in Replies, t \in TicketRow :
    \E es \in Added(EventRow, c), ms \in Added(MessageRow, c) :
    \E ds : InHistory(t, es) /\ InTicket(c, ms, ds) /\ Apply(c, reply, t, es, ms, ds)

\* What a commit does to the invariant.
LEMMA CommittedKeeps ==
  ASSUME IInv, NEW c \in Commands, stage[c] = "begun", ~ Used(c), Committed(c)
  PROVE  /\ ticket' \in TicketRow
         /\ messages' \in Seq(MessageRow)
         /\ events' \in Seq(EventRow)
         /\ RowsHaveKeys' /\ RowsDiffer'
<1> DEFINE k == Key(c)
<1>0. PICK reply \in Replies, t \in TicketRow, es \in Added(EventRow, c),
           ms \in Added(MessageRow, c) :
        \E ds : Apply(c, reply, t, es, ms, ds)
  BY DEF Committed
<1>1. PICK ds : Apply(c, reply, t, es, ms, ds)
  BY <1>0
<1>2. /\ k \in Keys
      /\ done[k] = Unused
      /\ done' = [done EXCEPT ![k] = [print |-> Fingerprint(c), reply |-> reply]]
      /\ ticket' = t /\ messages' = messages \o ms /\ events' = events \o es
  BY <1>1, PlanType DEF IInv, Types, Used, Apply
<1>3. /\ done'[k] # Unused
      /\ \A q \in Keys : done[q] # Unused => done'[q] # Unused
  BY <1>2 DEF Unused, Replies, IInv, Types
<1>4. ASSUME NEW m \in MessageRow, m.key = k, ms = <<m>>
      PROVE  /\ messages' \in Seq(MessageRow)
             /\ \A i \in DOMAIN messages' : done'[messages'[i].key] # Unused
             /\ \A i, j \in DOMAIN messages' : i # j => messages'[i].key # messages'[j].key
  <2>1. /\ messages' \in Seq(MessageRow)
        /\ DOMAIN messages' = DOMAIN messages \union {Len(messages) + 1}
        /\ \A i \in DOMAIN messages : messages'[i] = messages[i]
        /\ messages'[Len(messages) + 1] = m
        /\ ~ (Len(messages) + 1 \in DOMAIN messages)
    BY <1>2, <1>4, Grown DEF IInv, Types
  <2>2. \A i \in DOMAIN messages : messages[i].key \in Keys
    <3>1. \A i \in DOMAIN messages : messages[i] \in MessageRow
      BY DEF IInv, Types
    <3> QED
      BY <3>1 DEF MessageRow
  <2> QED
    BY <2>1, <2>2, <1>2, <1>3, <1>4 DEF IInv, RowsHaveKeys, RowsDiffer
<1>5. ms = <<>> => /\ messages' = messages
                   /\ \A i \in DOMAIN messages : done'[messages[i].key] # Unused
  <2>1. \A i \in DOMAIN messages : messages[i] \in MessageRow
    BY DEF IInv, Types
  <2>2. \A i \in DOMAIN messages : messages[i].key \in Keys
    BY <2>1 DEF MessageRow
  <2> QED
    BY <1>2, <1>3, <2>2 DEF IInv, Types, RowsHaveKeys
<1>6. ASSUME NEW x \in EventRow, x.key = k, es = <<x>>
      PROVE  /\ events' \in Seq(EventRow)
             /\ \A i \in DOMAIN events' :
                    events'[i].key # "past" => done'[events'[i].key] # Unused
             /\ \A i, j \in DOMAIN events' :
                    i # j => events'[i].key # events'[j].key \/ events'[i].key = "past"
  <2>1. /\ events' \in Seq(EventRow)
        /\ DOMAIN events' = DOMAIN events \union {Len(events) + 1}
        /\ \A i \in DOMAIN events : events'[i] = events[i]
        /\ events'[Len(events) + 1] = x
        /\ ~ (Len(events) + 1 \in DOMAIN events)
    BY <1>2, <1>6, Grown DEF IInv, Types
  <2>2. \A i \in DOMAIN events : events[i].key \in Keys \union {"past"}
    <3>1. \A i \in DOMAIN events : events[i] \in EventRow
      BY DEF IInv, Types
    <3> QED
      BY <3>1 DEF EventRow
  <2> QED
    BY <2>1, <2>2, <1>2, <1>3, <1>6 DEF IInv, RowsHaveKeys, RowsDiffer
<1>7. es = <<>> => /\ events' = events
                   /\ \A i \in DOMAIN events :
                        events[i].key # "past" => done'[events[i].key] # Unused
  <2>1. \A i \in DOMAIN events : events[i] \in EventRow
    BY DEF IInv, Types
  <2>2. \A i \in DOMAIN events : events[i].key \in Keys \union {"past"}
    BY <2>1 DEF EventRow
  <2> QED
    BY <1>2, <1>3, <2>2 DEF IInv, Types, RowsHaveKeys
<1>8. /\ ms = <<>> \/ \E m \in MessageRow : m.key = k /\ ms = <<m>>
      /\ es = <<>> \/ \E x \in EventRow : x.key = k /\ es = <<x>>
  BY DEF Added
<1>9. /\ messages' \in Seq(MessageRow)
      /\ \A i \in DOMAIN messages' : done'[messages'[i].key] # Unused
      /\ \A i, j \in DOMAIN messages' : i # j => messages'[i].key # messages'[j].key
  BY <1>4, <1>5, <1>8 DEF IInv, Types, RowsDiffer
<1>10. /\ events' \in Seq(EventRow)
       /\ \A i \in DOMAIN events' :
             events'[i].key # "past" => done'[events'[i].key] # Unused
       /\ \A i, j \in DOMAIN events' :
             i # j => events'[i].key # events'[j].key \/ events'[i].key = "past"
  BY <1>6, <1>7, <1>8 DEF IInv, Types, RowsDiffer
<1> QED
  BY <1>2, <1>9, <1>10 DEF RowsHaveKeys, RowsDiffer, Unused

-----------------------------------------------------------------------------
\* How a command ends, as far as the invariant is concerned.
Ends(c) ==
    /\ stage[c] = "begun"
    /\ plan' = plan /\ seen' = seen
    /\ \E s \in Stages :
        /\ stage' = [stage EXCEPT ![c] = s]
        /\ \/ inbound' = inbound
           \/ s = "idle" /\ inbound' = [inbound EXCEPT ![c] = AfterRetry(@)]
    /\ \/ ~ Used(c) /\ Committed(c)
       \/ /\ UNCHANGED tables
          /\ \/ answer' = answer
             \/ c \in Requests /\ answer' = [answer EXCEPT ![c] = "error"]
             \/ c \in Requests /\ Used(c) /\ answer' = [answer EXCEPT ![c] = Replay(c)]

LEMMA ApplyEnds ==
  ASSUME NEW c \in Commands, stage[c] = "begun", ~ Used(c),
         NEW reply \in Replies, NEW t \in TicketRow,
         NEW es \in Added(EventRow, c), NEW ms \in Added(MessageRow, c), NEW ds,
         InHistory(t, es), InTicket(c, ms, ds), Apply(c, reply, t, es, ms, ds)
  PROVE  Ends(c)
<1>1. Committed(c)
  BY DEF Committed
<1>2. \E s \in Stages : stage' = [stage EXCEPT ![c] = s]
  BY DEF Apply, Answer, Stages, Working
<1> QED
  BY <1>1, <1>2 DEF Ends, Apply

LEMMA SkipEnds ==
  ASSUME NEW c \in Commands, stage[c] = "begun", Skip(c)
  PROVE  Ends(c)
  BY DEF Skip, Ends, Stages, Working

LEMMA RaiseEnds ==
  ASSUME NEW c \in Commands, stage[c] = "begun", Raise(c)
  PROVE  Ends(c)
  BY DEF Raise, Answer, Ends, Stages, Working

\* The rows a command writes, and what it makes of the ticket.
LEMMA RowTypes ==
  ASSUME Types, NEW c \in Commands
  PROVE  /\ \A type \in EventTypes, cycle \in Nat :
                <<Event(type, cycle, Key(c))>> \in Added(EventRow, c)
         /\ \A sort \in Sorts, cycle \in Nat, hidden \in BOOLEAN :
                <<Message(c, sort, cycle, hidden)>> \in Added(MessageRow, c)
         /\ <<>> \in Added(EventRow, c) /\ <<>> \in Added(MessageRow, c)
         /\ ReopenEvent(c) \in Added(EventRow, c)
<1>1. \A type \in EventTypes, cycle \in Nat : Event(type, cycle, Key(c)) \in EventRow
  BY PlanType DEF Types, Event, EventRow
<1>2. \A sort \in Sorts, cycle \in Nat, hidden \in BOOLEAN :
        Message(c, sort, cycle, hidden) \in MessageRow
  BY PlanType DEF Types, Message, MessageRow
<1>3. /\ \A type \in EventTypes, cycle \in Nat :
            <<Event(type, cycle, Key(c))>> \in Added(EventRow, c)
      /\ <<>> \in Added(EventRow, c)
  BY <1>1 DEF Added, Event
<1>4. /\ \A sort \in Sorts, cycle \in Nat, hidden \in BOOLEAN :
            <<Message(c, sort, cycle, hidden)>> \in Added(MessageRow, c)
      /\ <<>> \in Added(MessageRow, c)
  BY <1>2 DEF Added, Message
<1>5. ReopenEvent(c) \in Added(EventRow, c)
  BY <1>3, ViewType DEF ReopenEvent, EventTypes, TicketRow
<1> QED
  BY <1>3, <1>4, <1>5

LEMMA TicketTypes ==
  ASSUME Types, NEW c \in Commands
  PROVE  /\ ticket \in TicketRow
         /\ Reopened(ticket) \in TicketRow /\ Closed(ticket) \in TicketRow
         /\ AfterContact(c) \in TicketRow
         /\ [ticket EXCEPT !.status = "open"] \in TicketRow
         /\ \A b \in BOOLEAN : [ticket EXCEPT !.blocked = b] \in TicketRow
         /\ ticket.cycle \in Nat /\ ticket.cycle + 1 \in Nat
         /\ ticket.blocked \in BOOLEAN
         /\ View(c).ticket.cycle \in Nat /\ View(c).ticket.blocked \in BOOLEAN
<1>1. ticket \in TicketRow /\ View(c).ticket \in TicketRow
  BY ViewType DEF Types
<1>2. /\ ticket.cycle \in Nat /\ ticket.cycle + 1 \in Nat
      /\ ticket.blocked \in BOOLEAN
      /\ View(c).ticket.cycle \in Nat /\ View(c).ticket.blocked \in BOOLEAN
  BY <1>1 DEF TicketRow
<1>3. [ticket EXCEPT !.status = "open"] \in TicketRow
  BY <1>1 DEF TicketRow
<1>4. Closed(ticket) \in TicketRow
  <2> DEFINE t == [ticket EXCEPT !.status = "closed"]
  <2>1. t \in TicketRow
    BY <1>1 DEF TicketRow
  <2>2. t.cycle + 1 \in Nat
    BY <2>1 DEF TicketRow
  <2>3. [t EXCEPT !.cycle = t.cycle + 1] \in TicketRow
    <3> HIDE DEF t
    <3> QED
      BY <2>1, <2>2 DEF TicketRow
  <2> QED
    BY <2>3 DEF Closed
<1>5. \A b \in BOOLEAN : [ticket EXCEPT !.blocked = b] \in TicketRow
  BY <1>1 DEF TicketRow
<1> QED
  BY <1>1, <1>2, <1>3, <1>4, <1>5 DEF Reopened, AfterContact

\* The ways in which commands change the ticket, and those in which they send.
LEMMA TicketTold ==
  ASSUME Types, NEW c \in Commands
  PROVE  /\ \A es : InHistory(ticket, es)
         /\ \A b, es : InHistory([ticket EXCEPT !.blocked = b], es)
         /\ \A es : es # <<>> => InHistory(Reopened(ticket), es)
         /\ \A es : es # <<>> => InHistory([ticket EXCEPT !.status = "open"], es)
         /\ \A es : StillOpen(c) /\ es # <<>> => InHistory(Closed(ticket), es)
         /\ InHistory(AfterContact(c), ReopenEvent(c))
<1>1. ticket = [status |-> ticket.status, blocked |-> ticket.blocked, cycle |-> ticket.cycle]
  BY DEF Types, TicketRow
<1>2. /\ Reopened(ticket).status = "open" /\ Reopened(ticket).cycle = ticket.cycle
      /\ Closed(ticket).status = "closed" /\ Closed(ticket).cycle = ticket.cycle + 1
  BY <1>1 DEF Reopened, Closed
<1>3. \A b : /\ [ticket EXCEPT !.blocked = b].status = ticket.status
             /\ [ticket EXCEPT !.blocked = b].cycle = ticket.cycle
  BY <1>1
<1>4. Reopens(c) => ReopenEvent(c) # <<>>
  BY DEF ReopenEvent
<1> QED
  BY <1>2, <1>3, <1>4 DEF InHistory, StillOpen, AfterContact, Reopened

LEMMA MessageSent ==
  ASSUME NEW c \in Commands
  PROVE  /\ \A ms : InTicket(c, ms, {})
         /\ \A ms : ms # <<>> => InTicket(c, ms, ToCustomer(c)) /\ InTicket(c, ms, ToOperators(c))
  BY DEF InTicket, ToCustomer, ToOperators

LEMMA ReadyMeans ==
  ASSUME NEW c \in Commands, NEW kinds, Ready(c, kinds)
  PROVE  /\ stage[c] = "begun" /\ Kind(c) \in kinds
         /\ Kind(c) # "web_rate" => ~ Used(c)
         /\ ~ Refused(c) => ~ Used(c)
  BY DEF Ready, Collides, Refused

\* Every way to end a command.
LEMMA CommitStepEnds ==
  ASSUME Types, NEW c \in Commands, CommitStep(c)
  PROVE  Ends(c)
<1>1. CASE Duplicate(c)
  BY <1>1 DEF Duplicate, Answer, Collides, Ends, Stages, Working
<1>2. CASE CloseTicket(c)
  <2> DEFINE tells == Notifies(c) /\ ~ ticket.blocked
             ms == IF tells THEN <<Message(c, "notice", 0, FALSE)>> ELSE <<>>
  <2>1. stage[c] = "begun" /\ ~ Used(c)
    BY <1>2, ReadyMeans DEF CloseTicket
  <2>2. ms \in Added(MessageRow, c)
    BY RowTypes DEF Sorts
  <2>3. <<Event("closed", ticket.cycle + 1, Key(c))>> \in Added(EventRow, c)
    BY RowTypes, TicketTypes DEF EventTypes
  <2>4. Apply(c, "changed", Closed(ticket), <<Event("closed", ticket.cycle + 1, Key(c))>>, ms,
              IF tells THEN ToCustomer(c) ELSE {})
    BY <1>2 DEF CloseTicket
  <2>5. /\ InHistory(Closed(ticket), <<Event("closed", ticket.cycle + 1, Key(c))>>)
        /\ InTicket(c, ms, IF tells THEN ToCustomer(c) ELSE {})
    BY <1>2, TicketTold, MessageSent DEF CloseTicket
  <2> QED
    BY <2>1, <2>2, <2>3, <2>4, <2>5, ApplyEnds, TicketTypes DEF Replies
<1>3. CASE CloseClosed(c)
  <2>1. stage[c] = "begun" /\ ~ Used(c)
    BY <1>3, ReadyMeans DEF CloseClosed
  <2>2. Skip(c) \/ Apply(c, "unchanged", ticket, <<>>, <<>>, {})
    BY <1>3 DEF CloseClosed
  <2>3. InHistory(ticket, <<>>) /\ InTicket(c, <<>>, {})
    BY TicketTold, MessageSent
  <2> QED
    BY <2>1, <2>2, <2>3, ApplyEnds, SkipEnds, TicketTypes, RowTypes DEF Replies
<1>4. CASE CloseAll(c)
  <2>1. stage[c] = "begun" /\ ~ Used(c)
    BY <1>4, ReadyMeans DEF CloseAll
  <2>2. <<Event("closed", ticket.cycle + 1, Key(c))>> \in Added(EventRow, c)
    BY RowTypes, TicketTypes DEF EventTypes
  <2>3. \/ /\ StillOpen(c)
           /\ Apply(c, "changed", Closed(ticket),
                    <<Event("closed", ticket.cycle + 1, Key(c))>>, <<>>, {})
        \/ Apply(c, "unchanged", ticket, <<>>, <<>>, {})
    BY <1>4 DEF CloseAll
  <2>4. /\ InHistory(ticket, <<>>) /\ InTicket(c, <<>>, {})
        /\ StillOpen(c) =>
             InHistory(Closed(ticket), <<Event("closed", ticket.cycle + 1, Key(c))>>)
    BY TicketTold, MessageSent
  <2> QED
    BY <2>1, <2>2, <2>3, <2>4, ApplyEnds, TicketTypes, RowTypes DEF Replies
<1>5. CASE ReopenTicket(c)
  <2>1. stage[c] = "begun" /\ ~ Used(c)
    BY <1>5, ReadyMeans DEF ReopenTicket
  <2>2. <<Event("reopened", View(c).ticket.cycle, Key(c))>> \in Added(EventRow, c)
    BY RowTypes, TicketTypes DEF EventTypes
  <2>3. \/ Apply(c, "changed", Reopened(ticket),
                 <<Event("reopened", View(c).ticket.cycle, Key(c))>>, <<>>, {})
        \/ Apply(c, "unchanged", ticket, <<>>, <<>>, {})
    BY <1>5 DEF ReopenTicket
  <2>4. /\ InHistory(ticket, <<>>) /\ InTicket(c, <<>>, {})
        /\ InHistory(Reopened(ticket), <<Event("reopened", View(c).ticket.cycle, Key(c))>>)
    BY TicketTold, MessageSent
  <2> QED
    BY <2>1, <2>2, <2>3, <2>4, ApplyEnds, TicketTypes, RowTypes DEF Replies
<1>6. CASE Block(c)
  <2> DEFINE b == ticket.blocked \/ ~ View(c).ticket.blocked
             t == [ticket EXCEPT !.blocked = b]
  <2>1. stage[c] = "begun" /\ ~ Used(c)
    BY <1>6, ReadyMeans DEF Block
  <2>2. t \in TicketRow
    BY TicketTypes
  <2>3. Raise(c) \/ \E reply \in Replies : Apply(c, reply, t, <<>>, <<>>, {})
    BY <1>6, TicketTypes DEF Block, Replies
  <2>4. InHistory(t, <<>>) /\ InTicket(c, <<>>, {})
    BY TicketTold, MessageSent
  <2> HIDE DEF t
  <2> QED
    BY <2>1, <2>2, <2>3, <2>4, ApplyEnds, RaiseEnds, RowTypes
<1>7. CASE Unblock(c)
  <2> DEFINE b == IF View(c).ticket.blocked THEN FALSE ELSE ticket.blocked
             t == [ticket EXCEPT !.blocked = b]
  <2>1. stage[c] = "begun" /\ ~ Used(c)
    BY <1>7, ReadyMeans DEF Unblock
  <2>2. t \in TicketRow
    BY TicketTypes
  <2>3. \E reply \in Replies : Apply(c, reply, t, <<>>, <<>>, {})
    BY <1>7, TicketTypes DEF Unblock, Replies
  <2>4. InHistory(t, <<>>) /\ InTicket(c, <<>>, {})
    BY TicketTold, MessageSent
  <2> HIDE DEF t
  <2> QED
    BY <2>1, <2>2, <2>3, <2>4, ApplyEnds, RowTypes
<1>8. CASE AddNote(c)
  <2>1. stage[c] = "begun" /\ ~ Used(c)
    BY <1>8, ReadyMeans DEF AddNote
  <2>2. <<Message(c, "note", 0, FALSE)>> \in Added(MessageRow, c)
    BY RowTypes DEF Sorts
  <2>3. Apply(c, "changed", ticket, <<>>, <<Message(c, "note", 0, FALSE)>>, {})
    BY <1>8 DEF AddNote
  <2>4. /\ InHistory(ticket, <<>>)
        /\ InTicket(c, <<Message(c, "note", 0, FALSE)>>, {})
    BY TicketTold, MessageSent
  <2> QED
    BY <2>1, <2>2, <2>3, <2>4, ApplyEnds, TicketTypes, RowTypes DEF Replies
<1>9. CASE AcceptReply(c)
  <2>1. stage[c] = "begun" /\ ~ Used(c)
    BY <1>9, ReadyMeans DEF AcceptReply
  <2>2. <<Message(c, "reply", 0, FALSE)>> \in Added(MessageRow, c)
    BY RowTypes DEF Sorts
  <2>3. \/ Skip(c)
        \/ Apply(c, HowOpened(c), AfterContact(c), ReopenEvent(c),
                 <<Message(c, "reply", 0, FALSE)>>, ToCustomer(c))
    BY <1>9 DEF AcceptReply
  <2>4. HowOpened(c) \in Replies
    BY DEF HowOpened, Replies
  <2>5. /\ InHistory(AfterContact(c), ReopenEvent(c))
        /\ InTicket(c, <<Message(c, "reply", 0, FALSE)>>, ToCustomer(c))
    BY TicketTold, MessageSent
  <2> QED
    BY <2>1, <2>2, <2>3, <2>4, <2>5, ApplyEnds, SkipEnds, TicketTypes, RowTypes
<1>10. CASE SendMessage(c)
  <2> DEFINE reopened == Reopens(c) /\ ticket.status = "closed"
             reply == IF reopened THEN "reopened" ELSE "changed"
             t == IF reopened THEN Reopened(ticket) ELSE ticket
             es == IF reopened THEN ReopenEvent(c) ELSE <<>>
  <2>1. stage[c] = "begun" /\ ~ Used(c)
    BY <1>10, ReadyMeans DEF SendMessage
  <2>2. <<Message(c, "reply", 0, FALSE)>> \in Added(MessageRow, c)
    BY RowTypes DEF Sorts
  <2>3. \/ Apply(c, "unchanged", ticket, <<>>, <<>>, {})
        \/ Apply(c, reply, t, es, <<Message(c, "reply", 0, FALSE)>>, ToCustomer(c))
    BY <1>10 DEF SendMessage
  <2>4. reply \in Replies /\ t \in TicketRow /\ es \in Added(EventRow, c)
    BY TicketTypes, RowTypes DEF Replies
  <2>5. /\ InHistory(ticket, <<>>) /\ InTicket(c, <<>>, {}) /\ InHistory(t, es)
        /\ InTicket(c, <<Message(c, "reply", 0, FALSE)>>, ToCustomer(c))
    BY TicketTold, MessageSent DEF ReopenEvent
  <2> HIDE DEF reply, t, es
  <2> QED
    BY <2>1, <2>2, <2>3, <2>4, <2>5, ApplyEnds, TicketTypes, RowTypes DEF Replies
<1>11. ASSUME NEW sort \in Sorts, stage[c] = "begun", ~ Used(c), Create(c, sort)
       PROVE  Ends(c)
  <2>1. /\ <<Message(c, sort, 0, FALSE)>> \in Added(MessageRow, c)
        /\ <<Event("created", 0, Key(c))>> \in Added(EventRow, c)
    BY RowTypes DEF EventTypes
  <2>2. Apply(c, "created", [ticket EXCEPT !.status = "open"],
              <<Event("created", 0, Key(c))>>, <<Message(c, sort, 0, FALSE)>>, ToOperators(c))
    BY <1>11 DEF Create
  <2>3. /\ InHistory([ticket EXCEPT !.status = "open"], <<Event("created", 0, Key(c))>>)
        /\ InTicket(c, <<Message(c, sort, 0, FALSE)>>, ToOperators(c))
    BY TicketTold, MessageSent
  <2> QED
    BY <2>1, <2>2, <2>3, <1>11, ApplyEnds, TicketTypes DEF Replies
<1>12. ASSUME stage[c] = "begun", ~ Used(c),
              Apply(c, HowOpened(c), AfterContact(c), ReopenEvent(c),
                    <<Message(c, "customer", 0, FALSE)>>, ToOperators(c))
       PROVE  Ends(c)
  <2>1. /\ <<Message(c, "customer", 0, FALSE)>> \in Added(MessageRow, c)
        /\ HowOpened(c) \in Replies
    BY RowTypes DEF Sorts, HowOpened, Replies
  <2>2. /\ InHistory(AfterContact(c), ReopenEvent(c))
        /\ InTicket(c, <<Message(c, "customer", 0, FALSE)>>, ToOperators(c))
    BY TicketTold, MessageSent
  <2> QED
    BY <2>1, <2>2, <1>12, ApplyEnds, TicketTypes, RowTypes
<1>13. CASE AcceptCustomer(c)
  <2>1. stage[c] = "begun" /\ ~ Used(c)
    BY <1>13, ReadyMeans DEF AcceptCustomer
  <2>2. \/ Create(c, "customer")
        \/ Skip(c)
        \/ Apply(c, HowOpened(c), AfterContact(c), ReopenEvent(c),
                 <<Message(c, "customer", 0, FALSE)>>, ToOperators(c))
    BY <1>13 DEF AcceptCustomer
  <2> QED
    BY <2>1, <2>2, <1>11, <1>12, SkipEnds DEF Sorts
<1>14. CASE AcceptWebMessage(c)
  <2>1. stage[c] = "begun" /\ ~ Used(c)
    BY <1>14, ReadyMeans DEF AcceptWebMessage
  <2>2. <<Message(c, "customer", 0, TRUE)>> \in Added(MessageRow, c)
    BY RowTypes DEF Sorts
  <2>3. \/ Create(c, "customer")
        \/ /\ stage' = [stage EXCEPT ![c] = "idle"]
           /\ UNCHANGED <<plan, tables, inbound, seen, answer, faults>>
        \/ Apply(c, "changed", ticket, <<>>, <<Message(c, "customer", 0, TRUE)>>, {})
        \/ Apply(c, HowOpened(c), AfterContact(c), ReopenEvent(c),
                 <<Message(c, "customer", 0, FALSE)>>, ToOperators(c))
    BY <1>14 DEF AcceptWebMessage, Hide
  <2>4. CASE /\ stage' = [stage EXCEPT ![c] = "idle"]
             /\ UNCHANGED <<plan, tables, inbound, seen, answer, faults>>
    BY <2>1, <2>4 DEF Ends, Stages
  <2>5. /\ InHistory(ticket, <<>>)
        /\ InTicket(c, <<Message(c, "customer", 0, TRUE)>>, {})
    BY TicketTold, MessageSent
  <2> QED
    BY <2>1, <2>2, <2>3, <2>4, <2>5, <1>11, <1>12, ApplyEnds, TicketTypes, RowTypes
       DEF Sorts, Replies
<1>15. CASE Rate(c)
  <2> DEFINE cycle == plan.of[c].cycle
  <2>1. stage[c] = "begun" /\ ~ Used(c) /\ cycle \in Nat
    BY <1>15, ReadyMeans, PlanType DEF Rate, Types
  <2>2. /\ <<Message(c, "rating", cycle, FALSE)>> \in Added(MessageRow, c)
        /\ <<Event("rated", cycle, Key(c))>> \in Added(EventRow, c)
    BY <2>1, RowTypes DEF Sorts, EventTypes
  <2>3. \/ Skip(c)
        \/ Apply(c, "changed", ticket, <<Event("rated", cycle, Key(c))>>,
                 <<Message(c, "rating", cycle, FALSE)>>, ToOperators(c))
    BY <1>15 DEF Rate
  <2>4. /\ InHistory(ticket, <<Event("rated", cycle, Key(c))>>)
        /\ InTicket(c, <<Message(c, "rating", cycle, FALSE)>>, ToOperators(c))
    BY TicketTold, MessageSent
  <2> QED
    BY <2>1, <2>2, <2>3, <2>4, ApplyEnds, SkipEnds, TicketTypes DEF Replies
<1>16. CASE WebRate(c)
  <2> DEFINE cycle == View(c).ticket.cycle
             hidden == View(c).ticket.blocked
             es == IF hidden THEN <<>> ELSE <<Event("rated", cycle, Key(c))>>
             ms == <<Message(c, "rating", cycle, hidden)>>
             ds == IF hidden THEN {} ELSE ToOperators(c)
  <2>1. /\ stage[c] = "begun"
        /\ ~ Refused(c) => ~ Used(c)
    BY <1>16, ReadyMeans DEF WebRate
  <2>2. /\ ms \in Added(MessageRow, c)
        /\ es \in Added(EventRow, c)
    BY RowTypes, TicketTypes DEF Sorts, EventTypes
  <2>3. \/ Raise(c)
        \/ ~ Refused(c) /\ Apply(c, "unchanged", ticket, <<>>, <<>>, {})
        \/ ~ Refused(c) /\ Apply(c, "changed", ticket, es, ms, ds)
    BY <1>16 DEF WebRate
  <2>4. /\ InHistory(ticket, <<>>) /\ InTicket(c, <<>>, {})
        /\ InHistory(ticket, es) /\ InTicket(c, ms, ds)
    BY TicketTold, MessageSent
  <2> HIDE DEF es, ms, ds
  <2> QED
    BY <2>1, <2>2, <2>3, <2>4, ApplyEnds, RaiseEnds, TicketTypes, RowTypes DEF Replies
<1> QED
  BY <1>1, <1>2, <1>3, <1>4, <1>5, <1>6, <1>7, <1>8, <1>9, <1>10, <1>13, <1>14, <1>15, <1>16
     DEF CommitStep

-----------------------------------------------------------------------------
\* The end of a command keeps the invariant.
LEMMA EndsTypes ==
  ASSUME IInv, NEW c \in Commands, Ends(c)
  PROVE  Types' /\ RowsHaveKeys' /\ RowsDiffer'
<1>1. /\ plan' \in Scenarios
      /\ seen' \in [Commands -> [ticket : TicketRow, rated : SUBSET Nat]]
      /\ stage' \in [Commands -> Stages]
  BY DEF IInv, Types, Ends
<1>2. inbound' \in [Commands -> [status : InboundStatuses, attempts : Nat]]
  <2>1. \A row \in [status : InboundStatuses, attempts : Nat] :
            AfterRetry(row) \in [status : InboundStatuses, attempts : Nat]
    BY DEF AfterRetry, InboundStatuses, AnyStatus
  <2>2. inbound[c] \in [status : InboundStatuses, attempts : Nat]
    BY DEF IInv, Types
  <2>3. [inbound EXCEPT ![c] = AfterRetry(@)]
            \in [Commands -> [status : InboundStatuses, attempts : Nat]]
    BY <2>1, <2>2 DEF IInv, Types
  <2> QED
    BY <2>3 DEF IInv, Types, Ends
<1>3. CASE ~ Used(c) /\ Committed(c)
  <2>1. /\ ticket' \in TicketRow
        /\ messages' \in Seq(MessageRow)
        /\ events' \in Seq(EventRow)
        /\ RowsHaveKeys' /\ RowsDiffer'
    BY <1>3, CommittedKeeps DEF Ends
  <2>2. PICK reply \in Replies :
          /\ done' = [done EXCEPT ![Key(c)] = [print |-> Fingerprint(c), reply |-> reply]]
          /\ answer' = answer \/ answer' = [answer EXCEPT ![c] = reply]
    BY <1>3 DEF Committed, Apply, Answer
  <2>3. /\ done' = [k \in Keys |-> done'[k]]
        /\ \A k \in Keys :
            \/ done'[k] = Unused
            \/ /\ done'[k] = [print |-> done'[k].print, reply |-> done'[k].reply]
               /\ done'[k].reply \in Replies
    BY <2>2, PlanType DEF IInv, Types, Unused
  <2>4. answer' \in [Commands -> Replies \union {"none", "conflict", "error"}]
    BY <2>2 DEF IInv, Types
  <2> QED
    BY <1>1, <1>2, <2>1, <2>3, <2>4 DEF Types
<1>4. CASE UNCHANGED tables
  <2>1. Used(c) /\ c \in Requests => Replay(c) \in Replies \union {"conflict"}
    BY PlanType DEF IInv, Types, Used, Replay
  <2>2. answer' \in [Commands -> Replies \union {"none", "conflict", "error"}]
    <3>1. CASE ~ Used(c) /\ Committed(c)
      BY <3>1 DEF Committed, Apply, Answer, IInv, Types
    <3> QED
      BY <2>1, <3>1 DEF IInv, Types, Ends
  <2> QED
    BY <1>1, <1>2, <1>4, <2>2 DEF IInv, Types, tables, Unused, RowsHaveKeys, RowsDiffer
<1> QED
  BY <1>3, <1>4 DEF Ends

LEMMA EndsAnswers ==
  ASSUME IInv, NEW c \in Commands, Ends(c)
  PROVE  AnswersHold'
<1> SUFFICES ASSUME NEW d \in Requests
             PROVE  (AnswerHolds(d) \/ (AsksTwice(d) /\ answer[d] = "unchanged"))'
  BY DEF AnswersHold, Requests, Updates, Chat, Ends
<1>1. /\ plan' = plan /\ d \in Commands
      /\ AnswerHolds(d) \/ (AsksTwice(d) /\ answer[d] = "unchanged")
  BY DEF IInv, AnswersHold, Requests, Ends
<1>2. CASE ~ Used(c) /\ Committed(c)
  <2>1. PICK reply \in Replies :
          /\ done' = [done EXCEPT ![Key(c)] = [print |-> Fingerprint(c), reply |-> reply]]
          /\ answer' = IF c \in Requests THEN [answer EXCEPT ![c] = reply] ELSE answer
    BY <1>2 DEF Committed, Apply, Answer
  <2>2. Key(c) \in Keys /\ Key(d) \in Keys /\ done[Key(c)] = Unused
    BY <1>1, <1>2, PlanType DEF IInv, Types, Used
  <2>3. CASE d = c
    <3>1. /\ answer'[d] = reply
          /\ done'[Key(d)] = [print |-> Fingerprint(d), reply |-> reply]
      BY <2>1, <2>2, <2>3 DEF IInv, Types
    <3> QED
      BY <3>1, <1>1 DEF AnswerHolds, Replies, Key, Fingerprint
  <2>4. CASE d # c /\ Key(d) # Key(c)
    <3>1. answer'[d] = answer[d] /\ done'[Key(d)] = done[Key(d)]
      BY <2>1, <2>2, <2>4, <1>1 DEF IInv, Types
    <3> QED
      BY <3>1, <1>1 DEF AnswerHolds, AsksTwice, Used, Key, Fingerprint, Kind, Unused
  <2>5. CASE d # c /\ Key(d) = Key(c)
    <3>1. answer'[d] = answer[d] /\ done[Key(d)] = Unused
      BY <2>1, <2>2, <2>5, <1>1 DEF IInv, Types
    <3>2. \/ answer[d] \in {"none", "error"}
          \/ AsksTwice(d) /\ answer[d] = "unchanged"
      BY <3>1, <1>1 DEF AnswerHolds, Used, Unused, Replies, IInv, Types
    <3> QED
      BY <3>1, <3>2, <1>1 DEF AnswerHolds, AsksTwice, Kind
  <2> QED
    BY <2>3, <2>4, <2>5
<1>3. CASE UNCHANGED tables /\ answer' = answer
  BY <1>1, <1>3 DEF tables, AnswerHolds, AsksTwice, Used, Key, Fingerprint, Kind, Unused
<1>4. CASE /\ UNCHANGED tables /\ c \in Requests
           /\ answer' = [answer EXCEPT ![c] = "error"]
  <2>1. answer'[d] = answer[d] \/ answer'[d] = "error"
    BY <1>1, <1>4 DEF IInv, Types
  <2> QED
    BY <1>1, <1>4, <2>1 DEF tables, AnswerHolds, AsksTwice, Used, Key, Fingerprint, Kind, Unused
<1>5. CASE /\ UNCHANGED tables /\ c \in Requests /\ Used(c)
           /\ answer' = [answer EXCEPT ![c] = Replay(c)]
  <2>1. CASE d # c
    <3>1. answer'[d] = answer[d]
      BY <1>1, <1>5, <2>1 DEF IInv, Types
    <3> QED
      BY <1>1, <1>5, <3>1 DEF tables, AnswerHolds, AsksTwice, Used, Key, Fingerprint, Kind, Unused
  <2>2. CASE d = c
    <3>1. answer'[d] = Replay(d) /\ done' = done /\ Used(d)
      BY <1>1, <1>5, <2>2 DEF IInv, Types, tables
    <3>2. /\ done[Key(d)] = [print |-> done[Key(d)].print, reply |-> done[Key(d)].reply]
          /\ done[Key(d)].reply \in Replies
      BY <1>1, <3>1, PlanType DEF IInv, Types, Used
    <3>3. CASE done[Key(d)].print = Fingerprint(d)
      BY <1>1, <3>1, <3>2, <3>3 DEF AnswerHolds, Replay, Key, Fingerprint, Replies
    <3>4. CASE done[Key(d)].print # Fingerprint(d)
      BY <1>1, <3>1, <3>2, <3>4 DEF AnswerHolds, Replay, Key, Fingerprint, Used, Unused
    <3> QED
      BY <3>3, <3>4
  <2> QED
    BY <2>1, <2>2
<1> QED
  BY <1>2, <1>3, <1>4, <1>5 DEF Ends

\* One command is claimed at a time, and a command that ends was the one.
LEMMA StageKeepsOne ==
  ASSUME IInv, NEW c \in Commands, NEW s \in Stages, plan' = plan,
         stage' = [stage EXCEPT ![c] = s],
         stage[c] \in Working \/ s \notin Working \/ c \in Requests \/ WorkerFree
  PROVE  OneWorking'
<1>1. Updates' = Updates /\ Updates \subseteq Commands /\ ~ (c \in Updates /\ c \in Requests)
  BY DEF Updates, Requests, Chat
<1> SUFFICES ASSUME NEW u \in Updates, NEW w \in Updates,
                    stage'[u] \in Working, stage'[w] \in Working
             PROVE  u = w
  BY <1>1 DEF OneWorking
<1>2. \A v \in Updates : v # c => stage'[v] = stage[v]
  BY <1>1 DEF IInv, Types
<1>3. CASE c \in Requests
  BY <1>1, <1>2, <1>3 DEF IInv, OneWorking
<1>4. CASE s \notin Working
  <2>1. stage'[c] = s
    BY DEF IInv, Types
  <2> QED
    BY <1>2, <1>4, <2>1 DEF IInv, OneWorking
<1>5. CASE stage[c] \in Working
  BY <1>2, <1>5 DEF IInv, OneWorking
<1>6. CASE WorkerFree
  BY <1>2, <1>6 DEF WorkerFree
<1> QED
  BY <1>3, <1>4, <1>5, <1>6

\* A step that touches only the row and the stage of one command.
LEMMA QueueKeeps ==
  ASSUME IInv, NEW c \in Commands, NEW s \in Stages,
         UNCHANGED <<plan, tables, seen, answer>>,
         stage' = [stage EXCEPT ![c] = s],
         stage[c] \in Working \/ s \notin Working \/ c \in Requests \/ WorkerFree,
         inbound' \in [Commands -> [status : InboundStatuses, attempts : Nat]]
  PROVE  IInv'
<1>1. OneWorking'
  BY StageKeepsOne
<1>2. Types'
  BY DEF IInv, Types, tables, Unused
<1>3. RowsHaveKeys' /\ RowsDiffer'
  BY DEF IInv, tables, RowsHaveKeys, RowsDiffer, Unused
<1>4. AnswersHold'
  BY DEF IInv, tables, AnswersHold, AnswerHolds, Requests, Updates, Chat, AsksTwice, Kind,
         Used, Key, Fingerprint, Unused
<1> QED
  BY <1>1, <1>2, <1>3, <1>4 DEF IInv

\* A request that is answered without a commit: with what is stored under its
\* key, or, when it asks twice, with "unchanged".
LEMMA AnsweredKeeps ==
  ASSUME IInv, NEW c \in Requests, Used(c), NEW reply, Answer(c, reply),
         reply = Replay(c) \/ (AsksTwice(c) /\ reply = "unchanged"),
         UNCHANGED <<plan, tables, inbound, seen>>
  PROVE  IInv'
<1>1. c \in Commands /\ Requests' = Requests
  BY DEF Requests, Updates, Chat
<1>2. Replay(c) \in Replies \union {"conflict"}
  BY <1>1, PlanType DEF IInv, Types, Used, Replay
<1>3. Types'
  <2>1. reply \in Replies \union {"none", "conflict", "error"}
    BY <1>2 DEF Replies
  <2> QED
    BY <1>1, <2>1 DEF IInv, Types, Answer, tables, Unused, Stages
<1>4. OneWorking'
  BY <1>1, StageKeepsOne DEF Answer, Stages
<1>5. RowsHaveKeys' /\ RowsDiffer'
  BY DEF IInv, tables, RowsHaveKeys, RowsDiffer, Unused
<1>6. ASSUME NEW d \in Requests, d # c
      PROVE  (AnswerHolds(d) \/ (AsksTwice(d) /\ answer[d] = "unchanged"))'
  <2>1. answer'[d] = answer[d] /\ d \in Commands
    BY <1>6 DEF Answer, IInv, Types, Requests
  <2> QED
    BY <2>1, <1>6 DEF IInv, AnswersHold, tables, AnswerHolds, AsksTwice, Used, Key, Kind,
       Fingerprint, Unused
<1>7. (AnswerHolds(c) \/ (AsksTwice(c) /\ answer[c] = "unchanged"))'
  <2>1. answer'[c] = reply /\ done' = done /\ plan' = plan
    BY <1>1 DEF Answer, IInv, Types, tables
  <2>2. CASE AsksTwice(c) /\ reply = "unchanged"
    BY <2>1, <2>2 DEF AsksTwice, Kind
  <2>3. CASE reply = Replay(c)
    <3>1. /\ done[Key(c)] = [print |-> done[Key(c)].print, reply |-> done[Key(c)].reply]
          /\ done[Key(c)].reply \in Replies
      BY <1>1, PlanType DEF IInv, Types, Used
    <3>2. CASE done[Key(c)].print = Fingerprint(c)
      BY <2>1, <2>3, <3>1, <3>2 DEF AnswerHolds, Replay, Key, Fingerprint, Replies
    <3>3. CASE done[Key(c)].print # Fingerprint(c)
      BY <2>1, <2>3, <3>1, <3>3 DEF AnswerHolds, Replay, Key, Fingerprint, Used, Unused
    <3> QED
      BY <3>2, <3>3
  <2> QED
    BY <2>2, <2>3
<1>8. AnswersHold'
  BY <1>1, <1>6, <1>7 DEF AnswersHold
<1> QED
  BY <1>3, <1>4, <1>5, <1>8 DEF IInv

LEMMA InitInvariant == Init => IInv
<1> SUFFICES ASSUME Init PROVE IInv
  OBVIOUS
<1>1. plan.start \in {"none", "open", "closed"}
  BY CommandsAssumption DEF Init
<1>2. ticket \in TicketRow
  BY <1>1 DEF Init, InitTicket, TicketRow
<1>3. /\ events \in Seq(EventRow)
      /\ \A i \in DOMAIN events : events[i].key = "past"
  <2>1. \A type \in EventTypes, n \in Nat :
            Event(type, n, "past") \in EventRow /\ Event(type, n, "past").key = "past"
    BY DEF Event, EventRow
  <2>2. CASE events = <<>>
    BY <2>2
  <2>3. CASE events = <<Event("created", 0, "past")>>
    BY <2>1, <2>3 DEF EventTypes
  <2>4. CASE events = <<Event("created", 0, "past"), Event("closed", 1, "past")>>
    BY <2>1, <2>4 DEF EventTypes
  <2> QED
    BY <1>1, <2>2, <2>3, <2>4 DEF Init, InitEvents
<1>4. Types
  BY <1>2, <1>3 DEF Init, Types, MessageRow, InboundStatuses, Stages
<1>5. OneWorking
  BY DEF Init, OneWorking, Working, Updates
<1>6. RowsHaveKeys /\ RowsDiffer
  BY <1>3 DEF Init, RowsHaveKeys, RowsDiffer
<1>7. AnswersHold
  BY DEF Init, AnswersHold, AnswerHolds, Requests
<1> QED
  BY <1>4, <1>5, <1>6, <1>7 DEF IInv

LEMMA NextInvariant == IInv /\ [Next]_vars => IInv'
<1> SUFFICES ASSUME IInv, [Next]_vars PROVE IInv'
  OBVIOUS
<1> USE DEF InboundStatuses, AnyStatus, Stages, Working
<1>1. CASE UNCHANGED vars
  BY <1>1 DEF vars, tables, IInv, Types, OneWorking, RowsHaveKeys, RowsDiffer, AnswersHold,
              AnswerHolds, Requests, Updates, Chat, AsksTwice, Kind, Used, Key, Fingerprint, Unused
<1>2. CASE Crash
  <2>1. stage' \in [Commands -> Stages]
    BY <1>2 DEF Crash, IInv, Types
  <2>2. OneWorking'
    BY <1>2 DEF Crash, IInv, Types, OneWorking, Updates, Requests, Chat
  <2>3. UNCHANGED <<plan, tables, inbound, seen, answer>>
    BY <1>2 DEF Crash
  <2> QED
    BY <2>1, <2>2, <2>3 DEF tables, IInv, Types, RowsHaveKeys, RowsDiffer, AnswersHold,
              AnswerHolds, Requests, Updates, Chat, AsksTwice, Kind, Used, Key, Fingerprint, Unused
<1> SUFFICES ASSUME NEW c \in Commands,
                    \/ Arrive(c) \/ Claim(c) \/ Finish(c) \/ Fail(c) \/ FinishFails(c)
                    \/ ReleaseStale(c) \/ Look(c) \/ Read(c) \/ CommitStep(c)
             PROVE  IInv'
  BY <1>1, <1>2 DEF Next
<1>3. /\ inbound[c] \in [status : InboundStatuses, attempts : Nat]
      /\ stage[c] \in Stages /\ stage = [stage EXCEPT ![c] = stage[c]]
      /\ inbound[c].attempts + 1 \in Nat
  BY DEF IInv, Types
<1>4. CASE Arrive(c)
  <2>1. inbound' \in [Commands -> [status : InboundStatuses, attempts : Nat]]
    BY <1>3, <1>4 DEF Arrive, IInv, Types
  <2>2. stage[c] \in Working \/ stage[c] \notin Working
    OBVIOUS
  <2>3. UNCHANGED <<plan, tables, seen, answer>> /\ stage' = [stage EXCEPT ![c] = stage[c]]
    BY <1>3, <1>4 DEF Arrive
  <2> QED
    BY <1>3, <2>1, <2>2, <2>3, QueueKeeps
<1>5. CASE Claim(c)
  <2>1. inbound' \in [Commands -> [status : InboundStatuses, attempts : Nat]]
    BY <1>3, <1>5 DEF Claim, IInv, Types
  <2>2. /\ UNCHANGED <<plan, tables, seen, answer>>
        /\ stage' = [stage EXCEPT ![c] = "claimed"] /\ WorkerFree
    BY <1>5 DEF Claim
  <2> QED
    BY <2>1, <2>2, QueueKeeps
<1>6. CASE Finish(c)
  <2>1. inbound' \in [Commands -> [status : InboundStatuses, attempts : Nat]]
    BY <1>3, <1>6 DEF Finish, IInv, Types
  <2>2. /\ UNCHANGED <<plan, tables, seen, answer>>
        /\ stage' = [stage EXCEPT ![c] = "idle"] /\ stage[c] \in Working
    BY <1>6 DEF Finish
  <2> QED
    BY <2>1, <2>2, QueueKeeps
<1>7. CASE Fail(c)
  <2>1. AfterRetry(inbound[c]) \in [status : InboundStatuses, attempts : Nat]
    BY <1>3 DEF AfterRetry
  <2>2. inbound' \in [Commands -> [status : InboundStatuses, attempts : Nat]]
    BY <2>1, <1>7 DEF Fail, IInv, Types
  <2>3. /\ UNCHANGED <<plan, tables, seen, answer>>
        /\ stage' = [stage EXCEPT ![c] = "idle"] /\ stage[c] \in Working
    BY <1>7 DEF Fail
  <2> QED
    BY <2>2, <2>3, QueueKeeps
<1>8. CASE FinishFails(c)
  <2>1. /\ UNCHANGED <<plan, tables, seen, answer, inbound>>
        /\ stage' = [stage EXCEPT ![c] = "idle"] /\ stage[c] \in Working
    BY <1>8 DEF FinishFails
  <2> QED
    BY <2>1, QueueKeeps DEF IInv, Types
<1>9. CASE ReleaseStale(c)
  <2>1. inbound' \in [Commands -> [status : InboundStatuses, attempts : Nat]]
    BY <1>3, <1>9 DEF ReleaseStale, Released, IInv, Types
  <2>2. /\ UNCHANGED <<plan, tables, seen, answer>>
        /\ stage' = [stage EXCEPT ![c] = stage[c]] /\ WorkerFree
    BY <1>3, <1>9 DEF ReleaseStale
  <2> QED
    BY <1>3, <2>1, <2>2, QueueKeeps
<1>10. CASE Look(c)
  <2>1. c \in Requests /\ UNCHANGED <<plan, tables, inbound, seen>>
    BY <1>10 DEF Look
  <2>2. CASE Used(c)
    <3>1. Answer(c, Replay(c))
      BY <1>10, <2>2 DEF Look
    <3> QED
      BY <2>1, <2>2, <3>1, AnsweredKeeps
  <2>3. CASE ~ Used(c)
    <3>1. stage' = [stage EXCEPT ![c] = "looked"] /\ answer' = answer
      BY <1>10, <2>3 DEF Look
    <3> QED
      BY <2>1, <3>1, QueueKeeps DEF IInv, Types
  <2> QED
    BY <2>2, <2>3
<1>11. CASE Read(c)
  <2>1. UNCHANGED <<plan, tables, inbound>>
    BY <1>11 DEF Read
  <2>2. CASE /\ c \in Updates /\ Settled(c)
             /\ stage' = [stage EXCEPT ![c] = "committed"]
             /\ UNCHANGED <<seen, answer>>
    <3>1. stage[c] \in Working
      BY <1>11, <2>2 DEF Read
    <3> QED
      BY <2>1, <2>2, <3>1, QueueKeeps DEF IInv, Types
  <2>3. CASE /\ c \in Requests /\ AsksTwice(c) /\ Used(c)
             /\ Answer(c, "unchanged") /\ UNCHANGED seen
    BY <2>1, <2>3, AnsweredKeeps
  <2>4. CASE /\ stage' = [stage EXCEPT ![c] = "begun"]
             /\ seen' = [seen EXCEPT ![c] = Current]
             /\ UNCHANGED answer
    <3>1. stage[c] \in Working \/ c \in Requests
      BY <1>11 DEF Read, Requests
    <3>2. OneWorking'
      BY <2>1, <2>4, <3>1, StageKeepsOne
    <3>3. Types'
      BY <2>1, <2>4, CurrentType DEF IInv, Types, tables, Unused
    <3> QED
      BY <2>1, <2>4, <3>2, <3>3 DEF tables, IInv, RowsHaveKeys, RowsDiffer, AnswersHold,
              AnswerHolds, Requests, Updates, Chat, AsksTwice, Kind, Used, Key, Fingerprint, Unused
  <2> QED
    BY <1>11, <2>2, <2>3, <2>4 DEF Read
<1>12. CASE CommitStep(c)
  <2>1. Ends(c)
    BY <1>12, CommitStepEnds DEF IInv
  <2>2. OneWorking'
    <3>1. PICK s \in Stages : stage' = [stage EXCEPT ![c] = s]
      BY <2>1 DEF Ends
    <3> QED
      BY <2>1, <3>1, StageKeepsOne DEF Ends
  <2> QED
    BY <2>1, <2>2, EndsTypes, EndsAnswers DEF IInv
<1> QED
  BY <1>4, <1>5, <1>6, <1>7, <1>8, <1>9, <1>10, <1>11, <1>12

LEMMA Invariance == Spec => []IInv
<1> QED
  BY InitInvariant, NextInvariant, PTL DEF Spec

-----------------------------------------------------------------------------
\* The tables, the queue of updates and the answers are well formed, and the
\* ingress worker has one update in hand at a time.
THEOREM TypeCorrect == Spec => []TypeOK
<1>1. IInv => TypeOK
  <2> SUFFICES ASSUME IInv PROVE TypeOK
    OBVIOUS
  <2> DEFINE W == {u \in Updates : stage[u] \in Working}
  <2>1. Cardinality(W) <= 1
    <3>1. CASE W = {}
      BY <3>1, FS_EmptySet
    <3>2. CASE W # {}
      <4>1. PICK u \in W : TRUE
        BY <3>2
      <4>2. W = {u}
        BY <4>1 DEF IInv, OneWorking
      <4> HIDE DEF W
      <4>3. Cardinality(W) = 1
        BY <4>2, FS_Singleton
      <4> QED
        BY <4>3
    <3> QED
      BY <3>1, <3>2
  <2>2. Updates \subseteq Commands
    BY DEF Updates
  <2>3. \A k \in Keys : done[k] = Unused \/ done[k].reply \in Replies
    BY DEF IInv, Types
  <2>4. /\ ticket.status \in {"none", "open", "closed"}
        /\ ticket.blocked \in BOOLEAN
        /\ ticket.cycle \in Nat
    BY DEF IInv, Types, TicketRow
  <2>5. \A u \in Updates : /\ inbound[u].status \in AnyStatus \union {"none", "delivered"}
                           /\ inbound[u].attempts \in Nat
    <3>1. \A u \in Updates : inbound[u] \in [status : InboundStatuses, attempts : Nat]
      BY <2>2 DEF IInv, Types
    <3> QED
      BY <3>1 DEF InboundStatuses
  <2>6. /\ \A c \in Commands : stage[c] \in Working \union {"idle", "looked", "ended"}
        /\ \A c \in Commands : answer[c] \in Replies \union {"none", "conflict", "error"}
    BY DEF IInv, Types, Stages
  <2> QED
    BY <2>1, <2>3, <2>4, <2>5, <2>6 DEF TypeOK
<1> QED
  BY <1>1, Invariance, PTL

\* Whatever fails, crashes, is repeated or runs at the same time, no command
\* writes a second message, transition or rating.
THEOREM OnceOnly == Spec => []EffectOnce
<1>1. IInv => EffectOnce
  BY DEF IInv, RowsDiffer, EffectOnce
<1> QED
  BY <1>1, Invariance, PTL

-----------------------------------------------------------------------------
(* The tables are the journal of CommandJournal.                            *)

\* A table that takes no row, or one with the key.
LEMMA TableExtends ==
  ASSUME NEW S, NEW s \in Seq(S), NEW k, NEW new,
         NEW rows, rows \in {<<>>} \union {<<x>> : x \in {y \in S : y.key = k}},
         new = s \o rows
  PROVE  \/ rows = <<>> /\ new = s
         \/ new = Append(s, new[Len(new)]) /\ new[Len(new)].key = k /\ new # s
<1>1. CASE rows = <<>>
  BY <1>1
<1>2. CASE rows # <<>>
  <2>1. PICK x \in S : rows = <<x>> /\ x.key = k
    BY <1>2
  <2>2. new = Append(s, x) /\ new[Len(new)] = x /\ new # s
    BY <2>1
  <2> QED
    BY <2>1, <2>2
<1> QED
  BY <1>1, <1>2

LEMMA CommitIsJournal ==
  ASSUME IInv, NEW c \in Commands, ~ Used(c), Committed(c)
  PROVE  Journal!Commit(Key(c))
<1> DEFINE k == Key(c)
<1>1. PICK reply \in Replies, t \in TicketRow, es \in Added(EventRow, c),
           ms \in Added(MessageRow, c) :
        \E ds : InHistory(t, es) /\ InTicket(c, ms, ds) /\ Apply(c, reply, t, es, ms, ds)
  BY DEF Committed
<1>2. PICK ds : InHistory(t, es) /\ InTicket(c, ms, ds) /\ Apply(c, reply, t, es, ms, ds)
  BY <1>1
<1>3. /\ ticket' = t /\ messages' = messages \o ms /\ events' = events \o es
      /\ outbox' = outbox \union ds
      /\ done' = [done EXCEPT ![k] = [print |-> Fingerprint(c), reply |-> reply]]
  BY <1>2 DEF Apply
<1>4. /\ done[k] = Unused /\ done'[k] # Unused /\ done' = [done EXCEPT ![k] = done'[k]]
  <2>1. k \in Keys /\ done[k] = Unused
    BY PlanType DEF IInv, Types, Used
  <2>2. done'[k] = [print |-> Fingerprint(c), reply |-> reply]
    BY <1>3, <2>1 DEF IInv, Types
  <2>3. [print |-> Fingerprint(c), reply |-> reply] # Unused
    BY DEF Unused, Replies
  <2> HIDE DEF k
  <2> QED
    BY <1>3, <2>1, <2>2, <2>3
<1>5. Journal!Extends(messages', messages, k) /\ (ms # <<>> => messages' # messages)
  <2>1. messages \in Seq(MessageRow)
    BY DEF IInv, Types
  <2>2. ms \in {<<>>} \union {<<x>> : x \in {y \in MessageRow : y.key = k}}
    BY DEF Added
  <2>3. messages' = messages \o ms
    BY <1>3
  <2> HIDE DEF k
  <2> QED
    BY <2>1, <2>2, <2>3, TableExtends DEF Journal!Extends
<1>6. Journal!Extends(events', events, k) /\ (es # <<>> => events' # events)
  <2>1. events \in Seq(EventRow)
    BY DEF IInv, Types
  <2>2. es \in {<<>>} \union {<<x>> : x \in {y \in EventRow : y.key = k}}
    BY DEF Added
  <2>3. events' = events \o es
    BY <1>3
  <2> HIDE DEF k
  <2> QED
    BY <2>1, <2>2, <2>3, TableExtends DEF Journal!Extends
<1>7. /\ Journal!Changes => events' # events
      /\ ticket'.cycle = IF Journal!Closes THEN ticket.cycle + 1 ELSE ticket.cycle
  BY <1>2, <1>3, <1>6 DEF InHistory, Journal!Changes, Journal!Closes
<1>8. \/ outbox' = outbox
      \/ /\ messages' # messages
         /\ \E d \in outbox' : d.key = k /\ outbox' = outbox \union {d}
  BY <1>2, <1>3, <1>5 DEF InTicket, Delivery
<1> QED
  BY <1>4, <1>5, <1>6, <1>7, <1>8 DEF Journal!Commit

\* On either database, whatever is handled again, repeated or races: every step that
\* touches the tables is one commit of one command, under a key nobody used before.
THEOREM JournalKept == Spec => KeepsJournal
<1>1. Init => Journal!Init
  <2> SUFFICES ASSUME Init PROVE \A i \in DOMAIN events : events[i].key = "past"
    BY DEF Init, Journal!Init
  <2>1. plan.start \in {"none", "open", "closed"}
    BY CommandsAssumption DEF Init
  <2>2. events \in {<<>>, <<Event("created", 0, "past")>>,
                    <<Event("created", 0, "past"), Event("closed", 1, "past")>>}
    BY <2>1 DEF Init, InitEvents
  <2> QED
    BY <2>2 DEF Event
<1>2. IInv /\ [Next]_vars => [Journal!Next]_(Journal!vars)
  <2> SUFFICES ASSUME IInv, [Next]_vars, ~ UNCHANGED tables
               PROVE  Journal!Next
    BY DEF Journal!vars, tables
  <2>1. PICK c \in Commands : CommitStep(c)
    BY DEF vars, Next, Crash, Arrive, Claim, Finish, Fail, FinishFails, ReleaseStale, Look, Read
  <2>2. ~ Used(c) /\ Committed(c)
    BY <2>1, CommitStepEnds DEF IInv, Ends
  <2>3. Key(c) \in Keys
    BY PlanType DEF IInv, Types
  <2> QED
    BY <2>2, <2>3, CommitIsJournal DEF Journal!Next
<1> QED
  BY <1>1, <1>2, Invariance, PTL DEF Spec, KeepsJournal, Journal!Spec

-----------------------------------------------------------------------------
\* A client is told what was committed for its own request, the exception of
\* the commands that ask twice aside.
THEOREM TruthfulAnswers == Spec => []AnswersHold
<1>1. IInv => AnswersHold
  BY DEF IInv
<1> QED
  BY <1>1, Invariance, PTL

-----------------------------------------------------------------------------
\* The new messages of a step, and the ticket after it.
MessageReopensStep ==
    plan.rowLocks =>
        \A i \in NewMessages :
            messages'[i].sort = "customer" /\ ~ messages'[i].hidden => ticket'.status = "open"

LEMMA NothingNew ==
  ASSUME messages' = messages
  PROVE  MessageReopensStep
  BY DEF MessageReopensStep, NewMessages

LEMMA OneNew ==
  ASSUME Types, NEW c \in Commands, NEW reply, NEW t, NEW es, NEW ms, NEW ds,
         Apply(c, reply, t, es, ms, ds),
         \/ ms = <<>>
         \/ \E sort \in Sorts, cycle \in Nat, hidden \in BOOLEAN :
                /\ ms = <<Message(c, sort, cycle, hidden)>>
                /\ sort # "customer" \/ hidden \/ (plan.rowLocks => t.status = "open")
  PROVE  MessageReopensStep
<1>1. messages' = messages \o ms /\ ticket' = t
  BY DEF Apply
<1>2. CASE ms = <<>>
  BY <1>1, <1>2, NothingNew DEF Types
<1>3. CASE ms # <<>>
  <2>1. PICK sort \in Sorts, cycle \in Nat, hidden \in BOOLEAN :
            /\ ms = <<Message(c, sort, cycle, hidden)>>
            /\ sort # "customer" \/ hidden \/ (plan.rowLocks => t.status = "open")
    BY <1>3
  <2> DEFINE m == Message(c, sort, cycle, hidden)
  <2>2. m \in MessageRow /\ m.sort = sort /\ m.hidden = hidden
    BY PlanType DEF Types, Message, MessageRow
  <2>3. \A i \in NewMessages : messages'[i] = m
    <3> HIDE DEF m
    <3> QED
      BY <1>1, <2>1, <2>2, Grown DEF Types, NewMessages, m
  <2> QED
    BY <1>1, <2>1, <2>2, <2>3 DEF MessageReopensStep
<1> QED
  BY <1>2, <1>3

\* Where rows are locked, who accepts a message of the customer sees the ticket
\* as it is.
LEMMA ContactOpens ==
  ASSUME Types, NEW c \in Commands, Kind(c) \in Locking, plan.rowLocks
  PROVE  /\ View(c).ticket = ticket
         /\ ticket.status # "none" => AfterContact(c).status = "open"
  BY DEF Types, TicketRow, View, Current, AfterContact, Reopens, Reopened

LEMMA CommitOpens ==
  ASSUME Types, NEW c \in Commands, CommitStep(c)
  PROVE  MessageReopensStep
<1> USE DEF Sorts
<1>1. ticket.cycle \in Nat /\ View(c).ticket.cycle \in Nat /\ View(c).ticket.blocked \in BOOLEAN
  BY TicketTypes
<1>2. CASE Duplicate(c)
  BY <1>2, NothingNew DEF Duplicate, tables
<1>3. CASE CloseTicket(c)
  <2> DEFINE tells == Notifies(c) /\ ~ ticket.blocked
             ms == IF tells THEN <<Message(c, "notice", 0, FALSE)>> ELSE <<>>
  <2>1. Apply(c, "changed", Closed(ticket), <<Event("closed", ticket.cycle + 1, Key(c))>>, ms,
              IF tells THEN ToCustomer(c) ELSE {})
    BY <1>3 DEF CloseTicket
  <2> QED
    BY <2>1, OneNew
<1>4. CASE CloseClosed(c)
  <2>1. Skip(c) \/ Apply(c, "unchanged", ticket, <<>>, <<>>, {})
    BY <1>4 DEF CloseClosed
  <2> QED
    BY <2>1, OneNew, NothingNew DEF Skip, tables
<1>5. CASE CloseAll(c)
  <2>1. \E reply, t, es : Apply(c, reply, t, es, <<>>, {})
    BY <1>5 DEF CloseAll
  <2> QED
    BY <2>1, OneNew
<1>6. CASE ReopenTicket(c)
  <2>1. \E reply, t, es : Apply(c, reply, t, es, <<>>, {})
    BY <1>6 DEF ReopenTicket
  <2> QED
    BY <2>1, OneNew
<1>7. CASE Block(c)
  <2>1. Raise(c) \/ \E reply, t, es : Apply(c, reply, t, es, <<>>, {})
    BY <1>7 DEF Block
  <2> QED
    BY <2>1, OneNew, NothingNew DEF Raise, tables
<1>8. CASE Unblock(c)
  <2>1. \E reply, t, es : Apply(c, reply, t, es, <<>>, {})
    BY <1>8 DEF Unblock
  <2> QED
    BY <2>1, OneNew
<1>9. CASE AddNote(c)
  <2>1. Apply(c, "changed", ticket, <<>>, <<Message(c, "note", 0, FALSE)>>, {})
    BY <1>9 DEF AddNote
  <2> QED
    BY <2>1, OneNew
<1>10. CASE AcceptReply(c)
  <2>1. Skip(c) \/ \E reply, t, es, ds :
            Apply(c, reply, t, es, <<Message(c, "reply", 0, FALSE)>>, ds)
    BY <1>10 DEF AcceptReply
  <2> QED
    BY <2>1, OneNew, NothingNew DEF Skip, tables
<1>11. CASE SendMessage(c)
  <2>1. \/ Apply(c, "unchanged", ticket, <<>>, <<>>, {})
        \/ \E reply, t, es, ds :
              Apply(c, reply, t, es, <<Message(c, "reply", 0, FALSE)>>, ds)
    BY <1>11 DEF SendMessage
  <2> QED
    BY <2>1, OneNew
<1>12. ASSUME NEW ds, Kind(c) \in Locking, View(c).ticket.status # "none",
              Apply(c, HowOpened(c), AfterContact(c), ReopenEvent(c),
                    <<Message(c, "customer", 0, FALSE)>>, ds)
       PROVE  MessageReopensStep
  <2>1. plan.rowLocks => AfterContact(c).status = "open"
    BY <1>12, ContactOpens
  <2> QED
    BY <2>1, <1>12, OneNew
<1>13. ASSUME Create(c, "customer")
       PROVE  MessageReopensStep
  <2>1. Apply(c, "created", [ticket EXCEPT !.status = "open"],
              <<Event("created", 0, Key(c))>>, <<Message(c, "customer", 0, FALSE)>>,
              ToOperators(c))
    BY <1>13 DEF Create
  <2>2. [ticket EXCEPT !.status = "open"].status = "open"
    BY DEF Types, TicketRow
  <2> QED
    BY <2>1, <2>2, OneNew
<1>14. CASE AcceptCustomer(c)
  <2>1. Kind(c) \in Locking
    BY <1>14 DEF AcceptCustomer, Ready, Locking
  <2>2. \/ Create(c, "customer")
        \/ Skip(c)
        \/ /\ View(c).ticket.status # "none"
           /\ Apply(c, HowOpened(c), AfterContact(c), ReopenEvent(c),
                    <<Message(c, "customer", 0, FALSE)>>, ToOperators(c))
    BY <1>14 DEF AcceptCustomer
  <2> QED
    BY <2>1, <2>2, <1>12, <1>13, NothingNew DEF Skip, tables
<1>15. CASE AcceptWebMessage(c)
  <2>1. Kind(c) \in Locking
    BY <1>15 DEF AcceptWebMessage, Ready, Locking
  <2>2. \/ Create(c, "customer")
        \/ UNCHANGED tables
        \/ Apply(c, "changed", ticket, <<>>, <<Message(c, "customer", 0, TRUE)>>, {})
        \/ /\ View(c).ticket.status # "none"
           /\ Apply(c, HowOpened(c), AfterContact(c), ReopenEvent(c),
                    <<Message(c, "customer", 0, FALSE)>>, ToOperators(c))
    BY <1>15 DEF AcceptWebMessage, Hide
  <2> QED
    BY <2>1, <2>2, <1>12, <1>13, OneNew, NothingNew DEF tables
<1>16. CASE Rate(c)
  <2>1. plan.of[c].cycle \in Nat
    BY <1>16, ReadyMeans, PlanType DEF Rate, Types
  <2>2. Skip(c) \/ \E reply, t, es, ds :
            Apply(c, reply, t, es, <<Message(c, "rating", plan.of[c].cycle, FALSE)>>, ds)
    BY <1>16 DEF Rate
  <2> QED
    BY <2>1, <2>2, OneNew, NothingNew DEF Skip, tables
<1>17. CASE WebRate(c)
  <2>1. \/ Raise(c)
        \/ Apply(c, "unchanged", ticket, <<>>, <<>>, {})
        \/ \E reply, t, es, ds :
              Apply(c, reply, t, es,
                    <<Message(c, "rating", View(c).ticket.cycle, View(c).ticket.blocked)>>, ds)
    BY <1>17 DEF WebRate
  <2> QED
    BY <1>1, <2>1, OneNew, NothingNew DEF Raise, tables
<1> QED
  BY <1>2, <1>3, <1>4, <1>5, <1>6, <1>7, <1>8, <1>9, <1>10, <1>11, <1>14, <1>15, <1>16, <1>17
     DEF CommitStep

\* Where rows are locked, a message of the customer never ends up in a closed
\* ticket, whatever closes it while the message is accepted.
THEOREM NeverInClosed == Spec => MessageReopens
<1>1. IInv /\ [Next]_vars =>
        [plan.rowLocks =>
            \A i \in NewMessages :
                messages'[i].sort = "customer" /\ ~ messages'[i].hidden
                    => ticket'.status = "open"]_vars
  <2> SUFFICES ASSUME IInv, Next PROVE MessageReopensStep
    BY DEF MessageReopensStep
  <2>1. CASE \E c \in Commands : CommitStep(c)
    BY <2>1, CommitOpens DEF IInv
  <2>2. CASE ~ \E c \in Commands : CommitStep(c)
    <3>1. messages' = messages
      BY <2>2 DEF Next, Crash, Arrive, Claim, Finish, Fail, FinishFails, ReleaseStale, Look,
                  Read, tables
    <3> QED
      BY <3>1, NothingNew
  <2> QED
    BY <2>1, <2>2
<1> QED
  BY <1>1, Invariance, PTL DEF Spec, MessageReopens

=============================================================================
