---------------------------- MODULE TicketCommands ----------------------------
(***************************************************************************)
(* What may be done to one ticket, and by whom at once.                     *)
(*                                                                         *)
(* Telegram updates (customer messages, replies and commands of operators,  *)
(* ratings) are stored by the ingress and carried out one at a time by its  *)
(* worker, from the start again after a failure or a crash.  Requests to    *)
(* the operator API and the web API run beside them and beside each other;  *)
(* a client that got no answer sends the request again with the same        *)
(* idempotency key.                                                         *)
(*                                                                         *)
(* A command looks for an earlier answer under its key (requests), reads    *)
(* the ticket, and writes everything in one commit.  Under PostgreSQL most  *)
(* commands lock the row of the ticket before they read it.  SQLite ignores *)
(* FOR UPDATE, and pysqlite begins a transaction at the first write: there  *)
(* a command commits on what it read before.                                *)
(***************************************************************************)
EXTENDS Naturals, Sequences, FiniteSets

CONSTANTS
    Commands,       \* updates and requests; updates arrive in numerical order
    Keys,           \* idempotency keys
    Scenarios,      \* the commands in use, the database, the ticket before them
    MaxAttempts     \* max_attempts of retry_inbound_update

UpdateKinds == {"customer", "reply", "stop", "hidestop", "closeall", "block",
                "unblock", "note", "rate"}
RequestKinds == {"message", "close", "reopen", "block", "unblock",
                 "web_message", "web_rate"}

ASSUME CommandsAssumption ==
    /\ Commands \subseteq Nat \ {0}
    /\ IsFiniteSet(Commands)
    /\ MaxAttempts \in Nat \ {0}
    /\ \A p \in Scenarios :
        /\ p.channel \in {"telegram", "web"}
        /\ p.rowLocks \in BOOLEAN
        /\ p.start \in {"none", "open", "closed"}
        /\ p.faults \in Nat
        /\ \A c \in Commands :
            /\ p.of[c].key \in Keys
            /\ p.of[c].kind \in IF p.of[c].chat = "api" THEN RequestKinds
                                                        ELSE UpdateKinds
            /\ p.of[c].kind = "rate" => p.of[c].cycle \in Nat

-----------------------------------------------------------------------------
(* What the program gives its keys and channels; the proofs of order, ratings,    *)
(* blocks and history assume it.                                                  *)

\* The key of an update is made of chat and message, or of the command
\* (telegram_message_utils.py:100): no other command has it, a rating aside.
OwnKeys ==
    \A p \in Scenarios : \A u, c \in Commands :
        p.of[u].chat # "api" /\ p.of[u].kind # "rate" /\ p.of[c].key = p.of[u].key => c = u

\* The key of a rating by a button is made of ticket and cycle
\* (telegram_user_handlers.py:65); only web tickets are rated through the web API.
RatingKeys ==
    \A p \in Scenarios : \A c, d \in Commands :
        p.of[c].kind = "rate" =>
            /\ p.of[d].kind # "web_rate"
            /\ p.of[d].kind = "rate" /\ p.of[d].cycle = p.of[c].cycle => p.of[d].key = p.of[c].key

\* Only tickets of the web are blocked through an API (web_api_routes.py:350): the
\* customers who write by Telegram are blocked by an update.
BlockedByUpdate ==
    \A p \in Scenarios : \A c, d \in Commands :
        p.of[c].kind = "customer" /\ p.of[d].kind = "block" => p.of[d].chat # "api"

\* A customer has one ticket per channel, and a message goes to the ticket of its own
\* (ticket_ingress_service.py:116, web_support_service.py:413).
OneChannel ==
    \A p \in Scenarios : \A c \in Commands :
        /\ p.of[c].kind = "customer" => p.channel = "telegram"
        /\ p.of[c].kind \in {"web_message", "web_rate"} => p.channel = "web"

-----------------------------------------------------------------------------
VARIABLES
    plan,       \* the scenario; never changes
    \* tables
    ticket,
    done,       \* what was committed under each key, and the stored answer
    messages,   \* ticket_messages, in the order they were committed
    events,     \* ticket_lifecycle_events, likewise
    outbox,     \* delivery_outbox: key of the command and addressee
    inbound,    \* inbound_updates
    \* the process
    stage,
    seen,       \* what a command read before its commit
    answer,     \* what the client of a request was told
    faults      \* bound: crashes and failures still to come

tables == <<ticket, done, messages, events, outbox>>
vars == <<plan, tables, inbound, stage, seen, answer, faults>>

Kind(c) == plan.of[c].kind
Key(c) == plan.of[c].key
Fingerprint(c) == plan.of[c].print        \* fingerprint of the payload of a request
Chat(c) == plan.of[c].chat          \* ordering_key of an update
Updates == {c \in Commands : Chat(c) # "api"}
Requests == Commands \ Updates

Unused == [print |-> "none", reply |-> "none"]
Used(c) == done[Key(c)] # Unused

\* The ticket a scenario starts with: closed once already if it is closed.
InitTicket(start) == [status |-> start, blocked |-> FALSE,
                      cycle |-> IF start = "closed" THEN 1 ELSE 0]

Event(type, cycle, key) == [type |-> type, cycle |-> cycle, key |-> key]

InitEvents(start) ==
    CASE start = "none" -> <<>>
      [] start = "open" -> <<Event("created", 0, "past")>>
      [] start = "closed" -> <<Event("created", 0, "past"), Event("closed", 1, "past")>>

Init ==
    /\ plan \in Scenarios
    /\ ticket = InitTicket(plan.start)
    /\ done = [k \in Keys |-> Unused]
    /\ messages = <<>>
    /\ events = InitEvents(plan.start)
    /\ outbox = {}
    /\ inbound = [c \in Commands |-> [status |-> "none", attempts |-> 0]]
    /\ stage = [c \in Commands |-> "idle"]
    /\ seen = [c \in Commands |-> [ticket |-> ticket, rated |-> {}]]
    /\ answer = [c \in Commands |-> "none"]
    /\ faults = plan.faults

-----------------------------------------------------------------------------
(* The durable ingress.                                                     *)

Working == {"claimed", "begun", "committed"}
NeverBusy == TRUE
WorkerFree == \A u \in Updates : stage[u] \notin Working

\* Operators write in the topic of a ticket, a rating answers the notice of a
\* close: neither comes before there is one.
Possible(u) ==
    CASE Kind(u) = "customer" -> TRUE
      [] Kind(u) = "rate" -> plan.of[u].cycle <= ticket.cycle
      [] OTHER -> ticket.status # "none"

\* DurableTelegramIngressMiddleware: an update that Telegram sends again is
\* found in the table.
Arrive(u) ==
    /\ u \in Updates
    /\ inbound[u].status = "none"
    /\ Possible(u)
    /\ \A w \in Updates : w < u => inbound[w].status # "none"
    /\ inbound' = [inbound EXCEPT ![u].status = "pending"]
    /\ UNCHANGED <<plan, tables, stage, seen, answer, faults>>

Unfinished == {"pending", "processing"}
AnyStatus == {"pending", "processing", "failed"}

\* Updates of the same chat, or forum topic, that were sent before u and wait.
EarlierUnfinished(u) ==
    {w \in Updates : /\ w < u
                     /\ Chat(w) = Chat(u)
                     /\ inbound[w].status \in Unfinished}

EarlierOf(u, statuses) ==
    {w \in Updates : /\ w < u
                     /\ Chat(w) = Chat(u)
                     /\ inbound[w].status \in statuses}

\* has_earlier_unfinished of claim_inbound_update.
MayClaimAfterFailed(u) == EarlierOf(u, AnyStatus) = {}
MayClaimOvertaking(u) == TRUE
MayClaim(u) == EarlierUnfinished(u) = {}

\* The first update that is due and has no earlier one of its chat before it.
\* One that failed may still wait for its next attempt.
Claim(u) ==
    /\ u \in Updates
    /\ WorkerFree
    /\ inbound[u].status = "pending"
    /\ MayClaim(u)
    /\ \A w \in Updates : (/\ w < u
                           /\ inbound[w] = [status |-> "pending", attempts |-> 0])
                               => ~ MayClaim(w)
    /\ inbound' = [inbound EXCEPT ![u] = [status |-> "processing",
                                          attempts |-> @.attempts + 1]]
    /\ stage' = [stage EXCEPT ![u] = "claimed"]
    /\ UNCHANGED <<plan, tables, seen, answer, faults>>

Finish(u) ==
    /\ u \in Updates
    /\ stage[u] = "committed"
    /\ inbound' = [inbound EXCEPT ![u].status = "delivered"]
    /\ stage' = [stage EXCEPT ![u] = "idle"]
    /\ UNCHANGED <<plan, tables, seen, answer, faults>>

\* retry_inbound_update.
AfterRetry(row) ==
    [row EXCEPT !.status = IF row.attempts >= MaxAttempts THEN "failed" ELSE "pending"]

\* The handler raises before its commit, or after it: creating the topic or
\* replying to the operator may fail.
Fail(u) ==
    /\ u \in Updates
    /\ stage[u] \in Working
    /\ faults > 0
    /\ faults' = faults - 1
    /\ inbound' = [inbound EXCEPT ![u] = AfterRetry(@)]
    /\ stage' = [stage EXCEPT ![u] = "idle"]
    /\ UNCHANGED <<plan, tables, seen, answer>>

\* The worker cannot record how its update ended.
FinishFails(u) ==
    /\ u \in Updates
    /\ stage[u] \in Working
    /\ faults > 0
    /\ faults' = faults - 1
    /\ stage' = [stage EXCEPT ![u] = "idle"]
    /\ UNCHANGED <<plan, tables, inbound, seen, answer>>

ReleaseAsDelivered(row) == [row EXCEPT !.status = "delivered"]
Released(row) == [row EXCEPT !.status = "pending"]

\* release_stale_inbound_updates, minutes after the worker lost the update.
ReleaseStale(u) ==
    /\ u \in Updates
    /\ WorkerFree
    /\ inbound[u].status = "processing"
    /\ inbound' = [inbound EXCEPT ![u] = Released(@)]
    /\ UNCHANGED <<plan, tables, stage, seen, answer, faults>>

\* The process dies and starts again; rows stay as they are.
Crash ==
    /\ faults > 0
    /\ faults' = faults - 1
    /\ stage' = [c \in Commands |->
                    CASE c \in Updates /\ stage[c] \in Working -> "idle"
                      [] c \in Requests /\ stage[c] \in {"looked", "begun"} -> "ended"
                      [] OTHER -> stage[c]]
    /\ stage' # stage
    /\ UNCHANGED <<plan, tables, inbound, seen, answer>>

-----------------------------------------------------------------------------
(* Reading.                                                                 *)

Answer(c, reply) ==
    /\ answer' = [answer EXCEPT ![c] = reply]
    /\ stage' = [stage EXCEPT ![c] = "ended"]

\* load_api_replay: the stored answer, or 409 if the payload was another.
ReplayAny(c) == done[Key(c)].reply
Replay(c) == IF done[Key(c)].print = Fingerprint(c) THEN done[Key(c)].reply ELSE "conflict"

Look(c) ==
    /\ c \in Requests
    /\ stage[c] = "idle"
    /\ Kind(c) # "web_message" => ticket.status # "none"
    /\ IF Used(c) THEN Answer(c, Replay(c))
                  ELSE /\ stage' = [stage EXCEPT ![c] = "looked"]
                       /\ UNCHANGED answer
    /\ UNCHANGED <<plan, tables, inbound, seen, faults>>

\* A request that found no answer asks once more whether the key is in use.
\* send_operator_message for a web ticket does so too, but only after the row
\* was locked and the answer looked up again.
AsksTwice(c) ==
    \/ Kind(c) \in {"close", "reopen", "block", "unblock"}
    \/ Kind(c) = "message" /\ plan.channel = "web" /\ ~ plan.rowLocks

RatedCycles == {messages[i].cycle : i \in {j \in DOMAIN messages : messages[j].sort = "rating"}}
Current == [ticket |-> ticket, rated |-> RatedCycles]

\* The update was carried out before, or there is nothing to carry out.
Settled(u) ==
    \/ Used(u)
    \/ Kind(u) \in {"stop", "hidestop"} /\ ticket.status = "closed"

Read(c) ==
    /\ stage[c] = IF c \in Updates THEN "claimed" ELSE "looked"
    /\ CASE c \in Updates /\ Settled(c) ->
                /\ stage' = [stage EXCEPT ![c] = "committed"]
                /\ UNCHANGED <<seen, answer>>
         [] c \in Requests /\ AsksTwice(c) /\ Used(c) ->
                /\ Answer(c, "unchanged")
                /\ UNCHANGED seen
         [] OTHER ->
                /\ stage' = [stage EXCEPT ![c] = "begun"]
                /\ seen' = [seen EXCEPT ![c] = Current]
                /\ UNCHANGED answer
    /\ UNCHANGED <<plan, tables, inbound, faults>>

-----------------------------------------------------------------------------
(* Committing.                                                              *)

\* The commands that read the ticket under FOR UPDATE; the others write it
\* with a condition on its status, or not at all.
LockingButWebMessage == {"customer", "reply", "message", "rate", "web_rate",
                         "block", "unblock"}
Locking == {"customer", "reply", "message", "web_message", "rate", "web_rate",
            "block", "unblock"}

\* What the command decides on.
View(c) == IF plan.rowLocks /\ Kind(c) \in Locking THEN Current ELSE seen[c]

\* A rating through the web API wants a closed ticket.
Refused(c) == Kind(c) = "web_rate" /\ View(c).ticket.status # "closed"

\* The key is unique: when it was used meanwhile, the insert fails and the
\* command rolls back.
NeverCollides(c) == FALSE
Collides(c) == Used(c) /\ ~ Refused(c)

Ready(c, kinds) == stage[c] = "begun" /\ Kind(c) \in kinds /\ ~ Collides(c)

\* One commit: ticket, events, messages and deliveries, with the row of the key.
Apply(c, reply, t, es, ms, ds) ==
    /\ ticket' = t
    /\ events' = events \o es
    /\ messages' = messages \o ms
    /\ outbox' = outbox \union ds
    /\ done' = [done EXCEPT ![Key(c)] = [print |-> Fingerprint(c), reply |-> reply]]
    /\ IF c \in Requests THEN Answer(c, reply)
                         ELSE /\ stage' = [stage EXCEPT ![c] = "committed"]
                              /\ UNCHANGED answer
    /\ UNCHANGED <<plan, inbound, seen, faults>>

\* The update is handled and leaves nothing behind.
Skip(c) ==
    /\ stage' = [stage EXCEPT ![c] = "committed"]
    /\ UNCHANGED <<plan, tables, inbound, seen, answer, faults>>

\* An integrity error that is no repetition: 500 for a request, another
\* attempt for an update.
Raise(c) ==
    /\ IF c \in Requests
       THEN Answer(c, "error") /\ UNCHANGED inbound
       ELSE /\ inbound' = [inbound EXCEPT ![c] = AfterRetry(@)]
            /\ stage' = [stage EXCEPT ![c] = "idle"]
            /\ UNCHANGED answer
    /\ UNCHANGED <<plan, tables, seen, faults>>

Reopened(t) == [t EXCEPT !.status = "open"]
Closed(t) == [t EXCEPT !.status = "closed", !.cycle = @ + 1]
Message(c, sort, cycle, hidden) ==
    [key |-> Key(c), by |-> c, sort |-> sort, cycle |-> cycle, hidden |-> hidden]
Delivery(c, to) == [key |-> Key(c), to |-> to]
ToCustomer(c) == IF plan.channel = "telegram" THEN {Delivery(c, "customer")} ELSE {}

\* The same key was committed meanwhile: the answer stored with it.
Duplicate(c) ==
    /\ c \in Requests
    /\ stage[c] = "begun"
    /\ Collides(c)
    /\ Answer(c, Replay(c))
    /\ UNCHANGED <<plan, tables, inbound, seen, faults>>

Notifies(c) == Kind(c) = "stop" \/ (Kind(c) = "close" /\ Fingerprint(c) = "notify")

\* close, close_all: UPDATE ... WHERE status # CLOSED decides.
StillOpenWhenRead(c) == seen[c].ticket.status # "closed"
StillOpen(c) == ticket.status # "closed"

CloseTicket(c) ==
    /\ Ready(c, {"stop", "hidestop", "close"})
    /\ StillOpen(c)
    /\ LET tells == Notifies(c) /\ ~ ticket.blocked
       IN  Apply(c, "changed", Closed(ticket),
                 <<Event("closed", ticket.cycle + 1, Key(c))>>,
                 IF tells THEN <<Message(c, "notice", 0, FALSE)>> ELSE <<>>,
                 IF tells THEN ToCustomer(c) ELSE {})

CloseClosed(c) ==
    /\ Ready(c, {"stop", "hidestop", "close"})
    /\ ~ StillOpen(c)
    /\ IF c \in Requests THEN Apply(c, "unchanged", ticket, <<>>, <<>>, {})
                         ELSE Skip(c)

CloseAll(c) ==
    /\ Ready(c, {"closeall"})
    /\ IF StillOpen(c)
       THEN Apply(c, "changed", Closed(ticket),
                  <<Event("closed", ticket.cycle + 1, Key(c))>>, <<>>, {})
       ELSE Apply(c, "unchanged", ticket, <<>>, <<>>, {})

ReopenTicket(c) ==
    /\ Ready(c, {"reopen"})
    /\ IF ticket.status = "closed"
       THEN Apply(c, "changed", Reopened(ticket),
                  <<Event("reopened", View(c).ticket.cycle, Key(c))>>, <<>>, {})
       ELSE Apply(c, "unchanged", ticket, <<>>, <<>>, {})

\* A row is inserted only if none was read, and has the ticket as its key.
Block(c) ==
    /\ Ready(c, {"block"})
    /\ IF ~ View(c).ticket.blocked /\ ticket.blocked
       THEN Raise(c)
       ELSE Apply(c, IF View(c).ticket.blocked THEN "unchanged" ELSE "changed",
                  [ticket EXCEPT !.blocked = @ \/ ~ View(c).ticket.blocked],
                  <<>>, <<>>, {})

Unblock(c) ==
    /\ Ready(c, {"unblock"})
    /\ Apply(c, IF View(c).ticket.blocked THEN "changed" ELSE "unchanged",
             [ticket EXCEPT !.blocked = IF View(c).ticket.blocked THEN FALSE ELSE @],
             <<>>, <<>>, {})

AddNote(c) ==
    /\ Ready(c, {"note"})
    /\ Apply(c, "changed", ticket, <<>>, <<Message(c, "note", 0, FALSE)>>, {})

\* The status is assigned when it was read as closed, whatever it is by now.
Reopens(c) == View(c).ticket.status = "closed"
AfterContact(c) == IF Reopens(c) THEN Reopened(ticket) ELSE ticket
ReopenEvent(c) ==
    IF Reopens(c) THEN <<Event("reopened", View(c).ticket.cycle, Key(c))>> ELSE <<>>
HowOpened(c) == IF Reopens(c) THEN "reopened" ELSE "changed"

\* accept_operator_reply of TicketIngressService and of ChannelTicketService.
AcceptReply(c) ==
    /\ Ready(c, {"reply"})
    /\ IF View(c).ticket.blocked
       THEN Skip(c)
       ELSE Apply(c, HowOpened(c), AfterContact(c), ReopenEvent(c),
                  <<Message(c, "reply", 0, FALSE)>>, ToCustomer(c))

\* send_operator_message: here the reopening is conditional.
SendMessage(c) ==
    /\ Ready(c, {"message"})
    /\ LET reopened == Reopens(c) /\ ticket.status = "closed"
       IN  IF View(c).ticket.blocked
           THEN Apply(c, "unchanged", ticket, <<>>, <<>>, {})
           ELSE Apply(c, IF reopened THEN "reopened" ELSE "changed",
                      IF reopened THEN Reopened(ticket) ELSE ticket,
                      IF reopened THEN ReopenEvent(c) ELSE <<>>,
                      <<Message(c, "reply", 0, FALSE)>>, ToCustomer(c))

ToOperators(c) == {Delivery(c, "operators")}

\* The first message of a customer, and the ticket with it.
Create(c, sort) ==
    /\ View(c).ticket.status = "none"
    /\ Apply(c, "created", [ticket EXCEPT !.status = "open"],
             <<Event("created", 0, Key(c))>>, <<Message(c, sort, 0, FALSE)>>,
             ToOperators(c))

\* The blocklist is read before the row is locked.
AcceptCustomer(c) ==
    /\ Ready(c, {"customer"})
    /\ \/ Create(c, "customer")
       \/ seen[c].ticket.blocked /\ Skip(c)
       \/ /\ View(c).ticket.status # "none"
          /\ ~ seen[c].ticket.blocked
          /\ Apply(c, HowOpened(c), AfterContact(c), ReopenEvent(c),
                   <<Message(c, "customer", 0, FALSE)>>, ToOperators(c))

\* Mutant: a message of a blocked customer is hidden and still reopens the ticket.
HiddenReopens(c) ==
    /\ View(c).ticket.blocked
    /\ Apply(c, HowOpened(c), AfterContact(c), ReopenEvent(c),
             <<Message(c, "customer", 0, TRUE)>>, {})

\* A message of a blocked web customer is kept, and hidden from the operators.
Hide(c) ==
    /\ View(c).ticket.blocked
    /\ Apply(c, "changed", ticket, <<>>, <<Message(c, "customer", 0, TRUE)>>, {})

\* Two first messages at once: the second user, or ticket, violates a unique
\* constraint, and the command starts again.
AcceptWebMessage(c) ==
    /\ Ready(c, {"web_message"})
    /\ \/ ticket.status = "none" /\ Create(c, "customer")
       \/ /\ View(c).ticket.status = "none"
          /\ ticket.status # "none"
          /\ stage' = [stage EXCEPT ![c] = "idle"]
          /\ UNCHANGED <<plan, tables, inbound, seen, answer, faults>>
       \/ /\ View(c).ticket.status # "none"
          /\ Hide(c)
       \/ /\ View(c).ticket.status # "none"
          /\ ~ View(c).ticket.blocked
          /\ Apply(c, HowOpened(c), AfterContact(c), ReopenEvent(c),
                   <<Message(c, "customer", 0, FALSE)>>, ToOperators(c))

\* enqueue_rating: the keyboard of an earlier notice rates its own cycle.
Rate(c) ==
    /\ Ready(c, {"rate"})
    /\ LET cycle == plan.of[c].cycle
       IN  IF cycle = 0 \/ cycle > View(c).ticket.cycle \/ cycle \in View(c).rated
           THEN Skip(c)
           ELSE Apply(c, "changed", ticket, <<Event("rated", cycle, Key(c))>>,
                      <<Message(c, "rating", cycle, FALSE)>>, ToOperators(c))

\* uq_ticket_message_rating_cycle.
RatingNeverTaken(c) == FALSE
RatingTaken(c) == View(c).ticket.cycle \in RatedCycles

\* submit_rating: the last cycle of a closed ticket, or 404.
WebRate(c) ==
    /\ Ready(c, {"web_rate"})
    /\ LET cycle == View(c).ticket.cycle
           hidden == View(c).ticket.blocked
       IN  \/ Refused(c) /\ Raise(c)
           \/ /\ ~ Refused(c)
              /\ cycle \in View(c).rated
              /\ Apply(c, "unchanged", ticket, <<>>, <<>>, {})
           \/ /\ ~ Refused(c)
              /\ cycle \notin View(c).rated
              /\ IF RatingTaken(c)
                 THEN Raise(c)
                 ELSE Apply(c, "changed", ticket,
                            IF hidden THEN <<>> ELSE <<Event("rated", cycle, Key(c))>>,
                            <<Message(c, "rating", cycle, hidden)>>,
                            IF hidden THEN {} ELSE ToOperators(c))

CommitStep(c) ==
    \/ Duplicate(c) \/ CloseTicket(c) \/ CloseClosed(c) \/ CloseAll(c)
    \/ ReopenTicket(c) \/ Block(c) \/ Unblock(c) \/ AddNote(c) \/ AcceptReply(c)
    \/ SendMessage(c) \/ AcceptCustomer(c) \/ AcceptWebMessage(c) \/ Rate(c)
    \/ WebRate(c)

Next ==
    \/ Crash
    \/ \E c \in Commands :
        \/ Arrive(c) \/ Claim(c) \/ Finish(c) \/ Fail(c) \/ FinishFails(c)
        \/ ReleaseStale(c) \/ Look(c) \/ Read(c) \/ CommitStep(c)

Spec == Init /\ [][Next]_vars

\* The worker keeps running; nothing is owed by the clients of the API.
Fairness ==
    \A u \in Commands :
        /\ WF_vars(Claim(u))
        /\ WF_vars(Finish(u))
        /\ WF_vars(ReleaseStale(u))
        /\ WF_vars(u \in Updates /\ (Read(u) \/ CommitStep(u)))

FairSpec == Spec /\ Fairness

-----------------------------------------------------------------------------
(* Properties.                                                              *)

Replies == {"created", "reopened", "changed", "unchanged"}

TypeOK ==
    /\ ticket.status \in {"none", "open", "closed"}
    /\ ticket.blocked \in BOOLEAN
    /\ ticket.cycle \in Nat
    /\ \A k \in Keys : done[k] = Unused \/ done[k].reply \in Replies
    /\ \A u \in Updates : inbound[u].status \in AnyStatus \union {"none", "delivered"}
    /\ \A u \in Updates : inbound[u].attempts \in Nat
    /\ \A c \in Commands : stage[c] \in Working \union {"idle", "looked", "ended"}
    /\ \A c \in Commands : answer[c] \in Replies \union {"none", "conflict", "error"}
    /\ Cardinality({u \in Updates : stage[u] \in Working}) <= 1

\* A command takes effect once: an update that is handled again after a
\* failure, and a request that is sent again while the first still runs or
\* after its answer was lost, adds no second message, transition or delivery.
EffectOnce ==
    /\ \A i, j \in DOMAIN messages :
        i # j => \/ messages[i].key # messages[j].key
                 \/ messages[i].sort # messages[j].sort
    /\ \A i, j \in DOMAIN events :
        i # j => \/ events[i].key # events[j].key
                 \/ events[i].key = "past"

\* What the tables promise to those who send commands.
Journal == INSTANCE CommandJournal WITH Past <- "past"

\* docs/OPERATIONS.md:99-101, of every command and on either database, whatever is
\* handled again, repeated or races: a step that touches the tables is the one commit of
\* a command under a key that was never used.  It adds at most one message, one event and
\* one delivery, changes the status and the cycle together with the history, begins a
\* cycle by a close of a ticket that was not closed, and sends nothing that is no message
\* of the ticket.
KeepsJournal == Journal!Spec

AnswerHolds(c) ==
    CASE answer[c] = "none" -> TRUE
      [] answer[c] = "error" -> TRUE
      [] answer[c] = "conflict" -> Used(c) /\ done[Key(c)].print # Fingerprint(c)
      [] OTHER -> done[Key(c)] = [print |-> Fingerprint(c), reply |-> answer[c]]

\* What a client is told is what was committed for this very request: of two
\* requests with one key and different payloads one gets 409, and a repetition
\* gets the answer of the first (docs/OPERATIONS.md:99-101).  Left out is the answer
\* "unchanged" of a command that asks twice whether its key is in use: a second
\* close under one key that runs beside the first gets it.
AnswersHold ==
    \A c \in Requests :
        AnswerHolds(c) \/ (AsksTwice(c) /\ answer[c] = "unchanged")

\* A rating leaves the status alone; every other event is a turn of the history.
Turns == {i \in DOMAIN events : events[i].type # "rated"}
Closings == {i \in Turns : events[i].type = "closed"}
Last(i) == \A n \in Turns : n <= i
Follows(j, i) == i < j /\ \A n \in Turns : n <= i \/ j <= n

\* The append-only history tells the same as the ticket: every close has its
\* own cycle and is followed by a reopening before the next, and where rows are
\* locked no reopening is told twice.
HistoryMatchesTicket ==
    /\ ticket.status = "none" <=> Turns = {}
    /\ ticket.status = "closed" <=> \E i \in Closings : Last(i)
    /\ ticket.cycle = Cardinality(Closings)
    /\ \A i, j \in Turns : Follows(j, i) =>
        /\ i \in Closings => events[j].type = "reopened"
        /\ plan.rowLocks /\ i \notin Closings => j \in Closings

NewMessages == DOMAIN messages' \ DOMAIN messages

\* README.md:37: a new message reopens a closed ticket.  Whatever closes the
\* ticket while a message of the customer is being accepted, the ticket is open
\* when the message is in it.  Where rows are not locked this does not hold.
MessageReopens ==
    [][plan.rowLocks =>
        \A i \in NewMessages :
            messages'[i].sort = "customer" /\ ~ messages'[i].hidden
                => ticket'.status = "open"]_vars

\* The commands that ask for a close or a reopening; all others are messages, ratings,
\* notes and blocks.
StatusKinds == {"stop", "hidestop", "close", "closeall", "reopen"}

\* docs/OPERATIONS.md:145-149: nothing is queued for a blocked customer, nor for the
\* operators about one, and what such a customer writes reopens nothing: a blocked
\* ticket is opened and closed, and its history continued, only by a command that asks
\* for it and adds no message.  All this also when the block is set while the command
\* runs.  (Telegram customers are blocked by an update, which no customer's message
\* meets.)  A rating by the buttons of Telegram, which asks for no block, is queued and
\* recorded.
BlockedIsSilent ==
    [][plan.rowLocks /\ ticket.blocked =>
        \/ \E c \in Commands : Kind(c) = "rate" /\ Rate(c) /\ ticket' = ticket
        \/ /\ outbox' = outbox
           /\ \A i \in NewMessages : messages'[i].hidden \/ messages'[i].sort = "note"
           /\ ticket'.status # ticket.status \/ events' # events =>
                /\ messages' = messages
                /\ \E c \in Commands : Kind(c) \in StatusKinds /\ CommitStep(c)]_vars

\* A close is rated once, however many buttons are pressed and requests sent,
\* and only a close that happened.
RatedOncePerClose ==
    /\ \A i, j \in DOMAIN messages :
        (/\ messages[i].sort = "rating"
         /\ messages[j].sort = "rating"
         /\ messages[i].cycle = messages[j].cycle) => i = j
    /\ RatedCycles \subseteq 1..ticket.cycle

\* An update takes effect only when the earlier ones of its chat are over: a
\* reply sent before /stop cannot reopen the ticket after it.  (Two buttons of a notice
\* share a key.)
ChatOrder ==
    \A u \in Updates :
        Used(u) /\ Kind(u) # "rate" => \A w \in Updates :
            w < u /\ Chat(w) = Chat(u)
                => inbound[w].status \in {"delivered", "failed"}

\* An update that counts as delivered was carried out, unless the customer was
\* blocked, the ticket closed or the cycle rated by somebody else.
DeliveredIsDone ==
    \A u \in Updates :
        inbound[u].status = "delivered" =>
            \/ Used(u)
            \/ Kind(u) \in {"stop", "hidestop", "rate"}
            \/ /\ Kind(u) \in {"customer", "reply"}
               /\ \E c \in Commands : Kind(c) = "block" /\ Used(c)

\* Every stored update is carried out or given up, and those behind it in its
\* chat get their turn.
UpdatesSettle ==
    \A u \in Commands :
        inbound[u].status = "pending" ~> inbound[u].status \in {"delivered", "failed"}

=============================================================================
