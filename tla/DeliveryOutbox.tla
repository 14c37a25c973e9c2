---------------------------- MODULE DeliveryOutbox ----------------------------
(***************************************************************************)
(* The delivery outbox: the table of messages still to be sent to Telegram, *)
(* the producers that insert into it, and the one worker that claims rows   *)
(* in batches, sends them and records the outcome.                          *)
(*                                                                         *)
(* Rows live in the database and survive a crash; jobs live in the worker   *)
(* and do not.  Each database transaction is one action, and every await    *)
(* between two transactions or Telegram calls is a point where any other    *)
(* action may run.                                                          *)
(***************************************************************************)
EXTENDS Naturals, FiniteSets

CONSTANTS
    Tickets,
    Deliveries,     \* rows that may be inserted
    TicketOf,       \* the ticket of each row
    Inbound,        \* rows from the customer to the topic of the ticket
    Reopening,      \* inbound rows whose message reopens a closed ticket
    Unserialized,   \* rows inserted without the row lock of the ticket
    Tokens,         \* claim tokens
    NoToken,        \* NULL in the claim_token column
    BatchLimit,     \* rows one claim may take
    MaxAttempts,    \* DELIVERY_MAX_ATTEMPTS
    Blockable,      \* tickets whose customer may be put on the blocklist
    MaxThreads,     \* bound: Telegram topics ever created, for each ticket
    MaxFaults       \* bound: crashes, shutdowns and failed commits

ASSUME OutboxAssumption ==
    /\ TicketOf \in [Deliveries -> Tickets]
    /\ Inbound \subseteq Deliveries
    /\ Reopening \subseteq Inbound
    /\ Blockable \subseteq Tickets
    /\ Unserialized \subseteq Deliveries
    /\ NoToken \notin Tokens
    /\ BatchLimit \in Nat \ {0}
    /\ MaxAttempts \in Nat \ {0}
    /\ MaxThreads \in [Tickets -> Nat]
    /\ MaxFaults \in Nat

VARIABLES
    \* the delivery_outbox table
    status,
    created,        \* created_at, 0 while the row does not exist
    attempts,       \* attempt_count
    owner,          \* claim_token
    thread,         \* target_thread_id, 0 for none
    context,        \* rows whose payload still asks for prepare_reopened_context
    overdue,        \* claimed rows whose claimed_at is past the stale threshold
    \* tickets, as far as delivery depends on them
    clock,          \* latest created_at handed out for the ticket
    threads,        \* Telegram topics created so far; the newest is number threads
    bound,          \* tickets whose topic_id is set (to the newest topic)
    gone,           \* tickets whose newest topic was deleted in Telegram
    blocked,        \* tickets whose customer is on the blocklist
    \* the worker process
    running,
    batch,          \* claim token of the jobs in flight
    stage,          \* progress of each job, "idle" when there is none
    found,          \* replacement topic a job has been given
    \* history and bounds
    sends,          \* copies of the row that reached Telegram
    faults

rowVars == <<status, created, attempts, owner, thread, context, overdue>>
ticketVars == <<clock, threads, bound, gone, blocked>>
workerVars == <<running, batch, stage, found>>
vars == <<rowVars, ticketVars, workerVars, sends, faults>>

Unfinished == {"waiting_topic", "pending", "processing"}
Terminal == {"delivered", "failed", "cancelled"}
Statuses == {"absent", "uncommitted"} \union Unfinished \union Terminal
Stages == {"idle", "claimed", "started", "cancel", "prepare", "ready", "sent",
           "retry", "reject", "missing", "retarget"}

TypeOK ==
    /\ status \in [Deliveries -> Statuses]
    /\ created \in [Deliveries -> Nat]
    /\ attempts \in [Deliveries -> Nat]
    /\ owner \in [Deliveries -> Tokens \union {NoToken}]
    /\ thread \in [Deliveries -> Nat]
    /\ context \subseteq Deliveries
    /\ overdue \subseteq Deliveries
    /\ clock \in [Tickets -> Nat]
    /\ threads \in [Tickets -> Nat]
    /\ bound \subseteq Tickets
    /\ gone \subseteq Tickets
    /\ blocked \subseteq Tickets
    /\ running \in {"up", "stopping", "down"}
    /\ batch \in Tokens \union {NoToken}
    /\ stage \in [Deliveries -> Stages]
    /\ found \in [Deliveries -> Nat]
    /\ sends \in [Deliveries -> Nat]
    /\ faults \in Nat

Init ==
    /\ status = [d \in Deliveries |-> "absent"]
    /\ created = [d \in Deliveries |-> 0]
    /\ attempts = [d \in Deliveries |-> 0]
    /\ owner = [d \in Deliveries |-> NoToken]
    /\ thread = [d \in Deliveries |-> 0]
    /\ context = {}
    /\ overdue = {}
    /\ clock = [t \in Tickets |-> 0]
    /\ threads = [t \in Tickets |-> 0]
    /\ bound = {}
    /\ gone = {}
    /\ blocked = {}
    /\ running = "up"
    /\ batch = NoToken
    /\ stage = [d \in Deliveries |-> "idle"]
    /\ found = [d \in Deliveries |-> 0]
    /\ sends = [d \in Deliveries |-> 0]
    /\ faults = 0
-----------------------------------------------------------------------------
(***************************************************************************)
(* Producers.                                                               *)
(***************************************************************************)
Siblings(d) == {e \in Deliveries : TicketOf[e] = TicketOf[d]}

\* Mutant: the number of the newest topic is one too small once it is unbound.
TopicOffByOne(t) == IF t \in bound THEN threads[t] ELSE threads[t] - 1

\* ticket.topic_id, 0 for NULL.
Topic(t) == IF t \in bound THEN threads[t] ELSE 0

\* The status an insert gives a row that read topic_id = th.
FirstStatus(d, th) ==
    IF d \in Inbound /\ th = 0 THEN "waiting_topic" ELSE "pending"

\* created_at and target_thread_id are fixed while the session is flushed.
Stamp(d) ==
    LET t == TicketOf[d] IN
    /\ clock' = [clock EXCEPT ![t] = @ + 1]
    /\ created' = [created EXCEPT ![d] = clock[t] + 1]
    /\ thread' = [thread EXCEPT ![d] = IF d \in Inbound THEN Topic(t) ELSE 0]
    /\ context' = IF d \in Reopening THEN context \union {d} ELSE context

\* A producer that holds the row lock of the ticket (SELECT ... FOR UPDATE):
\* no other locked producer and no attach_topic runs until it commits, so the
\* read of topic_id, the time stamp and the commit are one step.
Accept(d) ==
    /\ d \notin Unserialized
    /\ status[d] = "absent"
    /\ TicketOf[d] \notin blocked
    /\ Stamp(d)
    /\ status' = [status EXCEPT ![d] = FirstStatus(d, Topic(TicketOf[d]))]
    /\ UNCHANGED <<attempts, owner, overdue, threads, bound, gone, blocked,
                   workerVars, sends, faults>>

\* A producer that reads the ticket without a lock stamps its row ...
BeginInsert(d) ==
    /\ d \in Unserialized
    /\ status[d] = "absent"
    /\ Stamp(d)
    /\ status' = [status EXCEPT ![d] = "uncommitted"]
    /\ UNCHANGED <<attempts, owner, overdue, threads, bound, gone, blocked,
                   workerVars, sends, faults>>

\* ... and commits it later, with the topic it had read.
CommitInsert(d) ==
    /\ status[d] = "uncommitted"
    /\ status' = [status EXCEPT ![d] = FirstStatus(d, thread[d])]
    /\ UNCHANGED <<created, attempts, owner, thread, context, overdue,
                   ticketVars, workerVars, sends, faults>>
-----------------------------------------------------------------------------
(***************************************************************************)
(* Topics and blocks, as delivery sees them.                                *)
(***************************************************************************)
\* Mutant: waiting rows are released for the first topic of a ticket only.
WaitingForFirst(t) ==
    {d \in Inbound : /\ TicketOf[d] = t
                     /\ status[d] = "waiting_topic"
                     /\ threads[t] = 0}

Waiting(t) ==
    {d \in Inbound : TicketOf[d] = t /\ status[d] = "waiting_topic"}

\* What attach_topic commits once Telegram has created a topic: the binding and
\* the release of every waiting row, in one transaction.
AttachAndRelease(t) ==
    LET new == threads[t] + 1 IN
    /\ threads[t] < MaxThreads[t]
    /\ threads' = [threads EXCEPT ![t] = new]
    /\ bound' = bound \union {t}
    /\ gone' = gone \ {t}
    /\ status' = [d \in Deliveries |->
                    IF d \in Waiting(t) THEN "pending" ELSE status[d]]
    /\ thread' = [d \in Deliveries |->
                    IF d \in Waiting(t) THEN new ELSE thread[d]]

\* Any of the paths that provision a topic: ingress, the reconciliation worker,
\* recovery at startup, /retrytopic, /bindtopic.
AttachTopic(t) ==
    /\ t \notin bound
    /\ AttachAndRelease(t)
    /\ UNCHANGED <<created, attempts, owner, context, overdue, clock, blocked,
                   workerVars, sends, faults>>

\* Somebody deletes the newest topic in Telegram; the program is not told.
TopicDeleted(t) ==
    /\ t \in bound \ gone
    /\ threads[t] < MaxThreads[t]
    /\ gone' = gone \union {t}
    /\ UNCHANGED <<rowVars, clock, threads, bound, blocked, workerVars, sends,
                   faults>>

\* Another caller's synchronisation meets the deleted topic and unbinds it.
InvalidateTopic(t) ==
    /\ t \in bound \intersect gone
    /\ bound' = bound \ {t}
    /\ UNCHANGED <<rowVars, clock, threads, gone, blocked, workerVars, sends,
                   faults>>

SetBlock(t) ==
    /\ t \in Blockable
    /\ blocked' = IF t \in blocked THEN blocked \ {t} ELSE blocked \union {t}
    /\ UNCHANGED <<rowVars, clock, threads, bound, gone, workerVars, sends, faults>>
-----------------------------------------------------------------------------
(***************************************************************************)
(* Claims.                                                                  *)
(***************************************************************************)
\* Mutant: the loop does not wait for the jobs it has started.
NoneClaimed == \A d \in Deliveries : stage[d] # "claimed"

AllIdle == \A d \in Deliveries : stage[d] = "idle"

\* Mutant: only earlier rows that are pending hold a row back.
NoEarlierPending(d) ==
    \A e \in Siblings(d) : created[e] < created[d] => status[e] # "pending"

\* The FIFO condition of the claim query: no earlier row of the same ticket is
\* unfinished.
NoEarlierUnfinished(d) ==
    \A e \in Siblings(d) : created[e] < created[d] => status[e] \notin Unfinished

Claimable(d) == status[d] = "pending" /\ NoEarlierUnfinished(d)

\* claim_token is a fresh uuid4: no row carries it, and no job is running.
FreshTokens == Tokens \ {owner[d] : d \in Deliveries}

\* One claim takes some of the rows whose next_attempt_at has passed.
Claim(S) ==
    /\ running = "up"
    /\ AllIdle
    /\ S # {}
    /\ Cardinality(S) <= BatchLimit
    /\ \A d \in S : Claimable(d)
    /\ \E k \in FreshTokens :
        /\ batch' = k
        /\ owner' = [d \in Deliveries |-> IF d \in S THEN k ELSE owner[d]]
    /\ status' = [d \in Deliveries |-> IF d \in S THEN "processing" ELSE status[d]]
    /\ attempts' = [d \in Deliveries |->
                      IF d \in S THEN attempts[d] + 1 ELSE attempts[d]]
    /\ stage' = [d \in Deliveries |-> IF d \in S THEN "claimed" ELSE stage[d]]
    /\ UNCHANGED <<created, thread, context, overdue, ticketVars, running, found,
                   sends, faults>>

\* claimed_at falls behind the stale threshold, whether or not the job still runs.
ClaimExpires(d) ==
    /\ status[d] = "processing"
    /\ d \notin overdue
    /\ overdue' = overdue \union {d}
    /\ UNCHANGED <<status, created, attempts, owner, thread, context, ticketVars,
                   workerVars, sends, faults>>

\* Mutant: stale claims are released only if they belong to the last batch.
ReleaseOwnStale ==
    LET S == {d \in overdue : owner[d] = batch} IN
    /\ running = "up"
    /\ AllIdle
    /\ S # {}
    /\ status' = [d \in Deliveries |-> IF d \in S THEN "pending" ELSE status[d]]
    /\ owner' = [d \in Deliveries |-> IF d \in S THEN NoToken ELSE owner[d]]
    /\ overdue' = overdue \ S
    /\ UNCHANGED <<created, attempts, thread, context, ticketVars, workerVars,
                   sends, faults>>

\* The loop releases stale claims before it claims again, hence only after every
\* job of the previous batch has ended.
ReleaseStale ==
    /\ running = "up"
    /\ AllIdle
    /\ overdue # {}
    /\ status' = [d \in Deliveries |-> IF d \in overdue THEN "pending" ELSE status[d]]
    /\ owner' = [d \in Deliveries |-> IF d \in overdue THEN NoToken ELSE owner[d]]
    /\ overdue' = {}
    /\ UNCHANGED <<created, attempts, thread, context, ticketVars, workerVars,
                   sends, faults>>

StartBatch ==
    /\ running = "up"
    /\ \E d \in Deliveries : stage[d] = "claimed"
    /\ stage' = [d \in Deliveries |->
                   IF stage[d] = "claimed" THEN "started" ELSE stage[d]]
    /\ UNCHANGED <<rowVars, ticketVars, running, batch, found, sends, faults>>

\* A worker told to stop before it started its batch gives the claims back, with
\* the attempt.
ReleaseUnstarted ==
    LET S == {d \in Deliveries : /\ stage[d] = "claimed"
                                 /\ status[d] = "processing"
                                 /\ owner[d] = batch}
    IN
    /\ running = "stopping"
    /\ \E d \in Deliveries : stage[d] = "claimed"
    /\ status' = [d \in Deliveries |-> IF d \in S THEN "pending" ELSE status[d]]
    /\ owner' = [d \in Deliveries |-> IF d \in S THEN NoToken ELSE owner[d]]
    /\ attempts' = [d \in Deliveries |->
                      IF d \in S /\ attempts[d] > 0 THEN attempts[d] - 1
                      ELSE attempts[d]]
    /\ overdue' = overdue \ S
    /\ stage' = [d \in Deliveries |-> "idle"]
    /\ UNCHANGED <<created, thread, context, ticketVars, running, batch, found,
                   sends, faults>>
-----------------------------------------------------------------------------
(***************************************************************************)
(* One job, from the start of _deliver to the recorded outcome.             *)
(***************************************************************************)
Goto(d, s) == stage' = [stage EXCEPT ![d] = s]

\* Every outcome is written under the claim: UPDATE ... WHERE status = PROCESSING
\* AND claim_token = the token of the job.
Owns(d) == status[d] = "processing" /\ owner[d] = batch

\* The row leaves PROCESSING with a new status, or the write is ignored because
\* the claim is no longer the job's.
Transition(d, s) ==
    /\ status' = IF Owns(d) THEN [status EXCEPT ![d] = s] ELSE status
    /\ owner' = IF Owns(d) THEN [owner EXCEPT ![d] = NoToken] ELSE owner
    /\ overdue' = IF Owns(d) THEN overdue \ {d} ELSE overdue
    /\ Goto(d, "idle")
    /\ UNCHANGED <<created, attempts, thread, context, ticketVars, running, batch,
                   found, sends, faults>>

\* The blocklist is read once, before the message is prepared and sent.
CheckRecipient(d) ==
    /\ stage[d] = "started"
    /\ Goto(d, IF d \notin Inbound /\ TicketOf[d] \in blocked THEN "cancel"
               ELSE IF d \in context THEN "prepare" ELSE "ready")
    /\ UNCHANGED <<rowVars, ticketVars, running, batch, found, sends, faults>>

MarkCancelled(d) ==
    /\ stage[d] = "cancel"
    /\ Transition(d, "cancelled")

\* Mutant: the request to refresh the topic is cleared as the job goes on, but the
\* message is sent although the write was not made.
PrepareContextForgets(d) ==
    /\ stage[d] = "prepare"
    /\ Goto(d, "ready")
    /\ UNCHANGED <<rowVars, ticketVars, running, batch, found, sends, faults>>

\* The topic of a reopened ticket is refreshed (which unbinds a topic found
\* deleted) and the request is removed from the payload, under the claim.
PrepareContext(d) ==
    LET t == TicketOf[d] IN
    /\ stage[d] = "prepare"
    /\ context' = IF Owns(d) THEN context \ {d} ELSE context
    /\ Goto(d, IF Owns(d) THEN "ready" ELSE "idle")
    /\ \/ UNCHANGED bound
       \/ t \in gone /\ bound' = bound \ {t}
    /\ UNCHANGED <<status, created, attempts, owner, thread, overdue, clock,
                   threads, gone, blocked, running, batch, found, sends, faults>>

\* A Telegram chat that takes the message: the customer's, or a topic that exists.
Reachable(d) ==
    d \in Inbound => /\ thread[d] = threads[TicketOf[d]]
                     /\ TicketOf[d] \notin gone

\* Telegram copies the message, and the answer arrives or is lost on the way.
Send(d) ==
    /\ stage[d] = "ready"
    /\ Reachable(d)
    /\ sends' = [sends EXCEPT ![d] = @ + 1]
    /\ \/ Goto(d, "sent")
       \/ Goto(d, "retry")
    /\ UNCHANGED <<rowVars, ticketVars, running, batch, found, faults>>

\* Flood control, an API error or an unexpected exception before the copy.
SendFails(d) ==
    /\ stage[d] \in {"started", "prepare", "cancel", "ready"}
    /\ Goto(d, "retry")
    /\ UNCHANGED <<rowVars, ticketVars, running, batch, found, sends, faults>>

SendRejected(d) ==
    /\ stage[d] = "ready"
    /\ Goto(d, IF Reachable(d) THEN "reject" ELSE "missing")
    /\ UNCHANGED <<rowVars, ticketVars, running, batch, found, sends, faults>>

MarkDelivered(d) ==
    /\ stage[d] = "sent"
    /\ Transition(d, "delivered")

\* Mutant: one attempt too many.
AfterOneMoreRetry(d) == IF attempts[d] > MaxAttempts THEN "failed" ELSE "pending"

\* A row whose attempts are used up fails instead of waiting for another one.
AfterRetry(d) == IF attempts[d] >= MaxAttempts THEN "failed" ELSE "pending"

\* Mutant: a failed attempt is recorded as a delivery.
MarkRetryDelivered(d) ==
    /\ stage[d] = "retry"
    /\ Transition(d, "delivered")

MarkRetry(d) ==
    /\ stage[d] = "retry"
    /\ Transition(d, AfterRetry(d))

MarkFailed(d) ==
    /\ stage[d] = "reject"
    /\ Transition(d, "failed")

\* recover_missing_topic, under the lock of the ticket: a topic already replaced
\* is reused, otherwise the old one is unbound and a new one attached.
RecoverTopic(d) ==
    LET t == TicketOf[d] IN
    /\ stage[d] = "missing"
    /\ Goto(d, "retarget")
    /\ \/ /\ Topic(t) \notin {0, thread[d]}
          /\ found' = [found EXCEPT ![d] = Topic(t)]
          /\ UNCHANGED <<status, thread, threads, bound, gone>>
       \/ /\ Topic(t) \in {0, thread[d]}
          /\ AttachAndRelease(t)
          /\ found' = [found EXCEPT ![d] = threads[t] + 1]
    /\ UNCHANGED <<created, attempts, owner, context, overdue, clock, blocked,
                   running, batch, sends, faults>>

\* The claim on provisioning is taken, or Telegram fails: the old topic stays
\* unbound and the delivery waits for another attempt.
RecoverTopicFails(d) ==
    LET t == TicketOf[d] IN
    /\ stage[d] = "missing"
    /\ Topic(t) \in {0, thread[d]}
    /\ bound' = bound \ {t}
    /\ Goto(d, "retry")
    /\ UNCHANGED <<rowVars, clock, threads, gone, blocked, running, batch, found,
                   sends, faults>>

\* Rows of the ticket that still point at the deleted topic.
Stranded(d) ==
    {e \in Siblings(d) \intersect Inbound :
        status[e] \in {"pending", "processing"} /\ thread[e] = thread[d]}

\* Every such row, the job's own one included, starts over on the new topic.
Retarget(d) ==
    LET S == Stranded(d) IN
    /\ stage[d] = "retarget"
    /\ Goto(d, IF S = {} THEN "retry" ELSE "idle")
    /\ status' = [e \in Deliveries |-> IF e \in S THEN "pending" ELSE status[e]]
    /\ thread' = [e \in Deliveries |-> IF e \in S THEN found[d] ELSE thread[e]]
    /\ attempts' = [e \in Deliveries |-> IF e \in S THEN 0 ELSE attempts[e]]
    /\ owner' = [e \in Deliveries |-> IF e \in S THEN NoToken ELSE owner[e]]
    /\ overdue' = overdue \ S
    /\ found' = [found EXCEPT ![d] = 0]
    /\ UNCHANGED <<created, context, ticketVars, running, batch, sends, faults>>

Deliver(d) ==
    \/ CheckRecipient(d)
    \/ MarkCancelled(d)
    \/ PrepareContext(d)
    \/ Send(d)
    \/ SendFails(d)
    \/ SendRejected(d)
    \/ MarkDelivered(d)
    \/ MarkRetry(d)
    \/ MarkFailed(d)
    \/ RecoverTopic(d)
    \/ RecoverTopicFails(d)
    \/ Retarget(d)
-----------------------------------------------------------------------------
(***************************************************************************)
(* Faults and the life of the process.                                      *)
(***************************************************************************)
Fault ==
    /\ faults < MaxFaults
    /\ faults' = faults + 1

\* The commit that should record an outcome raises: the job is over, the row
\* stays claimed.
OutcomeLost(d) ==
    /\ stage[d] \in {"sent", "retry", "reject"}
    /\ Fault
    /\ Goto(d, "idle")
    /\ UNCHANGED <<rowVars, ticketVars, running, batch, found, sends>>

Stop ==
    /\ running = "up"
    /\ Fault
    /\ running' = "stopping"
    /\ UNCHANGED <<rowVars, ticketVars, batch, stage, found, sends>>

Exit ==
    /\ running = "stopping"
    /\ AllIdle
    /\ running' = "down"
    /\ UNCHANGED <<rowVars, ticketVars, batch, stage, found, sends, faults>>

\* Jobs and uncommitted transactions die with the process.
Crash ==
    LET lost == {d \in Deliveries : status[d] = "uncommitted"} IN
    /\ running # "down"
    /\ Fault
    /\ running' = "down"
    /\ batch' = NoToken
    /\ stage' = [d \in Deliveries |-> "idle"]
    /\ found' = [d \in Deliveries |-> 0]
    /\ status' = [d \in Deliveries |-> IF d \in lost THEN "absent" ELSE status[d]]
    /\ created' = [d \in Deliveries |-> IF d \in lost THEN 0 ELSE created[d]]
    /\ thread' = [d \in Deliveries |-> IF d \in lost THEN 0 ELSE thread[d]]
    /\ context' = context \ lost
    /\ UNCHANGED <<attempts, owner, overdue, ticketVars, sends>>

Restart ==
    /\ running = "down"
    /\ running' = "up"
    /\ UNCHANGED <<rowVars, ticketVars, batch, stage, found, sends, faults>>
-----------------------------------------------------------------------------
Next ==
    \/ \E d \in Deliveries : Accept(d) \/ BeginInsert(d) \/ CommitInsert(d)
    \/ \E t \in Tickets :
        AttachTopic(t) \/ TopicDeleted(t) \/ InvalidateTopic(t) \/ SetBlock(t)
    \/ \E S \in SUBSET Deliveries : Claim(S)
    \/ \E d \in Deliveries : ClaimExpires(d) \/ Deliver(d) \/ OutcomeLost(d)
    \/ ReleaseStale \/ StartBatch \/ ReleaseUnstarted
    \/ Stop \/ Exit \/ Crash \/ Restart

Spec == Init /\ [][Next]_vars

\* The worker loop runs while the process is up, each job goes on to its next
\* await, claims age, a supervisor restarts a stopped process, an open producer
\* transaction ends, and a retry delay is bounded, so a row that is due again and
\* again is claimed.  Nothing is assumed of the callers that bind topics.
Fairness ==
    /\ WF_vars(ReleaseStale)
    /\ WF_vars(StartBatch)
    /\ WF_vars(ReleaseUnstarted)
    /\ WF_vars(Exit)
    /\ WF_vars(Restart)
    /\ \A d \in Deliveries :
        /\ WF_vars(CommitInsert(d))
        /\ WF_vars(ClaimExpires(d))
        /\ WF_vars(Deliver(d))
        /\ SF_vars(\E S \in SUBSET Deliveries : d \in S /\ Claim(S))

FairSpec == Spec /\ Fairness
-----------------------------------------------------------------------------
(***************************************************************************)
(* Properties.                                                              *)
(***************************************************************************)

\* A job in flight still owns its row: neither the stale release (the loop waits
\* for the whole batch, however long a send takes) nor a redirection to a new
\* topic takes a claim away from a running job, so one row is never sent by two
\* jobs at once.
OwnsClaim(d) == stage[d] # "idle" => status[d] = "processing" /\ owner[d] = batch

InFlightOwnsClaim == \A d \in Deliveries : OwnsClaim(d)

\* FIFO inside a ticket: while a row is being delivered, nothing that was created
\* before it for the same ticket is still waiting for a topic, pending or claimed.
InOrder(d) == stage[d] # "idle" => NoEarlierUnfinished(d)

TicketFIFO == \A d \in Deliveries : InOrder(d)

\* Attempts are bounded by the configured maximum, plus one for each claim a
\* crash or a failed commit left behind (a released claim keeps its attempt).
AttemptBudget ==
    \A d \in Deliveries : attempts[d] <= MaxAttempts + faults

\* Attachment and the release of waiting rows share one commit: no row waits for
\* a topic its ticket already has.  Such a row would wait forever, and block
\* every later row of the ticket.
NotStranded(d) == status[d] = "waiting_topic" => TicketOf[d] \notin bound

NoStrandedWaiter == \A d \in Deliveries : NotStranded(d)

\* A message that reopened its ticket is sent only after the topic was refreshed
\* for it, on every attempt and across crashes.
ContextBeforeMessage ==
    \A d \in context : sends[d] = 0

\* Rows that no insert without a lock can disturb: every row of the ticket is inserted
\* under its row lock, or it has but one row, to the customer.
Undisturbed ==
    {d \in Deliveries :
        \/ Siblings(d) \intersect Unserialized = {}
        \/ Siblings(d) = {d} /\ d \notin Inbound}

\* Their part of the table, seen as the queues of OrderedDelivery.
Promise == INSTANCE OrderedDelivery WITH
    Deliveries <- Undisturbed,
    phase <- [d \in Undisturbed |->
                CASE status[d] \in Unfinished -> "queued"
                  [] status[d] = "delivered" -> "delivered"
                  [] status[d] \in {"failed", "cancelled"} -> "dropped"
                  [] OTHER -> "none"],
    rank <- [d \in Undisturbed |->
                IF status[d] \in {"absent", "uncommitted"} THEN 0 ELSE created[d]],
    copies <- [d \in Undisturbed |-> sends[d]]

\* For every such ticket the outbox keeps the promise of OrderedDelivery, whatever
\* happens to other tickets: only the head of a ticket's queue is copied or settled,
\* nothing is marked delivered without a copy, and nothing settled is sent again,
\* whatever crashes, retries or loses its topic.
KeepsPromise == Promise!Spec

\* A ticket without a topic whose customer has written: its queue is held back
\* until some caller binds a topic (the subject of TopicProvisioning).
AwaitsTopic(t) == t \notin bound /\ Waiting(t) # {}

\* Every committed message is delivered, failed or cancelled in the end, unless
\* its ticket awaits a topic: jobs that die with the process, stale claims, lost
\* answers, deleted topics and earlier messages only delay it, and a topic bound
\* in the end sets it going again.
EveryMessageSettles ==
    \A d \in Deliveries :
        status[d] \in Unfinished
            ~> status[d] \in Terminal \/ AwaitsTopic(TicketOf[d])
=============================================================================
