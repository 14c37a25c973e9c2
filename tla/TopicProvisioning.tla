-------------------------- MODULE TopicProvisioning --------------------------
(***************************************************************************)
(* How one ticket gets, keeps and replaces its Telegram topic.              *)
(*                                                                         *)
(* Four tasks may create a topic for the same ticket: the worker that       *)
(* replays Telegram updates one by one, the reconciliation worker, the      *)
(* delivery worker when Telegram says the topic is gone, and the recovery   *)
(* at startup.  They are kept apart by a claim (topic_provisioning_token)   *)
(* in the ticket row, only partly by the lock of the ticket, while API      *)
(* requests close and reopen the ticket without any lock and people delete  *)
(* topics in Telegram.                                                      *)
(***************************************************************************)
EXTENDS Naturals

CONSTANTS
    Channels,       \* channels a ticket may have: "telegram", "web"
    MaxAttempts,    \* MAX_RECONCILIATION_ATTEMPTS
    MaxTopics,      \* bound: topics created
    MaxCloses,      \* bound: times the ticket is closed
    MaxBinds,       \* bound: /bindtopic commands
    MaxFaults       \* bound: crashes and failed transactions

Actors == {"ingress", "job", "delivery", "startup"}
None == "none"      \* NULL in the token column, nobody at the lock
Topics == 1..MaxTopics

ASSUME ProvisioningAssumption ==
    /\ Channels \subseteq {"telegram", "web"}
    /\ MaxAttempts \in Nat \ {0}
    /\ MaxTopics \in Nat
    /\ MaxCloses \in Nat
    /\ MaxBinds \in Nat
    /\ MaxFaults \in Nat

VARIABLES
    \* the ticket row, and what else of the database matters here
    channel,
    status,         \* "absent" before the first message
    topic,          \* topic_id, 0 for NULL
    token,          \* the actor whose claim is in the row
    waiting,        \* a row of the outbox waits for a topic
    job,            \* status of the reconciliation row of the ticket
    tries,          \* its attempt_count
    \* Telegram
    made,           \* topics created so far
    live,           \* topics that exist
    marked,         \* those whose title shows a closed ticket
    \* the process
    phase,          \* "up", "down" or "booting"
    lock,           \* holder of the lock of the ticket
    task,           \* what each actor is doing
    \* history and bounds
    unreviewed,     \* a claim was left behind for an administrator to look at
    asked,          \* a message found no topic, and nothing stood in its way
    retried,        \* /retrytopic has promised a topic to the next message
    closes, binds, faults

ticketVars == <<channel, status, topic, token, waiting>>
jobVars == <<job, tries>>
telegramVars == <<made, live, marked>>
actorVars == <<lock, task>>
historyVars == <<unreviewed, asked, retried>>
boundVars == <<closes, binds, faults>>
vars == <<ticketVars, jobVars, telegramVars, phase, actorVars, historyVars,
          boundVars>>

Stages == {"idle", "queued", "claim", "lost", "reread", "create", "attach",
           "cleanup", "ensured", "sync", "unbind", "replace", "bindclaim",
           "abort", "finish", "retry"}

\* A coroutine: the step it is at, the ticket as it last read it (what its title
\* should say, and its topic), the claim it asks for, and the topic it has created
\* or been given.
Tasks == [stage : Stages, title : {"open", "closed"}, topic : 0..MaxTopics,
          mode : {"plain", "closed", "any", "bind"}, own : 0..MaxTopics]

NoTask == [stage |-> "idle", title |-> "open", topic |-> 0, mode |-> "plain",
           own |-> 0]

At(a) == task[a].stage

TypeOK ==
    /\ channel \in Channels
    /\ status \in {"absent", "provisioning", "open", "closed"}
    /\ topic \in 0..MaxTopics
    /\ token \in Actors \union {None}
    /\ waiting \in BOOLEAN
    /\ job \in {"none", "pending", "processing", "done", "failed"}
    /\ tries \in Nat
    /\ made \in 0..MaxTopics
    /\ live \subseteq 1..made
    /\ marked \subseteq live
    /\ phase \in {"up", "down", "booting"}
    /\ lock \in Actors \union {None}
    /\ task \in [Actors -> Tasks]
    /\ unreviewed \in BOOLEAN
    /\ asked \in BOOLEAN
    /\ retried \in BOOLEAN
    /\ closes \in Nat /\ binds \in Nat /\ faults \in Nat

Init ==
    /\ channel \in Channels
    /\ status = "absent"
    /\ topic = 0
    /\ token = None
    /\ waiting = FALSE
    /\ job = "none"
    /\ tries = 0
    /\ made = 0
    /\ live = {}
    /\ marked = {}
    /\ phase = "up"
    /\ lock = None
    /\ task = [a \in Actors |-> NoTask]
    /\ unreviewed = FALSE
    /\ asked = FALSE
    /\ retried = FALSE
    /\ closes = 0
    /\ binds = 0
    /\ faults = 0
-----------------------------------------------------------------------------
(***************************************************************************)
(* Steps the actions are made of.                                           *)
(***************************************************************************)
Goto(a, s) ==
    task' = IF s = "idle" THEN [task EXCEPT ![a] = NoTask]
            ELSE [task EXCEPT ![a].stage = s]

Unlock(a) == lock' = IF lock = a THEN None ELSE lock

Closed == status = "closed"

Title == IF Closed THEN "closed" ELSE "open"

\* get_ticket: the actor reads the row as committed now and goes on with step s.
Read(a, s) ==
    task' = [task EXCEPT ![a] = [@ EXCEPT !.stage = s, !.title = Title,
                                          !.topic = topic]]

\* The title of topic x is set from the ticket as actor a last read it.
Mark(a, x) ==
    IF task[a].title = "closed" THEN marked \union {x} ELSE marked \ {x}

\* Mutant: starting the row over gives one attempt back.
EnqueueOneBack == job' = "pending" /\ tries' = tries - 1

\* enqueue_topic_reconciliation: one row for each ticket, started over even while
\* a worker is processing it.
Enqueue == job' = "pending" /\ tries' = 0

Opened == IF topic # 0 THEN "open" ELSE "provisioning"

\* Entering _ensure_topic with the ticket just read.
Ensure(a, m) ==
    task' = [task EXCEPT ![a] =
               [stage |-> IF topic # 0 THEN "ensured" ELSE "claim",
                title |-> Title, topic |-> topic, mode |-> m, own |-> 0]]

\* An exception leaves the coroutine: the lock is released, and the reconciliation
\* worker schedules a retry.
Raise(a) ==
    /\ Goto(a, IF a = "job" THEN "retry" ELSE "idle")
    /\ Unlock(a)
-----------------------------------------------------------------------------
(***************************************************************************)
(* Requests.                                                                *)
(***************************************************************************)

\* A customer message is committed with its outbox row; it reopens a closed ticket.
AcceptMessage ==
    /\ waiting' = (waiting \/ topic = 0)
    /\ asked' = (asked \/ (topic = 0 /\ ~unreviewed))
    /\ IF status \in {"absent", "closed"}
       THEN status' = Opened /\ Enqueue
       ELSE UNCHANGED <<status, jobVars>>
    /\ UNCHANGED <<channel, topic, token>>

\* From Telegram: the same handler goes on to _ensure_topic, under the lock of the
\* user, which is not the lock of the ticket.
CustomerMessage ==
    /\ phase = "up"
    /\ channel = "telegram"
    /\ At("ingress") = "idle"
    /\ AcceptMessage
    /\ Ensure("ingress", "plain")
    /\ UNCHANGED <<telegramVars, phase, lock, unreviewed, retried,
                   boundVars>>

\* From the web API, which cannot reach Telegram.
WebMessage ==
    /\ phase = "up"
    /\ channel = "web"
    /\ AcceptMessage
    /\ UNCHANGED <<telegramVars, phase, actorVars, unreviewed, retried,
                   boundVars>>

\* Mutant: closing leaves a claim in the row.
CloseKeepsClaim ==
    /\ phase = "up"
    /\ status \in {"provisioning", "open"}
    /\ closes < MaxCloses
    /\ closes' = closes + 1
    /\ status' = "closed"
    /\ Enqueue
    /\ UNCHANGED <<channel, topic, token, waiting, telegramVars, phase, actorVars,
                   historyVars, binds, faults>>

\* Closing cancels a claim that is in the row.
Close ==
    /\ phase = "up"
    /\ status \in {"provisioning", "open"}
    /\ closes < MaxCloses
    /\ closes' = closes + 1
    /\ status' = "closed"
    /\ token' = None
    /\ Enqueue
    /\ UNCHANGED <<channel, topic, waiting, telegramVars, phase, actorVars,
                   historyVars, binds, faults>>

Reopen ==
    /\ phase = "up"
    /\ status = "closed"
    /\ status' = Opened
    /\ Enqueue
    /\ UNCHANGED <<channel, topic, token, waiting, telegramVars, phase,
                   actorVars, historyVars, boundVars>>

\* reset_topic_provisioning; an administrator has looked at the topics.
Reset(again) ==
    /\ token' = IF topic = 0 THEN None ELSE token
    /\ unreviewed' = (unreviewed /\ topic # 0)
    /\ asked' = FALSE
    /\ retried' = again

\* /retrytopic
RetryTopic ==
    /\ phase = "up"
    /\ At("ingress") = "idle"
    /\ topic = 0 /\ token # None
    /\ Reset(TRUE)
    /\ UNCHANGED <<channel, status, topic, waiting, jobVars, telegramVars,
                   phase, actorVars, boundVars>>

\* Mutant: the command does not take the lock of the ticket.
BindUnlocked(x) ==
    /\ phase = "up"
    /\ At("ingress") = "idle"
    /\ status # "absent"
    /\ x \in live \ {topic}
    /\ binds < MaxBinds
    /\ binds' = binds + 1
    /\ Reset(FALSE)
    /\ task' = [task EXCEPT !["ingress"] =
                  [@ EXCEPT !.stage = "bindclaim", !.mode = "bind", !.own = x]]
    /\ UNCHANGED <<channel, status, topic, waiting, jobVars, telegramVars, phase,
                   lock, closes, faults>>

\* /bindtopic, written in a topic no ticket is bound to.
BindTopic(x) ==
    /\ phase = "up"
    /\ At("ingress") = "idle"
    /\ status # "absent"
    /\ x \in live \ {topic}
    /\ binds < MaxBinds
    /\ binds' = binds + 1
    /\ lock = None
    /\ lock' = "ingress"
    /\ Reset(FALSE)
    /\ task' = [task EXCEPT !["ingress"] =
                  [@ EXCEPT !.stage = "bindclaim", !.mode = "bind", !.own = x]]
    /\ UNCHANGED <<channel, status, topic, waiting, jobVars, telegramVars,
                   phase, closes, faults>>

\* /synctopics
SyncTopics ==
    /\ phase = "up"
    /\ At("ingress") = "idle"
    /\ status # "absent"
    /\ Enqueue
    /\ UNCHANGED <<ticketVars, telegramVars, phase, actorVars, historyVars,
                   boundVars>>

\* Somebody deletes a topic in Telegram.
DeleteTopic(x) ==
    /\ x \in live
    /\ live' = live \ {x}
    /\ marked' = marked \ {x}
    /\ UNCHANGED <<ticketVars, jobVars, made, phase, actorVars, historyVars,
                   boundVars>>
-----------------------------------------------------------------------------
(***************************************************************************)
(* How the background tasks come to the ticket.                             *)
(***************************************************************************)
ClaimJob ==
    /\ phase = "up"
    /\ At("job") = "idle"
    /\ job = "pending"
    /\ job' = "processing"
    /\ tries' = tries + 1
    /\ Goto("job", "queued")
    /\ UNCHANGED <<ticketVars, telegramVars, phase, lock, historyVars,
                   boundVars>>

\* A claim a crash left behind; the loop has no job running when it releases it.
ReleaseStaleJob ==
    /\ phase = "up"
    /\ At("job") = "idle"
    /\ job = "processing"
    /\ job' = "pending"
    /\ UNCHANGED <<ticketVars, tries, telegramVars, phase, actorVars,
                   historyVars, boundVars>>

\* reconcile_ticket_topic, and the recovery at startup, under the lock.
Enter(a) ==
    /\ At(a) = "queued"
    /\ lock = None
    /\ lock' = a
    /\ Ensure(a, IF a = "job" THEN "any"
                 ELSE IF Closed THEN "closed" ELSE "plain")
    /\ UNCHANGED <<ticketVars, jobVars, telegramVars, phase, historyVars,
                   boundVars>>

\* recover_missing_topic(old): the topic is replaced if it is still the bound one.
MissingTopic(old) ==
    /\ phase = "up"
    /\ At("delivery") = "idle"
    /\ old \in 1..made /\ old \notin live
    /\ lock = None
    /\ IF topic = old
       THEN /\ lock' = "delivery"
            /\ Read("delivery", "replace")
       ELSE /\ topic = 0
            /\ lock' = "delivery"
            /\ Ensure("delivery", IF Closed THEN "closed" ELSE "plain")
    /\ UNCHANGED <<ticketVars, jobVars, telegramVars, phase, historyVars,
                   boundVars>>

\* prepare_reopened_customer_topic: synchronise the topic, whatever comes of it.
PrepareTopic ==
    /\ phase = "up"
    /\ At("delivery") = "idle"
    /\ topic # 0
    /\ lock = None
    /\ lock' = "delivery"
    /\ Read("delivery", "sync")
    /\ UNCHANGED <<ticketVars, jobVars, telegramVars, phase, historyVars,
                   boundVars>>
-----------------------------------------------------------------------------
(***************************************************************************)
(* _ensure_topic.                                                           *)
(***************************************************************************)

\* Unfinished messages of the customer: the delivery worker is processing one.
Traffic(a) == waiting \/ a = "delivery"

\* Mutant: reconciliation claims like an ordinary message.
MayClaimOpen(a) ==
    /\ topic = 0
    /\ token = None
    /\ task[a].mode # "closed" => ~Closed
    /\ task[a].mode = "closed" => Closed /\ Traffic(a)

\* The conditional UPDATE of the three kinds of claim.
MayClaim(a) ==
    /\ topic = 0
    /\ token = None
    /\ task[a].mode \in {"plain", "bind"} => ~Closed
    /\ task[a].mode = "closed" => Closed /\ Traffic(a)

Claim(a) ==
    /\ At(a) = "claim"
    /\ token' = IF MayClaim(a) THEN a ELSE token
    /\ Goto(a, IF MayClaim(a) THEN "reread" ELSE "lost")
    /\ UNCHANGED <<channel, status, topic, waiting, jobVars, telegramVars,
                   phase, lock, historyVars, boundVars>>

\* The ticket is read again, after the claim or when there is none to be had.
Reread(a) ==
    /\ At(a) \in {"lost", "reread"}
    /\ Read(a, IF At(a) = "lost" \/ (task[a].mode = "plain" /\ Closed)
               THEN "ensured" ELSE "create")
    /\ UNCHANGED <<ticketVars, jobVars, telegramVars, phase, lock, historyVars,
                   boundVars>>

TopicCreated(a) ==
    /\ made < MaxTopics
    /\ made' = made + 1
    /\ live' = live \union {made + 1}
    /\ marked' = Mark(a, made + 1)

CreateTopic(a) ==
    /\ At(a) = "create"
    /\ TopicCreated(a)
    /\ task' = [task EXCEPT ![a] = [@ EXCEPT !.stage = "attach", !.own = made + 1]]
    /\ UNCHANGED <<ticketVars, jobVars, phase, lock, historyVars, boundVars>>

\* The call raises: a topic may have been created, and the claim stays in the row.
CreationUnknown(a) ==
    /\ At(a) = "create"
    /\ TopicCreated(a) \/ UNCHANGED telegramVars
    /\ unreviewed' = TRUE
    /\ asked' = FALSE
    /\ retried' = FALSE
    /\ Raise(a)
    /\ UNCHANGED <<ticketVars, jobVars, phase, boundVars>>

\* A task whose topic is bound goes on, or fails to send the card of the customer.
Attached(a) ==
    \/ Raise(a)
    \/ /\ task' = [task EXCEPT ![a] =
                     [@ EXCEPT !.stage = IF task[a].mode = "bind" THEN "sync"
                                         ELSE "ensured",
                               !.title = Title, !.topic = task[a].own]]
       /\ IF task[a].mode = "bind" THEN Unlock(a) ELSE UNCHANGED lock

\* attach_topic: bound in one conditional UPDATE together with the release of the
\* waiting rows, refused if the claim is gone or another topic is bound.  After the
\* commit the ticket is read back; if SQLite is locked then, the whole is repeated.
Attach(a) ==
    /\ At(a) = "attach"
    /\ token = a /\ topic = 0
    /\ topic' = task[a].own
    /\ status' = IF Closed THEN "closed" ELSE "open"
    /\ token' = None
    /\ waiting' = FALSE
    /\ asked' = FALSE
    /\ retried' = FALSE
    /\ Attached(a) \/ UNCHANGED actorVars
    /\ UNCHANGED <<channel, jobVars, telegramVars, phase, unreviewed,
                   boundVars>>

\* The repetition finds the very topic bound.
AttachAgain(a) ==
    /\ At(a) = "attach"
    /\ topic = task[a].own
    /\ Attached(a)
    /\ UNCHANGED <<ticketVars, jobVars, telegramVars, phase, historyVars,
                   boundVars>>

AttachRefused(a) ==
    /\ At(a) = "attach"
    /\ IF topic = 0 THEN token # a ELSE topic # task[a].own
    /\ Goto(a, IF task[a].mode = "bind" THEN "abort" ELSE "cleanup")
    /\ UNCHANGED <<ticketVars, jobVars, telegramVars, phase, lock, historyVars,
                   boundVars>>

\* The refused topic is deleted, if Telegram lets us.
Cleanup(a) ==
    /\ At(a) = "cleanup"
    /\ live' \in {live, live \ {task[a].own}}
    /\ marked' = marked \intersect live'
    /\ Goto(a, "lost")
    /\ UNCHANGED <<ticketVars, jobVars, made, phase, lock, historyVars,
                   boundVars>>

BindClaim(a) ==
    /\ At(a) = "bindclaim"
    /\ token' = IF MayClaim(a) THEN a ELSE token
    /\ Goto(a, IF MayClaim(a) THEN "attach" ELSE "idle")
    /\ IF MayClaim(a) THEN UNCHANGED lock ELSE Unlock(a)
    /\ UNCHANGED <<channel, status, topic, waiting, jobVars, telegramVars,
                   phase, historyVars, boundVars>>

\* abort_topic_provisioning
BindAbort(a) ==
    /\ At(a) = "abort"
    /\ token' = IF token = a THEN None ELSE token
    /\ Goto(a, "idle")
    /\ Unlock(a)
    /\ UNCHANGED <<channel, status, topic, waiting, jobVars, telegramVars,
                   phase, historyVars, boundVars>>

\* The end of _ensure_topic: only the reconciliation worker goes on.  (The second
\* attempt of the startup recovery is for a close that falls into the first one;
\* nothing can close a ticket that early.)
Ensured(a) ==
    /\ At(a) = "ensured"
    /\ IF a = "job" /\ task[a].topic # 0
       THEN Goto(a, "sync") /\ UNCHANGED lock
       ELSE Raise(a)
    /\ UNCHANGED <<ticketVars, jobVars, telegramVars, phase, historyVars,
                   boundVars>>
-----------------------------------------------------------------------------
(***************************************************************************)
(* _sync_ticket_topic, and the end of a reconciliation job.                 *)
(***************************************************************************)
Synced(a, ok) ==
    /\ Goto(a, IF a # "job" THEN "idle" ELSE IF ok THEN "finish" ELSE "retry")
    /\ Unlock(a)

\* The title is set from the ticket as it was read, or the call fails.
Sync(a) ==
    /\ At(a) = "sync"
    /\ \/ /\ task[a].topic \in live
          /\ marked' = Mark(a, task[a].topic)
          /\ \E ok \in BOOLEAN : Synced(a, ok)
       \/ Synced(a, FALSE) /\ UNCHANGED marked
       \/ /\ task[a].topic \notin live
          /\ Goto(a, "unbind")
          /\ UNCHANGED <<marked, lock>>
    /\ UNCHANGED <<ticketVars, jobVars, made, live, phase, historyVars,
                   boundVars>>

\* Mutant: whatever topic is bound now is unbound.
InvalidateAny(x) ==
    /\ topic' = 0
    /\ status' = IF Closed THEN "closed" ELSE "provisioning"
    /\ token' = None

\* invalidate_topic
Invalidate(x) ==
    IF topic = x
    THEN /\ topic' = 0
         /\ status' = IF Closed THEN "closed" ELSE "provisioning"
         /\ token' = None
    ELSE UNCHANGED <<topic, status, token>>

Unbind(a) ==
    /\ At(a) = "unbind"
    /\ Invalidate(task[a].topic)
    /\ Synced(a, FALSE)
    /\ UNCHANGED <<channel, waiting, jobVars, telegramVars, phase, historyVars,
                   boundVars>>

\* recover_missing_topic goes on to create the replacement at once.
Replace(a) ==
    /\ At(a) = "replace"
    /\ Invalidate(task[a].topic)
    /\ task' = [task EXCEPT ![a] =
                  [stage |-> IF topic' # 0 THEN "ensured" ELSE "claim",
                   title |-> Title, topic |-> topic', own |-> 0,
                   mode |-> IF Closed THEN "closed" ELSE "plain"]]
    /\ UNCHANGED <<channel, waiting, jobVars, telegramVars, phase, lock,
                   historyVars, boundVars>>

\* Mutant: the outcome is written whatever happened to the row meanwhile.
FinishAlways ==
    /\ At("job") = "finish"
    /\ job' = "done"
    /\ Goto("job", "idle")
    /\ UNCHANGED <<ticketVars, tries, telegramVars, phase, lock, historyVars,
                   boundVars>>

\* Both outcomes are written only while the row is still processing.
FinishJob ==
    /\ At("job") = "finish"
    /\ job' = IF job = "processing" THEN "done" ELSE job
    /\ Goto("job", "idle")
    /\ UNCHANGED <<ticketVars, tries, telegramVars, phase, lock, historyVars,
                   boundVars>>

RetryJob ==
    /\ At("job") = "retry"
    /\ job' = IF job # "processing" THEN job
              ELSE IF tries >= MaxAttempts THEN "failed" ELSE "pending"
    /\ Goto("job", "idle")
    /\ UNCHANGED <<ticketVars, tries, telegramVars, phase, lock, historyVars,
                   boundVars>>
-----------------------------------------------------------------------------
(***************************************************************************)
(* Faults and the life of the process.                                      *)
(***************************************************************************)
Fault ==
    /\ faults < MaxFaults
    /\ faults' = faults + 1

\* The transaction that should bind the new topic fails.
AttachLost(a) ==
    /\ At(a) = "attach"
    /\ topic # task[a].own
    /\ Fault
    /\ unreviewed' = TRUE
    /\ asked' = FALSE
    /\ retried' = FALSE
    /\ Raise(a)
    /\ UNCHANGED <<ticketVars, jobVars, telegramVars, phase, closes, binds>>

\* The steps at which a task reads or writes the ticket or its job.
InTransaction == {"queued", "claim", "lost", "reread", "unbind", "replace",
                  "bindclaim", "abort", "finish", "retry"}

\* One of them fails and the task ends.  A claim it has made stays in the row: the
\* ticket is read back outside the try of _ensure_topic.  The handler of a message
\* only tells the customer to wait, and the recovery at startup goes on.
TransactionFails(a) ==
    /\ At(a) \in InTransaction
    /\ Fault
    /\ IF At(a) \in {"finish", "retry"} THEN Goto(a, "idle") /\ UNCHANGED lock
                                         ELSE Raise(a)
    /\ unreviewed' = (unreviewed \/ token = a)
    /\ asked' = (asked /\ token # a /\ a \notin {"ingress", "startup"})
    /\ UNCHANGED retried
    /\ UNCHANGED <<ticketVars, jobVars, telegramVars, phase, closes, binds>>

Crash ==
    /\ phase # "down"
    /\ Fault
    /\ phase' = "down"
    /\ lock' = None
    /\ task' = [a \in Actors |-> NoTask]
    /\ unreviewed' = (unreviewed \/ token # None)
    /\ asked' = (asked /\ token = None)
    /\ UNCHANGED retried
    /\ UNCHANGED <<ticketVars, jobVars, telegramVars, closes, binds>>

\* Startup recovery runs before the workers and the API: it takes up tickets with
\* waiting rows and neither a topic nor a claim.
Boot ==
    /\ phase = "down"
    /\ phase' = "booting"
    /\ Goto("startup", IF topic = 0 /\ token = None /\ waiting
                       THEN "queued" ELSE "idle")
    /\ UNCHANGED <<ticketVars, jobVars, telegramVars, lock, historyVars,
                   boundVars>>

Ready ==
    /\ phase = "booting"
    /\ At("startup") = "idle"
    /\ phase' = "up"
    /\ UNCHANGED <<ticketVars, jobVars, telegramVars, actorVars, historyVars,
                   boundVars>>
-----------------------------------------------------------------------------
\* The next step of an actor that is under way.
Continue(a) ==
    \/ Enter(a) \/ Claim(a) \/ Reread(a) \/ CreateTopic(a) \/ CreationUnknown(a)
    \/ Attach(a) \/ AttachAgain(a) \/ AttachRefused(a) \/ Cleanup(a)
    \/ BindClaim(a) \/ BindAbort(a) \/ Ensured(a)
    \/ Sync(a) \/ Unbind(a) \/ Replace(a)

Next ==
    \/ CustomerMessage \/ WebMessage \/ Close \/ Reopen
    \/ RetryTopic \/ SyncTopics
    \/ \E x \in Topics : BindTopic(x) \/ DeleteTopic(x) \/ MissingTopic(x)
    \/ PrepareTopic \/ ClaimJob \/ ReleaseStaleJob \/ FinishJob \/ RetryJob
    \/ \E a \in Actors : Continue(a) \/ AttachLost(a) \/ TransactionFails(a)
    \/ Crash \/ Boot \/ Ready

Spec == Init /\ [][Next]_vars

\* A coroutine under way goes on, the lock of a ticket is granted in the order of
\* the requests, the reconciliation worker polls while the process is up, and a
\* supervisor restarts the process.  Customers, operators and Telegram owe nothing.
Fairness ==
    /\ \A a \in Actors : WF_vars(Continue(a))
    /\ SF_vars(Enter("job"))
    /\ WF_vars(ClaimJob)
    /\ WF_vars(ReleaseStaleJob)
    /\ WF_vars(FinishJob)
    /\ WF_vars(RetryJob)
    /\ WF_vars(Boot)
    /\ WF_vars(Ready)

FairSpec == Spec /\ Fairness
-----------------------------------------------------------------------------
(***************************************************************************)
(* Properties.                                                              *)
(***************************************************************************)

\* A claim in the row has a task that is on its way to attach a topic, or a failure
\* has left it to an administrator: a creation with an unknown result, a crash, or a
\* transaction of the claiming task that failed (the last two are told of only by the
\* list of claims at the next start, __main__.py:217).  A close, a competing claim or a
\* refused attachment never leaves one behind, which would keep the ticket without a
\* topic until /retrytopic.
ClaimNotForgotten ==
    token # None =>
        \/ At(token) \in {"reread", "create", "attach"}
        \/ unreviewed

\* The program takes a topic from a ticket only when the topic is gone from
\* Telegram, although the verdict is reached on a ticket read some time ago.
UnbindsOnlyDeleted ==
    [][topic # 0 /\ topic' # topic => topic' = 0 /\ topic \notin live]_vars

\* A finished reconciliation row means that the title of the topic shows whether
\* the ticket is open or closed: a close or a reopening that falls into a running
\* job, or is overtaken by another task that creates or refreshes the topic,
\* makes the row pending again.
DoneMeansInSync ==
    job = "done" /\ topic \in live => (topic \in marked <=> Closed)

\* A topic deleted as the result of a stale creation is not the topic the ticket
\* has by then.
CleanupSparesBound ==
    \A a \in Actors : At(a) = "cleanup" => task[a].own # topic

\* After a creation with an unknown result no task creates a topic for the ticket until
\* an administrator has looked.  (Checked without faults: a failed transaction leaves a
\* claim too, but surely no topic.)
NoAutomaticRetry ==
    unreviewed => \A a \in Actors : At(a) # "create"

\* A message that finds no topic, and no claim that was left to an administrator, gets a
\* topic, or a task fails: its claim is left to the administrator, or the message waits
\* for the next one.  Fewer transactions fail than a reconciliation has attempts.
MessageGetsTopic == asked ~> ~asked

\* The answer to /retrytopic: "the next message will create a new topic".
NextMessageCreatesTopic == retried /\ asked ~> ~asked
=============================================================================
