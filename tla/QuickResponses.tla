----------------------------- MODULE QuickResponses -----------------------------
(***************************************************************************)
(* The catalogue of quick responses in its own forum topic.                 *)
(*                                                                         *)
(* An operator writes a message there.  A valid one becomes a row of the    *)
(* table; the bot publishes a copy with a button and then removes the       *)
(* message.  An invalid one gets a warning and is removed at a deadline     *)
(* unless it was edited meanwhile.  The button turns the row into a         *)
(* tombstone and removes the copy.                                          *)
(*                                                                         *)
(* Three kinds of tasks do this, await by await: the ingress worker, which  *)
(* handles the updates of the topic one by one and again after a failure;   *)
(* one expiration task for every invalid response; and the refresh worker,  *)
(* which probes the topic once a minute, replaces it if somebody deleted    *)
(* it, and publishes what is missing.  The refresh also runs at startup,    *)
(* before the others.                                                       *)
(***************************************************************************)
EXTENDS Naturals, Sequences, FiniteSets

CONSTANTS
    Responses,      \* source messages; each has at most one row
    Scenarios,      \* what operators do, and how much may go wrong
    MaxAttempts     \* max_attempts of retry_inbound_update

Kinds == {"valid", "invalid", "delete"}

ASSUME ResponsesAssumption ==
    /\ Responses \subseteq Nat \ {0}
    /\ IsFiniteSet(Responses)
    /\ MaxAttempts \in Nat \ {0}
    /\ \A p \in Scenarios :
        /\ p.updates \in Seq([r : Responses, kind : Kinds])
        /\ {p.failures, p.crashes, p.topics, p.hands} \subseteq Nat

VARIABLES
    plan,       \* the scenario; never changes
    left,       \* bound: failures, crashes and deletions still to come
    \* tables
    rows,       \* quick_responses, by source message
    instructed, \* system_settings: the topic that has the instruction, or 0
    clock,      \* deadlines handed out
    inbox,      \* stored updates of the topic, in order
    handled,    \* how many of them are over
    attempts,   \* attempts at the next one
    \* Telegram
    source,     \* the messages of the operators
    copies,     \* the copies that are there
    sent,       \* copies ever published; the next one gets the next number
    alive,      \* the topic is there
    \* the process
    topic,      \* id of the topic, in memory and in system_settings
    booting,
    task,       \* the ingress worker and the refresh worker
    timer       \* expiration tasks

updates == <<inbox, handled, attempts>>
telegram == <<source, copies, sent, alive>>
vars == <<plan, left, rows, instructed, clock, updates, telegram, topic, booting, task, timer>>

NoRow == [state |-> "none", published |-> 0, current |-> FALSE, deadline |-> 0,
          warning |-> FALSE]
NoTimer == [at |-> "none", deadline |-> 0]

\* r is the response in hand, row what was read of it, copy the message being
\* published or deleted, todo what the refresh has yet to look at.
Idle == [at |-> "idle", r |-> 0, row |-> NoRow, copy |-> 0, todo |-> {}, replaced |-> FALSE]
Tasks == {"ingress", "refresh"}

Init ==
    /\ plan \in Scenarios
    /\ left = [failures |-> plan.failures, crashes |-> plan.crashes,
               topics |-> plan.topics, hands |-> plan.hands]
    /\ rows = [r \in Responses |-> NoRow]
    /\ instructed = 0
    /\ clock = 0
    /\ inbox = <<>>
    /\ handled = 0
    /\ attempts = 0
    /\ source = [r \in Responses |-> "unsent"]
    /\ copies = {}
    /\ sent = 0
    /\ alive = TRUE
    /\ topic = 1
    /\ booting = TRUE
    /\ task = [ingress |-> Idle, refresh |-> [Idle EXCEPT !.at = "start"]]
    /\ timer = [r \in Responses |-> NoTimer]

At(t, label) == task[t].at = label
Goto(t, label) == task' = [task EXCEPT ![t].at = label]
Gone(status) == IF status = "there" THEN "gone" ELSE status
Spend(what) == left[what] > 0 /\ left' = [left EXCEPT ![what] = @ - 1]
CopiesOf(r) == {c \in copies : c.r = r}
Without(id) == {c \in copies : c.id # id}

-----------------------------------------------------------------------------
(* People.                                                                  *)

\* A message is edited while it is there; a button belongs to a copy.
Arrive ==
    /\ Len(inbox) < Len(plan.updates)
    /\ alive
    /\ LET u == plan.updates[Len(inbox) + 1]
       IN  /\ IF u.kind = "delete"
              THEN /\ \E c \in CopiesOf(u.r) :
                        inbox' = Append(inbox, [r |-> u.r, kind |-> u.kind, copy |-> c.id,
                                                topic |-> topic])
                   /\ UNCHANGED source
              ELSE /\ source[u.r] # "gone"
                   /\ inbox' = Append(inbox, [r |-> u.r, kind |-> u.kind, copy |-> 0,
                                              topic |-> topic])
                   /\ source' = [source EXCEPT ![u.r] = "there"]
    /\ UNCHANGED <<plan, left, rows, instructed, clock, handled, attempts, copies, sent,
                   alive, topic, booting, task, timer>>

RemoveByHand ==
    /\ Spend("hands")
    /\ \/ \E r \in Responses :
            /\ source[r] = "there"
            /\ source' = [source EXCEPT ![r] = "gone"]
            /\ UNCHANGED copies
       \/ \E c \in copies :
            /\ copies' = copies \ {c}
            /\ UNCHANGED source
    /\ UNCHANGED <<plan, rows, instructed, clock, updates, sent, alive, topic, booting,
                   task, timer>>

DeleteTopic ==
    /\ alive
    /\ Spend("topics")
    /\ alive' = FALSE
    /\ copies' = {}
    /\ source' = [r \in Responses |-> Gone(source[r])]
    /\ UNCHANGED <<plan, rows, instructed, clock, updates, sent, topic, booting, task, timer>>

-----------------------------------------------------------------------------
(* Locks: one per source message, held by a message handler or a running    *)
(* expiration; one per row, held while its copy is published or deleted.    *)

Publishing == {"edit", "send", "record", "clean", "complete"}
Erasing == {"erase", "clear"}
Rejecting == {"withdraw", "save", "warn"}

RecordAlwaysFree(r) == TRUE
RecordFree(r) == \A t \in Tasks : ~ (task[t].r = r /\ task[t].at \in Publishing \union Erasing)

SourceFree(r) ==
    /\ ~ (task.ingress.r = r /\ task.ingress.at \in {"lock"} \union Publishing \union Rejecting)
    /\ timer[r].at \notin {"remove", "drop"}

-----------------------------------------------------------------------------
(* How a task ends.                                                         *)

Finished(t) == IF t = "ingress" THEN "finish" ELSE "restore"

\* The update is tried again or given up; a round of the refresh is over, and
\* at startup the process with it.
Raise(t) ==
    /\ IF t = "refresh"
       THEN /\ task' = [task EXCEPT ![t] = [Idle EXCEPT !.at = IF booting THEN "start" ELSE "idle"]]
            /\ UNCHANGED updates
       ELSE /\ task' = [task EXCEPT ![t] = Idle]
            /\ handled' = IF attempts >= MaxAttempts THEN handled + 1 ELSE handled
            /\ attempts' = IF attempts >= MaxAttempts THEN 0 ELSE attempts
            /\ UNCHANGED inbox

Finish ==
    /\ At("ingress", "finish")
    /\ handled' = handled + 1
    /\ attempts' = 0
    /\ task' = [task EXCEPT !["ingress"] = Idle]
    /\ UNCHANGED <<plan, left, rows, instructed, clock, inbox, telegram, topic, booting, timer>>

Crash ==
    /\ ~ booting
    /\ Spend("crashes")
    /\ booting' = TRUE
    /\ task' = [ingress |-> Idle, refresh |-> [Idle EXCEPT !.at = "start"]]
    /\ timer' = [r \in Responses |-> NoTimer]
    /\ UNCHANGED <<plan, rows, instructed, clock, updates, telegram, topic>>

-----------------------------------------------------------------------------
(* _publish_valid_response, under the lock of the row.                      *)

\* The copy is edited if it may be out of date, sent if there is none.
FirstCallOnlyWhenForced(row, force, refresh) ==
    CASE force -> "send"
      [] ~ force /\ row.published # 0 /\ (refresh \/ ~ row.current) -> "edit"
      [] OTHER -> "clean"
FirstCall(row, force, refresh) ==
    CASE force \/ row.published = 0 -> "send"
      [] ~ force /\ row.published # 0 /\ (refresh \/ ~ row.current) -> "edit"
      [] OTHER -> "clean"

StartPublish(t, r, force, refresh) ==
    task' = [task EXCEPT ![t].at = FirstCall(rows[r], force, refresh),
                         ![t].r = r,
                         ![t].row = rows[r],
                         ![t].copy = IF force THEN 0 ELSE rows[r].published,
                         ![t].todo = @ \ {r}]

\* _edit_bot_message is False for a message that is not there.
AfterEdit(found) == IF found THEN "clean" ELSE "send"

Edit(t) ==
    /\ At(t, "edit")
    /\ Goto(t, AfterEdit(\E c \in copies : c.id = task[t].copy))
    /\ UNCHANGED <<plan, left, rows, instructed, clock, updates, telegram, topic, booting, timer>>

SendCopy(t) ==
    /\ At(t, "send")
    /\ IF alive
       THEN /\ sent' = sent + 1
            /\ copies' = copies \union {[id |-> sent + 1, r |-> task[t].r]}
            /\ task' = [task EXCEPT ![t].at = "record", ![t].copy = sent + 1]
            /\ UNCHANGED updates
       ELSE /\ Raise(t)
            /\ UNCHANGED <<sent, copies>>
    /\ UNCHANGED <<plan, left, rows, instructed, clock, source, alive, topic, booting, timer>>

\* record_publication says nothing when the row is not valid any more.
Record(t) ==
    /\ At(t, "record")
    /\ rows' = [rows EXCEPT ![task[t].r].published =
                    IF rows[task[t].r].state = "valid" THEN task[t].copy ELSE @]
    /\ Goto(t, "clean")
    /\ UNCHANGED <<plan, left, instructed, clock, updates, telegram, topic, booting, timer>>

\* The source and the warning are deleted; one that is not there counts.
Clean(t) ==
    /\ At(t, "clean")
    /\ source' = [source EXCEPT ![task[t].r] = Gone(@)]
    /\ rows' = [rows EXCEPT ![task[t].r].warning = @ /\ ~ task[t].row.warning]
    /\ Goto(t, "complete")
    /\ UNCHANGED <<plan, left, instructed, clock, updates, copies, sent, alive, topic,
                   booting, timer>>

Complete(t) ==
    /\ At(t, "complete")
    /\ LET r == task[t].r
       IN  IF rows[r].state = "valid" /\ rows[r].published = task[t].copy
           THEN /\ rows' = [rows EXCEPT ![r].current = TRUE]
                /\ Goto(t, Finished(t))
                /\ UNCHANGED updates
           ELSE /\ Raise(t)
                /\ UNCHANGED rows
    /\ UNCHANGED <<plan, left, instructed, clock, telegram, topic, booting, timer>>

-----------------------------------------------------------------------------
(* The ingress worker.                                                      *)

\* _upsert keeps a tombstone.
NeverRefuses(r) == FALSE
Refuses(r) == rows[r].state = "deleted"

AcceptedKeepsDeadline(row) == [row EXCEPT !.state = "valid"]
Accepted(row) == [row EXCEPT !.state = "valid", !.deadline = 0]

Begin ==
    /\ ~ booting
    /\ At("ingress", "idle")
    /\ handled < Len(inbox)
    /\ attempts' = attempts + 1
    /\ LET u == inbox[handled + 1]
           r == u.r
           now(label) == [Idle EXCEPT !.at = label, !.r = r, !.row = rows[r], !.copy = u.copy]
       IN  \/ /\ u.topic # topic
              /\ task' = [task EXCEPT !["ingress"] = now("finish")]
              /\ UNCHANGED <<rows, timer>>
           \/ /\ u.topic = topic
              /\ u.kind # "delete"
              /\ SourceFree(r)
              /\ Refuses(r)
              /\ task' = [task EXCEPT !["ingress"] = now("finish")]
              /\ UNCHANGED <<rows, timer>>
           \* _accept_response: save_valid, and the deadline is off
           \/ /\ u.topic = topic
              /\ u.kind = "valid"
              /\ SourceFree(r)
              /\ ~ Refuses(r)
              /\ rows' = [rows EXCEPT ![r] = Accepted(@)]
              /\ timer' = [timer EXCEPT ![r] = NoTimer]
              /\ task' = [task EXCEPT !["ingress"] = now("lock")]
           \/ /\ u.topic = topic
              /\ u.kind = "invalid"
              /\ SourceFree(r)
              /\ ~ Refuses(r)
              /\ task' = [task EXCEPT !["ingress"] = now("withdraw")]
              /\ UNCHANGED <<rows, timer>>
           \* the button: soft_delete_valid for the recorded copy only
           \/ /\ u.topic = topic
              /\ u.kind = "delete"
              /\ RecordFree(r)
              /\ IF rows[r].published = u.copy /\ rows[r].state \in {"valid", "deleted"}
                 THEN /\ rows' = [rows EXCEPT ![r].state = "deleted"]
                      /\ task' = [task EXCEPT !["ingress"] = now("erase")]
                 ELSE /\ task' = [task EXCEPT !["ingress"] = now("finish")]
                      /\ UNCHANGED rows
              /\ UNCHANGED timer
    /\ UNCHANGED <<plan, left, instructed, clock, inbox, handled, telegram, topic, booting>>

\* The row is read again under its lock.
LockRecord ==
    /\ At("ingress", "lock")
    /\ LET r == task.ingress.r
       IN  /\ RecordFree(r)
           /\ IF rows[r].state = "valid" THEN StartPublish("ingress", r, FALSE, TRUE)
                                         ELSE Goto("ingress", "finish")
    /\ UNCHANGED <<plan, left, rows, instructed, clock, updates, telegram, topic, booting, timer>>

\* _reject_response: the earlier copy goes first.
Withdraw ==
    /\ At("ingress", "withdraw")
    /\ copies' = IF task.ingress.row.state = "valid" /\ task.ingress.row.published # 0
                 THEN Without(task.ingress.row.published)
                 ELSE copies
    /\ Goto("ingress", "save")
    /\ UNCHANGED <<plan, left, rows, instructed, clock, updates, source, sent, alive, topic,
                   booting, timer>>

\* A response that is invalid already keeps its deadline.
SavePending ==
    /\ At("ingress", "save")
    /\ LET r == task.ingress.r
           old == task.ingress.row
           deadline == IF old.state = "pending" THEN old.deadline ELSE clock + 1
       IN  /\ clock' = IF old.state = "pending" THEN clock ELSE clock + 1
           /\ rows' = [rows EXCEPT ![r] = [NoRow EXCEPT !.state = "pending",
                                                        !.deadline = deadline,
                                                        !.warning = rows[r].warning]]
           /\ task' = [task EXCEPT !["ingress"].at = "warn",
                                   !["ingress"].row.deadline = deadline]
    /\ UNCHANGED <<plan, left, instructed, updates, telegram, topic, booting, timer>>

\* The warning is edited, or sent as a reply to the message, which must be
\* there; then the deadline is armed.
Warn ==
    /\ At("ingress", "warn")
    /\ LET r == task.ingress.r
       IN  IF alive /\ (source[r] = "there" \/ rows[r].warning)
           THEN /\ rows' = [rows EXCEPT ![r].warning = @ \/ rows[r].state = "pending"]
                /\ timer' = [timer EXCEPT ![r] = [at |-> "wait",
                                                  deadline |-> task.ingress.row.deadline]]
                /\ Goto("ingress", "finish")
                /\ UNCHANGED updates
           ELSE /\ Raise("ingress")
                /\ UNCHANGED <<rows, timer>>
    /\ UNCHANGED <<plan, left, instructed, clock, telegram, topic, booting>>

Erase ==
    /\ At("ingress", "erase")
    /\ copies' = Without(task.ingress.copy)
    /\ Goto("ingress", "clear")
    /\ UNCHANGED <<plan, left, rows, instructed, clock, updates, source, sent, alive, topic,
                   booting, timer>>

ClearPublication ==
    /\ At("ingress", "clear")
    /\ LET r == task.ingress.r
       IN  rows' = [rows EXCEPT ![r].published =
                        IF rows[r].state = "deleted" /\ @ = task.ingress.copy THEN 0 ELSE @]
    /\ Goto("ingress", "finish")
    /\ UNCHANGED <<plan, left, instructed, clock, updates, telegram, topic, booting, timer>>

-----------------------------------------------------------------------------
(* Expiration tasks.                                                        *)

Expires(r) == rows[r].state = "pending" /\ rows[r].deadline = timer[r].deadline

\* The deadline, or thirty seconds after a deletion that failed.
Wake(r) ==
    /\ timer[r].at = "wait"
    /\ SourceFree(r)
    /\ timer' = [timer EXCEPT ![r] = IF Expires(r) THEN [@ EXCEPT !.at = "remove"] ELSE NoTimer]
    /\ UNCHANGED <<plan, left, rows, instructed, clock, updates, telegram, topic, booting, task>>

RemoveSource(r) ==
    /\ timer[r].at = "remove"
    /\ source' = [source EXCEPT ![r] = Gone(@)]
    /\ timer' = [timer EXCEPT ![r].at = "drop"]
    /\ UNCHANGED <<plan, left, rows, instructed, clock, updates, copies, sent, alive, topic,
                   booting, task>>

DropRow(r) ==
    /\ timer[r].at = "drop"
    /\ rows' = [rows EXCEPT ![r] = IF Expires(r) THEN NoRow ELSE @]
    /\ timer' = [timer EXCEPT ![r] = NoTimer]
    /\ UNCHANGED <<plan, left, instructed, clock, updates, telegram, topic, booting, task>>

-----------------------------------------------------------------------------
(* ensure_quick_response_topic.                                             *)

\* ensure and reconcile_name at startup: a topic that is gone is replaced.
Start ==
    /\ At("refresh", "start")
    /\ topic' = IF alive THEN topic ELSE topic + 1
    /\ alive' = TRUE
    /\ Goto("refresh", "probe")
    /\ UNCHANGED <<plan, left, rows, instructed, clock, updates, source, copies, sent,
                   booting, timer>>

Tick ==
    /\ At("refresh", "idle")
    /\ task' = [task EXCEPT !["refresh"] = [Idle EXCEPT !.at = "probe"]]
    /\ UNCHANGED <<plan, left, rows, instructed, clock, updates, telegram, topic, booting, timer>>

TombstonesNotInCatalogue == {r \in Responses : rows[r].state = "deleted" /\ ~ rows[r].current}
Tombstones == {r \in Responses : rows[r].state = "deleted" /\ rows[r].published # 0}
ToCleanup(replaced) ==
    task' = [task EXCEPT !["refresh"].at = "cleanup", !["refresh"].todo = Tombstones,
                         !["refresh"].replaced = replaced]

\* The instruction is edited, which shows whether the topic is there.
Probe ==
    /\ At("refresh", "probe")
    /\ IF instructed \notin {0, topic}
       THEN Goto("refresh", "discard") /\ UNCHANGED instructed
       ELSE IF alive
            THEN ToCleanup(FALSE) /\ instructed' = topic
            ELSE Goto("refresh", "recover") /\ UNCHANGED instructed
    /\ UNCHANGED <<plan, left, rows, clock, updates, telegram, topic, booting, timer>>

Recover ==
    /\ At("refresh", "recover")
    /\ topic' = topic + 1
    /\ alive' = TRUE
    /\ Goto("refresh", "discard")
    /\ UNCHANGED <<plan, left, rows, instructed, clock, updates, source, copies, sent,
                   booting, timer>>

\* Invalid responses went with the topic.
Discard ==
    /\ At("refresh", "discard")
    /\ timer' = [r \in Responses |-> NoTimer]
    /\ rows' = [r \in Responses |-> IF rows[r].state = "pending" THEN NoRow ELSE rows[r]]
    /\ Goto("refresh", "instruct")
    /\ UNCHANGED <<plan, left, instructed, clock, updates, telegram, topic, booting>>

\* If the new topic is gone, too, the code goes on in the next round.
Instruct ==
    /\ At("refresh", "instruct")
    /\ IF alive
       THEN ToCleanup(TRUE) /\ instructed' = topic
       ELSE Goto("refresh", "recover") /\ UNCHANGED instructed
    /\ UNCHANGED <<plan, left, rows, clock, updates, telegram, topic, booting, timer>>

Cleanup ==
    /\ At("refresh", "cleanup")
    /\ \/ \E r \in task.refresh.todo :
            /\ rows' = [rows EXCEPT ![r].published = 0]
            /\ copies' = IF task.refresh.replaced THEN copies ELSE Without(rows[r].published)
            /\ task' = [task EXCEPT !["refresh"].todo = @ \ {r}]
       \/ /\ task.refresh.todo = {}
          /\ task' = [task EXCEPT !["refresh"].at = "restore",
                                  !["refresh"].todo = {r \in Responses : rows[r].state = "valid"}]
          /\ UNCHANGED <<rows, copies>>
    /\ UNCHANGED <<plan, left, instructed, clock, updates, source, sent, alive, topic, booting,
                   timer>>

\* A response whose copy was published and completed is looked at again only
\* in the first round after a start, or when the topic was replaced.
LooksComplete(row) == row.published # 0 /\ row.current /\ ~ row.warning

Restore ==
    /\ At("refresh", "restore")
    /\ \E r \in task.refresh.todo :
        /\ \A q \in task.refresh.todo : r <= q
        /\ RecordFree(r)
        /\ IF \/ rows[r].state # "valid"
              \/ ~ task.refresh.replaced /\ ~ booting /\ LooksComplete(rows[r])
           THEN task' = [task EXCEPT !["refresh"].todo = @ \ {r}]
           ELSE StartPublish("refresh", r, task.refresh.replaced, booting)
    /\ UNCHANGED <<plan, left, rows, instructed, clock, updates, telegram, topic, booting, timer>>

\* The end of a round; at startup restore_pending_quick_response_expirations.
EndRound ==
    /\ At("refresh", "restore")
    /\ task.refresh.todo = {}
    /\ task' = [task EXCEPT !["refresh"] = Idle]
    /\ booting' = FALSE
    /\ timer' = IF booting
                THEN [r \in Responses |-> IF rows[r].state = "pending"
                                          THEN [at |-> "wait", deadline |-> rows[r].deadline]
                                          ELSE NoTimer]
                ELSE timer
    /\ UNCHANGED <<plan, left, rows, instructed, clock, updates, telegram, topic>>

-----------------------------------------------------------------------------
(* A call of Telegram fails.                                                *)

CallFails(t) ==
    /\ task[t].at \in {"edit", "send", "withdraw", "warn", "erase",
                       "start", "probe", "recover", "instruct"}
    /\ Spend("failures")
    /\ Raise(t)
    /\ UNCHANGED <<plan, rows, instructed, clock, telegram, topic, booting, timer>>

\* The copy is published, its number is not learnt.
AnswerLost(t) ==
    /\ At(t, "send")
    /\ alive
    /\ Spend("failures")
    /\ sent' = sent + 1
    /\ copies' = copies \union {[id |-> sent + 1, r |-> task[t].r]}
    /\ Raise(t)
    /\ UNCHANGED <<plan, rows, instructed, clock, source, alive, topic, booting, timer>>

\* "quick response source cleanup is incomplete"
CleanFails(t) ==
    /\ At(t, "clean")
    /\ Spend("failures")
    /\ Raise(t)
    /\ \/ UNCHANGED <<source, rows>>
       \/ /\ source' = [source EXCEPT ![task[t].r] = Gone(@)]
          /\ rows[task[t].r].warning
          /\ UNCHANGED rows
    /\ UNCHANGED <<plan, instructed, clock, copies, sent, alive, topic, booting, timer>>

\* The tombstone stands; the refresh removes the copy.
EraseFails ==
    /\ At("ingress", "erase")
    /\ Spend("failures")
    /\ Goto("ingress", "finish")
    /\ UNCHANGED <<plan, rows, instructed, clock, updates, telegram, topic, booting, timer>>

RemoveFails(r) ==
    /\ timer[r].at = "remove"
    /\ Spend("failures")
    /\ timer' = [timer EXCEPT ![r].at = "wait"]
    /\ UNCHANGED <<plan, rows, instructed, clock, updates, telegram, topic, booting, task>>

-----------------------------------------------------------------------------

Publish(t) == Edit(t) \/ SendCopy(t) \/ Record(t) \/ Clean(t) \/ Complete(t)

Ingress ==
    \/ Publish("ingress") \/ Begin \/ Finish \/ LockRecord \/ Withdraw \/ SavePending \/ Warn
    \/ Erase \/ ClearPublication

Refresh ==
    \/ Publish("refresh") \/ Start \/ Tick \/ Probe \/ Recover \/ Discard \/ Instruct
    \/ Cleanup \/ Restore \/ EndRound

Expire(r) == Wake(r) \/ RemoveSource(r) \/ DropRow(r)

Next ==
    \/ Arrive \/ RemoveByHand \/ DeleteTopic \/ Crash
    \/ Ingress \/ Refresh \/ EraseFails
    \/ \E r \in Responses : Expire(r) \/ RemoveFails(r)
    \/ \E t \in Tasks : CallFails(t) \/ AnswerLost(t) \/ CleanFails(t)

Spec == Init /\ [][Next]_vars

\* The loops of both workers and the expiration tasks keep running.
Fairness ==
    /\ WF_vars(Ingress)
    /\ WF_vars(Refresh)
    /\ \A r \in Responses : WF_vars(Expire(r))

FairSpec == Spec /\ Fairness

-----------------------------------------------------------------------------
(* Properties.                                                              *)

TypeOK ==
    /\ \A r \in Responses :
        /\ rows[r].state \in {"none", "valid", "pending", "deleted"}
        /\ rows[r].published \in 0..sent
        /\ rows[r].deadline \in 0..clock
        /\ rows[r].state = "pending" <=> rows[r].deadline # 0
        /\ source[r] \in {"unsent", "there", "gone"}
        /\ timer[r].at \in {"none", "wait", "remove", "drop"}
    /\ \A c \in copies : c.id \in 1..sent /\ c.r \in Responses
    /\ handled \in 0..Len(inbox)
    /\ instructed \in 0..topic

\* docs/TECHNICAL.md:112-114: one canonical message for each response.  Handler and
\* refresh never publish two unless the answer to a call was lost or the topic
\* replaced: a message handled while it is being replaced is published twice.
OneCopy ==
    plan.failures = 0 /\ plan.crashes = 0 /\ plan.topics = 0
        => \A r \in Responses : Cardinality(CopiesOf(r)) <= 1

MayGiveUp == plan.failures + plan.crashes >= MaxAttempts

\* docs/TECHNICAL.md:114-115: the bot removes the message of an operator only when
\* the copy is there, whichever of handler, refresh and expiration does it.  When
\* a message was given up, the next edit may reject it, which withdraws the copy
\* under another lock, while the refresh still removes the message.
CopyBeforeCleanup ==
    [][\A r \in Responses :
        (/\ ~ MayGiveUp
         /\ source[r] = "there"
         /\ source'[r] = "gone"
         /\ rows[r].state = "valid"
         /\ alive'
         /\ left'.hands = plan.hands) => CopiesOf(r) # {}]_vars

\* docs/TECHNICAL.md:128-130: a response that was deleted by its button never comes
\* back, whatever is replayed, refreshed or restored into a new topic.
TombstoneHolds ==
    [][\A r \in Responses :
        rows[r].state = "deleted" =>
            /\ rows'[r].state = "deleted"
            /\ {c \in copies' : c.r = r} \subseteq copies]_vars

Shown(r) == \E c \in copies : c.id = rows[r].published

\* docs/TECHNICAL.md:103-105, 112-122: a valid response gets its copy, a message that stays
\* invalid is removed at its deadline, the copy of a deleted response goes.  The
\* first does not hold when somebody removes the copy by hand, nor when a call
\* fails while the refresh restores the copies of a deleted topic: the next rounds
\* take the responses it did not come to for complete, until a restart.
Settles ==
    \A r \in Responses :
        /\ rows[r].state = "valid"
                ~> \/ Shown(r)
                   \/ rows[r].state # "valid"
                   \/ plan.hands # 0
                   \/ plan.failures # 0 /\ plan.topics # 0
        /\ rows[r].state = "pending" /\ source[r] = "there"
                ~> rows[r].state # "pending" \/ source[r] # "there" \/ MayGiveUp
        /\ rows[r].state = "deleted" ~> ~ Shown(r)

=============================================================================
