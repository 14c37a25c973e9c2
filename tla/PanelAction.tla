----------------------------- MODULE PanelAction -----------------------------
(***************************************************************************)
(* Operator actions on the Remnawave panel: /gift, /revokelink, /resetkey   *)
(* and /resetdevices.  The panel has no idempotency keys, so an action is   *)
(* sent at most once and its outcome, when the answer is lost, is read back *)
(* from the panel by the reconciliation worker or decided by an             *)
(* administrator with /resolvepanel.                                        *)
(*                                                                         *)
(* Commands come from the Telegram ingress, which carries out one update at *)
(* a time; the reconciliation worker and the notification webhook worker    *)
(* run beside it.  Rows (action, job, event) survive a crash, the progress  *)
(* of the three (command, run, post) does not.                              *)
(***************************************************************************)
EXTENDS Integers, FiniteSets

CONSTANTS
    Tickets,
    Actions,            \* commands the operators may give, by idempotency key
    TicketOf,           \* the ticket whose topic a command was sent to
    Scenarios,          \* the commands in use, and bounds on what disturbs them
    ReconcileAttempts,  \* RECONCILE_ATTEMPTS
    MaxAttempts,        \* MAX_RECONCILIATION_ATTEMPTS
    MaxPosts,           \* NOTIFICATION_WEBHOOK_MAX_ATTEMPTS
    Neglect             \* TRUE: unresolved rows may outlive the retention period

AllKinds == {"gift", "link", "key", "devices"}

ASSUME PanelAssumption ==
    /\ TicketOf \in [Actions -> Tickets]
    /\ \A s \in Scenarios : /\ s.kind \in [Actions -> AllKinds]
                            /\ s.faults \in Nat
                            /\ s.others \in Nat
    /\ ReconcileAttempts \in Nat \ {0}
    /\ MaxAttempts \in Nat
    /\ MaxAttempts >= ReconcileAttempts
    /\ MaxPosts \in Nat \ {0}
    /\ IsFiniteSet(Actions) /\ IsFiniteSet(Tickets)
    /\ Actions \intersect Tickets = {}
    /\ Neglect \in BOOLEAN

\* A remnawave job belongs to an action, the telegram_topic job to its ticket.
Jobs == Actions \union Tickets

VARIABLES
    \* operator_actions
    kind,
    result,
    verdict,    \* who settled it: the answer, the panel read later, or a person
    before,     \* the value the panel showed before the mutation
    \* reconciliation_outbox and notification_outbox
    job,
    event,
    notices,    \* messages to the customer queued about the action
    \* the panel
    request,    \* the mutation of the action
    issued,     \* the value the panel answered with
    panel,      \* what the panel shows, for each customer and kind
    \* the three processes
    command,
    run,
    post,
    seen,       \* value of the panel read by the process at work on the action
    faults,     \* bound: crashes and failed transactions still to come
    others,     \* bound: changes others make in panel or ticket, and purges
    \* history
    drift       \* by how much anybody else has moved the date since a gift read it:
                \* up to now, and when the worker last read it back

rows == <<kind, result, verdict, before, job, event, notices>>
vars == <<rows, request, issued, panel, command, run, post, seen, faults, others, drift>>

Unresolved == {"started", "unknown"}
Results == {"none", "started", "unknown", "completed", "not_applied", "failed"}
Verdicts == {"none", "answer", "panel", "inconclusive", "person"}
JobStatuses == {"none", "pending", "processing", "delivered", "failed", "gone"}
EventStatuses == JobStatuses \union {"awaiting", "cancelled"}
Requests == {"unsent", "flying", "landed", "dropped"}
Commands == {"idle", "lookup", "evidence", "send", "wait", "applied", "not_applied"}
Runs == {"idle", "begin", "look", "applied", "not_applied", "inconclusive",
         "finish", "retry"}
Posts == {"idle", "post"}

TypeOK ==
    /\ kind \in [Actions -> AllKinds]
    /\ result \in [Actions -> Results]
    /\ verdict \in [Actions -> Verdicts]
    /\ before \in [Actions -> Nat]
    /\ job \in [Jobs -> [status : JobStatuses, attempts : Nat, rank : Nat]]
    /\ event \in [Actions -> [status : EventStatuses, attempts : Nat,
                              rank : Nat, told : Nat]]
    /\ notices \in [Actions -> Nat]
    /\ request \in [Actions -> Requests]
    /\ issued \in [Actions -> Nat]
    /\ panel \in [Tickets -> [AllKinds -> Nat]]
    /\ command \in [Actions -> Commands]
    /\ run \in [Jobs -> Runs]
    /\ post \in [Actions -> Posts]
    /\ seen \in [Actions -> Nat]
    /\ faults \in Nat
    /\ others \in Nat
    /\ drift \in [Actions -> [now : Int, read : Int]]

\* The customer has one registered device; dates and versions start at 1.
Init ==
    /\ \E s \in Scenarios : kind = s.kind /\ faults = s.faults /\ others = s.others
    /\ result = [a \in Actions |-> "none"]
    /\ verdict = [a \in Actions |-> "none"]
    /\ before = [a \in Actions |-> 0]
    /\ job = [j \in Jobs |-> [status |-> "none", attempts |-> 0, rank |-> 0]]
    /\ event = [a \in Actions |->
                  [status |-> "none", attempts |-> 0, rank |-> 0, told |-> 0]]
    /\ notices = [a \in Actions |-> 0]
    /\ request = [a \in Actions |-> "unsent"]
    /\ issued = [a \in Actions |-> 0]
    /\ panel = [t \in Tickets |-> [k \in AllKinds |-> 1]]
    /\ command = [a \in Actions |-> "idle"]
    /\ run = [j \in Jobs |-> "idle"]
    /\ post = [a \in Actions |-> "idle"]
    /\ seen = [a \in Actions |-> 0]
    /\ drift = [a \in Actions |-> [now |-> 0, read |-> 0]]

TicketOfJob(j) == IF j \in Actions THEN TicketOf[j] ELSE j
Ranked(table, S) == Cardinality({x \in S : table[x].rank # 0})
Shown(a) == panel[TicketOf[a]][kind[a]]
-----------------------------------------------------------------------------
(***************************************************************************)
(* The panel, as seen by RemnawaveClient.  A request whose answer is lost   *)
(* may still land.                                                          *)
(***************************************************************************)
AfterMutation(k, value) ==
    CASE k = "gift" -> value + 1
      [] k \in {"link", "key"} -> value + 1
      [] k = "devices" -> 0

\* The date of a ticket has moved under the gifts that compare it.
Drifted(t, by) ==
    [b \in Actions |->
        IF TicketOf[b] = t /\ kind[b] = "gift" /\ result[b] \in Unresolved
        THEN [drift[b] EXCEPT !.now = @ + by] ELSE drift[b]]

\* A gift that was settled before it landed is somebody else's change to the next.
Land(a) ==
    /\ request[a] = "flying"
    /\ request' = [request EXCEPT ![a] = "landed"]
    /\ issued' = [issued EXCEPT ![a] = AfterMutation(kind[a], Shown(a))]
    /\ panel' = [panel EXCEPT ![TicketOf[a]][kind[a]] = issued'[a]]
    /\ drift' = IF kind[a] = "gift" /\ result[a] \notin Unresolved
                THEN Drifted(TicketOf[a], 1) ELSE drift
    /\ UNCHANGED <<rows, command, run, post, seen, faults, others>>

Drop(a) ==
    /\ request[a] = "flying"
    /\ request' = [request EXCEPT ![a] = "dropped"]
    /\ UNCHANGED <<rows, issued, panel, command, run, post, seen, faults, others, drift>>

\* A payment prolongs the subscription, by the length of a gift or another, or somebody
\* shortens it; the customer reissues link or keys, adds or removes devices.
OtherValues(k, value) ==
    CASE k = "gift" -> 1..(value + 2) \ {value}
      [] k \in {"link", "key"} -> {value + 1}
      [] k = "devices" -> {0, 1}

OtherChange(t, k) ==
    /\ others > 0
    /\ \E value \in OtherValues(k, panel[t][k]) :
        /\ panel' = [panel EXCEPT ![t][k] = value]
        /\ drift' = IF k = "gift" THEN Drifted(t, value - panel[t][k]) ELSE drift
    /\ others' = others - 1
    /\ UNCHANGED <<rows, request, issued, command, run, post, seen, faults>>
-----------------------------------------------------------------------------
(***************************************************************************)
(* The command: PanelReconciliationService._run_ticket_action.              *)
(***************************************************************************)
IngressFree == \A a \in Actions : command[a] = "idle"

\* Mutant: an update carried out again sends the command again.
ReservableAgain(a) ==
    \A b \in Actions : TicketOf[b] = TicketOf[a] => result[b] \notin Unresolved

\* Mutant: only the key is looked up, and no index guards the ticket.
ReservableBusy(a) == result[a] = "none"

\* The key was never used and no action of the ticket is unresolved; the unique
\* index over unresolved actions repeats the second condition.
Reservable(a) ==
    /\ result[a] = "none"
    /\ \A b \in Actions : TicketOf[b] = TicketOf[a] => result[b] \notin Unresolved

\* The action and, for a new link, the event whose payload is still awaited.
Reserve(a) ==
    /\ IngressFree
    /\ Reservable(a)
    /\ command' = [command EXCEPT ![a] = "lookup"]
    /\ result' = [result EXCEPT ![a] = "started"]
    /\ event' = IF kind[a] = "link"
                THEN [event EXCEPT ![a].status = "awaiting",
                                   ![a].rank = Ranked(event, Actions) + 1]
                ELSE event
    /\ UNCHANGED <<kind, verdict, before, job, notices, request, issued, panel,
                   run, post, seen, faults, others, drift>>

\* Mutant: the event of an action that failed is left waiting for its payload.
FailKeepsEvent(a) ==
    /\ result' = [result EXCEPT ![a] = "failed"]
    /\ verdict' = [verdict EXCEPT ![a] = "answer"]
    /\ UNCHANGED event

\* _finish_action with a status that is neither completed nor unknown.
Fail(a) ==
    /\ result' = [result EXCEPT ![a] = "failed"]
    /\ verdict' = [verdict EXCEPT ![a] = "answer"]
    /\ event' = IF kind[a] = "link"
                THEN [event EXCEPT ![a].status = "cancelled"] ELSE event

\* get_subscription_for_ticket, _refresh_reserved_identity and
\* _prepare_revoke_intent: the value before the mutation is known.
Lookup(a) ==
    /\ command[a] = "lookup"
    /\ before' = [before EXCEPT ![a] = Shown(a)]
    /\ drift' = [drift EXCEPT ![a].now = 0]
    /\ command' = [command EXCEPT ![a] = "evidence"]
    /\ UNCHANGED <<kind, result, verdict, job, event, notices, request, issued,
                   panel, run, post, seen, faults, others>>

\* The panel does not know the customer or cannot be read.
LookupFails(a) ==
    /\ command[a] = "lookup"
    /\ Fail(a)
    /\ command' = [command EXCEPT ![a] = "idle"]
    /\ UNCHANGED <<kind, before, job, notices, request, issued, panel, run, post,
                   seen, faults, others, drift>>

\* Mutant: the command goes on to the mutation without its job.
QueueEvidenceLater(a) ==
    /\ command[a] = "evidence"
    /\ command' = [command EXCEPT ![a] = "send"]
    /\ UNCHANGED <<rows, request, issued, panel, run, post, seen, faults, others, drift>>

\* _queue_durable_reconciliation: the job is committed before the mutation.
QueueEvidence(a) ==
    /\ command[a] = "evidence"
    /\ job' = [job EXCEPT ![a] = [status |-> "pending", attempts |-> 0,
                                  rank |-> Ranked(job, Jobs) + 1]]
    /\ command' = [command EXCEPT ![a] = "send"]
    /\ UNCHANGED <<kind, result, verdict, before, event, notices, request, issued,
                   panel, run, post, seen, faults, others, drift>>

Mutate(a) ==
    /\ command[a] = "send"
    /\ request' = [request EXCEPT ![a] = "flying"]
    /\ command' = [command EXCEPT ![a] = "wait"]
    /\ UNCHANGED <<rows, issued, panel, run, post, seen, faults, others, drift>>

\* _fill_revoke_notification: the event gets the link and may be claimed.
FilledEvent(a, link) ==
    [event EXCEPT ![a].status = "pending", ![a].told = link]

\* A blocked customer, and a Telegram customer when the flag
\* revoke_link_telegram_notification is off, is not written to.
MayNotify(a) ==
    \/ UNCHANGED notices
    \/ notices' = [notices EXCEPT ![a] = @ + 1]

\* A valid success answer: _complete_gift_with_notification,
\* _complete_revoke_with_notification or _finish_action.
RecordCompleted(a) ==
    /\ command[a] = "wait"
    /\ request[a] = "landed"
    /\ result' = [result EXCEPT ![a] = "completed"]
    /\ verdict' = [verdict EXCEPT ![a] = "answer"]
    /\ event' = IF kind[a] = "link" THEN FilledEvent(a, issued[a]) ELSE event
    /\ IF kind[a] \in {"gift", "link"} THEN MayNotify(a) ELSE UNCHANGED notices
    /\ command' = [command EXCEPT ![a] = "idle"]
    /\ UNCHANGED <<kind, before, job, request, issued, panel, run, post, seen,
                   faults, others, drift>>

\* The panel refused: 400, 401, 403, 404, 429 or another 4xx.
RecordFailed(a) ==
    /\ command[a] = "wait"
    /\ request[a] = "dropped"
    /\ Fail(a)
    /\ command' = [command EXCEPT ![a] = "idle"]
    /\ UNCHANGED <<kind, before, job, notices, request, issued, panel, run, post,
                   seen, faults, others, drift>>

\* Timeout, broken connection, 5xx or a malformed answer.
RecordUnknown(a) ==
    /\ command[a] = "wait"
    /\ result' = [result EXCEPT ![a] = "unknown"]
    /\ command' = [command EXCEPT ![a] = "idle"]
    /\ UNCHANGED <<kind, verdict, before, job, event, notices, request, issued,
                   panel, run, post, seen, faults, others, drift>>

\* A transaction of the command fails: the handler raises, and the update,
\* carried out again, finds its key used.
Abandon(a) ==
    /\ command[a] # "idle"
    /\ faults > 0
    /\ faults' = faults - 1
    /\ command' = [command EXCEPT ![a] = "idle"]
    /\ seen' = [seen EXCEPT ![a] = 0]
    /\ UNCHANGED <<rows, request, issued, panel, run, post, others, drift>>
-----------------------------------------------------------------------------
(***************************************************************************)
(* /resolvepanel: resolve_inconclusive_action.                              *)
(***************************************************************************)
\* First transaction and, for a link said to be applied, the read of the panel.
CheckResolution(a, resolution) ==
    /\ IngressFree
    /\ result[a] = "unknown"
    /\ verdict[a] = "inconclusive"
    /\ kind[a] = "link" /\ resolution = "applied" =>
           /\ event[a].status = "awaiting"
           /\ Shown(a) # before[a]
    /\ seen' = [seen EXCEPT ![a] = IF kind[a] = "link" THEN Shown(a) ELSE 0]
    /\ command' = [command EXCEPT ![a] = resolution]
    /\ UNCHANGED <<rows, request, issued, panel, run, post, faults, others, drift>>

\* Second transaction; without the awaited event it is rolled back.
CommitResolution(a) ==
    /\ command[a] \in {"applied", "not_applied"}
    /\ IF result[a] = "unknown"
          /\ (kind[a] = "link" => event[a].status = "awaiting")
       THEN /\ result' = [result EXCEPT ![a] =
                  IF command[a] = "applied" THEN "completed" ELSE "not_applied"]
            /\ verdict' = [verdict EXCEPT ![a] = "person"]
            /\ event' =
                 IF kind[a] # "link" THEN event
                 ELSE IF command[a] = "applied" THEN FilledEvent(a, seen[a])
                 ELSE [event EXCEPT ![a].status = "cancelled"]
            /\ IF kind[a] = "link" /\ command[a] = "applied"
               THEN MayNotify(a) ELSE UNCHANGED notices
       ELSE UNCHANGED <<result, verdict, event, notices>>
    /\ command' = [command EXCEPT ![a] = "idle"]
    /\ seen' = [seen EXCEPT ![a] = 0]
    /\ UNCHANGED <<kind, before, job, request, issued, panel, run, post, faults,
                   others, drift>>
-----------------------------------------------------------------------------
(***************************************************************************)
(* The reconciliation queue and its worker.                                 *)
(***************************************************************************)
\* Another operation asks for a reconciliation of the topic of the ticket.
EnqueueTopicJob(t) ==
    /\ others > 0
    /\ others' = others - 1
    /\ job' = [job EXCEPT ![t] =
                 [status |-> "pending", attempts |-> 0,
                  rank |-> IF job[t].rank = 0 THEN Ranked(job, Jobs) + 1 ELSE @.rank]]
    /\ UNCHANGED <<kind, result, verdict, before, event, notices, request, issued,
                   panel, command, run, post, seen, faults, drift>>

WorkerFree == \A j \in Jobs : run[j] = "idle"

\* Mutant: a job that was given up holds back the later ones of its ticket.
ClaimableNeverAfterFailed(j) ==
    /\ job[j].status = "pending"
    /\ j \in Actions => result[j] # "started"
    /\ \A i \in Jobs :
         TicketOfJob(i) = TicketOfJob(j) /\ job[i].status \in {"pending", "processing", "failed"}
         => job[i].rank >= job[j].rank

\* claim_reconciliations: no earlier unfinished job of the ticket, and no job of
\* an action whose command may still be at work.
Claimable(j) ==
    /\ job[j].status = "pending"
    /\ j \in Actions => result[j] # "started"
    /\ \A i \in Jobs :
         TicketOfJob(i) = TicketOfJob(j) /\ job[i].status \in {"pending", "processing"}
         => job[i].rank >= job[j].rank

ClaimJobs ==
    /\ WorkerFree
    /\ \E S \in (SUBSET {j \in Jobs : Claimable(j)}) \ {{}} :
         /\ job' = [j \in Jobs |->
                      IF j \in S THEN [job[j] EXCEPT !.status = "processing",
                                                     !.attempts = @ + 1]
                      ELSE job[j]]
         /\ run' = [j \in Jobs |-> IF j \in S THEN "begin" ELSE run[j]]
    /\ UNCHANGED <<kind, result, verdict, before, event, notices, request, issued,
                   panel, command, post, seen, faults, others, drift>>

\* The job of a topic: its work is the subject of TopicProvisioning.
WorkOnTopic(t) ==
    /\ run[t] = "begin"
    /\ \E outcome \in {"finish", "retry"} : run' = [run EXCEPT ![t] = outcome]
    /\ UNCHANGED <<rows, request, issued, panel, command, post, seen, faults, others, drift>>

\* reconcile_durable_action, first transaction: a settled action needs nothing,
\* one whose command is at work (claim_reconciliations leaves none) comes later.
BeginJob(a) ==
    /\ run[a] = "begin"
    /\ run' = [run EXCEPT ![a] =
                 IF result[a] = "started" THEN "retry"
                 ELSE IF result[a] = "unknown" /\ verdict[a] # "inconclusive" THEN "look"
                 ELSE "finish"]
    /\ UNCHANGED <<rows, request, issued, panel, command, post, seen, faults, others, drift>>

\* Mutant: a change by somebody else is recorded under the name of the result.
OutcomeUnknown(k, old, new) ==
    IF new # old THEN IF k = "gift" /\ new # old + 1 THEN "unknown" ELSE "applied"
    ELSE "not_applied"

\* What the panel shows, compared with what it showed before.
Outcome(k, old, new) ==
    CASE k = "gift" -> IF new = AfterMutation(k, old) THEN "applied"
                       ELSE IF new = old THEN "not_applied" ELSE "inconclusive"
      [] k \in {"link", "key"} -> IF new # old THEN "applied" ELSE "not_applied"
      [] k = "devices" -> IF new = 0 THEN "applied" ELSE "inconclusive"

\* The change has not been seen yet, and there are attempts left to see it.
LooksAgain(a, outcome) ==
    outcome # "applied" /\ job[a].attempts < ReconcileAttempts

\* By the last of the attempts, many seconds after the request timed out, the
\* panel has carried the request out or will not.
Look(a) ==
    /\ run[a] = "look"
    /\ job[a].attempts >= ReconcileAttempts => request[a] # "flying"
    /\ LET outcome == Outcome(kind[a], before[a], Shown(a)) IN
         IF LooksAgain(a, outcome)
         THEN run' = [run EXCEPT ![a] = "retry"] /\ UNCHANGED seen
         ELSE run' = [run EXCEPT ![a] = outcome] /\ seen' = [seen EXCEPT ![a] = Shown(a)]
    /\ drift' = [drift EXCEPT ![a].read = drift[a].now]
    /\ UNCHANGED <<rows, request, issued, panel, command, post, faults, others>>

\* The panel cannot be read: the last attempt ends inconclusive.
LookFails(a) ==
    /\ run[a] = "look"
    /\ job[a].attempts >= ReconcileAttempts => request[a] # "flying"
    /\ run' = [run EXCEPT ![a] =
                 IF job[a].attempts < MaxAttempts THEN "retry" ELSE "inconclusive"]
    /\ UNCHANGED <<rows, request, issued, panel, command, post, seen, faults, others, drift>>

\* The event follows the outcome, if its row still exists.
SettleEvent(a) ==
    IF kind[a] # "link" \/ event[a].status = "gone" THEN event
    ELSE CASE run[a] = "applied" -> FilledEvent(a, seen[a])
           [] run[a] = "not_applied" -> [event EXCEPT ![a].status = "cancelled"]
           [] run[a] = "inconclusive" -> event

\* Second transaction: first writer wins.  The notice to the operators that is
\* queued with it is the unserialized row of DeliveryOutbox.
WriteOutcome(a) ==
    /\ run[a] \in {"applied", "not_applied", "inconclusive"}
    /\ IF result[a] = "unknown"
       THEN /\ result' = [result EXCEPT ![a] =
                  CASE run[a] = "applied" -> "completed"
                    [] run[a] = "not_applied" -> "not_applied"
                    [] run[a] = "inconclusive" -> "unknown"]
            /\ verdict' = [verdict EXCEPT ![a] =
                  IF run[a] = "inconclusive" THEN "inconclusive" ELSE "panel"]
            /\ event' = SettleEvent(a)
            /\ IF /\ run[a] = "applied"
                  /\ \/ kind[a] = "gift"
                     \/ kind[a] = "link" /\ event[a].status # "gone"
               THEN MayNotify(a) ELSE UNCHANGED notices
       ELSE UNCHANGED <<result, verdict, event, notices>>
    /\ run' = [run EXCEPT ![a] = "finish"]
    /\ seen' = [seen EXCEPT ![a] = 0]
    /\ UNCHANGED <<kind, before, job, request, issued, panel, command, post,
                   faults, others, drift>>

WriteFails(a) ==
    /\ run[a] \in {"applied", "not_applied", "inconclusive"}
    /\ faults > 0
    /\ faults' = faults - 1
    /\ run' = [run EXCEPT ![a] = "retry"]
    /\ seen' = [seen EXCEPT ![a] = 0]
    /\ UNCHANGED <<rows, request, issued, panel, command, post, others, drift>>

\* finish_reconciliation; a job queued again meanwhile keeps its new state.
FinishJob(j) ==
    /\ run[j] = "finish"
    /\ job' = IF job[j].status = "processing"
              THEN [job EXCEPT ![j].status = "delivered"] ELSE job
    /\ run' = [run EXCEPT ![j] = "idle"]
    /\ UNCHANGED <<kind, result, verdict, before, event, notices, request, issued,
                   panel, command, post, seen, faults, others, drift>>

AfterRetry(attempts, limit) == IF attempts >= limit THEN "failed" ELSE "pending"

RetryJob(j) ==
    /\ run[j] = "retry"
    /\ job' = IF job[j].status = "processing"
              THEN [job EXCEPT ![j].status = AfterRetry(job[j].attempts, MaxAttempts)] ELSE job
    /\ run' = [run EXCEPT ![j] = "idle"]
    /\ UNCHANGED <<kind, result, verdict, before, event, notices, request, issued,
                   panel, command, post, seen, faults, others, drift>>

\* release_stale_reconciliations, between two batches.
ReleaseStaleJob(j) ==
    /\ WorkerFree
    /\ job[j].status = "processing"
    /\ job' = [job EXCEPT ![j].status = "pending"]
    /\ UNCHANGED <<kind, result, verdict, before, event, notices, request, issued,
                   panel, command, run, post, seen, faults, others, drift>>
-----------------------------------------------------------------------------
(***************************************************************************)
(* The notification webhook: NotificationWebhookWorker and its queue.       *)
(***************************************************************************)
Queued == {"pending", "processing"}

\* Mutant: only an event that is being posted holds back the later ones.
NoEarlierEventPosting(a) ==
    \A b \in Actions :
        TicketOf[b] = TicketOf[a] /\ event[b].status = "processing"
        => event[b].rank >= event[a].rank

\* Mutant: an event that was given up holds back the later ones.
NoEarlierEventFailed(a) ==
    \A b \in Actions :
        TicketOf[b] = TicketOf[a] /\ event[b].status \in Queued \union {"failed"}
        => event[b].rank >= event[a].rank

\* No earlier event of the ticket is queued; one that awaits its payload is not.
NoEarlierEvent(a) ==
    \A b \in Actions :
        TicketOf[b] = TicketOf[a] /\ event[b].status \in Queued
        => event[b].rank >= event[a].rank

ClaimEvents ==
    /\ \A a \in Actions : post[a] = "idle"
    /\ \E S \in (SUBSET {a \in Actions : event[a].status = "pending"
                                           /\ NoEarlierEvent(a)}) \ {{}} :
         /\ event' = [a \in Actions |->
                        IF a \in S THEN [event[a] EXCEPT !.status = "processing",
                                                         !.attempts = @ + 1]
                        ELSE event[a]]
         /\ post' = [a \in Actions |-> IF a \in S THEN "post" ELSE post[a]]
    /\ UNCHANGED <<kind, result, verdict, before, job, notices, request, issued,
                   panel, command, run, seen, faults, others, drift>>

\* _deliver and the record of its answer (mark_notification_delivered, _retry,
\* _failed): 2xx; a broken connection, 5xx, 408, 409, 425 or 429; any other status.
PostEvent(a) ==
    /\ post[a] = "post"
    /\ \E answer \in {"accepted", "retry", "rejected"} :
         event' = IF event[a].status # "processing" THEN event
                  ELSE [event EXCEPT ![a].status =
                          CASE answer = "accepted" -> "delivered"
                            [] answer = "rejected" -> "failed"
                            [] answer = "retry" -> AfterRetry(event[a].attempts, MaxPosts)]
    /\ post' = [post EXCEPT ![a] = "idle"]
    /\ UNCHANGED <<kind, result, verdict, before, job, notices, request, issued,
                   panel, command, run, seen, faults, others, drift>>

ReleaseStaleEvent(a) ==
    /\ \A b \in Actions : post[b] = "idle"
    /\ event[a].status = "processing"
    /\ event' = [event EXCEPT ![a].status = "pending"]
    /\ UNCHANGED <<kind, result, verdict, before, job, notices, request, issued,
                   panel, command, run, post, seen, faults, others, drift>>
-----------------------------------------------------------------------------
(***************************************************************************)
(* Retention, crash and restart.                                            *)
(***************************************************************************)
\* Mutant: a job is removed by its age alone.
ExpirableEarly(status) == status \in {"delivered", "pending", "failed"}

Expirable(status) == status = "delivered"

\* Undelivered events older than the retention period.
Overdue == IF Neglect THEN {"awaiting", "pending"} ELSE {}

\* purge_expired_terminal_work, called by the ingress between two updates.
\* Events that are not delivered are cancelled and removed at once.
PurgeEvent(a) ==
    /\ IngressFree
    /\ others > 0
    /\ others' = others - 1
    /\ event[a].status \in {"delivered", "cancelled", "failed"} \union Overdue
    /\ event' = [event EXCEPT ![a].status = "gone"]
    /\ UNCHANGED <<kind, result, verdict, before, job, notices, request, issued,
                   panel, command, run, post, seen, faults, drift>>

PurgeJob(a) ==
    /\ IngressFree
    /\ others > 0
    /\ others' = others - 1
    /\ Expirable(job[a].status)
    /\ job' = [job EXCEPT ![a].status = "gone"]
    /\ UNCHANGED <<kind, result, verdict, before, event, notices, request, issued,
                   panel, command, run, post, seen, faults, drift>>

\* Mutant: every interrupted action is taken for one that was sent.
AllEvidence == {a \in Actions : result[a] = "started"}

\* Actions that had committed their job when the process stopped.
Evidenced == {a \in Actions : result[a] = "started"
                              /\ job[a].status \notin {"none", "gone"}}

\* The process stops at any point; recover_interrupted_actions runs before the
\* workers and the ingress start again.
Restart ==
    /\ faults > 0
    /\ faults' = faults - 1
    /\ LET interrupted == {a \in Actions : result[a] = "started"}
           harmless == interrupted \ Evidenced IN
         /\ result' = [a \in Actions |-> IF a \in harmless THEN "not_applied"
                                         ELSE IF a \in interrupted THEN "unknown"
                                         ELSE result[a]]
         /\ event' = [a \in Actions |->
                        IF a \in harmless /\ kind[a] = "link" /\ event[a].status # "gone"
                        THEN [event[a] EXCEPT !.status = "cancelled"] ELSE event[a]]
         /\ job' = [j \in Jobs |->
                      IF j \in interrupted \ harmless
                      THEN [job[j] EXCEPT !.status = "pending"] ELSE job[j]]
    /\ command' = [a \in Actions |-> "idle"]
    /\ run' = [j \in Jobs |-> "idle"]
    /\ post' = [a \in Actions |-> "idle"]
    /\ seen' = [a \in Actions |-> 0]
    /\ UNCHANGED <<kind, verdict, before, notices, request, issued, panel, others, drift>>
-----------------------------------------------------------------------------
PanelMoves ==
    \/ \E a \in Actions : Land(a) \/ Drop(a)
    \/ \E a \in Actions : OtherChange(TicketOf[a], kind[a])

CommandStep(a) ==
    \/ Lookup(a)
    \/ LookupFails(a)
    \/ QueueEvidence(a)
    \/ Mutate(a)
    \/ RecordCompleted(a)
    \/ RecordFailed(a)
    \/ RecordUnknown(a)
    \/ CommitResolution(a)

JobStep(a) ==
    \/ BeginJob(a)
    \/ Look(a)
    \/ LookFails(a)
    \/ WriteOutcome(a)

QueueStep(j) ==
    \/ FinishJob(j)
    \/ RetryJob(j)
    \/ ReleaseStaleJob(j)

WebhookStep(a) ==
    \/ PostEvent(a)
    \/ ReleaseStaleEvent(a)

Next ==
    \/ PanelMoves
    \/ \E a \in Actions : Reserve(a) \/ CommandStep(a) \/ Abandon(a)
    \/ \E a \in Actions : CheckResolution(a, "applied")
    \/ \E a \in Actions : CheckResolution(a, "not_applied")
    \/ \E t \in Tickets : EnqueueTopicJob(t) \/ WorkOnTopic(t)
    \/ ClaimJobs
    \/ \E a \in Actions : JobStep(a) \/ WriteFails(a)
    \/ \E j \in Jobs : QueueStep(j)
    \/ ClaimEvents
    \/ \E a \in Actions : WebhookStep(a) \/ PurgeEvent(a) \/ PurgeJob(a)
    \/ Restart

\* Both workers poll for ever, every call has a timeout, and the panel carries
\* a request out or drops it.  Nobody is obliged to give a command, to resolve
\* an action or to restart the process.
Fairness ==
    /\ \A a \in Actions :
         /\ WF_vars(Land(a) \/ Drop(a))
         /\ WF_vars(CommandStep(a))
         /\ WF_vars(JobStep(a))
         /\ WF_vars(WebhookStep(a))
    /\ \A t \in Tickets : WF_vars(WorkOnTopic(t))
    /\ \A j \in Jobs : WF_vars(QueueStep(j))
    /\ WF_vars(ClaimJobs)
    /\ WF_vars(ClaimEvents)

Spec == Init /\ [][Next]_vars
FairSpec == Spec /\ Fairness
-----------------------------------------------------------------------------
\* A command reaches the panel at most once, whatever is replayed, retried or
\* restarted (_reserve_action against _run_ticket_action).
SentOnce ==
    [][\A a \in Actions : request'[a] = "flying" => request[a] \in {"unsent", "flying"}]_vars

\* Somebody else moved the date by the very length of the gift, which the comparison
\* expire_at == expected (panel_reconciliation_service.py:619) cannot tell from the gift
\* itself, or took this length off.
MovedAlike(a) == kind[a] = "gift" /\ verdict[a] = "panel" /\ drift[a].read = 1
TakenBack(a) == kind[a] = "gift" /\ verdict[a] = "panel" /\ drift[a].read = -1

\* An action is recorded as not applied or failed by the program only if the
\* panel did not carry it out and will not (recover_interrupted_actions,
\* reconcile_durable_action, _finish_action): operators repeat such a command.
\* A gift that landed is called not applied only if its length was taken back.
NotAppliedIsTrue ==
    \A a \in Actions :
        result[a] \in {"not_applied", "failed"} /\ verdict[a] # "person"
        => request[a] \notin {"flying", "landed"} \/ TakenBack(a)

\* An action is recorded as completed only if the panel carried it out, or shows
\* at least another link or other keys than before (reset_devices excepted when
\* read back: an empty list is all that can be asked for).  A gift that was lost is
\* called completed only if all others together moved the date by its length, no more
\* and no less.  A person may be wrong about anything but the link, which the program
\* reads again.
CompletedIsTrue ==
    \A a \in Actions :
        result[a] = "completed" =>
            \/ request[a] = "landed"
            \/ MovedAlike(a)
            \/ kind[a] \in {"link", "key"} /\ verdict[a] # "answer" /\ Shown(a) # before[a]
            \/ kind[a] = "devices" /\ verdict[a] # "answer"
            \/ kind[a] # "link" /\ verdict[a] = "person"

\* While a gift is on its way no other command of the ticket has read the date it
\* starts from: no gift is compared with a date another one is about to change.
\* (What others brought about settles an action while the request may still be on its
\* way: a new link or an empty list, which is harmless, or a date moved by the length
\* of the gift, which leaves the next gift to be misjudged.)
GiftsDoNotOverlap ==
    \A a, b \in Actions :
        a # b /\ TicketOf[a] = TicketOf[b] /\ kind[a] = "gift" /\ request[a] = "flying"
        => command[b] \notin {"evidence", "send", "wait"} \/ MovedAlike(a)

\* The event that tells the owner the new link follows the action, whoever
\* settles it: awaited while the action is unresolved, dropped when nothing was
\* applied, sent with a link newer than the one before otherwise.
EventFollowsAction ==
    \A a \in Actions : kind[a] = "link" =>
        /\ result[a] \in Unresolved => event[a].status = "awaiting"
        /\ result[a] \in {"not_applied", "failed"} => event[a].status \in {"cancelled", "gone"}
        /\ result[a] = "completed" =>
               /\ event[a].status \in Queued \union {"delivered", "failed", "gone"}
               /\ event[a].told > before[a]
               /\ event[a].told <= Shown(a)

\* A customer is written to at most once about an action, and only when it is
\* completed, however the command, the worker and a person share the work.
OneNotice ==
    \A a \in Actions :
        /\ notices[a] <= 1
        /\ notices[a] = 1 => result[a] = "completed"

\* An event is posted only when no earlier event of the ticket can still be
\* posted, and with a newer link than all of them: the receiver never sees an
\* old link after a newer one, nor one link in the name of two actions.
WebhookInOrder ==
    [][\A a, b \in Actions :
         /\ post[a] = "post" /\ post'[a] # "post"
         /\ TicketOf[a] = TicketOf[b] /\ event[b].rank < event[a].rank
         => /\ event[b].status \notin Queued \union {"awaiting"}
            /\ event[b].told < event[a].told]_vars

\* What the documentation promises of an inconclusive action: an administrator
\* can settle it with /resolvepanel.  For a link both answers need the event.
ResolvableByHand ==
    \A a \in Actions :
        result[a] = "unknown" /\ verdict[a] = "inconclusive" /\ kind[a] = "link"
        => event[a].status = "awaiting"

\* An unknown outcome is settled, or handed to a person, unless a transaction
\* failed at the very last attempt (reconcile_durable_action, retry_reconciliation).
UnknownSettles ==
    \A a \in Actions :
        result[a] = "unknown" ~> \/ result[a] \notin Unresolved
                                 \/ verdict[a] = "inconclusive"
                                 \/ job[a].status = "failed"

\* The handler of an action died and nothing but a restart will settle it.
Orphaned(t) ==
    \E a \in Actions : TicketOf[a] = t /\ result[a] = "started" /\ command[a] = "idle"

\* The job of a topic waits behind the panel jobs of its ticket, but not for
\* ever, unless it waits for an orphaned action (claim_reconciliations).
TopicJobServed ==
    \A t \in Tickets : job[t].status = "pending" ~> run[t] # "idle" \/ Orphaned(t)

\* Every event with a payload is delivered or given up.
EventSettles ==
    \A a \in Actions : event[a].status \in Queued ~> event[a].status \notin Queued
=============================================================================
