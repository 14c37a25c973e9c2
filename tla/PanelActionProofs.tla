-------------------------- MODULE PanelActionProofs --------------------------
(***************************************************************************)
(* Theorems about PanelAction, for any tickets, commands, scenarios and      *)
(* numbers of attempts.                                                      *)
(*                                                                         *)
(* The panel has no idempotency keys, so everything rests on how far the     *)
(* command, the worker and the person may have come with an action whose     *)
(* row says this or that (Progress), on what the panel can show of links and *)
(* keys in the meantime (Values), and on what it can show of a date (Dates): *)
(* the date a gift has read, the gift once it has landed, and what everybody *)
(* else has moved the date by.                                               *)
(***************************************************************************)
EXTENDS PanelAction, TLAPS, FiniteSetTheorems

Handling == {"lookup", "evidence", "send", "wait"}
Resolving == {"applied", "not_applied"}
Reading == {"look", "applied", "not_applied", "inconclusive"}

\* No two actions of a ticket are unresolved.
Alone ==
    \A a, b \in Actions :
        /\ TicketOf[a] = TicketOf[b]
        /\ result[a] \in Unresolved
        /\ result[b] \in Unresolved
        => a = b

\* What the row of an action says of the processes at work on it.
Progress(a) ==
    /\ result[a] = "none" =>
        /\ request[a] = "unsent" /\ command[a] = "idle" /\ run[a] = "idle"
        /\ job[a].status = "none" /\ notices[a] = 0
    /\ result[a] = "started" =>
        /\ run[a] = "idle"
        /\ job[a].status \in {"none", "pending"}
        /\ request[a] # "unsent" => job[a].status = "pending"
    /\ verdict[a] = "inconclusive" \/ run[a] \in Reading => result[a] \notin {"none", "started"}
    /\ run[a] \in Reading => result[a] = "unknown" /\ verdict[a] # "inconclusive"
    /\ command[a] \in Handling => result[a] = "started"
    /\ command[a] \in {"lookup", "evidence", "send"} => request[a] = "unsent"
    /\ command[a] \in {"send", "wait"} => job[a].status = "pending"
    /\ command[a] \in Resolving => result[a] = "unknown" /\ verdict[a] = "inconclusive"
    /\ verdict[a] = "inconclusive" \/ run[a] \in {"not_applied", "inconclusive"}
           => request[a] # "flying"
    /\ notices[a] <= 1
    /\ notices[a] # 0 => result[a] = "completed"

\* A value that was read before the mutation; 0 is no date and no version.
Read(a) == kind[a] # "devices" /\ before[a] # 0

Newer(value, a) == before[a] < value /\ value <= Shown(a)

\* What the panel can show of an action.
Values(a) ==
    /\ result[a] = "none" => before[a] = 0
    /\ kind[a] # "devices" =>
        /\ 0 < Shown(a)
        /\ (\/ command[a] \in Handling \ {"lookup"}
            \/ result[a] = "unknown"
            \/ result[a] = "started" /\ job[a].status # "none") => Read(a)
    /\ kind[a] \in {"link", "key"} =>
        /\ before[a] <= Shown(a)
        /\ request[a] = "landed" => Newer(issued[a], a)
        /\ run[a] = "applied" => before[a] < Shown(a)
        /\ run[a] = "not_applied" => request[a] # "landed"
    /\ kind[a] = "link" =>
        /\ run[a] = "applied" => Newer(seen[a], a)
        /\ command[a] = "applied" => Newer(seen[a], a)
    /\ kind[a] = "devices" => run[a] # "not_applied"

\* What the gift itself has added to the date.
Added(a) == IF request[a] = "landed" THEN 1 ELSE 0

\* What the panel can show of the date a gift prolongs.
Dates(a) ==
    kind[a] = "gift" =>
        /\ result[a] \in Unresolved /\ Read(a) =>
               Shown(a) = before[a] + Added(a) + drift[a].now
        /\ request[a] = "flying" => result[a] \in Unresolved \/ MovedAlike(a)
        /\ run[a] = "applied" => request[a] = "landed" \/ drift[a].read = 1
        /\ run[a] = "not_applied" /\ request[a] = "landed" => drift[a].read = -1

IInv ==
    /\ TypeOK
    /\ Alone
    /\ \A a \in Actions : Progress(a)
    /\ \A a \in Actions : Values(a)
    /\ \A a \in Actions : Dates(a)
    /\ NotAppliedIsTrue
    /\ CompletedIsTrue

-----------------------------------------------------------------------------
\* The ranks in use are counted by a natural number.
LEMMA RankedType ==
  ASSUME NEW table, NEW S, IsFiniteSet(S)
  PROVE  Ranked(table, S) \in Nat
<1>1. IsFiniteSet({x \in S : table[x].rank # 0})
  BY FS_Subset
<1> QED
  BY <1>1, FS_CardinalityType DEF Ranked

LEMMA JobsFinite == IsFiniteSet(Jobs)
  BY PanelAssumption, FS_Union DEF Jobs

\* The ticket of an action shows a number for its kind.
LEMMA ShownType ==
  ASSUME TypeOK, NEW a \in Actions
  PROVE  /\ TicketOf[a] \in Tickets
         /\ kind[a] \in AllKinds
         /\ Shown(a) \in Nat
         /\ a \in Jobs
  BY PanelAssumption DEF TypeOK, Shown, Jobs

-----------------------------------------------------------------------------
(* Types.                                                                   *)

LEMMA TypesInit == Init => TypeOK
<1> SUFFICES ASSUME Init PROVE TypeOK
  OBVIOUS
<1>1. kind \in [Actions -> AllKinds] /\ faults \in Nat /\ others \in Nat
  BY PanelAssumption DEF Init
<1> QED
  BY <1>1 DEF Init, TypeOK, Results, Verdicts, JobStatuses, EventStatuses, Requests,
              Commands, Runs, Posts

JobRow == [status : JobStatuses, attempts : Nat, rank : Nat]
EventRow == [status : EventStatuses, attempts : Nat, rank : Nat, told : Nat]
DriftRow == [now : Int, read : Int]

\* A row of which one or two columns are changed.
LEMMA JobRows ==
  ASSUME NEW table \in [Jobs -> JobRow], NEW j \in Jobs, NEW status \in JobStatuses
  PROVE  [table EXCEPT ![j].status = status] \in [Jobs -> JobRow]
  BY DEF JobRow

LEMMA JobTried ==
  ASSUME NEW row \in JobRow, NEW status \in JobStatuses
  PROVE  [row EXCEPT !.status = status, !.attempts = @ + 1] \in JobRow
<1>1. row.attempts + 1 \in Nat
  BY DEF JobRow
<1>2. \A n \in Nat : [row EXCEPT !.status = status, !.attempts = n] \in JobRow
  BY DEF JobRow
<1> QED
  BY <1>1, <1>2

LEMMA JobClaimed ==
  ASSUME NEW row \in JobRow
  PROVE  /\ [row EXCEPT !.status = "processing", !.attempts = @ + 1].status = "processing"
         /\ [row EXCEPT !.status = "processing", !.attempts = @ + 1].rank = row.rank
  BY DEF JobRow

LEMMA EventRows ==
  ASSUME NEW table \in [Actions -> EventRow], NEW a \in Actions, NEW status \in EventStatuses
  PROVE  /\ [table EXCEPT ![a].status = status] \in [Actions -> EventRow]
         /\ \A n \in Nat :
             /\ [table EXCEPT ![a].status = status, ![a].told = n] \in [Actions -> EventRow]
             /\ [table EXCEPT ![a].status = status, ![a].rank = n] \in [Actions -> EventRow]
  BY DEF EventRow

LEMMA EventTried ==
  ASSUME NEW row \in EventRow, NEW status \in EventStatuses
  PROVE  [row EXCEPT !.status = status, !.attempts = @ + 1] \in EventRow
<1>1. row.attempts + 1 \in Nat
  BY DEF EventRow
<1>2. \A n \in Nat : [row EXCEPT !.status = status, !.attempts = n] \in EventRow
  BY DEF EventRow
<1> QED
  BY <1>1, <1>2

\* What a step does to the drift of a gift.
LEMMA DriftRows ==
  ASSUME drift \in [Actions -> DriftRow], NEW t, NEW by \in Int
  PROVE  /\ Drifted(t, by) \in [Actions -> DriftRow]
         /\ \A a \in Actions :
             /\ Drifted(t, by)[a].read = drift[a].read
             /\ TicketOf[a] = t /\ kind[a] = "gift" /\ result[a] \in Unresolved
                  => Drifted(t, by)[a].now = drift[a].now + by
             /\ TicketOf[a] # t => Drifted(t, by)[a] = drift[a]
<1>1. \A a \in Actions : drift[a].now \in Int /\ drift[a].now + by \in Int
  BY DEF DriftRow
<1> QED
  BY <1>1 DEF Drifted, DriftRow

LEMMA TypesKept ==
  ASSUME TypeOK, [Next]_vars
  PROVE  TypeOK'
<1> USE DEF Results, Verdicts, Requests, Commands, Runs, Posts, rows
<1> DEFINE
      Small == /\ kind' \in [Actions -> AllKinds] /\ result' \in [Actions -> Results]
               /\ verdict' \in [Actions -> Verdicts] /\ before' \in [Actions -> Nat]
               /\ notices' \in [Actions -> Nat] /\ request' \in [Actions -> Requests]
               /\ issued' \in [Actions -> Nat] /\ panel' \in [Tickets -> [AllKinds -> Nat]]
               /\ command' \in [Actions -> Commands] /\ run' \in [Jobs -> Runs]
               /\ post' \in [Actions -> Posts] /\ seen' \in [Actions -> Nat]
               /\ faults' \in Nat /\ others' \in Nat
               /\ drift' \in [Actions -> DriftRow]
      Tables == event' \in [Actions -> EventRow] /\ job' \in [Jobs -> JobRow]
<1>a. /\ event \in [Actions -> EventRow] /\ job \in [Jobs -> JobRow]
      /\ Small /\ Tables => TypeOK'
  BY DEF TypeOK, EventRow, JobRow, DriftRow
<1>b. /\ kind \in [Actions -> AllKinds] /\ result \in [Actions -> Results]
      /\ verdict \in [Actions -> Verdicts] /\ before \in [Actions -> Nat]
      /\ notices \in [Actions -> Nat] /\ request \in [Actions -> Requests]
      /\ issued \in [Actions -> Nat] /\ panel \in [Tickets -> [AllKinds -> Nat]]
      /\ command \in [Actions -> Commands] /\ run \in [Jobs -> Runs]
      /\ post \in [Actions -> Posts] /\ seen \in [Actions -> Nat]
      /\ faults \in Nat /\ others \in Nat /\ drift \in [Actions -> DriftRow]
  BY DEF TypeOK, DriftRow
<1>c. \A a \in Actions : /\ a \in Jobs /\ TicketOf[a] \in Tickets
                         /\ kind[a] \in AllKinds /\ Shown(a) \in Nat
  BY ShownType
<1> HIDE DEF Small, Tables
<1>d. /\ {"pending", "processing", "delivered", "failed", "gone"} \subseteq JobStatuses
      /\ {"pending", "processing", "delivered", "failed", "gone", "cancelled", "awaiting"}
            \subseteq EventStatuses
  BY DEF EventStatuses, JobStatuses
<1>e. ASSUME NEW a \in Actions
      PROVE  /\ [event EXCEPT ![a].status = "cancelled"] \in [Actions -> EventRow]
             /\ [event EXCEPT ![a].status = "gone"] \in [Actions -> EventRow]
             /\ \A n \in Nat : FilledEvent(a, n) \in [Actions -> EventRow]
  BY <1>a, <1>d, EventRows DEF FilledEvent
<1>f. ASSUME NEW a \in Actions, MayNotify(a) PROVE notices' \in [Actions -> Nat]
  BY <1>b, <1>f DEF MayNotify
<1>1. ASSUME NEW a \in Actions, Land(a) PROVE TypeOK'
  <2>1. AfterMutation(kind[a], Shown(a)) \in Nat
    BY <1>c DEF AfterMutation, AllKinds
  <2>2. issued' \in [Actions -> Nat] /\ issued'[a] \in Nat
    BY <1>1, <1>b, <2>1 DEF Land
  <2>3. panel' \in [Tickets -> [AllKinds -> Nat]]
    BY <1>1, <1>b, <1>c, <2>2 DEF Land
  <2>4. drift' \in [Actions -> DriftRow]
    BY <1>1, <1>b, DriftRows DEF Land
  <2> QED
    BY <1>1, <1>a, <1>b, <2>2, <2>3, <2>4 DEF Land, Small, Tables
<1>2. ASSUME NEW a \in Actions, Drop(a) PROVE TypeOK'
  BY <1>2, <1>a, <1>b DEF Drop, Small, Tables
<1>3. ASSUME NEW a \in Actions, OtherChange(TicketOf[a], kind[a]) PROVE TypeOK'
  <2>1. PICK value \in OtherValues(kind[a], Shown(a)) :
          /\ panel' = [panel EXCEPT ![TicketOf[a]][kind[a]] = value]
          /\ drift' = IF kind[a] = "gift" THEN Drifted(TicketOf[a], value - Shown(a))
                      ELSE drift
    BY <1>3 DEF OtherChange, Shown
  <2>2. value \in Nat /\ value - Shown(a) \in Int
    BY <1>c DEF OtherValues, AllKinds
  <2>3. panel' \in [Tickets -> [AllKinds -> Nat]]
    BY <1>b, <1>c, <2>1, <2>2
  <2>4. drift' \in [Actions -> DriftRow]
    BY <1>b, <2>1, <2>2, DriftRows
  <2> QED
    BY <1>3, <1>a, <1>b, <2>3, <2>4 DEF OtherChange, Small, Tables
<1>4. ASSUME NEW a \in Actions, Reserve(a) PROVE TypeOK'
  <2>1. Ranked(event, Actions) + 1 \in Nat
    BY RankedType, PanelAssumption
  <2>2. event' \in [Actions -> EventRow]
    BY <1>4, <1>a, <2>1, EventRows DEF Reserve, EventStatuses
  <2> QED
    BY <1>4, <1>a, <1>b, <2>2 DEF Reserve, Small, Tables
<1>5. ASSUME NEW a \in Actions, Lookup(a) PROVE TypeOK'
  <2>1. drift' \in [Actions -> DriftRow]
    BY <1>5, <1>b DEF Lookup, DriftRow
  <2> QED
    BY <1>5, <1>a, <1>b, <1>c, <2>1 DEF Lookup, Small, Tables
<1>6. ASSUME NEW a \in Actions, LookupFails(a) PROVE TypeOK'
  <2>1. event' \in [Actions -> EventRow]
    BY <1>6, <1>a, <1>e DEF LookupFails, Fail
  <2> QED
    BY <1>6, <1>a, <1>b, <2>1 DEF LookupFails, Fail, Small, Tables
<1>7. ASSUME NEW a \in Actions, QueueEvidence(a) PROVE TypeOK'
  <2>1. Ranked(job, Jobs) + 1 \in Nat
    BY RankedType, JobsFinite
  <2>2. job' \in [Jobs -> JobRow]
    BY <1>7, <1>a, <1>c, <2>1 DEF QueueEvidence, JobRow, JobStatuses
  <2> QED
    BY <1>7, <1>a, <1>b, <2>2 DEF QueueEvidence, Small, Tables
<1>8. ASSUME NEW a \in Actions, Mutate(a) PROVE TypeOK'
  BY <1>8, <1>a, <1>b DEF Mutate, Small, Tables
<1>9. ASSUME NEW a \in Actions, RecordCompleted(a) PROVE TypeOK'
  <2>1. event' \in [Actions -> EventRow] /\ notices' \in [Actions -> Nat]
    BY <1>9, <1>a, <1>b, <1>e, <1>f DEF RecordCompleted
  <2> QED
    BY <1>9, <1>a, <1>b, <2>1 DEF RecordCompleted, Small, Tables
<1>10. ASSUME NEW a \in Actions, RecordFailed(a) PROVE TypeOK'
  <2>1. event' \in [Actions -> EventRow]
    BY <1>10, <1>a, <1>e DEF RecordFailed, Fail
  <2> QED
    BY <1>10, <1>a, <1>b, <2>1 DEF RecordFailed, Fail, Small, Tables
<1>11. ASSUME NEW a \in Actions, RecordUnknown(a) PROVE TypeOK'
  BY <1>11, <1>a, <1>b DEF RecordUnknown, Small, Tables
<1>12. ASSUME NEW a \in Actions, Abandon(a) PROVE TypeOK'
  BY <1>12, <1>a, <1>b DEF Abandon, Small, Tables
<1>13. ASSUME NEW a \in Actions, NEW resolution \in Resolving, CheckResolution(a, resolution)
       PROVE  TypeOK'
  BY <1>13, <1>a, <1>b, <1>c DEF CheckResolution, Resolving, Small, Tables
<1>14. ASSUME NEW a \in Actions, CommitResolution(a) PROVE TypeOK'
  <2>1. \/ event' = event \/ event' = FilledEvent(a, seen[a])
        \/ event' = [event EXCEPT ![a].status = "cancelled"]
    BY <1>14 DEF CommitResolution
  <2>2. seen[a] \in Nat
    BY <1>b
  <2>3. /\ FilledEvent(a, seen[a]) \in [Actions -> EventRow]
        /\ [event EXCEPT ![a].status = "cancelled"] \in [Actions -> EventRow]
    BY <1>e, <2>2
  <2>4. event' \in [Actions -> EventRow]
    BY <1>a, <2>1, <2>3
  <2>5. notices' \in [Actions -> Nat]
    BY <1>14, <1>b, <1>f DEF CommitResolution
  <2> QED
    BY <1>14, <1>a, <1>b, <2>4, <2>5 DEF CommitResolution, Small, Tables
<1>15. ASSUME NEW t \in Tickets, EnqueueTopicJob(t) PROVE TypeOK'
  <2>1. Ranked(job, Jobs) + 1 \in Nat
    BY RankedType, JobsFinite
  <2>2. job' \in [Jobs -> JobRow]
    BY <1>15, <1>a, <2>1 DEF EnqueueTopicJob, Jobs, JobRow, JobStatuses
  <2> QED
    BY <1>15, <1>a, <1>b, <2>2 DEF EnqueueTopicJob, Small, Tables
<1>16. ASSUME NEW t \in Tickets, WorkOnTopic(t) PROVE TypeOK'
  BY <1>16, <1>a, <1>b DEF WorkOnTopic, Jobs, Small, Tables
<1>17. CASE ClaimJobs
  <2>1. PICK S \in SUBSET Jobs :
          /\ job' = [j \in Jobs |->
                       IF j \in S THEN [job[j] EXCEPT !.status = "processing",
                                                      !.attempts = @ + 1]
                       ELSE job[j]]
          /\ run' = [j \in Jobs |-> IF j \in S THEN "begin" ELSE run[j]]
    BY <1>17 DEF ClaimJobs
  <2>2. job' \in [Jobs -> JobRow]
    BY <1>a, <1>d, <2>1, JobTried
  <2> QED
    BY <1>17, <1>a, <1>b, <2>1, <2>2 DEF ClaimJobs, Small, Tables
<1>18. ASSUME NEW a \in Actions, BeginJob(a) PROVE TypeOK'
  BY <1>18, <1>a, <1>b DEF BeginJob, Small, Tables
<1>19. ASSUME NEW a \in Actions, Look(a) PROVE TypeOK'
  <2>1. Outcome(kind[a], before[a], Shown(a)) \in {"applied", "not_applied", "inconclusive"}
    BY <1>c DEF Outcome, AllKinds
  <2>2. drift' \in [Actions -> DriftRow]
    BY <1>19, <1>b DEF Look, DriftRow
  <2> QED
    BY <1>19, <1>a, <1>b, <1>c, <2>1, <2>2 DEF Look, LooksAgain, Small, Tables
<1>20. ASSUME NEW a \in Actions, LookFails(a) PROVE TypeOK'
  BY <1>20, <1>a, <1>b DEF LookFails, Small, Tables
<1>21. ASSUME NEW a \in Actions, WriteOutcome(a) PROVE TypeOK'
  <2>1. SettleEvent(a) \in [Actions -> EventRow]
    BY <1>21, <1>a, <1>b, <1>e DEF WriteOutcome, SettleEvent
  <2>2. event' \in [Actions -> EventRow]
    BY <1>21, <1>a, <2>1 DEF WriteOutcome
  <2>3. notices' \in [Actions -> Nat]
    BY <1>21, <1>b, <1>f DEF WriteOutcome
  <2> QED
    BY <1>21, <1>a, <1>b, <1>c, <2>2, <2>3 DEF WriteOutcome, Small, Tables
<1>22. ASSUME NEW a \in Actions, WriteFails(a) PROVE TypeOK'
  BY <1>22, <1>a, <1>b, <1>c DEF WriteFails, Small, Tables
<1>23. ASSUME NEW j \in Jobs, QueueStep(j) PROVE TypeOK'
  <2>1. \/ job' = job
        \/ \E status \in JobStatuses : job' = [job EXCEPT ![j].status = status]
    BY <1>23, <1>d DEF QueueStep, FinishJob, RetryJob, ReleaseStaleJob, AfterRetry
  <2>2. \A status \in JobStatuses : [job EXCEPT ![j].status = status] \in [Jobs -> JobRow]
    BY <1>a, JobRows
  <2>3. job' \in [Jobs -> JobRow]
    BY <1>a, <2>1, <2>2
  <2> QED
    BY <1>23, <1>a, <1>b, <2>3
       DEF QueueStep, FinishJob, RetryJob, ReleaseStaleJob, Small, Tables
<1>24. CASE ClaimEvents
  <2>1. PICK S \in SUBSET Actions :
          /\ event' = [a \in Actions |->
                         IF a \in S THEN [event[a] EXCEPT !.status = "processing",
                                                          !.attempts = @ + 1]
                         ELSE event[a]]
          /\ post' = [a \in Actions |-> IF a \in S THEN "post" ELSE post[a]]
    BY <1>24 DEF ClaimEvents
  <2>2. event' \in [Actions -> EventRow]
    BY <1>a, <1>d, <2>1, EventTried
  <2> QED
    BY <1>24, <1>a, <1>b, <2>1, <2>2 DEF ClaimEvents, Small, Tables
<1>25. ASSUME NEW a \in Actions, WebhookStep(a) PROVE TypeOK'
  <2>1. CASE PostEvent(a)
    <3>1. \/ event' = event
          \/ \E status \in EventStatuses : event' = [event EXCEPT ![a].status = status]
      BY <2>1, <1>d DEF PostEvent, AfterRetry
    <3>2. \A status \in EventStatuses :
            [event EXCEPT ![a].status = status] \in [Actions -> EventRow]
      BY <1>a, EventRows
    <3>3. event' \in [Actions -> EventRow]
      BY <1>a, <3>1, <3>2
    <3> QED
      BY <2>1, <1>a, <1>b, <3>3 DEF PostEvent, Small, Tables
  <2>2. CASE ReleaseStaleEvent(a)
    <3>1. event' \in [Actions -> EventRow]
      BY <2>2, <1>a, <1>d, EventRows DEF ReleaseStaleEvent
    <3> QED
      BY <2>2, <1>a, <1>b, <3>1 DEF ReleaseStaleEvent, Small, Tables
  <2> QED
    BY <1>25, <2>1, <2>2 DEF WebhookStep
<1>26. ASSUME NEW a \in Actions, PurgeEvent(a) \/ PurgeJob(a) PROVE TypeOK'
  <2>1. Tables
    <3>1. a \in Jobs /\ "gone" \in JobStatuses
      BY <1>c, <1>d
    <3>2. [job EXCEPT ![a].status = "gone"] \in [Jobs -> JobRow]
      BY <1>a, <3>1, JobRows
    <3> QED
      BY <1>26, <1>a, <1>e, <3>2 DEF PurgeEvent, PurgeJob, Tables
  <2> QED
    BY <1>26, <1>a, <1>b, <2>1 DEF PurgeEvent, PurgeJob, Small
<1>27. CASE Restart
  <2>1. event' \in [Actions -> EventRow]
    BY <1>27, <1>a DEF Restart, EventRow, EventStatuses
  <2>2. job' \in [Jobs -> JobRow]
    BY <1>27, <1>a DEF Restart, JobRow, JobStatuses
  <2> QED
    BY <1>27, <1>a, <1>b, <2>1, <2>2 DEF Restart, Small, Tables
<1>28. CASE UNCHANGED vars
  BY <1>28, <1>a, <1>b DEF vars, Small, Tables
<1> QED
  BY <1>1, <1>2, <1>3, <1>4, <1>5, <1>6, <1>7, <1>8, <1>9, <1>10, <1>11, <1>12, <1>13, <1>14,
     <1>15, <1>16, <1>17, <1>18, <1>19, <1>20, <1>21, <1>22, <1>23, <1>24, <1>25, <1>26,
     <1>27, <1>28
     DEF Next, PanelMoves, CommandStep, JobStep, Resolving

-----------------------------------------------------------------------------
\* The functions the steps change, and what the assumption says of them.
Typed ==
    /\ kind \in [Actions -> AllKinds] /\ result \in [Actions -> Results]
    /\ verdict \in [Actions -> Verdicts] /\ before \in [Actions -> Nat]
    /\ job \in [Jobs -> JobRow] /\ notices \in [Actions -> Nat]
    /\ request \in [Actions -> Requests] /\ issued \in [Actions -> Nat]
    /\ panel \in [Tickets -> [AllKinds -> Nat]]
    /\ command \in [Actions -> Commands] /\ run \in [Jobs -> Runs]
    /\ post \in [Actions -> Posts] /\ seen \in [Actions -> Nat]
    /\ drift \in [Actions -> DriftRow]
    /\ \A a \in Actions : /\ a \in Jobs /\ ~ (a \in Tickets) /\ TicketOf[a] \in Tickets
                          /\ job[a].attempts \in Nat
    /\ \A t \in Tickets : t \in Jobs
    /\ ReconcileAttempts \in Nat /\ MaxAttempts \in Nat
    /\ MaxAttempts >= ReconcileAttempts

LEMMA TypedOK ==
  ASSUME TypeOK
  PROVE  Typed
<1>1. \A a \in Actions : a \in Jobs /\ ~ (a \in Tickets) /\ TicketOf[a] \in Tickets
  BY PanelAssumption DEF Jobs
<1>2. job \in [Jobs -> JobRow]
  BY DEF TypeOK, JobRow
<1>3. \A a \in Actions : job[a].attempts \in Nat
  BY <1>1, <1>2 DEF JobRow
<1> QED
  BY <1>1, <1>2, <1>3, PanelAssumption DEF TypeOK, Typed, Jobs, DriftRow

-----------------------------------------------------------------------------
(* How far command, worker and person may have come.                        *)

LEMMA ProgressKept ==
  ASSUME TypeOK, \A a \in Actions : Progress(a), [Next]_vars, NEW x \in Actions
  PROVE  Progress(x)'
<1>a. Typed
  BY TypedOK
<1>b. Progress(x)
  OBVIOUS
<1> USE DEF Progress, Handling, Resolving, Reading, rows
<1>1. ASSUME NEW a \in Actions, Land(a) PROVE Progress(x)'
  BY <1>1, <1>a, <1>b DEF Land, Typed
<1>2. ASSUME NEW a \in Actions, Drop(a) PROVE Progress(x)'
  BY <1>2, <1>a, <1>b DEF Drop, Typed
<1>3. ASSUME NEW a \in Actions, OtherChange(TicketOf[a], kind[a]) PROVE Progress(x)'
  BY <1>3, <1>a, <1>b DEF OtherChange, Typed
<1>4. ASSUME NEW a \in Actions, Reserve(a) PROVE Progress(x)'
  BY <1>4, <1>a, <1>b DEF Reserve, Reservable, Typed
<1>5. ASSUME NEW a \in Actions, Lookup(a) PROVE Progress(x)'
  BY <1>5, <1>a, <1>b DEF Lookup, Typed
<1>6. ASSUME NEW a \in Actions, LookupFails(a) PROVE Progress(x)'
  BY <1>6, <1>a, <1>b DEF LookupFails, Fail, Typed
<1>7. ASSUME NEW a \in Actions, QueueEvidence(a) PROVE Progress(x)'
  BY <1>7, <1>a, <1>b DEF QueueEvidence, Typed
<1>8. ASSUME NEW a \in Actions, Mutate(a) PROVE Progress(x)'
  BY <1>8, <1>a, <1>b DEF Mutate, Typed
<1>9. ASSUME NEW a \in Actions, RecordCompleted(a) PROVE Progress(x)'
  BY <1>9, <1>a, <1>b DEF RecordCompleted, MayNotify, Typed
<1>10. ASSUME NEW a \in Actions, RecordFailed(a) PROVE Progress(x)'
  BY <1>10, <1>a, <1>b DEF RecordFailed, Fail, Typed
<1>11. ASSUME NEW a \in Actions, RecordUnknown(a) PROVE Progress(x)'
  BY <1>11, <1>a, <1>b DEF RecordUnknown, Typed
<1>12. ASSUME NEW a \in Actions, Abandon(a) PROVE Progress(x)'
  BY <1>12, <1>a, <1>b DEF Abandon, Typed
<1>13. ASSUME NEW a \in Actions, NEW resolution \in Resolving, CheckResolution(a, resolution)
       PROVE  Progress(x)'
  BY <1>13, <1>a, <1>b DEF CheckResolution, Typed
<1>14. ASSUME NEW a \in Actions, CommitResolution(a) PROVE Progress(x)'
  BY <1>14, <1>a, <1>b DEF CommitResolution, MayNotify, Typed
<1>15. ASSUME NEW t \in Tickets, EnqueueTopicJob(t) PROVE Progress(x)'
  BY <1>15, <1>a, <1>b DEF EnqueueTopicJob, Typed
<1>16. ASSUME NEW t \in Tickets, WorkOnTopic(t) PROVE Progress(x)'
  BY <1>16, <1>a, <1>b DEF WorkOnTopic, Typed
<1>17. CASE ClaimJobs
  <2>1. PICK S \in SUBSET {j \in Jobs : Claimable(j)} :
          /\ job' = [j \in Jobs |->
                       IF j \in S THEN [job[j] EXCEPT !.status = "processing",
                                                      !.attempts = @ + 1]
                       ELSE job[j]]
          /\ run' = [j \in Jobs |-> IF j \in S THEN "begin" ELSE run[j]]
    BY <1>17 DEF ClaimJobs
  <2>2. CASE x \in S
    <3>1. job[x].status = "pending" /\ result[x] # "started"
      BY <2>1, <2>2 DEF Claimable
    <3>2. job'[x].status = "processing" /\ run'[x] = "begin"
      BY <1>a, <2>1, <2>2, JobClaimed DEF Typed
    <3> QED
      BY <1>17, <1>b, <3>1, <3>2 DEF ClaimJobs
  <2>3. CASE x \notin S
    <3>1. job'[x] = job[x] /\ run'[x] = run[x]
      BY <1>a, <2>1, <2>3 DEF Typed
    <3> QED
      BY <1>17, <1>b, <3>1 DEF ClaimJobs
  <2> QED
    BY <2>2, <2>3
<1>18. ASSUME NEW a \in Actions, BeginJob(a) PROVE Progress(x)'
  BY <1>18, <1>a, <1>b DEF BeginJob, Typed
<1>19. ASSUME NEW a \in Actions, Look(a) PROVE Progress(x)'
  <2>1. PICK outcome \in {"applied", "not_applied", "inconclusive"} :
          IF LooksAgain(a, outcome)
          THEN run' = [run EXCEPT ![a] = "retry"]
          ELSE run' = [run EXCEPT ![a] = outcome]
    BY <1>19, <1>a DEF Look, Outcome, Typed, AllKinds
  <2>2. run'[a] \in {"not_applied", "inconclusive"} => request[a] # "flying"
    BY <1>19, <1>a, <2>1 DEF Look, LooksAgain, Typed
  <2> QED
    BY <1>19, <1>a, <1>b, <2>1, <2>2 DEF Look, Typed
<1>20. ASSUME NEW a \in Actions, LookFails(a) PROVE Progress(x)'
  BY <1>20, <1>a, <1>b DEF LookFails, Typed
<1>21. ASSUME NEW a \in Actions, WriteOutcome(a) PROVE Progress(x)'
  BY <1>21, <1>a, <1>b DEF WriteOutcome, MayNotify, Typed
<1>22. ASSUME NEW a \in Actions, WriteFails(a) PROVE Progress(x)'
  BY <1>22, <1>a, <1>b DEF WriteFails, Typed
<1>23. ASSUME NEW j \in Jobs, QueueStep(j) PROVE Progress(x)'
  BY <1>23, <1>a, <1>b DEF QueueStep, FinishJob, RetryJob, ReleaseStaleJob, Typed
<1>24. CASE ClaimEvents
  BY <1>24, <1>a, <1>b DEF ClaimEvents, Typed
<1>25. ASSUME NEW a \in Actions, WebhookStep(a) PROVE Progress(x)'
  BY <1>25, <1>a, <1>b DEF WebhookStep, PostEvent, ReleaseStaleEvent, Typed
<1>26. ASSUME NEW a \in Actions, PurgeEvent(a) \/ PurgeJob(a) PROVE Progress(x)'
  BY <1>26, <1>a, <1>b DEF PurgeEvent, PurgeJob, Expirable, Typed
<1>27. CASE Restart
  BY <1>27, <1>a, <1>b DEF Restart, Evidenced, Typed
<1>28. CASE UNCHANGED vars
  BY <1>28, <1>a, <1>b DEF vars, Typed
<1> QED
  BY <1>1, <1>2, <1>3, <1>4, <1>5, <1>6, <1>7, <1>8, <1>9, <1>10, <1>11, <1>12, <1>13, <1>14,
     <1>15, <1>16, <1>17, <1>18, <1>19, <1>20, <1>21, <1>22, <1>23, <1>24, <1>25, <1>26,
     <1>27, <1>28
     DEF Next, PanelMoves, CommandStep, JobStep, Resolving

-----------------------------------------------------------------------------
(* No two actions of a ticket are unresolved.                               *)

LEMMA UnresolvedStays ==
  ASSUME TypeOK, \A a \in Actions : Progress(a), [Next]_vars, NEW x \in Actions,
         result'[x] \in Unresolved, ~ (result[x] \in Unresolved)
  PROVE  Reserve(x)
<1>a. Typed
  BY TypedOK
<1>b. Progress(x)
  OBVIOUS
<1> USE DEF Unresolved, Progress, Handling, Resolving, rows
<1>1. ASSUME NEW a \in Actions, Land(a) PROVE Reserve(x)
  BY <1>1, <1>a, <1>b DEF Land, Typed
<1>2. ASSUME NEW a \in Actions, Drop(a) PROVE Reserve(x)
  BY <1>2, <1>a, <1>b DEF Drop, Typed
<1>3. ASSUME NEW a \in Actions, OtherChange(TicketOf[a], kind[a]) PROVE Reserve(x)
  BY <1>3, <1>a, <1>b DEF OtherChange, Typed
<1>4. ASSUME NEW a \in Actions, Reserve(a) PROVE Reserve(x)
  <2>1. x = a
    BY <1>4, <1>a DEF Reserve, Typed
  <2> QED
    BY <1>4, <2>1
<1>5. ASSUME NEW a \in Actions, Lookup(a) PROVE Reserve(x)
  BY <1>5, <1>a, <1>b DEF Lookup, Typed
<1>6. ASSUME NEW a \in Actions, LookupFails(a) PROVE Reserve(x)
  BY <1>6, <1>a, <1>b DEF LookupFails, Fail, Typed
<1>7. ASSUME NEW a \in Actions, QueueEvidence(a) PROVE Reserve(x)
  BY <1>7, <1>a, <1>b DEF QueueEvidence, Typed
<1>8. ASSUME NEW a \in Actions, Mutate(a) PROVE Reserve(x)
  BY <1>8, <1>a, <1>b DEF Mutate, Typed
<1>9. ASSUME NEW a \in Actions, RecordCompleted(a) PROVE Reserve(x)
  BY <1>9, <1>a, <1>b DEF RecordCompleted, MayNotify, Typed
<1>10. ASSUME NEW a \in Actions, RecordFailed(a) PROVE Reserve(x)
  BY <1>10, <1>a, <1>b DEF RecordFailed, Fail, Typed
<1>11. ASSUME NEW a \in Actions, RecordUnknown(a) PROVE Reserve(x)
  BY <1>11, <1>a, <1>b DEF RecordUnknown, Typed
<1>12. ASSUME NEW a \in Actions, Abandon(a) PROVE Reserve(x)
  BY <1>12, <1>a, <1>b DEF Abandon, Typed
<1>13. ASSUME NEW a \in Actions, NEW resolution \in Resolving, CheckResolution(a, resolution)
       PROVE  Reserve(x)
  BY <1>13, <1>a, <1>b DEF CheckResolution, Typed
<1>14. ASSUME NEW a \in Actions, CommitResolution(a) PROVE Reserve(x)
  BY <1>14, <1>a, <1>b DEF CommitResolution, MayNotify, Typed
<1>15. ASSUME NEW t \in Tickets, EnqueueTopicJob(t) PROVE Reserve(x)
  BY <1>15, <1>a, <1>b DEF EnqueueTopicJob, Typed
<1>16. ASSUME NEW t \in Tickets, WorkOnTopic(t) PROVE Reserve(x)
  BY <1>16, <1>a, <1>b DEF WorkOnTopic, Typed
<1>17. CASE ClaimJobs
  BY <1>17, <1>a, <1>b DEF ClaimJobs, Claimable, Typed
<1>18. ASSUME NEW a \in Actions, BeginJob(a) PROVE Reserve(x)
  BY <1>18, <1>a, <1>b DEF BeginJob, Typed
<1>19. ASSUME NEW a \in Actions, Look(a) PROVE Reserve(x)
  BY <1>19, <1>a, <1>b DEF Look, LooksAgain, Outcome, Typed
<1>20. ASSUME NEW a \in Actions, LookFails(a) PROVE Reserve(x)
  BY <1>20, <1>a, <1>b DEF LookFails, Typed
<1>21. ASSUME NEW a \in Actions, WriteOutcome(a) PROVE Reserve(x)
  BY <1>21, <1>a, <1>b DEF WriteOutcome, MayNotify, Typed
<1>22. ASSUME NEW a \in Actions, WriteFails(a) PROVE Reserve(x)
  BY <1>22, <1>a, <1>b DEF WriteFails, Typed
<1>23. ASSUME NEW j \in Jobs, QueueStep(j) PROVE Reserve(x)
  BY <1>23, <1>a, <1>b DEF QueueStep, FinishJob, RetryJob, ReleaseStaleJob, Typed
<1>24. CASE ClaimEvents
  BY <1>24, <1>a, <1>b DEF ClaimEvents, Typed
<1>25. ASSUME NEW a \in Actions, WebhookStep(a) PROVE Reserve(x)
  BY <1>25, <1>a, <1>b DEF WebhookStep, PostEvent, ReleaseStaleEvent, Typed
<1>26. ASSUME NEW a \in Actions, PurgeEvent(a) \/ PurgeJob(a) PROVE Reserve(x)
  BY <1>26, <1>a, <1>b DEF PurgeEvent, PurgeJob, Expirable, Typed
<1>27. CASE Restart
  BY <1>27, <1>a, <1>b DEF Restart, Evidenced, Typed
<1>28. CASE UNCHANGED vars
  BY <1>28, <1>a, <1>b DEF vars, Typed
<1> QED
  BY <1>1, <1>2, <1>3, <1>4, <1>5, <1>6, <1>7, <1>8, <1>9, <1>10, <1>11, <1>12, <1>13, <1>14,
     <1>15, <1>16, <1>17, <1>18, <1>19, <1>20, <1>21, <1>22, <1>23, <1>24, <1>25, <1>26,
     <1>27, <1>28
     DEF Next, PanelMoves, CommandStep, JobStep, Resolving

LEMMA AloneKept ==
  ASSUME TypeOK, Alone, \A a \in Actions : Progress(a), [Next]_vars
  PROVE  Alone'
<1> SUFFICES ASSUME NEW a \in Actions, NEW b \in Actions, TicketOf[a] = TicketOf[b],
                    result'[a] \in Unresolved, result'[b] \in Unresolved, a # b
             PROVE  FALSE
  BY DEF Alone, Unresolved
<1>1. \A x \in Actions : Reserve(x) =>
        \A y \in Actions : /\ TicketOf[y] = TicketOf[x] => result[y] \notin Unresolved
                           /\ y # x => result'[y] = result[y]
  BY DEF Reserve, Reservable, TypeOK
<1>2. Reserve(a) \/ Reserve(b) \/ (result[a] \in Unresolved /\ result[b] \in Unresolved)
  BY UnresolvedStays
<1> QED
  BY <1>1, <1>2 DEF Alone


-----------------------------------------------------------------------------
(* What the panel can show of an action.                                    *)

LEMMA ValuesKept ==
  ASSUME TypeOK, Alone, \A a \in Actions : Progress(a), \A a \in Actions : Values(a),
         [Next]_vars, NEW x \in Actions
  PROVE  Values(x)'
<1>a. Typed
  BY TypedOK
<1>b. Progress(x) /\ Values(x)
  OBVIOUS
<1> USE DEF Values, Newer, Read, Shown, Unresolved, Progress, Handling, Resolving, Reading, rows
<1>1. ASSUME NEW a \in Actions, Land(a) PROVE Values(x)'
  <2> DEFINE same == TicketOf[x] = TicketOf[a] /\ kind[x] = kind[a]
             value == AfterMutation(kind[a], Shown(a))
  <2>1. /\ UNCHANGED <<kind, before, result, command, run, seen, job>>
        /\ request[a] = "flying" /\ request' = [request EXCEPT ![a] = "landed"]
        /\ issued' = [issued EXCEPT ![a] = value]
        /\ panel' = [panel EXCEPT ![TicketOf[a]][kind[a]] = issued'[a]]
    BY <1>1 DEF Land
  <2>2. /\ value \in Nat /\ Shown(a) \in Nat /\ Shown(x) \in Nat
        /\ before[x] \in Nat /\ issued[x] \in Nat /\ seen[x] \in Nat
        /\ kind[a] # "devices" => value = Shown(a) + 1
    BY <1>a DEF Typed, AfterMutation, AllKinds
  <2>3. /\ issued'[x] = IF x = a THEN value ELSE issued[x]
        /\ request'[x] = IF x = a THEN "landed" ELSE request[x]
    BY <1>a, <2>1 DEF Typed
  <2>4. Shown(x)' = IF same THEN value ELSE Shown(x)
    BY <1>a, <2>1, <2>2 DEF Typed
  <2>5. /\ same => Shown(x) = Shown(a)
        /\ x = a => same
        /\ kind[x] # "devices" => Shown(x)' = Shown(x) \/ Shown(x)' = Shown(x) + 1
    BY <2>2, <2>4
  <2>6. x = a => run[x] # "not_applied"
    BY <1>b, <2>1
  <2> HIDE DEF same, value, Shown, Unresolved
  <2>7. ASSUME kind[x] \in {"link", "key"}
        PROVE  /\ before[x] <= Shown(x)'
               /\ request'[x] = "landed" => before[x] < issued'[x] /\ issued'[x] <= Shown(x)'
               /\ run[x] = "applied" => before[x] < Shown(x)'
               /\ run[x] = "not_applied" => request'[x] # "landed"
    <3>1. before[x] <= Shown(x) /\ Shown(x)' \in Nat /\ Shown(x) <= Shown(x)'
      BY <1>b, <2>2, <2>5, <2>7
    <3>2. x = a => issued'[x] = Shown(x) + 1 /\ Shown(x)' = Shown(x) + 1
      BY <2>2, <2>3, <2>4, <2>5, <2>7
    <3>3. x # a /\ request'[x] = "landed" => before[x] < issued[x] /\ issued[x] <= Shown(x)
      BY <1>b, <2>3, <2>7
    <3>4. /\ run[x] = "applied" => before[x] < Shown(x)
          /\ run[x] = "not_applied" => request[x] # "landed"
      BY <1>b, <2>7
    <3> QED
      BY <2>2, <2>3, <2>6, <3>1, <3>2, <3>3, <3>4
  <2>8. ASSUME kind[x] = "link", run[x] = "applied" \/ command[x] = "applied"
        PROVE  before[x] < seen[x] /\ seen[x] <= Shown(x)'
    <3>1. before[x] < seen[x] /\ seen[x] <= Shown(x)
      BY <1>b, <2>8
    <3> QED
      BY <2>2, <2>5, <2>8, <3>1
  <2>9. kind[x] # "devices" => 0 < Shown(x)'
    BY <1>b, <2>2, <2>5
  <2> QED
    BY <1>b, <2>1, <2>7, <2>8, <2>9
<1>2. ASSUME NEW a \in Actions, Drop(a) PROVE Values(x)'
  BY <1>2, <1>a, <1>b DEF Drop, Typed
<1>3. ASSUME NEW a \in Actions, OtherChange(TicketOf[a], kind[a]) PROVE Values(x)'
  <2>1. PICK value \in OtherValues(kind[a], Shown(a)) :
          panel' = [panel EXCEPT ![TicketOf[a]][kind[a]] = value]
    BY <1>3 DEF OtherChange
  <2>2. UNCHANGED <<kind, before, result, command, run, seen, job, request, issued>>
    BY <1>3 DEF OtherChange
  <2>3. /\ Shown(x) \in Nat /\ Shown(a) \in Nat /\ before[x] \in Nat
        /\ issued[x] \in Nat /\ seen[x] \in Nat /\ kind[a] \in AllKinds
    BY <1>a DEF Typed
  <2>4. /\ kind[a] = "gift" => value \in Nat /\ 0 < value
        /\ kind[a] \in {"link", "key"} => value = Shown(a) + 1
    BY <2>1, <2>3 DEF OtherValues
  <2>5. /\ TicketOf[x] = TicketOf[a] /\ kind[x] = kind[a] =>
               Shown(x)' = value /\ Shown(x) = Shown(a)
        /\ TicketOf[x] # TicketOf[a] \/ kind[x] # kind[a] => Shown(x)' = Shown(x)
    BY <1>a, <2>1, <2>2 DEF Typed
  <2> HIDE DEF Shown
  <2>6. /\ kind[x] = "gift" /\ 0 < Shown(x) => 0 < Shown(x)'
        /\ kind[x] \in {"link", "key"} => Shown(x)' = Shown(x) \/ Shown(x)' = Shown(x) + 1
    BY <2>4, <2>5
  <2>7. kind[x] # "devices" => 0 < Shown(x)'
    <3>1. kind[x] # "devices" => 0 < Shown(x) /\ kind[x] \in {"gift", "link", "key"}
      BY <1>a, <1>b DEF Typed, AllKinds
    <3> QED
      BY <2>3, <2>6, <3>1
  <2>8. kind[x] \in {"link", "key"} =>
             /\ before[x] <= Shown(x)'
             /\ request[x] = "landed" => Newer(issued[x], x)'
             /\ run[x] = "applied" => before[x] < Shown(x)'
    BY <1>b, <2>2, <2>3, <2>6
  <2>9. kind[x] = "link" =>
             /\ run[x] = "applied" => Newer(seen[x], x)'
             /\ command[x] = "applied" => Newer(seen[x], x)'
    BY <1>b, <2>2, <2>3, <2>6
  <2> QED
    BY <1>b, <2>2, <2>7, <2>8, <2>9
<1>4. ASSUME NEW a \in Actions, Reserve(a) PROVE Values(x)'
  BY <1>4, <1>a, <1>b DEF Reserve, Reservable, Typed
<1>5. ASSUME NEW a \in Actions, Lookup(a) PROVE Values(x)'
  BY <1>5, <1>a, <1>b DEF Lookup, Typed
<1>6. ASSUME NEW a \in Actions, LookupFails(a) PROVE Values(x)'
  BY <1>6, <1>a, <1>b DEF LookupFails, Fail, Typed
<1>7. ASSUME NEW a \in Actions, QueueEvidence(a) PROVE Values(x)'
  BY <1>7, <1>a, <1>b DEF QueueEvidence, Typed
<1>8. ASSUME NEW a \in Actions, Mutate(a) PROVE Values(x)'
  BY <1>8, <1>a, <1>b DEF Mutate, Typed
<1>9. ASSUME NEW a \in Actions, RecordCompleted(a) PROVE Values(x)'
  BY <1>9, <1>a, <1>b DEF RecordCompleted, MayNotify, Typed
<1>10. ASSUME NEW a \in Actions, RecordFailed(a) PROVE Values(x)'
  BY <1>10, <1>a, <1>b DEF RecordFailed, Fail, Typed
<1>11. ASSUME NEW a \in Actions, RecordUnknown(a) PROVE Values(x)'
  BY <1>11, <1>a, <1>b DEF RecordUnknown, Typed
<1>12. ASSUME NEW a \in Actions, Abandon(a) PROVE Values(x)'
  BY <1>12, <1>a, <1>b DEF Abandon, Typed, Commands
<1>13. ASSUME NEW a \in Actions, NEW resolution \in Resolving, CheckResolution(a, resolution)
       PROVE  Values(x)'
  <2>1. CASE x # a
    BY <1>13, <1>a, <1>b, <2>1 DEF CheckResolution, Typed
  <2>2. CASE x = a
    <3>1. /\ UNCHANGED <<kind, before, result, run, job, request, issued, panel>>
          /\ run[x] # "applied" /\ command'[x] = resolution
          /\ kind[x] = "link" => seen'[x] = Shown(x)
          /\ kind[x] = "link" /\ resolution = "applied" => Shown(x) # before[x]
      BY <1>13, <1>a, <1>b, <2>2 DEF CheckResolution, Typed
    <3>2. before[x] \in Nat /\ Shown(x) \in Nat
      BY <1>a DEF Typed
    <3> QED
      BY <1>13, <1>b, <3>1, <3>2
  <2> QED
    BY <2>1, <2>2
<1>14. ASSUME NEW a \in Actions, CommitResolution(a) PROVE Values(x)'
  BY <1>14, <1>a, <1>b DEF CommitResolution, MayNotify, Typed
<1>15. ASSUME NEW t \in Tickets, EnqueueTopicJob(t) PROVE Values(x)'
  BY <1>15, <1>a, <1>b DEF EnqueueTopicJob, Typed
<1>16. ASSUME NEW t \in Tickets, WorkOnTopic(t) PROVE Values(x)'
  BY <1>16, <1>a, <1>b DEF WorkOnTopic, Typed
<1>17. CASE ClaimJobs
  <2>1. PICK S \in SUBSET {j \in Jobs : Claimable(j)} :
          /\ job' = [j \in Jobs |->
                       IF j \in S THEN [job[j] EXCEPT !.status = "processing",
                                                      !.attempts = @ + 1]
                       ELSE job[j]]
          /\ run' = [j \in Jobs |-> IF j \in S THEN "begin" ELSE run[j]]
    BY <1>17 DEF ClaimJobs
  <2>2. CASE x \in S
    <3>1. result[x] # "started"
      BY <2>1, <2>2 DEF Claimable
    <3>2. run'[x] = "begin"
      BY <1>a, <2>1, <2>2 DEF Typed
    <3> QED
      BY <1>17, <1>b, <3>1, <3>2 DEF ClaimJobs
  <2>3. CASE x \notin S
    <3>1. job'[x] = job[x] /\ run'[x] = run[x]
      BY <1>a, <2>1, <2>3 DEF Typed
    <3> QED
      BY <1>17, <1>b, <3>1 DEF ClaimJobs
  <2> QED
    BY <2>2, <2>3
<1>18. ASSUME NEW a \in Actions, BeginJob(a) PROVE Values(x)'
  BY <1>18, <1>a, <1>b DEF BeginJob, Typed
<1>19. ASSUME NEW a \in Actions, Look(a) PROVE Values(x)'
  <2>1. CASE x # a
    BY <1>19, <1>a, <1>b, <2>1 DEF Look, Typed
  <2>2. CASE x = a
    <3> DEFINE outcome == Outcome(kind[x], before[x], Shown(x))
    <3>1. /\ UNCHANGED <<kind, before, result, command, job, request, issued, panel>>
          /\ result[x] = "unknown" /\ verdict[x] # "inconclusive"
          /\ kind[x] \in AllKinds /\ before[x] \in Nat /\ Shown(x) \in Nat
          /\ issued[x] \in Nat /\ command[x] # "applied"
      BY <1>19, <1>a, <1>b, <2>2 DEF Look, Typed
    <3>2. /\ run'[x] = "retry" \/ run'[x] = outcome
          /\ run'[x] = outcome => seen'[x] = Shown(x)
      BY <1>19, <1>a, <2>2 DEF Look, LooksAgain, Outcome, Typed, AllKinds
    <3> HIDE DEF Shown
    <3>3. /\ outcome = "applied" /\ kind[x] \in {"link", "key"} => before[x] # Shown(x)
          /\ outcome = "not_applied" => kind[x] # "devices" /\ Shown(x) = before[x]
      BY <3>1 DEF Outcome, AllKinds
    <3>4. kind[x] \in {"link", "key"} =>
            /\ outcome = "not_applied" => request[x] # "landed"
            /\ outcome = "applied" => before[x] < Shown(x)
      BY <1>b, <3>1, <3>3
    <3>5. Shown(x)' = Shown(x)
      BY <3>1 DEF Shown
    <3> HIDE DEF outcome
    <3> QED
      BY <1>b, <3>1, <3>2, <3>3, <3>4, <3>5
  <2> QED
    BY <2>1, <2>2
<1>20. ASSUME NEW a \in Actions, LookFails(a) PROVE Values(x)'
  BY <1>20, <1>a, <1>b DEF LookFails, Typed
<1>21. ASSUME NEW a \in Actions, WriteOutcome(a) PROVE Values(x)'
  BY <1>21, <1>a, <1>b DEF WriteOutcome, MayNotify, Typed
<1>22. ASSUME NEW a \in Actions, WriteFails(a) PROVE Values(x)'
  BY <1>22, <1>a, <1>b DEF WriteFails, Typed
<1>23. ASSUME NEW j \in Jobs, QueueStep(j) PROVE Values(x)'
  BY <1>23, <1>a, <1>b DEF QueueStep, FinishJob, RetryJob, ReleaseStaleJob, Typed
<1>24. CASE ClaimEvents
  BY <1>24, <1>a, <1>b DEF ClaimEvents, Typed
<1>25. ASSUME NEW a \in Actions, WebhookStep(a) PROVE Values(x)'
  BY <1>25, <1>a, <1>b DEF WebhookStep, PostEvent, ReleaseStaleEvent, Typed
<1>26. ASSUME NEW a \in Actions, PurgeEvent(a) \/ PurgeJob(a) PROVE Values(x)'
  <2>1. CASE PurgeEvent(a)
    BY <2>1, <1>a, <1>b DEF PurgeEvent, Typed
  <2>2. CASE PurgeJob(a)
    BY <2>2, <1>a, <1>b DEF PurgeJob, Expirable, Typed
  <2> QED
    BY <1>26, <2>1, <2>2
<1>27. CASE Restart
  BY <1>27, <1>a, <1>b DEF Restart, Evidenced, Typed
<1>28. CASE UNCHANGED vars
  BY <1>28, <1>a, <1>b DEF vars, Typed
<1> QED
  BY <1>1, <1>2, <1>3, <1>4, <1>5, <1>6, <1>7, <1>8, <1>9, <1>10, <1>11, <1>12, <1>13, <1>14,
     <1>15, <1>16, <1>17, <1>18, <1>19, <1>20, <1>21, <1>22, <1>23, <1>24, <1>25, <1>26,
     <1>27, <1>28
     DEF Next, PanelMoves, CommandStep, JobStep, Resolving

-----------------------------------------------------------------------------
(* What the panel can show of the date a gift prolongs.                     *)

LEMMA DatesKept ==
  ASSUME TypeOK, Alone, \A a \in Actions : Progress(a), \A a \in Actions : Values(a),
         \A a \in Actions : Dates(a), [Next]_vars, NEW x \in Actions
  PROVE  Dates(x)'
<1>a. Typed
  BY TypedOK
<1>b. Progress(x) /\ Dates(x) /\ (result[x] = "none" => before[x] = 0)
  BY DEF Values
<1>c. drift[x].now \in Int /\ drift[x].read \in Int
  BY <1>a DEF Typed, DriftRow
<1> USE DEF Dates, Added, MovedAlike, Read, Shown, Unresolved, Progress, Handling, Resolving,
            Reading, rows
<1>1. ASSUME NEW a \in Actions, Land(a) PROVE Dates(x)'
  <2> SUFFICES ASSUME kind[x] = "gift" PROVE Dates(x)'
    BY <1>1 DEF Land
  <2> DEFINE late == kind[a] = "gift" /\ result[a] \notin {"started", "unknown"}
             same == TicketOf[x] = TicketOf[a] /\ kind[a] = "gift"
  <2>1. /\ UNCHANGED <<kind, before, result, verdict, run>>
        /\ request[a] = "flying"
        /\ request'[x] = IF x = a THEN "landed" ELSE request[x]
        /\ drift' = IF late THEN Drifted(TicketOf[a], 1) ELSE drift
    BY <1>1, <1>a DEF Land, Typed
  <2>2. /\ Shown(x) \in Nat /\ before[x] \in Nat
        /\ Shown(x)' = IF same THEN Shown(x) + 1 ELSE Shown(x)
    BY <1>1, <1>a DEF Land, AfterMutation, Typed, AllKinds
  <2>3. /\ drift'[x].read = drift[x].read
        /\ result[x] \in Unresolved =>
               drift'[x].now = IF late /\ same THEN drift[x].now + 1 ELSE drift[x].now
    BY <1>a, <2>1, DriftRows DEF Typed
  <2>4. result[x] \in Unresolved => (same /\ ~ late <=> x = a)
    BY DEF Alone
  <2>5. x = a => run[x] # "not_applied"
    BY <1>b, <2>1
  <2> HIDE DEF late, same, Shown
  <2>6. result[x] \in Unresolved /\ Read(x) =>
          Shown(x)' = before[x] + Added(x)' + drift'[x].now
    BY <1>b, <1>c, <2>1, <2>2, <2>3, <2>4
  <2> QED
    BY <1>b, <2>1, <2>3, <2>5, <2>6
<1>2. ASSUME NEW a \in Actions, Drop(a) PROVE Dates(x)'
  BY <1>2, <1>a, <1>b DEF Drop, Typed
<1>3. ASSUME NEW a \in Actions, OtherChange(TicketOf[a], kind[a]) PROVE Dates(x)'
  <2> SUFFICES ASSUME kind[x] = "gift" PROVE Dates(x)'
    BY <1>3 DEF OtherChange
  <2>1. PICK value \in OtherValues(kind[a], Shown(a)) :
          /\ panel' = [panel EXCEPT ![TicketOf[a]][kind[a]] = value]
          /\ drift' = IF kind[a] = "gift" THEN Drifted(TicketOf[a], value - Shown(a))
                      ELSE drift
    BY <1>3 DEF OtherChange
  <2>2. UNCHANGED <<kind, before, result, verdict, request, run>>
    BY <1>3 DEF OtherChange
  <2>3. Shown(x) \in Nat /\ Shown(a) \in Nat /\ before[x] \in Nat
    BY <1>a DEF Typed
  <2>4. kind[a] = "gift" => value \in Nat /\ value - Shown(a) \in Int
    BY <2>1, <2>3 DEF OtherValues
  <2>5. CASE TicketOf[x] = TicketOf[a] /\ kind[a] = "gift"
    <3>1. Shown(x) = Shown(a) /\ Shown(x)' = value
      BY <1>a, <2>1, <2>2, <2>5 DEF Typed
    <3>2. /\ drift'[x].read = drift[x].read
          /\ result[x] \in Unresolved => drift'[x].now = drift[x].now + (value - Shown(a))
      BY <1>a, <2>1, <2>4, <2>5, DriftRows DEF Typed
    <3> HIDE DEF Shown
    <3>3. result[x] \in Unresolved /\ Read(x) =>
            Shown(x)' = before[x] + Added(x)' + drift'[x].now
      BY <1>b, <1>c, <2>2, <2>3, <2>4, <2>5, <3>1, <3>2
    <3> QED
      BY <1>b, <2>2, <3>2, <3>3
  <2>6. CASE ~ (TicketOf[x] = TicketOf[a] /\ kind[a] = "gift")
    <3>1. Shown(x)' = Shown(x)
      BY <1>a, <2>1, <2>2, <2>6 DEF Typed
    <3>2. drift'[x] = drift[x]
      BY <1>a, <2>1, <2>4, <2>6, DriftRows DEF Typed
    <3> QED
      BY <1>b, <2>2, <3>1, <3>2
  <2> QED
    BY <2>5, <2>6
<1>4. ASSUME NEW a \in Actions, Reserve(a) PROVE Dates(x)'
  BY <1>4, <1>a, <1>b DEF Reserve, Reservable, Typed
<1>5. ASSUME NEW a \in Actions, Lookup(a) PROVE Dates(x)'
  <2>1. CASE x # a
    BY <1>5, <1>a, <1>b, <2>1 DEF Lookup, Typed
  <2>2. CASE x = a
    <3>1. /\ UNCHANGED <<kind, result, verdict, run, request, panel>>
          /\ before'[x] = Shown(x) /\ Shown(x) \in Nat /\ drift'[x].now = 0
          /\ request[x] = "unsent" /\ run[x] = "idle"
      BY <1>5, <1>a, <1>b, <2>2 DEF Lookup, Typed, DriftRow
    <3> QED
      BY <3>1
  <2> QED
    BY <2>1, <2>2
<1>6. ASSUME NEW a \in Actions, LookupFails(a) PROVE Dates(x)'
  BY <1>6, <1>a, <1>b DEF LookupFails, Fail, Typed
<1>7. ASSUME NEW a \in Actions, QueueEvidence(a) PROVE Dates(x)'
  BY <1>7, <1>a, <1>b DEF QueueEvidence, Typed
<1>8. ASSUME NEW a \in Actions, Mutate(a) PROVE Dates(x)'
  BY <1>8, <1>a, <1>b DEF Mutate, Typed
<1>9. ASSUME NEW a \in Actions, RecordCompleted(a) PROVE Dates(x)'
  BY <1>9, <1>a, <1>b DEF RecordCompleted, MayNotify, Typed
<1>10. ASSUME NEW a \in Actions, RecordFailed(a) PROVE Dates(x)'
  BY <1>10, <1>a, <1>b DEF RecordFailed, Fail, Typed
<1>11. ASSUME NEW a \in Actions, RecordUnknown(a) PROVE Dates(x)'
  BY <1>11, <1>a, <1>b DEF RecordUnknown, Typed
<1>12. ASSUME NEW a \in Actions, Abandon(a) PROVE Dates(x)'
  BY <1>12, <1>a, <1>b DEF Abandon, Typed
<1>13. ASSUME NEW a \in Actions, NEW resolution \in Resolving, CheckResolution(a, resolution)
       PROVE  Dates(x)'
  BY <1>13, <1>a, <1>b DEF CheckResolution, Typed
<1>14. ASSUME NEW a \in Actions, CommitResolution(a) PROVE Dates(x)'
  <2>1. /\ UNCHANGED <<kind, before, request, run, panel, drift>>
        /\ x # a => UNCHANGED <<result[x], verdict[x]>>
        /\ command[a] \in Resolving
        /\ UNCHANGED <<result[x], verdict[x]>> \/ ~ (result'[x] \in Unresolved)
    BY <1>14, <1>a DEF CommitResolution, Typed
  <2>2. x = a => request[x] # "flying"
    BY <1>b, <2>1
  <2> QED
    BY <1>b, <2>1, <2>2
<1>15. ASSUME NEW t \in Tickets, EnqueueTopicJob(t) PROVE Dates(x)'
  BY <1>15, <1>a, <1>b DEF EnqueueTopicJob, Typed
<1>16. ASSUME NEW t \in Tickets, WorkOnTopic(t) PROVE Dates(x)'
  BY <1>16, <1>a, <1>b DEF WorkOnTopic, Typed
<1>17. CASE ClaimJobs
  <2>1. UNCHANGED <<kind, before, result, verdict, request, panel, drift>>
    BY <1>17 DEF ClaimJobs
  <2>2. PICK S \in SUBSET Jobs : run' = [j \in Jobs |-> IF j \in S THEN "begin" ELSE run[j]]
    BY <1>17 DEF ClaimJobs
  <2>3. run'[x] = run[x] \/ run'[x] = "begin"
    BY <1>a, <2>2 DEF Typed
  <2> QED
    BY <1>b, <2>1, <2>3
<1>18. ASSUME NEW a \in Actions, BeginJob(a) PROVE Dates(x)'
  BY <1>18, <1>a, <1>b DEF BeginJob, Typed
<1>19. ASSUME NEW a \in Actions, Look(a) PROVE Dates(x)'
  <2> SUFFICES ASSUME kind[x] = "gift" PROVE Dates(x)'
    BY <1>19 DEF Look
  <2>1. CASE x # a
    BY <1>19, <1>a, <1>b, <2>1 DEF Look, Typed
  <2>2. CASE x = a
    <3>1. /\ UNCHANGED <<kind, before, result, verdict, request, panel>>
          /\ result[x] = "unknown" /\ before[x] \in Nat /\ Shown(x) \in Nat
          /\ drift'[x].now = drift[x].now /\ drift'[x].read = drift[x].now
      BY <1>19, <1>a, <1>b, <2>2 DEF Look, Typed, DriftRow
    <3>2. Read(x)
      BY <3>1 DEF Values
    <3>3. \/ run'[x] = "retry"
          \/ run'[x] = Outcome("gift", before[x], Shown(x))
      BY <1>19, <1>a, <2>2 DEF Look, Typed
    <3> HIDE DEF Shown
    <3>4. Shown(x) = before[x] + Added(x) + drift[x].now
      BY <1>b, <3>1, <3>2
    <3>5. /\ run'[x] = "applied" => Shown(x) = before[x] + 1
          /\ run'[x] = "not_applied" => Shown(x) = before[x]
      BY <3>1, <3>3 DEF Outcome, AfterMutation
    <3>6. /\ run'[x] = "applied" => request[x] = "landed" \/ drift[x].now = 1
          /\ run'[x] = "not_applied" /\ request[x] = "landed" => drift[x].now = -1
      BY <1>c, <3>1, <3>4, <3>5
    <3>7. Shown(x)' = Shown(x)
      BY <3>1 DEF Shown
    <3> QED
      BY <1>b, <3>1, <3>4, <3>6, <3>7
  <2> QED
    BY <2>1, <2>2
<1>20. ASSUME NEW a \in Actions, LookFails(a) PROVE Dates(x)'
  BY <1>20, <1>a, <1>b DEF LookFails, Typed
<1>21. ASSUME NEW a \in Actions, WriteOutcome(a) PROVE Dates(x)'
  <2>1. /\ UNCHANGED <<kind, before, request, panel, drift>>
        /\ run[a] \in {"applied", "not_applied", "inconclusive"}
        /\ run'[x] = IF x = a THEN "finish" ELSE run[x]
        /\ x # a \/ result[x] # "unknown" => UNCHANGED <<result[x], verdict[x]>>
    BY <1>21, <1>a DEF WriteOutcome, Typed
  <2>2. CASE x # a \/ result[x] # "unknown"
    BY <1>b, <2>1, <2>2
  <2>3. CASE x = a /\ result[x] = "unknown"
    <3>1. /\ run[x] = "inconclusive" => result'[x] = "unknown"
          /\ run[x] = "applied" => verdict'[x] = "panel"
      BY <1>21, <1>a, <2>3 DEF WriteOutcome, Typed
    <3> QED
      BY <1>b, <2>1, <2>3, <3>1
  <2> QED
    BY <2>2, <2>3
<1>22. ASSUME NEW a \in Actions, WriteFails(a) PROVE Dates(x)'
  BY <1>22, <1>a, <1>b DEF WriteFails, Typed
<1>23. ASSUME NEW j \in Jobs, QueueStep(j) PROVE Dates(x)'
  BY <1>23, <1>a, <1>b DEF QueueStep, FinishJob, RetryJob, ReleaseStaleJob, Typed
<1>24. CASE ClaimEvents
  BY <1>24, <1>a, <1>b DEF ClaimEvents, Typed
<1>25. ASSUME NEW a \in Actions, WebhookStep(a) PROVE Dates(x)'
  BY <1>25, <1>a, <1>b DEF WebhookStep, PostEvent, ReleaseStaleEvent, Typed
<1>26. ASSUME NEW a \in Actions, PurgeEvent(a) \/ PurgeJob(a) PROVE Dates(x)'
  BY <1>26, <1>a, <1>b DEF PurgeEvent, PurgeJob, Expirable, Typed
<1>27. CASE Restart
  BY <1>27, <1>a, <1>b DEF Restart, Evidenced, Typed
<1>28. CASE UNCHANGED vars
  BY <1>28, <1>a, <1>b DEF vars, Typed
<1> QED
  BY <1>1, <1>2, <1>3, <1>4, <1>5, <1>6, <1>7, <1>8, <1>9, <1>10, <1>11, <1>12, <1>13, <1>14,
     <1>15, <1>16, <1>17, <1>18, <1>19, <1>20, <1>21, <1>22, <1>23, <1>24, <1>25, <1>26,
     <1>27, <1>28
     DEF Next, PanelMoves, CommandStep, JobStep, Resolving

-----------------------------------------------------------------------------
(* What is recorded is true.                                                *)

\* What the panel shows of link and keys only grows.
LEMMA ShownGrows ==
  ASSUME TypeOK, [Next]_vars, NEW x \in Actions, kind[x] \in {"link", "key"}
  PROVE  Shown(x) <= Shown(x)'
<1>a. Typed
  BY TypedOK
<1>b. Shown(x) \in Nat /\ kind[x] \in AllKinds
  BY <1>a DEF Typed, Shown
<1> SUFFICES ASSUME Next PROVE Shown(x) <= Shown(x)'
  BY <1>b DEF vars, rows, Shown
<1>1. ASSUME NEW a \in Actions, Land(a) PROVE Shown(x) <= Shown(x)'
  <2>1. /\ Shown(a) \in Nat
        /\ kind[a] # "devices" => AfterMutation(kind[a], Shown(a)) = Shown(a) + 1
        /\ AfterMutation(kind[a], Shown(a)) \in Nat
    BY <1>a DEF Typed, Shown, AfterMutation, AllKinds
  <2>2. issued'[a] = AfterMutation(kind[a], Shown(a))
    BY <1>1, <1>a DEF Land, Typed
  <2> QED
    BY <1>1, <1>a, <1>b, <2>1, <2>2 DEF Land, Typed, Shown, rows
<1>2. ASSUME NEW a \in Actions, OtherChange(TicketOf[a], kind[a]) PROVE Shown(x) <= Shown(x)'
  <2>1. PICK value \in OtherValues(kind[a], Shown(a)) :
          panel' = [panel EXCEPT ![TicketOf[a]][kind[a]] = value]
    BY <1>2 DEF OtherChange, Shown
  <2>2. kind[a] \in {"link", "key"} => value = Shown(a) + 1
    BY <2>1 DEF OtherValues
  <2> QED
    BY <1>2, <1>a, <1>b, <2>1, <2>2 DEF OtherChange, Typed, Shown, rows
<1>3. UNCHANGED panel => Shown(x) <= Shown(x)'
  <2>1. UNCHANGED kind
    BY DEF Next, PanelMoves, Land, Drop, OtherChange, Reserve, CommandStep, Lookup,
           LookupFails, QueueEvidence, Mutate, RecordCompleted, RecordFailed, RecordUnknown,
           CommitResolution, Abandon, CheckResolution, EnqueueTopicJob, WorkOnTopic, ClaimJobs,
           JobStep, BeginJob, Look, LookFails, WriteOutcome, WriteFails, QueueStep, FinishJob,
           RetryJob, ReleaseStaleJob, ClaimEvents, WebhookStep, PostEvent, ReleaseStaleEvent,
           PurgeEvent, PurgeJob, Restart, rows
  <2> QED
    BY <1>b, <2>1 DEF Shown
<1>4. \/ \E a \in Actions : Land(a) \/ OtherChange(TicketOf[a], kind[a])
      \/ UNCHANGED panel
  BY DEF Next, PanelMoves, Drop, Reserve, CommandStep, Lookup,
         LookupFails, QueueEvidence, Mutate, RecordCompleted, RecordFailed, RecordUnknown,
         CommitResolution, Abandon, CheckResolution, EnqueueTopicJob, WorkOnTopic, ClaimJobs,
         JobStep, BeginJob, Look, LookFails, WriteOutcome, WriteFails, QueueStep, FinishJob,
         RetryJob, ReleaseStaleJob, ClaimEvents, WebhookStep, PostEvent, ReleaseStaleEvent,
         PurgeEvent, PurgeJob, Restart, rows
<1> QED
  BY <1>1, <1>2, <1>3, <1>4

\* NotAppliedIsTrue and CompletedIsTrue of one action.
Truth(a) ==
    /\ result[a] \in {"not_applied", "failed"} /\ verdict[a] # "person"
        => request[a] \notin {"flying", "landed"} \/ TakenBack(a)
    /\ result[a] = "completed" =>
        \/ request[a] = "landed"
        \/ MovedAlike(a)
        \/ kind[a] \in {"link", "key"} /\ verdict[a] # "answer" /\ before[a] # Shown(a)
        \/ kind[a] = "devices" /\ verdict[a] # "answer"
        \/ kind[a] # "link" /\ verdict[a] = "person"

LEMMA TruthKept ==
  ASSUME TypeOK, \A a \in Actions : Progress(a), \A a \in Actions : Values(a),
         \A a \in Actions : Dates(a), \A a \in Actions : Truth(a), [Next]_vars,
         NEW x \in Actions
  PROVE  Truth(x)'
<1>a. Typed
  BY TypedOK
<1>b. Progress(x) /\ Truth(x)
  OBVIOUS
<1>c. /\ run[x] = "applied" =>
            /\ kind[x] = "gift" => request[x] = "landed" \/ drift[x].read = 1
            /\ kind[x] \in {"link", "key"} => before[x] # Shown(x)
      /\ run[x] = "not_applied" =>
            /\ request[x] # "flying"
            /\ request[x] = "landed" => kind[x] = "gift" /\ drift[x].read = -1
      /\ command[x] = "applied" /\ kind[x] = "link" => before[x] # Shown(x)
  <2>1. /\ before[x] \in Nat /\ seen[x] \in Nat /\ Shown(x) \in Nat
        /\ kind[x] \in {"gift", "link", "key", "devices"}
    BY <1>a DEF Typed, Shown, AllKinds
  <2> QED
    BY <1>b, <2>1 DEF Values, Newer, Dates, Progress
<1>d. kind[x] \in {"link", "key"} /\ before[x] # Shown(x) => before[x] # Shown(x)'
  <2>1. TypeOK'
    BY TypesKept
  <2>2. /\ before[x] \in Nat /\ Shown(x) \in Nat
        /\ kind[x] \in {"link", "key"} => before[x] <= Shown(x)
    BY <1>a DEF Typed, Shown, Values
  <2>3. Shown(x)' \in Nat
    BY <2>1, PanelAssumption DEF TypeOK, Shown
  <2> QED
    BY <2>2, <2>3, ShownGrows
<1>e. ASSUME NEW t, NEW by \in Int PROVE Drifted(t, by)[x].read = drift[x].read
  BY <1>a, DriftRows DEF Typed
<1> USE DEF Truth, MovedAlike, TakenBack, Progress, Handling, Resolving, Reading, rows
<1>1. ASSUME NEW a \in Actions, Land(a) PROVE Truth(x)'
  <2>1. drift'[x].read = drift[x].read
    BY <1>1, <1>e DEF Land
  <2> QED
    BY <1>1, <1>a, <1>b, <1>c, <1>d, <2>1 DEF Land, Typed
<1>2. ASSUME NEW a \in Actions, Drop(a) PROVE Truth(x)'
  BY <1>2, <1>a, <1>b, <1>c, <1>d DEF Drop, Typed
<1>3. ASSUME NEW a \in Actions, OtherChange(TicketOf[a], kind[a]) PROVE Truth(x)'
  <2>1. PICK value \in OtherValues(kind[a], Shown(a)) :
          drift' = IF kind[a] = "gift" THEN Drifted(TicketOf[a], value - Shown(a)) ELSE drift
    BY <1>3 DEF OtherChange, Shown
  <2>2. kind[a] = "gift" => value - Shown(a) \in Int
    BY <1>a, <2>1 DEF OtherValues, Shown, Typed
  <2>3. drift'[x].read = drift[x].read
    BY <1>e, <2>1, <2>2
  <2> QED
    BY <1>3, <1>a, <1>b, <1>c, <1>d, <2>3 DEF OtherChange, Typed
<1>4. ASSUME NEW a \in Actions, Reserve(a) PROVE Truth(x)'
  BY <1>4, <1>a, <1>b, <1>c, <1>d DEF Reserve, Reservable, Typed
<1>5. ASSUME NEW a \in Actions, Lookup(a) PROVE Truth(x)'
  BY <1>5, <1>a, <1>b, <1>c, <1>d DEF Lookup, Typed
<1>6. ASSUME NEW a \in Actions, LookupFails(a) PROVE Truth(x)'
  BY <1>6, <1>a, <1>b, <1>c, <1>d DEF LookupFails, Fail, Typed
<1>7. ASSUME NEW a \in Actions, QueueEvidence(a) PROVE Truth(x)'
  BY <1>7, <1>a, <1>b, <1>c, <1>d DEF QueueEvidence, Typed
<1>8. ASSUME NEW a \in Actions, Mutate(a) PROVE Truth(x)'
  BY <1>8, <1>a, <1>b, <1>c, <1>d DEF Mutate, Typed
<1>9. ASSUME NEW a \in Actions, RecordCompleted(a) PROVE Truth(x)'
  BY <1>9, <1>a, <1>b, <1>c, <1>d DEF RecordCompleted, MayNotify, Typed
<1>10. ASSUME NEW a \in Actions, RecordFailed(a) PROVE Truth(x)'
  BY <1>10, <1>a, <1>b, <1>c, <1>d DEF RecordFailed, Fail, Typed
<1>11. ASSUME NEW a \in Actions, RecordUnknown(a) PROVE Truth(x)'
  BY <1>11, <1>a, <1>b, <1>c, <1>d DEF RecordUnknown, Typed
<1>12. ASSUME NEW a \in Actions, Abandon(a) PROVE Truth(x)'
  BY <1>12, <1>a, <1>b, <1>c, <1>d DEF Abandon, Typed
<1>13. ASSUME NEW a \in Actions, NEW resolution \in Resolving, CheckResolution(a, resolution)
       PROVE  Truth(x)'
  BY <1>13, <1>a, <1>b, <1>c, <1>d DEF CheckResolution, Typed
<1>14. ASSUME NEW a \in Actions, CommitResolution(a) PROVE Truth(x)'
  BY <1>14, <1>a, <1>b, <1>c, <1>d DEF CommitResolution, MayNotify, Typed
<1>15. ASSUME NEW t \in Tickets, EnqueueTopicJob(t) PROVE Truth(x)'
  BY <1>15, <1>a, <1>b, <1>c, <1>d DEF EnqueueTopicJob, Typed
<1>16. ASSUME NEW t \in Tickets, WorkOnTopic(t) PROVE Truth(x)'
  BY <1>16, <1>a, <1>b, <1>c, <1>d DEF WorkOnTopic, Typed
<1>17. CASE ClaimJobs
  BY <1>17, <1>a, <1>b, <1>c, <1>d DEF ClaimJobs, Claimable, Typed
<1>18. ASSUME NEW a \in Actions, BeginJob(a) PROVE Truth(x)'
  BY <1>18, <1>a, <1>b, <1>c, <1>d DEF BeginJob, Typed
<1>19. ASSUME NEW a \in Actions, Look(a) PROVE Truth(x)'
  BY <1>19, <1>a, <1>b, <1>c, <1>d DEF Look, LooksAgain, Outcome, Typed
<1>20. ASSUME NEW a \in Actions, LookFails(a) PROVE Truth(x)'
  BY <1>20, <1>a, <1>b, <1>c, <1>d DEF LookFails, Typed
<1>21. ASSUME NEW a \in Actions, WriteOutcome(a) PROVE Truth(x)'
  <2>1. /\ UNCHANGED <<kind, before, request, drift>>
        /\ run[a] \in {"applied", "not_applied", "inconclusive"}
        /\ x # a \/ result[x] # "unknown" => UNCHANGED <<result[x], verdict[x]>>
    BY <1>21, <1>a DEF WriteOutcome, Typed
  <2>2. CASE x # a \/ result[x] # "unknown"
    BY <1>b, <1>d, <2>1, <2>2
  <2>3. CASE x = a /\ result[x] = "unknown"
    <3>1. /\ run[x] = "applied" => result'[x] = "completed" /\ verdict'[x] = "panel"
          /\ run[x] = "not_applied" => result'[x] = "not_applied" /\ verdict'[x] = "panel"
          /\ run[x] = "inconclusive" => result'[x] = "unknown"
          /\ kind[x] \in AllKinds
      BY <1>21, <1>a, <2>3 DEF WriteOutcome, Typed
    <3> QED
      BY <1>c, <1>d, <2>1, <2>3, <3>1 DEF AllKinds
  <2> QED
    BY <2>2, <2>3
<1>22. ASSUME NEW a \in Actions, WriteFails(a) PROVE Truth(x)'
  BY <1>22, <1>a, <1>b, <1>c, <1>d DEF WriteFails, Typed
<1>23. ASSUME NEW j \in Jobs, QueueStep(j) PROVE Truth(x)'
  BY <1>23, <1>a, <1>b, <1>c, <1>d DEF QueueStep, FinishJob, RetryJob, ReleaseStaleJob, Typed
<1>24. CASE ClaimEvents
  BY <1>24, <1>a, <1>b, <1>c, <1>d DEF ClaimEvents, Typed
<1>25. ASSUME NEW a \in Actions, WebhookStep(a) PROVE Truth(x)'
  BY <1>25, <1>a, <1>b, <1>c, <1>d DEF WebhookStep, PostEvent, ReleaseStaleEvent, Typed
<1>26. ASSUME NEW a \in Actions, PurgeEvent(a) \/ PurgeJob(a) PROVE Truth(x)'
  BY <1>26, <1>a, <1>b, <1>c, <1>d DEF PurgeEvent, PurgeJob, Expirable, Typed
<1>27. CASE Restart
  BY <1>27, <1>a, <1>b, <1>c, <1>d DEF Restart, Evidenced, Typed
<1>28. CASE UNCHANGED vars
  BY <1>28, <1>a, <1>b, <1>c, <1>d DEF vars, Typed
<1> QED
  BY <1>1, <1>2, <1>3, <1>4, <1>5, <1>6, <1>7, <1>8, <1>9, <1>10, <1>11, <1>12, <1>13, <1>14,
     <1>15, <1>16, <1>17, <1>18, <1>19, <1>20, <1>21, <1>22, <1>23, <1>24, <1>25, <1>26,
     <1>27, <1>28
     DEF Next, PanelMoves, CommandStep, JobStep, Resolving

-----------------------------------------------------------------------------
(* The theorems that hold whatever is neglected.                            *)

LEMMA Initially == Init => IInv
<1> SUFFICES ASSUME Init PROVE IInv
  OBVIOUS
<1>1. TypeOK
  BY TypesInit
<1>2. \A a \in Actions : a \in Jobs /\ TicketOf[a] \in Tickets /\ kind[a] \in AllKinds
  BY <1>1, PanelAssumption DEF Jobs, TypeOK
<1>3. \A a \in Actions : Progress(a)
  BY <1>2 DEF Init, Progress, Handling, Resolving, Reading
<1>4. \A a \in Actions : Shown(a) = 1
  BY <1>2 DEF Init, Shown
<1>5. \A a \in Actions : Values(a)
  BY <1>2, <1>4 DEF Init, Values, Read, Newer, Handling, Unresolved
<1>6. Alone /\ NotAppliedIsTrue /\ CompletedIsTrue
  BY DEF Init, Alone, Unresolved, NotAppliedIsTrue, CompletedIsTrue
<1>7. \A a \in Actions : Dates(a)
  BY <1>2 DEF Init, Dates, Unresolved
<1> QED
  BY <1>1, <1>3, <1>5, <1>6, <1>7 DEF IInv

LEMMA Inductive == IInv /\ [Next]_vars => IInv'
<1> SUFFICES ASSUME IInv, [Next]_vars PROVE IInv'
  OBVIOUS
<1>1. \A a \in Actions : Truth(a)
  BY DEF IInv, Truth, NotAppliedIsTrue, CompletedIsTrue
<1>2. /\ TypeOK' /\ Alone'
      /\ \A a \in Actions : Progress(a)' /\ Values(a)' /\ Dates(a)' /\ Truth(a)'
  BY <1>1, TypesKept, AloneKept, ProgressKept, ValuesKept, DatesKept, TruthKept DEF IInv
<1> QED
  BY <1>2 DEF IInv, Truth, NotAppliedIsTrue, CompletedIsTrue

LEMMA Invariance == Spec => []IInv
  BY Initially, Inductive, PTL DEF Spec

\* Rows, processes and panel keep their types.
THEOREM TypeCorrect == Spec => []TypeOK
<1>1. IInv => TypeOK
  BY DEF IInv
<1> QED
  BY <1>1, Invariance, PTL

\* A command reaches the panel at most once, whatever is replayed or restarted.
THEOREM AtMostOneRequest == Spec => SentOnce
<1>1. IInv /\ [Next]_vars =>
        [\A a \in Actions : request'[a] = "flying" => request[a] \in {"unsent", "flying"}]_vars
  <2> SUFFICES ASSUME IInv, Next, NEW x \in Actions, request'[x] = "flying"
               PROVE  request[x] \in {"unsent", "flying"}
    OBVIOUS
  <2>1. request \in [Actions -> Requests] /\ Progress(x)
    BY DEF IInv, TypeOK
  <2>2. ASSUME NEW a \in Actions, Mutate(a) PROVE request[x] \in {"unsent", "flying"}
    BY <2>1, <2>2 DEF Mutate, Progress
  <2>3. ASSUME NEW a \in Actions, Land(a) \/ Drop(a)
        PROVE  request[x] \in {"unsent", "flying"}
    BY <2>1, <2>3 DEF Land, Drop
  <2>4. \/ \E a \in Actions : Mutate(a) \/ Land(a) \/ Drop(a)
        \/ UNCHANGED request
    BY DEF Next, PanelMoves, OtherChange, Reserve, CommandStep, Lookup,
           LookupFails, QueueEvidence, RecordCompleted, RecordFailed, RecordUnknown,
           CommitResolution, Abandon, CheckResolution, EnqueueTopicJob, WorkOnTopic, ClaimJobs,
           JobStep, BeginJob, Look, LookFails, WriteOutcome, WriteFails, QueueStep, FinishJob,
           RetryJob, ReleaseStaleJob, ClaimEvents, WebhookStep, PostEvent, ReleaseStaleEvent,
           PurgeEvent, PurgeJob, Restart, rows
  <2> QED
    BY <2>2, <2>3, <2>4
<1> QED
  BY <1>1, Invariance, PTL DEF Spec, SentOnce

\* What the program records as not applied the panel did not carry out and will not,
\* but for a gift whose length somebody else took off again.
THEOREM NotAppliedTrue == Spec => []NotAppliedIsTrue
<1>1. IInv => NotAppliedIsTrue
  BY DEF IInv
<1> QED
  BY <1>1, Invariance, PTL

\* What it records as completed the panel carried out, or at least shows: of a gift that
\* was lost, a date that all others together moved by exactly its length.
THEOREM CompletedTrue == Spec => []CompletedIsTrue
<1>1. IInv => CompletedIsTrue
  BY DEF IInv
<1> QED
  BY <1>1, Invariance, PTL

\* No command reads the date while a gift of the ticket is on its way, unless that gift
\* was taken for carried out because others had moved the date by its length.
THEOREM GiftsApart == Spec => []GiftsDoNotOverlap
<1>1. IInv => GiftsDoNotOverlap
  <2> SUFFICES ASSUME IInv, NEW a \in Actions, NEW b \in Actions, a # b,
                      TicketOf[a] = TicketOf[b], kind[a] = "gift", request[a] = "flying",
                      command[b] \in {"evidence", "send", "wait"}
               PROVE  MovedAlike(a)
    BY DEF GiftsDoNotOverlap
  <2>1. result[a] \in Unresolved \/ MovedAlike(a)
    BY DEF IInv, Dates
  <2>2. result[b] = "started"
    BY DEF IInv, Progress, Handling
  <2>3. ~ (result[a] \in Unresolved)
    BY <2>2 DEF IInv, Alone, Unresolved
  <2> QED
    BY <2>1, <2>3
<1> QED
  BY <1>1, Invariance, PTL

\* The customer hears of an action once, and only of one that is completed.
THEOREM NoticeOnce == Spec => []OneNotice
<1>1. IInv => OneNotice
  BY DEF IInv, Progress, OneNotice
<1> QED
  BY <1>1, Invariance, PTL

-----------------------------------------------------------------------------
(* The event of a new link, whatever retention removes.                     *)

LEMMA StatusSet ==
  ASSUME NEW table \in [Actions -> EventRow], NEW a \in Actions, NEW status
  PROVE  LET new == [table EXCEPT ![a].status = status] IN
         /\ \A x \in Actions : x # a => new[x] = table[x]
         /\ new[a].status = status /\ new[a].told = table[a].told
         /\ new[a].rank = table[a].rank
  BY DEF EventRow

LEMMA Filled ==
  ASSUME event \in [Actions -> EventRow], NEW a \in Actions, NEW value
  PROVE  LET new == FilledEvent(a, value) IN
         /\ \A x \in Actions : x # a => new[x] = event[x]
         /\ new[a].status = "pending" /\ new[a].told = value
         /\ new[a].rank = event[a].rank
  BY DEF EventRow, FilledEvent

LEMMA EventClaimed ==
  ASSUME NEW row \in EventRow
  PROVE  LET new == [row EXCEPT !.status = "processing", !.attempts = @ + 1] IN
         new.status = "processing" /\ new.told = row.told /\ new.rank = row.rank
  BY DEF EventRow

\* EventFollowsAction of one action, what there is before and besides, and what is left
\* of it when retention removes the event of an unresolved action.
Follows(a) ==
    /\ kind[a] # "link" \/ result[a] = "none" =>
        event[a].status = "none" /\ event[a].told = 0 /\ event[a].rank = 0
    /\ kind[a] = "link" =>
        /\ command[a] \in Handling => event[a].status = "awaiting"
        /\ result[a] \in Unresolved =>
               /\ event[a].told = 0
               /\ event[a].status = "awaiting" \/ (Neglect /\ event[a].status = "gone")
        /\ result[a] \in {"not_applied", "failed"} =>
               event[a].told = 0 /\ event[a].status \in {"cancelled", "gone"}
        /\ result[a] = "completed" =>
               /\ event[a].status \in Queued \union {"delivered", "failed", "gone"}
               /\ event[a].told <= Shown(a)
               /\ \/ event[a].told > before[a] /\ before[a] # 0
                  \/ Neglect /\ event[a].status = "gone" /\ event[a].told = 0

LEMMA FollowsKept ==
  ASSUME TypeOK, \A a \in Actions : Progress(a), \A a \in Actions : Values(a),
         \A a \in Actions : Follows(a), [Next]_vars, NEW x \in Actions
  PROVE  Follows(x)'
<1>a. Typed /\ event \in [Actions -> EventRow]
  BY TypedOK DEF TypeOK, EventRow
<1>b. Progress(x) /\ Follows(x)
  OBVIOUS
<1>c. kind[x] = "link" =>
        /\ request[x] = "landed" => issued[x] > before[x] /\ issued[x] <= Shown(x)'
        /\ run[x] = "applied" \/ command[x] = "applied" =>
              seen[x] > before[x] /\ seen[x] <= Shown(x)'
        /\ result[x] = "completed" => event[x].told <= Shown(x)'
        /\ command[x] \in Handling \ {"lookup"} \/ result[x] = "unknown" => before[x] # 0
        /\ Shown(x)' \in Nat
  <2>1. /\ before[x] \in Nat /\ seen[x] \in Nat /\ issued[x] \in Nat
        /\ Shown(x) \in Nat /\ event[x].told \in Nat
    BY <1>a DEF Typed, Shown, EventRow
  <2>2. TypeOK'
    BY TypesKept
  <2>3. Shown(x)' \in Nat
    BY <2>2, PanelAssumption DEF TypeOK, Shown
  <2> QED
    BY <2>1, <2>3, ShownGrows DEF Values, Newer, Follows, Read
<1> USE DEF Follows, Progress, Unresolved, Queued, Handling, Resolving, Reading, rows
<1>1. ASSUME NEW a \in Actions, Land(a) PROVE Follows(x)'
  BY <1>1, <1>a, <1>b, <1>c, StatusSet, Filled DEF Land, Typed
<1>2. ASSUME NEW a \in Actions, Drop(a) PROVE Follows(x)'
  BY <1>2, <1>a, <1>b, <1>c, StatusSet, Filled DEF Drop, Typed
<1>3. ASSUME NEW a \in Actions, OtherChange(TicketOf[a], kind[a]) PROVE Follows(x)'
  BY <1>3, <1>a, <1>b, <1>c, StatusSet, Filled DEF OtherChange, Typed
<1>4. ASSUME NEW a \in Actions, Reserve(a) PROVE Follows(x)'
  BY <1>4, <1>a, <1>b, <1>c, StatusSet, Filled DEF Reserve, Reservable, Typed
<1>5. ASSUME NEW a \in Actions, Lookup(a) PROVE Follows(x)'
  BY <1>5, <1>a, <1>b, <1>c, StatusSet, Filled DEF Lookup, Typed
<1>6. ASSUME NEW a \in Actions, LookupFails(a) PROVE Follows(x)'
  BY <1>6, <1>a, <1>b, <1>c, StatusSet, Filled DEF LookupFails, Fail, Typed
<1>7. ASSUME NEW a \in Actions, QueueEvidence(a) PROVE Follows(x)'
  BY <1>7, <1>a, <1>b, <1>c, StatusSet, Filled DEF QueueEvidence, Typed
<1>8. ASSUME NEW a \in Actions, Mutate(a) PROVE Follows(x)'
  BY <1>8, <1>a, <1>b, <1>c, StatusSet, Filled DEF Mutate, Typed
<1>9. ASSUME NEW a \in Actions, RecordCompleted(a) PROVE Follows(x)'
  BY <1>9, <1>a, <1>b, <1>c, StatusSet, Filled DEF RecordCompleted, MayNotify, FilledEvent, Typed
<1>10. ASSUME NEW a \in Actions, RecordFailed(a) PROVE Follows(x)'
  BY <1>10, <1>a, <1>b, <1>c, StatusSet, Filled DEF RecordFailed, Fail, Typed
<1>11. ASSUME NEW a \in Actions, RecordUnknown(a) PROVE Follows(x)'
  BY <1>11, <1>a, <1>b, <1>c, StatusSet, Filled DEF RecordUnknown, Typed
<1>12. ASSUME NEW a \in Actions, Abandon(a) PROVE Follows(x)'
  BY <1>12, <1>a, <1>b, <1>c, StatusSet, Filled DEF Abandon, Typed
<1>13. ASSUME NEW a \in Actions, NEW resolution \in Resolving, CheckResolution(a, resolution)
       PROVE  Follows(x)'
  BY <1>13, <1>a, <1>b, <1>c, StatusSet, Filled DEF CheckResolution, Typed
<1>14. ASSUME NEW a \in Actions, CommitResolution(a) PROVE Follows(x)'
  <2>1. /\ UNCHANGED <<kind, before, run>> /\ command[a] \in Resolving
        /\ command'[x] \in {command[x], "idle"} /\ command'[a] = "idle"
    BY <1>14, <1>a DEF CommitResolution, Typed
  <2>2. \/ UNCHANGED <<result[a], event>> /\ kind[a] # "link"
        \/ UNCHANGED <<result, event>>
        \/ /\ result'[a] = "completed" /\ command[a] = "applied"
           /\ event' = IF kind[a] = "link" THEN FilledEvent(a, seen[a]) ELSE event
        \/ /\ result'[a] = "not_applied"
           /\ event' = IF kind[a] = "link" THEN [event EXCEPT ![a].status = "cancelled"]
                       ELSE event
    BY <1>14, <1>a DEF CommitResolution, Typed
  <2>3. CASE x # a
    <3>1. result'[x] = result[x] /\ event'[x] = event[x]
      BY <1>14, <1>a, <2>2, <2>3, StatusSet, Filled DEF CommitResolution, Typed
    <3> QED
      BY <1>b, <1>c, <2>1, <3>1
  <2>4. CASE x = a
    <3>1. CASE UNCHANGED <<result, event>>
      BY <1>b, <1>c, <2>1, <3>1
    <3>2. CASE kind[a] # "link"
      <4>1. event'[x] = event[x] /\ result[x] # "none"
        BY <1>b, <2>1, <2>2, <2>4, <3>2
      <4> QED
        BY <1>b, <2>1, <2>4, <3>2, <4>1
    <3>3. CASE kind[a] = "link" /\ event' = FilledEvent(a, seen[a])
               /\ result'[a] = "completed" /\ command[a] = "applied"
      <4>1. event'[x].status = "pending" /\ event'[x].told = seen[x]
        BY <1>a, <2>4, <3>3, Filled
      <4>2. before[x] # 0
        BY <1>b, <1>c, <2>1, <2>4, <3>3
      <4> QED
        BY <1>c, <2>1, <2>4, <3>3, <4>1, <4>2
    <3>4. CASE kind[a] = "link" /\ event' = [event EXCEPT ![a].status = "cancelled"]
               /\ result'[a] = "not_applied"
      <4>1. event'[x].status = "cancelled" /\ event'[x].told = event[x].told
        BY <1>a, <2>4, <3>4, StatusSet
      <4>2. event[x].told = 0
        BY <1>b, <2>1, <2>4, <3>4
      <4> QED
        BY <2>1, <2>4, <3>4, <4>1, <4>2
    <3> QED
      BY <2>2, <3>1, <3>2, <3>3, <3>4
  <2> QED
    BY <2>3, <2>4
<1>15. ASSUME NEW t \in Tickets, EnqueueTopicJob(t) PROVE Follows(x)'
  BY <1>15, <1>a, <1>b, <1>c, StatusSet, Filled DEF EnqueueTopicJob, Typed
<1>16. ASSUME NEW t \in Tickets, WorkOnTopic(t) PROVE Follows(x)'
  BY <1>16, <1>a, <1>b, <1>c, StatusSet, Filled DEF WorkOnTopic, Typed
<1>17. CASE ClaimJobs
  BY <1>17, <1>a, <1>b, <1>c, StatusSet, Filled DEF ClaimJobs, Claimable, Typed
<1>18. ASSUME NEW a \in Actions, BeginJob(a) PROVE Follows(x)'
  BY <1>18, <1>a, <1>b, <1>c, StatusSet, Filled DEF BeginJob, Typed
<1>19. ASSUME NEW a \in Actions, Look(a) PROVE Follows(x)'
  BY <1>19, <1>a, <1>b, <1>c, StatusSet, Filled DEF Look, LooksAgain, Outcome, Typed
<1>20. ASSUME NEW a \in Actions, LookFails(a) PROVE Follows(x)'
  BY <1>20, <1>a, <1>b, <1>c, StatusSet, Filled DEF LookFails, Typed
<1>21. ASSUME NEW a \in Actions, WriteOutcome(a) PROVE Follows(x)'
  <2>1. /\ UNCHANGED <<kind, before, command>>
        /\ run[a] \in {"applied", "not_applied", "inconclusive"}
        /\ event' = event \/ (result[a] = "unknown" /\ event' = SettleEvent(a))
        /\ \A y \in Actions : y # a => result'[y] = result[y]
        /\ result[a] = "unknown"
        /\ result'[a] = CASE run[a] = "applied" -> "completed"
                          [] run[a] = "not_applied" -> "not_applied"
                          [] run[a] = "inconclusive" -> "unknown"
    BY <1>21, <1>a DEF WriteOutcome, Typed
  <2>2. event' = SettleEvent(a)
    BY <1>21, <2>1 DEF WriteOutcome
  <2>3. CASE x # a
    <3>1. event'[x] = event[x]
      BY <1>a, <2>1, <2>2, <2>3, StatusSet, Filled DEF SettleEvent
    <3> QED
      BY <1>b, <1>c, <2>1, <2>3, <3>1
  <2>4. CASE x = a /\ kind[x] # "link"
    <3>1. event' = event
      BY <2>2, <2>4 DEF SettleEvent
    <3> QED
      BY <1>b, <2>1, <2>4, <3>1
  <2>5. CASE x = a /\ kind[x] = "link"
    <3>1. /\ event[x].told = 0 /\ before[x] # 0
          /\ event[x].status = "awaiting" \/ (Neglect /\ event[x].status = "gone")
      BY <1>b, <1>c, <2>1, <2>5
    <3>2. CASE event[x].status = "gone"
      <4>1. event' = event /\ Neglect
        BY <2>2, <2>5, <3>1, <3>2 DEF SettleEvent
      <4> QED
        BY <1>b, <1>c, <2>1, <2>5, <3>1, <3>2, <4>1
    <3>3. CASE event[x].status = "awaiting"
      <4>1. CASE run[x] = "applied"
        <5>1. event'[x].status = "pending" /\ event'[x].told = seen[x]
          BY <1>a, <2>2, <2>5, <3>3, <4>1, StatusSet, Filled DEF SettleEvent
        <5> QED
          BY <1>b, <1>c, <2>1, <2>5, <3>1, <4>1, <5>1
      <4>2. CASE run[x] = "not_applied"
        <5>1. event'[x].status = "cancelled" /\ event'[x].told = 0
          BY <1>a, <2>2, <2>5, <3>1, <3>3, <4>2, StatusSet, Filled DEF SettleEvent
        <5> QED
          BY <1>b, <1>c, <2>1, <2>5, <3>1, <4>2, <5>1
      <4>3. CASE run[x] = "inconclusive"
        <5>1. event' = event
          BY <1>a, <2>2, <2>5, <3>3, <4>3, StatusSet, Filled DEF SettleEvent
        <5> QED
          BY <1>b, <1>c, <2>1, <2>5, <3>1, <3>3, <4>3, <5>1
      <4> QED
        BY <2>1, <2>5, <4>1, <4>2, <4>3
    <3> QED
      BY <3>1, <3>2, <3>3
  <2> QED
    BY <2>3, <2>4, <2>5
<1>22. ASSUME NEW a \in Actions, WriteFails(a) PROVE Follows(x)'
  BY <1>22, <1>a, <1>b, <1>c, StatusSet, Filled DEF WriteFails, Typed
<1>23. ASSUME NEW j \in Jobs, QueueStep(j) PROVE Follows(x)'
  BY <1>23, <1>a, <1>b, <1>c, StatusSet, Filled
     DEF QueueStep, FinishJob, RetryJob, ReleaseStaleJob, Typed
<1>24. CASE ClaimEvents
  <2>1. PICK S \in SUBSET {a \in Actions : event[a].status = "pending"} :
          event' = [a \in Actions |->
                      IF a \in S THEN [event[a] EXCEPT !.status = "processing",
                                                       !.attempts = @ + 1]
                      ELSE event[a]]
    BY <1>24 DEF ClaimEvents
  <2>2. \/ event'[x] = event[x]
        \/ /\ event[x].status = "pending" /\ event'[x].status = "processing"
           /\ event'[x].told = event[x].told
    BY <1>a, <2>1, EventClaimed
  <2>3. UNCHANGED <<kind, before, result, command>>
    BY <1>24 DEF ClaimEvents
  <2> QED
    BY <1>b, <1>c, <2>2, <2>3
<1>25. ASSUME NEW a \in Actions, WebhookStep(a) PROVE Follows(x)'
  <2>1. /\ UNCHANGED <<kind, before, result, command>>
        /\ \/ event' = event
           \/ /\ event[a].status = "processing"
              /\ \E status \in {"pending", "delivered", "failed"} :
                    event' = [event EXCEPT ![a].status = status]
    BY <1>25 DEF WebhookStep, PostEvent, ReleaseStaleEvent, AfterRetry
  <2>2. \/ event'[x] = event[x]
        \/ /\ event[x].status = "processing" /\ event'[x].told = event[x].told
           /\ event'[x].status \in {"pending", "delivered", "failed"}
    <3>1. ASSUME event[a].status = "processing",
                 NEW status \in {"pending", "delivered", "failed"},
                 event' = [event EXCEPT ![a].status = status]
          PROVE  \/ event'[x] = event[x]
                 \/ /\ event[x].status = "processing" /\ event'[x].told = event[x].told
                    /\ event'[x].status = status
      BY <1>a, <3>1, StatusSet
    <3> QED
      BY <2>1, <3>1
  <2> QED
    BY <1>b, <1>c, <2>1, <2>2
<1>26. ASSUME NEW a \in Actions, PurgeEvent(a) \/ PurgeJob(a) PROVE Follows(x)'
  <2>1. /\ UNCHANGED <<kind, before, result, command>> /\ command[x] = "idle"
        /\ \/ event' = event
           \/ /\ \/ event[a].status \in {"delivered", "cancelled", "failed"}
                 \/ Neglect /\ event[a].status \in {"awaiting", "pending"}
              /\ event' = [event EXCEPT ![a].status = "gone"]
    BY <1>26 DEF PurgeEvent, PurgeJob, Overdue, IngressFree
  <2>2. \/ event'[x] = event[x]
        \/ /\ \/ event[x].status \in {"delivered", "cancelled", "failed"}
              \/ Neglect /\ event[x].status \in {"awaiting", "pending"}
           /\ event'[x].told = event[x].told /\ event'[x].status = "gone"
    <3>1. ASSUME event' = [event EXCEPT ![a].status = "gone"]
          PROVE  IF x = a THEN event'[x].told = event[x].told /\ event'[x].status = "gone"
                          ELSE event'[x] = event[x]
      BY <1>a, <3>1, StatusSet
    <3> QED
      BY <2>1, <3>1
  <2>3. result[x] \in Results
    BY DEF TypeOK
  <2> QED
    BY <1>b, <1>c, <2>1, <2>2, <2>3 DEF Results
<1>27. CASE Restart
  BY <1>27, <1>a, <1>b, <1>c, StatusSet, Filled DEF Restart, Evidenced, Typed
<1>28. CASE UNCHANGED vars
  BY <1>28, <1>a, <1>b, <1>c, StatusSet, Filled DEF vars, Typed
<1> QED
  BY <1>1, <1>2, <1>3, <1>4, <1>5, <1>6, <1>7, <1>8, <1>9, <1>10, <1>11, <1>12, <1>13, <1>14,
     <1>15, <1>16, <1>17, <1>18, <1>19, <1>20, <1>21, <1>22, <1>23, <1>24, <1>25, <1>26,
     <1>27, <1>28
     DEF Next, PanelMoves, CommandStep, JobStep, Resolving

\* Only a new command gives its event a rank, only an event that is awaited
\* or queued can be queued later, and only one that is awaited is given its link.
EventMoves(a) ==
    /\ event'[a].rank = event[a].rank
    /\ event'[a].told # event[a].told => event[a].status = "awaiting"
    /\ event'[a].status = "awaiting" => event[a].status = "awaiting"
    /\ event'[a].status \in Queued => event[a].status \in Queued \union {"awaiting"}

LEMMA EventsMove ==
  ASSUME TypeOK, \A a \in Actions : Progress(a), \A a \in Actions : Follows(a),
         Next, NEW x \in Actions
  PROVE  EventMoves(x) \/ (Reserve(x) /\ kind[x] = "link")
<1> DEFINE Goal == EventMoves(x) \/ (Reserve(x) /\ kind[x] = "link")
<1>a. event \in [Actions -> EventRow]
  BY DEF TypeOK, EventRow
<1>b. ASSUME UNCHANGED event PROVE Goal
  BY <1>b DEF EventMoves
<1>c. ASSUME NEW a \in Actions, NEW status \in {"cancelled", "gone", "delivered", "failed"},
             event' = [event EXCEPT ![a].status = status]
      PROVE  Goal
  BY <1>a, <1>c, StatusSet DEF EventMoves, Queued
<1>d. ASSUME NEW a \in Actions, event[a].status \in Queued,
             event' = [event EXCEPT ![a].status = "pending"]
      PROVE  Goal
  BY <1>a, <1>d, StatusSet DEF EventMoves, Queued
<1>e. ASSUME NEW a \in Actions, NEW value, event[a].status = "awaiting",
             event' = FilledEvent(a, value)
      PROVE  Goal
  BY <1>a, <1>e, Filled DEF EventMoves, Queued
<1> HIDE DEF Goal
<1>1. ASSUME NEW a \in Actions, Reserve(a) PROVE Goal
  <2>1. CASE kind[a] # "link"
    BY <1>1, <1>b, <2>1 DEF Reserve
  <2>2. CASE x # a /\ kind[a] = "link"
    <3>1. event'[x] = event[x]
      BY <1>1, <1>a, <2>2 DEF Reserve
    <3> QED
      BY <3>1 DEF EventMoves, Goal
  <2>3. CASE x = a /\ kind[a] = "link"
    BY <1>1, <2>3 DEF Goal
  <2> QED
    BY <2>1, <2>2, <2>3
<1>2. ASSUME NEW a \in Actions, LookupFails(a) \/ RecordFailed(a) PROVE Goal
  BY <1>2, <1>b, <1>c DEF LookupFails, RecordFailed, Fail
<1>3. ASSUME NEW a \in Actions, RecordCompleted(a) PROVE Goal
  <2>1. kind[a] = "link" => event[a].status = "awaiting"
    BY <1>3 DEF RecordCompleted, Progress, Handling, Follows, Unresolved
  <2> QED
    BY <1>3, <1>b, <1>e, <2>1 DEF RecordCompleted
<1>4. ASSUME NEW a \in Actions, CommitResolution(a) PROVE Goal
  <2>1. \/ UNCHANGED event
        \/ event' = [event EXCEPT ![a].status = "cancelled"]
        \/ event[a].status = "awaiting" /\ event' = FilledEvent(a, seen[a])
    BY <1>4 DEF CommitResolution
  <2> QED
    BY <1>b, <1>c, <1>e, <2>1
<1>5. ASSUME NEW a \in Actions, WriteOutcome(a) PROVE Goal
  <2>1. kind[a] = "link" => event[a].status \in {"awaiting", "gone"}
    BY <1>5 DEF WriteOutcome, Progress, Reading, Follows, Unresolved
  <2>2. \/ UNCHANGED event
        \/ event' = [event EXCEPT ![a].status = "cancelled"]
        \/ /\ kind[a] = "link" /\ event[a].status # "gone"
           /\ event' = FilledEvent(a, seen[a])
    BY <1>5 DEF WriteOutcome, SettleEvent
  <2> QED
    BY <1>b, <1>c, <1>e, <2>1, <2>2
<1>6. CASE ClaimEvents
  <2>1. PICK S \in SUBSET {a \in Actions : event[a].status = "pending"} :
          event' = [a \in Actions |->
                      IF a \in S THEN [event[a] EXCEPT !.status = "processing",
                                                       !.attempts = @ + 1]
                      ELSE event[a]]
    BY <1>6 DEF ClaimEvents
  <2>2. \/ event'[x] = event[x]
        \/ /\ event[x].status = "pending" /\ event'[x].status = "processing"
           /\ event'[x].rank = event[x].rank /\ event'[x].told = event[x].told
    BY <1>a, <2>1, EventClaimed
  <2> QED
    BY <2>2 DEF Goal, EventMoves, Queued
<1>7. ASSUME NEW a \in Actions, WebhookStep(a) PROVE Goal
  <2>1. \/ UNCHANGED event
        \/ \E status \in {"delivered", "failed"} :
              event' = [event EXCEPT ![a].status = status]
        \/ event[a].status = "processing" /\ event' = [event EXCEPT ![a].status = "pending"]
    BY <1>7 DEF WebhookStep, PostEvent, ReleaseStaleEvent, AfterRetry
  <2> QED
    BY <1>b, <1>c, <1>d, <2>1 DEF Queued
<1>8. ASSUME NEW a \in Actions, PurgeEvent(a) PROVE Goal
  BY <1>8, <1>c DEF PurgeEvent
<1>9. CASE Restart
  <2>1. event'[x] = event[x] \/ event'[x] = [event[x] EXCEPT !.status = "cancelled"]
    BY <1>9 DEF Restart
  <2>2. event[x] \in EventRow
    BY <1>a
  <2>3. /\ [event[x] EXCEPT !.status = "cancelled"].status = "cancelled"
        /\ [event[x] EXCEPT !.status = "cancelled"].rank = event[x].rank
        /\ [event[x] EXCEPT !.status = "cancelled"].told = event[x].told
    BY <2>2 DEF EventRow
  <2> QED
    BY <2>1, <2>3 DEF Goal, EventMoves, Queued
<1>10. \/ \E a \in Actions : \/ Reserve(a) \/ LookupFails(a) \/ RecordFailed(a)
                            \/ RecordCompleted(a) \/ CommitResolution(a) \/ WriteOutcome(a)
                            \/ WebhookStep(a) \/ PurgeEvent(a)
       \/ ClaimEvents \/ Restart \/ UNCHANGED event
  BY DEF Next, PanelMoves, Land, Drop, OtherChange, CommandStep, Lookup, QueueEvidence, Mutate,
         RecordUnknown, Abandon, CheckResolution, EnqueueTopicJob, WorkOnTopic, ClaimJobs,
         JobStep, BeginJob, Look, LookFails, WriteFails, QueueStep, FinishJob,
         RetryJob, ReleaseStaleJob, PurgeJob, rows
<1> QED
  BY <1>1, <1>2, <1>3, <1>4, <1>5, <1>6, <1>7, <1>8, <1>9, <1>10, <1>b DEF Goal

\* Ranks are given in the order of the commands.
Ranks ==
    /\ \A a \in Actions : /\ event[a].rank <= Ranked(event, Actions)
                          /\ result[a] = "none" => event[a].rank = 0 /\ post[a] = "idle"
    /\ \A a, b \in Actions :
        a # b /\ TicketOf[a] = TicketOf[b] /\ event[a].status = "awaiting"
        => event[b].rank < event[a].rank

\* An event that is being posted is claimed, and the first of its ticket.
PostedFirst ==
    /\ \A a \in Actions : post[a] = "post" => event[a].status = "processing"
    /\ \A a, b \in Actions :
        post[a] = "post" /\ TicketOf[a] = TicketOf[b] /\ event[b].rank < event[a].rank
        => event[b].status \notin Queued \union {"awaiting"}

\* The link a command found when it looked is no older than those told before.
LinksGrow ==
    \A a, b \in Actions :
        TicketOf[a] = TicketOf[b] /\ event[b].rank < event[a].rank /\ before[a] # 0
        => event[b].told <= before[a]

\* How many ranks are in use.
LEMMA RankedSame ==
  ASSUME \A a \in Actions : event'[a].rank = event[a].rank
  PROVE  Ranked(event, Actions)' = Ranked(event, Actions)
<1>1. {x \in Actions : event'[x].rank # 0} = {x \in Actions : event[x].rank # 0}
  OBVIOUS
<1> QED
  BY <1>1 DEF Ranked

LEMMA RankedMore ==
  ASSUME NEW a \in Actions, event[a].rank = 0, event'[a].rank # 0,
         \A b \in Actions : b # a => event'[b].rank = event[b].rank
  PROVE  Ranked(event, Actions)' = Ranked(event, Actions) + 1
<1> DEFINE old == {x \in Actions : event[x].rank # 0}
<1>1. {x \in Actions : event'[x].rank # 0} = old \union {a} /\ a \notin old
  OBVIOUS
<1>2. IsFiniteSet(old)
  BY PanelAssumption, FS_Subset
<1>3. Cardinality(old \union {a}) = Cardinality(old) + 1
  BY <1>1, <1>2, FS_AddElement
<1> QED
  BY <1>1, <1>3 DEF Ranked

\* What a new link command does to the ranks.
LEMMA Reserved ==
  ASSUME TypeOK, Ranks, NEW c \in Actions, Reserve(c), kind[c] = "link"
  PROVE  /\ event'[c].status = "awaiting"
         /\ event'[c].rank = Ranked(event, Actions) + 1
         /\ event'[c].rank # 0
         /\ event[c].rank = 0
         /\ \A x \in Actions : x # c => event'[x] = event[x]
         /\ \A x \in Actions : event[x].rank < event'[c].rank
         /\ Ranked(event, Actions)' = event'[c].rank
         /\ post' = post
<1>1. event \in [Actions -> EventRow]
  BY DEF TypeOK, EventRow
<1>2. /\ event' = [event EXCEPT ![c].status = "awaiting",
                                ![c].rank = Ranked(event, Actions) + 1]
      /\ result[c] = "none" /\ post' = post
  BY DEF Reserve, Reservable
<1>3. Ranked(event, Actions) \in Nat
  BY RankedType, PanelAssumption
<1>4. \A x \in Actions : event[x].rank \in Nat
  BY <1>1 DEF EventRow
<1>5. /\ event'[c].status = "awaiting"
      /\ event'[c].rank = Ranked(event, Actions) + 1
      /\ \A x \in Actions : x # c => event'[x] = event[x]
  BY <1>1, <1>2 DEF EventRow
<1>6. event[c].rank = 0 /\ event'[c].rank # 0
  BY <1>2, <1>3, <1>5 DEF Ranks
<1>7. \A x \in Actions : event[x].rank < event'[c].rank
  BY <1>3, <1>4, <1>5 DEF Ranks
<1>8. Ranked(event, Actions)' = Ranked(event, Actions) + 1
  BY <1>5, <1>6, RankedMore
<1> QED
  BY <1>2, <1>5, <1>6, <1>7, <1>8

\* An event is taken in hand by the worker's claim only.
LEMMA Claimed ==
  ASSUME TypeOK, Next, NEW x \in Actions, post'[x] = "post", post[x] # "post"
  PROVE  NoEarlierEvent(x) /\ event[x].status = "pending" /\ ClaimEvents
<1>1. post \in [Actions -> Posts]
  BY DEF TypeOK
<1>2. \/ UNCHANGED post
      \/ \E a \in Actions : PostEvent(a)
      \/ Restart \/ ClaimEvents
  BY DEF Next, PanelMoves, Land, Drop, OtherChange, Reserve, CommandStep, Lookup,
         LookupFails, QueueEvidence, Mutate, RecordCompleted, RecordFailed, RecordUnknown,
         CommitResolution, Abandon, CheckResolution, EnqueueTopicJob, WorkOnTopic, ClaimJobs,
         JobStep, BeginJob, Look, LookFails, WriteOutcome, WriteFails, QueueStep, FinishJob,
         RetryJob, ReleaseStaleJob, WebhookStep, ReleaseStaleEvent, PurgeEvent, PurgeJob, rows
<1>3. ~ (UNCHANGED post) /\ ~ Restart
  BY DEF Restart
<1>4. ~ \E a \in Actions : PostEvent(a)
  BY <1>1 DEF PostEvent
<1>5. ClaimEvents
  BY <1>2, <1>3, <1>4
<1>6. PICK S \in SUBSET {a \in Actions : event[a].status = "pending" /\ NoEarlierEvent(a)} :
        post' = [a \in Actions |-> IF a \in S THEN "post" ELSE post[a]]
  BY <1>5 DEF ClaimEvents
<1>7. x \in S
  BY <1>6
<1> QED
  BY <1>5, <1>6, <1>7

\* An action that is recorded stays recorded.
LEMMA StaysRecorded ==
  ASSUME TypeOK, \A a \in Actions : Progress(a), [Next]_vars, NEW x \in Actions,
         result'[x] = "none"
  PROVE  result[x] = "none"
<1>a. Typed
  BY TypedOK
<1>b. Progress(x)
  OBVIOUS
<1> USE DEF Progress, Handling, Resolving, Reading, rows
<1>1. ASSUME NEW a \in Actions, Land(a) PROVE result[x] = "none"
  BY <1>1, <1>a, <1>b DEF Land, Typed
<1>2. ASSUME NEW a \in Actions, Drop(a) PROVE result[x] = "none"
  BY <1>2, <1>a, <1>b DEF Drop, Typed
<1>3. ASSUME NEW a \in Actions, OtherChange(TicketOf[a], kind[a]) PROVE result[x] = "none"
  BY <1>3, <1>a, <1>b DEF OtherChange, Typed
<1>4. ASSUME NEW a \in Actions, Reserve(a) PROVE result[x] = "none"
  BY <1>4, <1>a, <1>b DEF Reserve, Reservable, Typed
<1>5. ASSUME NEW a \in Actions, Lookup(a) PROVE result[x] = "none"
  BY <1>5, <1>a, <1>b DEF Lookup, Typed
<1>6. ASSUME NEW a \in Actions, LookupFails(a) PROVE result[x] = "none"
  BY <1>6, <1>a, <1>b DEF LookupFails, Fail, Typed
<1>7. ASSUME NEW a \in Actions, QueueEvidence(a) PROVE result[x] = "none"
  BY <1>7, <1>a, <1>b DEF QueueEvidence, Typed
<1>8. ASSUME NEW a \in Actions, Mutate(a) PROVE result[x] = "none"
  BY <1>8, <1>a, <1>b DEF Mutate, Typed
<1>9. ASSUME NEW a \in Actions, RecordCompleted(a) PROVE result[x] = "none"
  BY <1>9, <1>a, <1>b DEF RecordCompleted, MayNotify, Typed
<1>10. ASSUME NEW a \in Actions, RecordFailed(a) PROVE result[x] = "none"
  BY <1>10, <1>a, <1>b DEF RecordFailed, Fail, Typed
<1>11. ASSUME NEW a \in Actions, RecordUnknown(a) PROVE result[x] = "none"
  BY <1>11, <1>a, <1>b DEF RecordUnknown, Typed
<1>12. ASSUME NEW a \in Actions, Abandon(a) PROVE result[x] = "none"
  BY <1>12, <1>a, <1>b DEF Abandon, Typed
<1>13. ASSUME NEW a \in Actions, NEW resolution \in Resolving, CheckResolution(a, resolution)
       PROVE  result[x] = "none"
  BY <1>13, <1>a, <1>b DEF CheckResolution, Typed
<1>14. ASSUME NEW a \in Actions, CommitResolution(a) PROVE result[x] = "none"
  BY <1>14, <1>a, <1>b DEF CommitResolution, MayNotify, Typed
<1>15. ASSUME NEW t \in Tickets, EnqueueTopicJob(t) PROVE result[x] = "none"
  BY <1>15, <1>a, <1>b DEF EnqueueTopicJob, Typed
<1>16. ASSUME NEW t \in Tickets, WorkOnTopic(t) PROVE result[x] = "none"
  BY <1>16, <1>a, <1>b DEF WorkOnTopic, Typed
<1>17. CASE ClaimJobs
  BY <1>17, <1>a, <1>b DEF ClaimJobs, Claimable, Typed
<1>18. ASSUME NEW a \in Actions, BeginJob(a) PROVE result[x] = "none"
  BY <1>18, <1>a, <1>b DEF BeginJob, Typed
<1>19. ASSUME NEW a \in Actions, Look(a) PROVE result[x] = "none"
  BY <1>19, <1>a, <1>b DEF Look, LooksAgain, Outcome, Typed
<1>20. ASSUME NEW a \in Actions, LookFails(a) PROVE result[x] = "none"
  BY <1>20, <1>a, <1>b DEF LookFails, Typed
<1>21. ASSUME NEW a \in Actions, WriteOutcome(a) PROVE result[x] = "none"
  BY <1>21, <1>a, <1>b DEF WriteOutcome, MayNotify, Typed
<1>22. ASSUME NEW a \in Actions, WriteFails(a) PROVE result[x] = "none"
  BY <1>22, <1>a, <1>b DEF WriteFails, Typed
<1>23. ASSUME NEW j \in Jobs, QueueStep(j) PROVE result[x] = "none"
  BY <1>23, <1>a, <1>b DEF QueueStep, FinishJob, RetryJob, ReleaseStaleJob, Typed
<1>24. CASE ClaimEvents
  BY <1>24, <1>a, <1>b DEF ClaimEvents, Typed
<1>25. ASSUME NEW a \in Actions, WebhookStep(a) PROVE result[x] = "none"
  BY <1>25, <1>a, <1>b DEF WebhookStep, PostEvent, ReleaseStaleEvent, Typed
<1>26. ASSUME NEW a \in Actions, PurgeEvent(a) \/ PurgeJob(a) PROVE result[x] = "none"
  BY <1>26, <1>a, <1>b DEF PurgeEvent, PurgeJob, Expirable, Typed
<1>27. CASE Restart
  BY <1>27, <1>a, <1>b DEF Restart, Evidenced, Typed
<1>28. CASE UNCHANGED vars
  BY <1>28, <1>a, <1>b DEF vars, Typed
<1> QED
  BY <1>1, <1>2, <1>3, <1>4, <1>5, <1>6, <1>7, <1>8, <1>9, <1>10, <1>11, <1>12, <1>13, <1>14,
     <1>15, <1>16, <1>17, <1>18, <1>19, <1>20, <1>21, <1>22, <1>23, <1>24, <1>25, <1>26,
     <1>27, <1>28
     DEF Next, PanelMoves, CommandStep, JobStep, Resolving

LEMMA RanksKept ==
  ASSUME TypeOK, \A a \in Actions : Progress(a), \A a \in Actions : Follows(a),
         Ranks, Next
  PROVE  Ranks'
<1>1. ASSUME NEW c \in Actions, Reserve(c), kind[c] = "link" PROVE Ranks'
  <2>1. /\ event'[c].status = "awaiting"
        /\ \A x \in Actions : x # c => event'[x] = event[x]
        /\ \A x \in Actions : event[x].rank < event'[c].rank
        /\ Ranked(event, Actions)' = event'[c].rank
        /\ post' = post /\ event'[c].rank \in Nat
        /\ \A x \in Actions : event[x].rank \in Nat
    BY <1>1, Reserved, RankedType, PanelAssumption DEF TypeOK
  <2>2. /\ result' = [result EXCEPT ![c] = "started"]
        /\ \A b \in Actions : TicketOf[b] = TicketOf[c] => result[b] \notin Unresolved
    BY <1>1 DEF Reserve, Reservable
  <2>3. ASSUME NEW x \in Actions
        PROVE  /\ event'[x].rank <= Ranked(event, Actions)'
               /\ result'[x] = "none" => event'[x].rank = 0 /\ post'[x] = "idle"
    BY <2>1, <2>2 DEF Ranks, TypeOK
  <2>4. ASSUME NEW a \in Actions, NEW b \in Actions, a # b, TicketOf[a] = TicketOf[b],
               event'[a].status = "awaiting"
        PROVE  event'[b].rank < event'[a].rank
    <3>1. CASE a = c
      BY <2>1, <2>4, <3>1
    <3>2. CASE b = c
      <4>1. event[a].status = "awaiting"
        BY <2>1, <2>4, <3>2
      <4>2. result[a] \notin Unresolved
        BY <2>2, <2>4, <3>2
      <4> QED
        BY <4>1, <4>2 DEF Follows, Unresolved, Queued, TypeOK, Results
    <3>3. CASE a # c /\ b # c
      BY <2>1, <2>4, <3>3 DEF Ranks
    <3> QED
      BY <3>1, <3>2, <3>3
  <2> QED
    BY <2>3, <2>4 DEF Ranks
<1>2. CASE \A x \in Actions : EventMoves(x)
  <2>1. \A x \in Actions : event'[x].rank = event[x].rank
    BY <1>2 DEF EventMoves
  <2>2. Ranked(event, Actions)' = Ranked(event, Actions)
    BY <2>1, RankedSame
  <2>3. ASSUME NEW x \in Actions, result'[x] = "none" PROVE post'[x] = "idle"
    <3>1. result[x] = "none"
      BY <2>3, StaysRecorded
    <3>2. post[x] = "idle" /\ event[x].status = "none"
      BY <3>1 DEF Ranks, Follows
    <3>3. post'[x] # "post"
      BY <3>2, Claimed
    <3>4. TypeOK'
      BY TypesKept
    <3> QED
      BY <3>3, <3>4 DEF TypeOK, Posts
  <2>4. \A x \in Actions : result'[x] = "none" => event'[x].rank = 0
    BY <2>1, StaysRecorded DEF Ranks
  <2> QED
    BY <1>2, <2>1, <2>2, <2>3, <2>4 DEF Ranks, EventMoves
<1> QED
  BY <1>1, <1>2, EventsMove

\* Nothing but its answer, or a restart, ends the claim of an event in hand.
LEMMA PostedStays ==
  ASSUME TypeOK, \A a \in Actions : Progress(a), \A a \in Actions : Follows(a),
         Next, NEW x \in Actions,
         post[x] = "post", post'[x] = "post", event[x].status = "processing"
  PROVE  event'[x].status = "processing"
<1>a. event \in [Actions -> EventRow] /\ post \in [Actions -> Posts]
  BY DEF TypeOK, EventRow
<1>b. kind[x] = "link" /\ result[x] = "completed"
  BY DEF Follows, Unresolved, TypeOK, Results
<1>c. command[x] = "idle" /\ run[x] \notin Reading
  BY <1>b DEF Progress, Handling, Resolving, Reading, TypeOK, Commands
<1>1. ASSUME NEW a \in Actions, a # x,
             \/ Reserve(a) \/ LookupFails(a) \/ RecordFailed(a) \/ RecordCompleted(a)
             \/ CommitResolution(a) \/ WriteOutcome(a) \/ PostEvent(a)
             \/ ReleaseStaleEvent(a) \/ PurgeEvent(a)
      PROVE  event'[x] = event[x]
  BY <1>1, <1>a, StatusSet, Filled
     DEF Reserve, LookupFails, RecordFailed, Fail, RecordCompleted, CommitResolution,
         WriteOutcome, SettleEvent, PostEvent, ReleaseStaleEvent, PurgeEvent
<1>2. /\ ~ Reserve(x) /\ ~ LookupFails(x) /\ ~ RecordFailed(x) /\ ~ RecordCompleted(x)
      /\ ~ CommitResolution(x) /\ ~ WriteOutcome(x)
  BY <1>b, <1>c DEF Reserve, Reservable, LookupFails, RecordFailed, RecordCompleted,
     CommitResolution, WriteOutcome, Reading
<1>3. /\ ~ PostEvent(x) /\ ~ PurgeEvent(x) /\ ~ Restart
      /\ \A a \in Actions : ~ ReleaseStaleEvent(a)
  BY <1>a DEF PostEvent, ReleaseStaleEvent, PurgeEvent, Overdue, Restart
<1>4. ASSUME ClaimEvents PROVE event'[x] = event[x]
  BY <1>4, <1>a DEF ClaimEvents
<1>5. \/ \E a \in Actions : \/ Reserve(a) \/ LookupFails(a) \/ RecordFailed(a)
                            \/ RecordCompleted(a) \/ CommitResolution(a) \/ WriteOutcome(a)
                            \/ PostEvent(a) \/ ReleaseStaleEvent(a) \/ PurgeEvent(a)
      \/ ClaimEvents \/ Restart \/ UNCHANGED event
  BY DEF Next, PanelMoves, Land, Drop, OtherChange, CommandStep, Lookup, QueueEvidence, Mutate,
         RecordUnknown, Abandon, CheckResolution, EnqueueTopicJob, WorkOnTopic, ClaimJobs,
         JobStep, BeginJob, Look, LookFails, WriteFails, QueueStep, FinishJob,
         RetryJob, ReleaseStaleJob, WebhookStep, PurgeJob, rows
<1> QED
  BY <1>1, <1>2, <1>3, <1>4, <1>5

LEMMA PostedFirstKept ==
  ASSUME TypeOK, \A a \in Actions : Progress(a), \A a \in Actions : Follows(a),
         Ranks, PostedFirst, Next
  PROVE  PostedFirst'
<1>p. ASSUME NEW x \in Actions, post'[x] = "post" PROVE event'[x].status = "processing"
  <2>1. CASE post[x] = "post"
    BY <1>p, <2>1, PostedStays DEF PostedFirst
  <2>2. CASE post[x] # "post"
    <3>1. ClaimEvents
      BY <1>p, <2>2, Claimed
    <3>2. PICK S \in SUBSET Actions :
            /\ event' = [a \in Actions |->
                           IF a \in S THEN [event[a] EXCEPT !.status = "processing",
                                                            !.attempts = @ + 1]
                           ELSE event[a]]
            /\ post' = [a \in Actions |-> IF a \in S THEN "post" ELSE post[a]]
      BY <3>1 DEF ClaimEvents
    <3>3. x \in S /\ event[x] \in EventRow
      BY <1>p, <2>2, <3>2 DEF TypeOK, EventRow
    <3> QED
      BY <3>2, <3>3, EventClaimed
  <2> QED
    BY <2>1, <2>2
<1> SUFFICES ASSUME NEW a \in Actions, NEW b \in Actions, post'[a] = "post",
                    TicketOf[a] = TicketOf[b], event'[b].rank < event'[a].rank,
                    event'[b].status \in Queued \union {"awaiting"}
             PROVE  FALSE
  BY <1>p DEF PostedFirst, Queued
<1>1. \A x \in Actions : event[x].rank \in Nat
  BY DEF TypeOK
<1>2. ASSUME NEW c \in Actions, Reserve(c), kind[c] = "link" PROVE FALSE
  <2>1. /\ \A x \in Actions : x # c => event'[x] = event[x]
        /\ \A x \in Actions : event[x].rank < event'[c].rank
        /\ post' = post /\ event'[c].rank \in Nat
    BY <1>2, Reserved, RankedType, PanelAssumption
  <2>2. result[c] = "none"
    BY <1>2 DEF Reserve, Reservable
  <2>3. a # c
    BY <2>1, <2>2 DEF Ranks
  <2>4. b # c
    BY <1>1, <2>1, <2>3
  <2> QED
    BY <2>1, <2>3, <2>4 DEF PostedFirst
<1>3. CASE EventMoves(a) /\ EventMoves(b)
  <2>1. /\ event[b].rank < event[a].rank
        /\ event[b].status \in Queued \union {"awaiting"}
    BY <1>3 DEF EventMoves
  <2>2. post[a] # "post"
    BY <2>1 DEF PostedFirst
  <2>3. NoEarlierEvent(a)
    BY <2>2, Claimed
  <2>4. event[b].status \notin Queued
    BY <1>1, <2>1, <2>3 DEF NoEarlierEvent
  <2>5. event[b].status = "awaiting" /\ a # b
    BY <1>1, <2>1, <2>4
  <2> QED
    BY <1>1, <2>1, <2>5 DEF Ranks
<1> QED
  BY <1>2, <1>3, EventsMove

\* What was read before a mutation is read by its lookup.
LEMMA BeforeRead ==
  ASSUME TypeOK, Next, NEW x \in Actions
  PROVE  before'[x] = before[x] \/ (before'[x] = Shown(x) /\ UNCHANGED event)
<1>1. ASSUME NEW a \in Actions, Lookup(a)
      PROVE  before'[x] = before[x] \/ (before'[x] = Shown(x) /\ UNCHANGED event)
  BY <1>1 DEF Lookup, TypeOK
<1>2. UNCHANGED before \/ \E a \in Actions : Lookup(a)
  BY DEF Next, PanelMoves, Land, Drop, OtherChange, Reserve, CommandStep,
         LookupFails, QueueEvidence, Mutate, RecordCompleted, RecordFailed, RecordUnknown,
         CommitResolution, Abandon, CheckResolution, EnqueueTopicJob, WorkOnTopic, ClaimJobs,
         JobStep, BeginJob, Look, LookFails, WriteOutcome, WriteFails, QueueStep, FinishJob,
         RetryJob, ReleaseStaleJob, ClaimEvents, WebhookStep, PostEvent, ReleaseStaleEvent,
         PurgeEvent, PurgeJob, Restart, rows
<1> QED
  BY <1>1, <1>2

LEMMA LinksGrowKept ==
  ASSUME TypeOK, \A a \in Actions : Progress(a), \A a \in Actions : Values(a),
         \A a \in Actions : Follows(a), Ranks, LinksGrow, Next
  PROVE  LinksGrow'
<1> SUFFICES ASSUME NEW a \in Actions, NEW b \in Actions, TicketOf[a] = TicketOf[b],
                    event'[b].rank < event'[a].rank, before'[a] # 0
             PROVE  event'[b].told <= before'[a]
  BY DEF LinksGrow
<1>1. \A x \in Actions : event[x].rank \in Nat /\ event[x].told \in Nat /\ before[x] \in Nat
  BY DEF TypeOK
<1>2. ASSUME NEW c \in Actions, Reserve(c), kind[c] = "link"
      PROVE  event'[b].told <= before'[a]
  <2>1. /\ \A x \in Actions : x # c => event'[x] = event[x]
        /\ \A x \in Actions : event[x].rank < event'[c].rank
        /\ event'[c].rank \in Nat
    BY <1>2, Reserved, RankedType, PanelAssumption
  <2>2. before' = before /\ before[c] = 0
    BY <1>2 DEF Reserve, Reservable, Values
  <2>3. a # c /\ b # c
    BY <1>1, <2>1, <2>2
  <2> QED
    BY <2>1, <2>2, <2>3 DEF LinksGrow
<1>3. CASE EventMoves(a) /\ EventMoves(b)
  <2>1. event[b].rank < event[a].rank /\ a # b
    BY <1>1, <1>3 DEF EventMoves
  <2>2. event[b].status # "awaiting"
    BY <1>1, <2>1 DEF Ranks
  <2>3. event'[b].told = event[b].told
    BY <1>3, <2>2 DEF EventMoves
  <2>4. CASE before'[a] = before[a]
    BY <2>1, <2>3, <2>4 DEF LinksGrow
  <2>5. CASE before'[a] = Shown(a)
    <3>1. kind[a] = "link"
      BY <1>1, <2>1 DEF Follows
    <3>2. Shown(a) \in Nat
      BY ShownType
    <3>3. CASE event[b].told = 0
      BY <2>3, <2>5, <3>2, <3>3
    <3>4. CASE event[b].told # 0
      <4>1. kind[b] = "link" /\ result[b] = "completed"
        BY <3>4 DEF Follows, Unresolved, TypeOK, Results
      <4>2. event[b].told <= Shown(b) /\ Shown(b) = Shown(a)
        BY <3>1, <4>1 DEF Follows, Shown
      <4> QED
        BY <2>3, <2>5, <4>2
    <3> QED
      BY <3>3, <3>4
  <2> QED
    BY <2>4, <2>5, BeforeRead
<1> QED
  BY <1>2, <1>3, EventsMove

-----------------------------------------------------------------------------
(* The theorems about the event.                                            *)

EventInv ==
    /\ IInv
    /\ \A a \in Actions : Follows(a)
    /\ Ranks
    /\ PostedFirst
    /\ LinksGrow

LEMMA EventInvariance == Spec => []EventInv
<1>1. Init => EventInv
  <2> SUFFICES ASSUME Init PROVE EventInv
    OBVIOUS
  <2>1. IInv /\ TypeOK
    BY Initially DEF IInv
  <2>2. Ranked(event, Actions) \in Nat
    BY RankedType, PanelAssumption
  <2> QED
    BY <2>1, <2>2
       DEF Init, EventInv, Follows, Ranks, PostedFirst, LinksGrow, Unresolved, Handling
<1>2. EventInv /\ [Next]_vars => EventInv'
  <2> SUFFICES ASSUME EventInv, [Next]_vars PROVE EventInv'
    OBVIOUS
  <2>1. /\ TypeOK /\ Ranks /\ PostedFirst /\ LinksGrow
        /\ \A a \in Actions : Progress(a) /\ Values(a) /\ Follows(a)
    BY DEF EventInv, IInv
  <2>2. IInv'
    BY Inductive DEF EventInv
  <2>3. \A a \in Actions : Follows(a)'
    BY <2>1, FollowsKept
  <2>4. CASE Next
    BY <2>1, <2>2, <2>3, <2>4, RanksKept, PostedFirstKept, LinksGrowKept DEF EventInv
  <2>5. CASE UNCHANGED vars
    <3>1. Ranks' /\ PostedFirst' /\ LinksGrow'
      BY <2>1, <2>5, RankedSame DEF Ranks, PostedFirst, LinksGrow, vars, rows
    <3> QED
      BY <2>2, <2>3, <3>1 DEF EventInv
  <2> QED
    BY <2>4, <2>5
<1> QED
  BY <1>1, <1>2, PTL DEF Spec

\* When unresolved rows do not outlive retention, the event of a new link follows
\* its action, whoever settles it.
THEOREM EventFollows ==
  ASSUME ~ Neglect
  PROVE  Spec => []EventFollowsAction
<1>1. EventInv => EventFollowsAction
  BY DEF EventInv, Follows, EventFollowsAction
<1> QED
  BY <1>1, EventInvariance, PTL

\* What retention removes is all that can keep an administrator from settling a link
\* without an answer (resolve_inconclusive_action needs the event of the action).
THEOREM ResolvableUnlessPurged ==
  ASSUME ~ Neglect
  PROVE  Spec => []ResolvableByHand
<1>1. EventInv => ResolvableByHand
  BY DEF EventInv, Follows, ResolvableByHand, Unresolved
<1> QED
  BY <1>1, EventInvariance, PTL

\* Whatever retention removes, the receiver of the webhook never sees an old link
\* after a newer one.
THEOREM PostedInOrder == Spec => WebhookInOrder
<1>1. EventInv /\ [Next]_vars =>
        [\A a, b \in Actions :
           /\ post[a] = "post" /\ post'[a] # "post"
           /\ TicketOf[a] = TicketOf[b] /\ event[b].rank < event[a].rank
           => /\ event[b].status \notin Queued \union {"awaiting"}
              /\ event[b].told < event[a].told]_vars
  <2> SUFFICES ASSUME EventInv, NEW a \in Actions, NEW b \in Actions, post[a] = "post",
                      TicketOf[a] = TicketOf[b], event[b].rank < event[a].rank
               PROVE  /\ event[b].status \notin Queued \union {"awaiting"}
                      /\ event[b].told < event[a].told
    OBVIOUS
  <2>1. /\ event[b].status \notin Queued \union {"awaiting"}
        /\ event[a].status = "processing"
    BY DEF EventInv, PostedFirst
  <2>2. event[a].told > before[a] /\ before[a] # 0
    BY <2>1 DEF EventInv, IInv, Follows, Unresolved, TypeOK, Results
  <2>3. event[b].told <= before[a]
    BY <2>2 DEF EventInv, LinksGrow
  <2>4. event[a].told \in Nat /\ event[b].told \in Nat /\ before[a] \in Nat
    BY DEF EventInv, IInv, TypeOK
  <2> QED
    BY <2>1, <2>2, <2>3, <2>4
<1> QED
  BY <1>1, EventInvariance, PTL DEF Spec, WebhookInOrder

=============================================================================
