--------------------------- MODULE QuickCopiesProofs ---------------------------
(***************************************************************************)
(* Without failures, crashes and deleted topics a response has one copy at   *)
(* most, for any responses, scenarios and bounds.                            *)
(*                                                                           *)
(* The invariant follows the two tasks that publish: they take turns at a    *)
(* row, and the refresh gets there first only while the ingress worker waits *)
(* for the lock of that row.  Whoever sends finds no copy; whoever records   *)
(* knows the only one.                                                       *)
(***************************************************************************)
EXTENDS QuickResponsesProofs, FiniteSetTheorems

Working == {"lock"} \union Publishing
Publishes(t, r) == task[t].at \in Publishing /\ task[t].r = r

-----------------------------------------------------------------------------
(* What the steps do, field by field.                                       *)

Budget ==
    left \in [failures : 0..plan.failures, crashes : 0..plan.crashes,
              topics : 0..plan.topics, hands : 0..plan.hands]

Copies == copies \subseteq [id : 1..sent, r : Responses]

LEMMA Natural ==
  ASSUME IInv
  PROVE  plan.failures \in Nat /\ plan.crashes \in Nat /\ plan.topics \in Nat /\ plan.hands \in Nat
  BY ResponsesAssumption DEF IInv, Types

LEMMA Spending ==
  ASSUME IInv, Budget, NEW what \in {"failures", "crashes", "topics", "hands"}, Spend(what),
         plan' = plan
  PROVE  /\ Budget' /\ left'[what] = left[what] - 1 /\ left[what] > 0
         /\ \A other \in {"failures", "crashes", "topics", "hands"} :
              other # what => left'[other] = left[other]
  BY Natural DEF Budget, Spend

\* A failure, a crash, a deletion is one of those that were to come.
LEMMA LeftFalls ==
  ASSUME IInv, [Next]_vars
  PROVE  \/ left' = left
         \/ \E what \in {"failures", "crashes", "topics", "hands"} : Spend(what)
<1>1. ASSUME NEW t \in Tasks, Publish(t)
      PROVE  left' = left
  BY <1>1 DEF Publish, Edit, SendCopy, Record, Clean, Complete
<1>2. CASE Ingress
  BY <1>1, <1>2, TasksAre DEF Ingress, Begin, Finish, LockRecord, Withdraw, SavePending, Warn,
     Erase, ClearPublication
<1>3. CASE Refresh
  BY <1>1, <1>3, TasksAre DEF Refresh, Start, Tick, Probe, Recover, Discard, Instruct, Cleanup,
     Restore, EndRound
<1>4. CASE Arrive \/ RemoveByHand \/ DeleteTopic \/ Crash \/ EraseFails
  BY <1>4 DEF Arrive, RemoveByHand, DeleteTopic, Crash, EraseFails
<1>5. CASE \E r \in Responses : Expire(r) \/ RemoveFails(r)
  BY <1>5 DEF Expire, Wake, RemoveSource, DropRow, RemoveFails
<1>6. CASE \E t \in Tasks : CallFails(t) \/ AnswerLost(t) \/ CleanFails(t)
  BY <1>6 DEF CallFails, AnswerLost, CleanFails
<1>7. CASE UNCHANGED vars
  BY <1>7 DEF vars
<1> QED
  BY <1>2, <1>3, <1>4, <1>5, <1>6, <1>7 DEF Next

LEMMA BudgetKept ==
  ASSUME IInv, Budget, [Next]_vars
  PROVE  Budget'
<1>1. plan' = plan
  BY EveryStep DEF Good, vars
<1> QED
  BY <1>1, LeftFalls, Spending DEF Budget

LEMMA CopiesKept ==
  ASSUME IInv, Copies, [Next]_vars
  PROVE  Copies'
<1>1. CASE UNCHANGED vars
  BY <1>1 DEF Copies, vars, telegram
<1>2. CASE Next
  <2>1. Grow
    BY <1>2, EveryStep DEF Good
  <2>2. CASE copies' \subseteq copies
    BY <2>1, <2>2 DEF Copies, Grow
  <2>3. CASE \E t \in Tasks : /\ task[t].at = "send"
                             /\ copies' = copies \union {[id |-> sent + 1, r |-> task[t].r]}
    <3>1. PICK t \in Tasks : /\ task[t].at = "send"
                            /\ copies' = copies \union {[id |-> sent + 1, r |-> task[t].r]}
      BY <2>3
    <3>2. task[t].r \in Responses
      BY <3>1, Labels DEF IInv, Held, GoodTask, Publishing
    <3>3. sent' >= sent + 1
      <4>1. [id |-> sent + 1, r |-> task[t].r] \in copies'
        BY <3>1
      <4>2. Messages'
        BY <1>2, EveryStep DEF Good
      <4> QED
        BY <2>1, <4>1, <4>2 DEF Messages, Grow
    <3> QED
      BY <2>1, <3>1, <3>2, <3>3 DEF Copies, Grow
  <2> QED
    BY <1>2, <2>2, <2>3, CopiesGrow
<1> QED
  BY <1>1, <1>2


\* A task goes on with what it has in hand; the other one is left alone.
Others(t) == \A u \in Tasks : u # t => task'[u] = task[u]
Keeps(t) ==
    /\ Others(t)
    /\ task'[t].r = task[t].r /\ task'[t].row = task[t].row /\ task'[t].copy = task[t].copy
    /\ task'[t].todo = task[t].todo /\ task'[t].replaced = task[t].replaced

LEMMA GoesKeeps ==
  ASSUME IInv, NEW t \in Tasks, NEW label, Goto(t, label)
  PROVE  Keeps(t) /\ task'[t].at = label
  BY DEF IInv, Types, Task, Goto, Keeps, Others

LEMMA RaiseRests ==
  ASSUME IInv, NEW t \in Tasks, Raise(t)
  PROVE  /\ Others(t)
         /\ task'[t].at = (IF t = "refresh" /\ booting THEN "start" ELSE "idle")
         /\ task'[t].row = NoRow /\ task'[t].copy = 0
         /\ task'[t].todo = {} /\ ~ task'[t].replaced
  BY DEF IInv, Types, Raise, Others, Idle, Tasks

LEMMA StartsPublishing ==
  ASSUME IInv, NEW t \in Tasks, NEW r \in Responses, NEW force, NEW refresh,
         StartPublish(t, r, force, refresh)
  PROVE  /\ Others(t)
         /\ task'[t].at = FirstCall(rows[r], force, refresh)
         /\ task'[t].r = r /\ task'[t].row = rows[r]
         /\ task'[t].copy = (IF force THEN 0 ELSE rows[r].published)
         /\ task'[t].replaced = task[t].replaced
         /\ task'[t].todo = task[t].todo \ {r}
  BY DEF IInv, Types, Task, StartPublish, Others

LEMMA Takes ==
  ASSUME IInv, NEW label \in Alone \union Busy, NEW r \in Responses, NEW n \in Nat,
         task' = [task EXCEPT !["ingress"] = [Idle EXCEPT !.at = label, !.r = r, !.row = rows[r],
                                                          !.copy = n]]
  PROVE  /\ Others("ingress")
         /\ task'["ingress"].at = label /\ task'["ingress"].r = r
         /\ task'["ingress"].row = rows[r] /\ task'["ingress"].copy = n
  BY Taken DEF Others

LEMMA RefreshKeepsLooking ==
  ASSUME IInv, NEW S,
         \/ task' = [task EXCEPT !["refresh"].at = "restore", !["refresh"].todo = S]
         \/ task' = [task EXCEPT !["refresh"].todo = S] /\ task["refresh"].at = "restore"
         \/ task' = [task EXCEPT !["refresh"].todo = S] /\ task["refresh"].at = "cleanup"
         \/ \E replaced : task' = [task EXCEPT !["refresh"].at = "cleanup", !["refresh"].todo = S,
                                               !["refresh"].replaced = replaced]
  PROVE  task'["ingress"] = task["ingress"] /\ task'["refresh"].todo = S
  BY TasksAre DEF IInv, Types, Task

-----------------------------------------------------------------------------
\* A row changes in one column.
Column(q) ==
    /\ \A r \in Responses : r # q => rows'[r] = rows[r]
    /\ rows'[q] \in Row

LEMMA PublishedColumn ==
  ASSUME IInv, NEW q \in Responses, NEW n \in Nat, rows' = [rows EXCEPT ![q].published = n]
  PROVE  /\ Column(q) /\ rows'[q].published = n
         /\ rows'[q].state = rows[q].state /\ rows'[q].current = rows[q].current
         /\ rows'[q].warning = rows[q].warning
  BY DEF IInv, Types, Row, Column

LEMMA WarningColumn ==
  ASSUME IInv, NEW q \in Responses, NEW b \in BOOLEAN, rows' = [rows EXCEPT ![q].warning = b]
  PROVE  /\ Column(q) /\ rows'[q].warning = b
         /\ rows'[q].state = rows[q].state /\ rows'[q].current = rows[q].current
         /\ rows'[q].published = rows[q].published
  BY DEF IInv, Types, Row, Column

LEMMA CurrentColumn ==
  ASSUME IInv, NEW q \in Responses, rows' = [rows EXCEPT ![q].current = TRUE]
  PROVE  /\ Column(q) /\ rows'[q].current
         /\ rows'[q].state = rows[q].state /\ rows'[q].published = rows[q].published
         /\ rows'[q].warning = rows[q].warning
  BY DEF IInv, Types, Row, Column

LEMMA DeletedColumn ==
  ASSUME IInv, NEW q \in Responses, rows' = [rows EXCEPT ![q].state = "deleted"]
  PROVE  /\ Column(q) /\ rows'[q].current = rows[q].current /\ rows'[q].state = "deleted"
         /\ rows'[q].published = rows[q].published /\ rows'[q].warning = rows[q].warning
  BY DEF IInv, Types, Row, Column, States

LEMMA AcceptedColumns ==
  ASSUME IInv, NEW q \in Responses, rows' = [rows EXCEPT ![q] = Accepted(@)]
  PROVE  /\ Column(q) /\ rows'[q].current = rows[q].current /\ rows'[q].state = "valid"
         /\ rows'[q].published = rows[q].published /\ rows'[q].warning = rows[q].warning
<1> DEFINE half == [rows[q] EXCEPT !.state = "valid"]
           new == [half EXCEPT !.deadline = 0]
<1>1. /\ half \in Row /\ half.published = rows[q].published /\ half.state = "valid"
      /\ half.current = rows[q].current /\ half.warning = rows[q].warning
  BY DEF IInv, Types, Row, States
<1> HIDE DEF half
<1>2. /\ new \in Row /\ new.published = half.published /\ new.state = half.state
      /\ new.current = half.current /\ new.warning = half.warning
  BY <1>1 DEF Row
<1>3. rows' = [rows EXCEPT ![q] = new]
  BY DEF Accepted, half
<1> HIDE DEF new
<1> QED
  BY <1>1, <1>2, <1>3 DEF Column, IInv, Types

-----------------------------------------------------------------------------
(* One copy.                                                                *)

\* What OneCopy is stated for.
Quiet == plan.failures = 0 /\ plan.crashes = 0 /\ plan.topics = 0

\* Then nothing fails, the first topic stays, and the refresh at startup finds no rows.
Undisturbed ==
    /\ left.failures = 0 /\ left.crashes = 0 /\ left.topics = 0
    /\ alive /\ topic = 1 /\ instructed \in {0, 1}
    /\ ~ task["refresh"].replaced
    /\ task["refresh"].at \notin {"recover", "discard", "instruct"}
    /\ booting => /\ task["ingress"].at = "idle"
                  /\ \A r \in Responses : rows[r].state = "none"

\* The refresh publishes only what the ingress worker is about to publish, and so
\* while that one waits for the lock.
Alternate ==
    /\ task["refresh"].at \in Publishing
         => task["ingress"].at = "lock" /\ task["ingress"].r = task["refresh"].r
    /\ task["refresh"].at = "cleanup"
         => \A r \in task["refresh"].todo : rows[r].state = "deleted"

Handled(r) == task["ingress"].at \in Working /\ task["ingress"].r = r

\* A row and its copies.
OneOf(r) ==
    /\ rows[r].state = "valid" => LooksComplete(rows[r]) \/ Handled(r)
    /\ rows[r].state \in {"none", "pending"} => rows[r].published = 0
    /\ \A c \in CopiesOf(r) :
        \/ c.id = rows[r].published
        \/ \E t \in Tasks : task[t].at = "record" /\ task[t].r = r /\ task[t].copy = c.id

\* A task that publishes, and the row and the copies it finds.
PublishesOne(t) ==
    task[t].at \in Publishing =>
        LET r == task[t].r
        IN  /\ rows[r].state = "valid"
            /\ task[t].at = "send" => CopiesOf(r) = {}
            /\ task[t].at = "record" => task[t].copy # 0 /\ \A c \in CopiesOf(r) : c.id = task[t].copy
            /\ task[t].at \in {"edit", "clean", "complete"}
                 => task[t].copy = rows[r].published /\ task[t].copy # 0
            /\ t = "ingress" => (rows[r].warning => task[t].row.warning)
            /\ t = "ingress" /\ task[t].at = "complete" => ~ rows[r].warning

\* A response that is rejected or deleted loses its copy.
LosesCopy ==
    LET r == task["ingress"].r
        old == task["ingress"].row
    IN  /\ task["ingress"].at = "withdraw" /\ rows[r].state = "valid"
             => old.state = "valid" /\ old.published = rows[r].published
        /\ task["ingress"].at = "save" => CopiesOf(r) = {}
        /\ task["ingress"].at = "clear" => \A c \in copies : c.id # task["ingress"].copy

One ==
    /\ Undisturbed /\ Alternate /\ LosesCopy
    /\ \A r \in Responses : OneOf(r)
    /\ \A t \in Tasks : PublishesOne(t)

QuietOne == Quiet => One

LEMMA OnePublisher ==
  ASSUME One, NEW t \in Tasks, NEW u \in Tasks, task[t].at \in Publishing, task[u].at \in Publishing
  PROVE  u = t
  BY DEF One, Alternate, Tasks, Publishing

\* A row that is left alone.
LEMMA OneOfKept ==
  ASSUME One, NEW r \in Responses, rows'[r] = rows[r], CopiesOf(r)' \subseteq CopiesOf(r),
         \A t \in Tasks : task[t].r = r /\ task[t].at = "record"
                            => /\ task'[t].r = r /\ task'[t].at = "record"
                               /\ task'[t].copy = task[t].copy,
         Handled(r) => Handled(r)'
  PROVE  OneOf(r)'
  BY DEF One, OneOf

\* A step of the task that publishes q.
LEMMA PublisherStep ==
  ASSUME IInv, One, Next, NEW t \in Tasks, NEW q \in Responses, q = task[t].r,
         task[t].at \in Publishing, Others(t),
         UNCHANGED <<left, alive, topic, instructed, booting>>,
         task'[t].at \in Publishing \union {Finished(t)},
         task'[t].r = q, task'[t].replaced = task[t].replaced,
         \A r \in Responses : r # q => rows'[r] = rows[r] /\ CopiesOf(r)' \subseteq CopiesOf(r),
         OneOf(q)', PublishesOne(t)'
  PROVE  One'
<1>1. \A u \in Tasks : u # t => task'[u] = task[u] /\ task[u].at \notin Publishing
  BY OnePublisher DEF Others
<1>2. /\ task["ingress"].at \in Working /\ task["ingress"].r = q
      /\ task'["ingress"].at \in Working \union {"finish"}
      /\ t = "refresh" => task'["ingress"] = task["ingress"]
  BY <1>1, TasksAre DEF One, Alternate, Working, Finished, Tasks
<1>3. Undisturbed'
  BY <1>1, <1>2, TasksAre DEF One, Undisturbed, Finished, Working, Publishing, Tasks
<1>4. Alternate'
  <2>1. CASE t = "refresh"
    <3>1. task'["refresh"].at # "cleanup" /\ task["ingress"].at = "lock" /\ task["ingress"].r = q
      BY <2>1 DEF Publishing, Finished, One, Alternate
    <3> QED
      BY <1>2, <2>1, <3>1 DEF Alternate
  <2>2. CASE t = "ingress"
    <3>1. task'["refresh"] = task["refresh"] /\ task["refresh"].at \notin Publishing
      BY <1>1, <2>2, TasksAre
    <3>2. \A r \in Responses : rows[r].state = "deleted" => rows'[r].state = "deleted"
      BY EveryStep DEF Good, RowsMove, RowMoves
    <3>3. task["refresh"].todo \subseteq Responses
      BY TasksAre DEF IInv, Types, Task
    <3> QED
      BY <3>1, <3>2, <3>3 DEF One, Alternate
  <2> QED
    BY <2>1, <2>2 DEF Tasks
<1>5. LosesCopy'
  BY <1>2 DEF LosesCopy, Working, Publishing
<1>6. ASSUME NEW r \in Responses, r # q
      PROVE  OneOf(r)'
  <2>1. Handled(r) => Handled(r)'
    BY <1>2, <1>6 DEF Handled
  <2> QED
    BY <1>1, <1>6, <2>1, OneOfKept
<1>7. \A u \in Tasks : PublishesOne(u)'
  BY <1>1 DEF PublishesOne
<1> QED
  BY <1>3, <1>4, <1>5, <1>6, <1>7 DEF One

LEMMA StillHandled ==
  ASSUME NEW t \in Tasks, NEW q, Others(t), task'[t].at \in Publishing, task'[t].r = q
  PROVE  Handled(q) => Handled(q)'
<1>1. CASE t = "ingress"
  BY <1>1 DEF Handled, Working
<1>2. CASE t = "refresh"
  BY <1>2, TasksAre DEF Handled, Others
<1> QED
  BY <1>1, <1>2 DEF Tasks

LEMMA EditOne ==
  ASSUME IInv, One, NEW t \in Tasks, Edit(t), Next
  PROVE  One'
<1>1. PICK q \in Responses : q = task[t].r
  BY Labels DEF IInv, Held, GoodTask, Edit, At, Publishing
<1>2. task[t].at = "edit" /\ task[t].at \in Publishing
  BY DEF Edit, At, Publishing
<1>3. /\ Keeps(t)
      /\ task'[t].at = AfterEdit(\E c \in copies : c.id = task[t].copy)
  BY GoesKeeps DEF Edit
<1>4. UNCHANGED <<left, alive, topic, instructed, booting, rows, copies>>
  BY DEF Edit, telegram
<1>5. PublishesOne(t) /\ OneOf(q)
  BY DEF One
<1>6. CopiesOf(q)' = CopiesOf(q) /\ rows'[q] = rows[q]
  BY <1>4 DEF CopiesOf
<1>7. \A c \in CopiesOf(q) : c.id = rows[q].published
  <2>1. \A u \in Tasks : task[u].at # "record"
    BY <1>2, OnePublisher DEF Publishing
  <2> QED
    BY <1>5, <2>1 DEF OneOf
<1>8. task'[t].at = "send" => CopiesOf(q) = {}
  BY <1>1, <1>2, <1>3, <1>5, <1>7 DEF AfterEdit, PublishesOne, CopiesOf
<1>9. task'[t].at \in {"send", "clean"}
  BY <1>3 DEF AfterEdit
<1>10. PublishesOne(t)'
  BY <1>1, <1>2, <1>3, <1>5, <1>6, <1>8, <1>9 DEF PublishesOne, Keeps
<1>11. OneOf(q)'
  <2>1. Handled(q) => Handled(q)'
    BY <1>1, <1>3, <1>9, StillHandled DEF Keeps, Publishing
  <2>2. \A u \in Tasks : task[u].r = q /\ task[u].at = "record"
                            => /\ task'[u].r = q /\ task'[u].at = "record"
                               /\ task'[u].copy = task[u].copy
    BY <1>2, OnePublisher DEF Publishing
  <2> QED
    BY <1>6, <2>1, <2>2, OneOfKept
<1> QED
  BY <1>1, <1>2, <1>3, <1>4, <1>9, <1>10, <1>11, PublisherStep DEF Keeps, Publishing, CopiesOf

LEMMA SendCopyOne ==
  ASSUME IInv, One, NEW t \in Tasks, SendCopy(t), Next
  PROVE  One'
<1>1. PICK q \in Responses : q = task[t].r
  BY Labels DEF IInv, Held, GoodTask, SendCopy, At, Publishing
<1>2. task[t].at = "send" /\ task[t].at \in Publishing /\ alive
  BY DEF SendCopy, At, Publishing, One, Undisturbed
<1>3. /\ copies' = copies \union {[id |-> sent + 1, r |-> q]}
      /\ task' = [task EXCEPT ![t].at = "record", ![t].copy = sent + 1]
      /\ UNCHANGED <<left, alive, topic, instructed, booting, rows>>
      /\ sent \in Nat
  BY <1>1, <1>2 DEF SendCopy, IInv, Types
<1>4. /\ Others(t) /\ task'[t].at = "record" /\ task'[t].r = q /\ task'[t].copy = sent + 1
      /\ task'[t].replaced = task[t].replaced /\ task'[t].row = task[t].row
  BY <1>1, <1>3 DEF IInv, Types, Task, Others
<1>5. PublishesOne(t) /\ OneOf(q)
  BY DEF One
<1>6. CopiesOf(q)' = {[id |-> sent + 1, r |-> q]}
  BY <1>1, <1>2, <1>3, <1>5 DEF PublishesOne, CopiesOf
<1>7. \A r \in Responses : r # q => CopiesOf(r)' \subseteq CopiesOf(r)
  BY <1>3 DEF CopiesOf
<1>8. PublishesOne(t)'
  <2>1. sent + 1 # 0 /\ \A c \in CopiesOf(q)' : c.id = sent + 1
    BY <1>3, <1>6
  <2>2. /\ rows'[q].state = "valid"
        /\ t = "ingress" => (rows'[q].warning => task'[t].row.warning)
    BY <1>1, <1>2, <1>3, <1>4, <1>5 DEF PublishesOne
  <2> QED
    BY <1>4, <2>1, <2>2 DEF PublishesOne
<1>9. OneOf(q)'
  <2>1. Handled(q) => Handled(q)'
    BY <1>4, StillHandled DEF Publishing
  <2>2. \A c \in CopiesOf(q)' : task'[t].copy = c.id
    BY <1>4, <1>6
  <2> QED
    BY <1>3, <1>4, <1>5, <2>1, <2>2 DEF OneOf
<1> QED
  BY <1>1, <1>2, <1>3, <1>4, <1>7, <1>8, <1>9, PublisherStep DEF Publishing

LEMMA RecordOne ==
  ASSUME IInv, One, NEW t \in Tasks, Record(t), Next
  PROVE  One'
<1>1. PICK q \in Responses : q = task[t].r
  BY Labels DEF IInv, Held, GoodTask, Record, At, Publishing
<1>2. task[t].at = "record" /\ task[t].at \in Publishing
  BY DEF Record, At, Publishing
<1>3. Keeps(t) /\ task'[t].at = "clean"
  BY GoesKeeps DEF Record
<1>4. UNCHANGED <<left, alive, topic, instructed, booting, copies>>
  BY DEF Record, telegram
<1>5. PublishesOne(t) /\ OneOf(q)
  BY DEF One
<1>6. /\ rows[q].state = "valid" /\ task[t].copy # 0 /\ task[t].copy \in Nat
      /\ \A c \in CopiesOf(q) : c.id = task[t].copy
  BY <1>1, <1>2, <1>5 DEF PublishesOne, IInv, Types, Task
<1>7. rows' = [rows EXCEPT ![q].published = task[t].copy]
  BY <1>1, <1>6 DEF Record
<1>8. /\ Column(q) /\ rows'[q].published = task[t].copy
      /\ rows'[q].state = rows[q].state /\ rows'[q].current = rows[q].current
      /\ rows'[q].warning = rows[q].warning
  BY <1>6, <1>7, PublishedColumn
<1>9. CopiesOf(q)' = CopiesOf(q)
  BY <1>4 DEF CopiesOf
<1>10. PublishesOne(t)'
  BY <1>1, <1>2, <1>3, <1>5, <1>6, <1>8 DEF PublishesOne, Keeps
<1>11. OneOf(q)'
  <2>1. Handled(q) => Handled(q)'
    BY <1>1, <1>3, StillHandled DEF Keeps, Publishing
  <2> QED
    BY <1>5, <1>6, <1>8, <1>9, <2>1 DEF OneOf, LooksComplete
<1> QED
  BY <1>1, <1>2, <1>3, <1>4, <1>8, <1>10, <1>11, PublisherStep
     DEF Keeps, Publishing, CopiesOf, Column

LEMMA CleanOne ==
  ASSUME IInv, One, NEW t \in Tasks, Clean(t), Next
  PROVE  One'
<1>1. PICK q \in Responses : q = task[t].r
  BY Labels DEF IInv, Held, GoodTask, Clean, At, Publishing
<1>2. task[t].at = "clean" /\ task[t].at \in Publishing
  BY DEF Clean, At, Publishing
<1>3. Keeps(t) /\ task'[t].at = "complete"
  BY GoesKeeps DEF Clean
<1>4. UNCHANGED <<left, alive, topic, instructed, booting, copies>>
  BY DEF Clean
<1>5. PublishesOne(t) /\ OneOf(q)
  BY DEF One
<1>6. PICK b \in BOOLEAN : b = (rows[q].warning /\ ~ task[t].row.warning)
  OBVIOUS
<1>7. rows' = [rows EXCEPT ![q].warning = b]
  BY <1>1, <1>6 DEF Clean
<1>8. /\ Column(q) /\ rows'[q].warning = b
      /\ rows'[q].state = rows[q].state /\ rows'[q].current = rows[q].current
      /\ rows'[q].published = rows[q].published
  BY <1>7, WarningColumn
<1>9. CopiesOf(q)' = CopiesOf(q)
  BY <1>4 DEF CopiesOf
<1>10. PublishesOne(t)'
  BY <1>1, <1>2, <1>3, <1>5, <1>6, <1>8 DEF PublishesOne, Keeps
<1>11. OneOf(q)'
  <2>1. Handled(q) => Handled(q)'
    BY <1>1, <1>3, StillHandled DEF Keeps, Publishing
  <2>2. \A u \in Tasks : task[u].at # "record"
    BY <1>2, OnePublisher DEF Publishing
  <2> QED
    BY <1>5, <1>6, <1>8, <1>9, <2>1, <2>2 DEF OneOf, LooksComplete
<1> QED
  BY <1>1, <1>2, <1>3, <1>4, <1>8, <1>10, <1>11, PublisherStep
     DEF Keeps, Publishing, CopiesOf, Column

LEMMA CompleteOne ==
  ASSUME IInv, One, NEW t \in Tasks, Complete(t), Next
  PROVE  One'
<1>1. PICK q \in Responses : q = task[t].r
  BY Labels DEF IInv, Held, GoodTask, Complete, At, Publishing
<1>2. task[t].at = "complete" /\ task[t].at \in Publishing
  BY DEF Complete, At, Publishing
<1>3. PublishesOne(t) /\ OneOf(q)
  BY DEF One
<1>4. /\ rows[q].state = "valid" /\ rows[q].published = task[t].copy /\ rows[q].published # 0
      /\ t = "ingress" => ~ rows[q].warning
  BY <1>1, <1>2, <1>3 DEF PublishesOne
<1>5. /\ rows' = [rows EXCEPT ![q].current = TRUE]
      /\ Goto(t, Finished(t))
      /\ UNCHANGED <<left, alive, topic, instructed, booting, copies>>
  BY <1>1, <1>4 DEF Complete, telegram
<1>6. Keeps(t) /\ task'[t].at = Finished(t)
  BY <1>5, GoesKeeps
<1>7. /\ Column(q) /\ rows'[q].current
      /\ rows'[q].state = rows[q].state /\ rows'[q].published = rows[q].published
      /\ rows'[q].warning = rows[q].warning
  BY <1>5, CurrentColumn
<1>8. CopiesOf(q)' = CopiesOf(q)
  BY <1>5 DEF CopiesOf
<1>9. PublishesOne(t)'
  BY <1>6 DEF PublishesOne, Finished, Publishing
<1>10. OneOf(q)'
  <2>1. \A u \in Tasks : task[u].at # "record"
    BY <1>2, OnePublisher DEF Publishing
  <2>2. LooksComplete(rows[q])' \/ Handled(q)'
    <3>1. CASE t = "ingress"
      BY <1>4, <1>7, <3>1 DEF LooksComplete
    <3>2. CASE t = "refresh"
      BY <1>1, <1>2, <1>6, <3>2, TasksAre DEF One, Alternate, Handled, Keeps, Others, Working
    <3> QED
      BY <3>1, <3>2 DEF Tasks
  <2> QED
    BY <1>3, <1>4, <1>7, <1>8, <2>1, <2>2 DEF OneOf
<1> QED
  BY <1>1, <1>2, <1>5, <1>6, <1>7, <1>9, <1>10, PublisherStep
     DEF Keeps, CopiesOf, Column

\* While nobody publishes, every copy is the one in the row.
LEMMA NobodyPublishes ==
  ASSUME IInv, One, task["ingress"].at \notin Publishing,
         task["ingress"].at = "lock" => RecordFree(task["ingress"].r)
  PROVE  /\ \A t \in Tasks : task[t].at \notin Publishing
         /\ \A r \in Responses : \A c \in CopiesOf(r) : c.id = rows[r].published /\ c.id # 0
         /\ \A r \in Responses : rows[r].published = 0 => CopiesOf(r) = {}
<1>1. \A t \in Tasks : task[t].at \notin Publishing
  BY TasksAre DEF Tasks, One, Alternate, RecordFree
<1>2. \A r \in Responses : \A c \in CopiesOf(r) : c.id = rows[r].published
  BY <1>1 DEF One, OneOf, Publishing
<1>3. \A c \in copies : c.id # 0
  BY DEF IInv, Messages
<1> QED
  BY <1>1, <1>2, <1>3 DEF CopiesOf

\* A step of the ingress worker that publishes nothing.
LEMMA IngressStep ==
  ASSUME IInv, One, Next, task["ingress"].at \notin Working, task'["refresh"] = task["refresh"],
         UNCHANGED <<left, alive, topic, instructed, booting>>, ~ booting,
         task'["ingress"].at \notin Publishing, copies' \subseteq copies,
         NEW q \in Responses, \A r \in Responses : r # q => rows'[r] = rows[r],
         OneOf(q)', LosesCopy'
  PROVE  One'
<1>1. \A t \in Tasks : task[t].at \notin Publishing /\ task'[t].at \notin Publishing
  BY NobodyPublishes, TasksAre DEF Working, Tasks
<1>2. Undisturbed'
  BY DEF One, Undisturbed
<1>3. Alternate'
  <2>1. \A r \in Responses : rows[r].state = "deleted" => rows'[r].state = "deleted"
    BY EveryStep DEF Good, RowsMove, RowMoves
  <2>2. task["refresh"].todo \subseteq Responses
    BY TasksAre DEF IInv, Types, Task
  <2> QED
    BY <1>1, <2>1, <2>2, TasksAre DEF One, Alternate
<1>4. ASSUME NEW r \in Responses, r # q
      PROVE  OneOf(r)'
  <2>1. CopiesOf(r)' \subseteq CopiesOf(r) /\ ~ Handled(r)
    BY DEF CopiesOf, Handled
  <2> QED
    BY <1>1, <1>4, <2>1, OneOfKept DEF Publishing
<1>5. \A t \in Tasks : PublishesOne(t)'
  BY <1>1 DEF PublishesOne
<1> QED
  BY <1>2, <1>3, <1>4, <1>5 DEF One

\* A row and its copies when nobody publishes before or after the step.
LEMMA SameRow ==
  ASSUME IInv, One, NEW q \in Responses, rows'[q] = rows[q], copies' \subseteq copies,
         task["ingress"].at \notin Working
  PROVE  OneOf(q)'
<1>1. CopiesOf(q)' \subseteq CopiesOf(q) /\ ~ Handled(q)
  BY DEF CopiesOf, Handled
<1>2. \A t \in Tasks : task[t].at \notin Publishing
  BY NobodyPublishes DEF Working
<1> QED
  BY <1>1, <1>2, OneOfKept DEF Publishing

LEMMA BeginOne ==
  ASSUME IInv, One, Begin, Next
  PROVE  One'
<1>1. task["ingress"].at = "idle" /\ task["ingress"].at \notin Working /\ ~ booting
  BY DEF Begin, At, Working, Publishing
<1> DEFINE u == inbox[handled + 1]
<1>0. u \in Update
  <2>1. handled + 1 \in 1..Len(inbox)
    BY DEF Begin, IInv, Queue
  <2> QED
    BY <2>1, CopiesInInbox
<1>2. PICK r \in Responses : r = u.r
  BY <1>0 DEF Update
<1>3. u.copy \in Nat
  BY <1>0 DEF Update
<1>4. UNCHANGED <<left, alive, topic, instructed, booting, copies>>
  BY DEF Begin, telegram
<1>5. \A t \in Tasks : task[t].at \notin Publishing
  BY <1>1, NobodyPublishes DEF Working
<1>6. OneOf(r) /\ CopiesOf(r)' = CopiesOf(r)
  BY <1>4 DEF One, CopiesOf
<1>7. PICK label \in {"finish", "lock", "withdraw", "erase"} :
        /\ task' = [task EXCEPT !["ingress"] = [Idle EXCEPT !.at = label, !.r = r, !.row = rows[r],
                                                            !.copy = u.copy]]
        /\ \/ rows' = rows /\ label \in {"finish", "withdraw"}
           \/ rows' = [rows EXCEPT ![r] = Accepted(@)] /\ label = "lock"
           \/ rows' = [rows EXCEPT ![r].state = "deleted"] /\ label = "erase"
  BY <1>2 DEF Begin
<1> HIDE DEF u
<1>8. label \in Alone \union Busy /\ label \notin Publishing
  BY DEF Alone, Busy, Publishing, Erasing, Rejecting
<1>9. /\ Others("ingress") /\ task'["ingress"].at = label /\ task'["ingress"].r = r
      /\ task'["ingress"].row = rows[r]
  BY <1>3, <1>7, <1>8, Takes
<1>10. CASE rows' = rows /\ label \in {"finish", "withdraw"}
  <2>1. OneOf(r)'
    BY <1>1, <1>4, <1>10, SameRow
  <2>2. LosesCopy'
    BY <1>9, <1>10 DEF LosesCopy
  <2> QED
    BY <1>1, <1>4, <1>8, <1>9, <1>10, <2>1, <2>2, IngressStep, TasksAre DEF Others
<1>11. CASE rows' = [rows EXCEPT ![r] = Accepted(@)] /\ label = "lock"
  <2>1. /\ Column(r) /\ rows'[r].current = rows[r].current /\ rows'[r].state = "valid"
        /\ rows'[r].published = rows[r].published /\ rows'[r].warning = rows[r].warning
    BY <1>11, AcceptedColumns
  <2>2. OneOf(r)'
    BY <1>5, <1>6, <1>9, <1>11, <2>1 DEF OneOf, Handled, Working, Publishing
  <2>3. LosesCopy'
    BY <1>9, <1>11 DEF LosesCopy
  <2> QED
    BY <1>1, <1>4, <1>8, <1>9, <2>1, <2>2, <2>3, IngressStep, TasksAre DEF Others, Column
<1>12. CASE rows' = [rows EXCEPT ![r].state = "deleted"] /\ label = "erase"
  <2>1. /\ Column(r) /\ rows'[r].state = "deleted" /\ rows'[r].published = rows[r].published
    BY <1>12, DeletedColumn
  <2>2. OneOf(r)'
    BY <1>5, <1>6, <2>1 DEF OneOf, Publishing
  <2>3. LosesCopy'
    BY <1>9, <1>12 DEF LosesCopy
  <2> QED
    BY <1>1, <1>4, <1>8, <1>9, <2>1, <2>2, <2>3, IngressStep, TasksAre DEF Others, Column
<1> QED
  BY <1>7, <1>10, <1>11, <1>12

LEMMA FinishOne ==
  ASSUME IInv, One, Finish, Next
  PROVE  One'
<1>1. task["ingress"].at = "finish" /\ task["ingress"].at \notin Working
  BY DEF Finish, At, Working, Publishing
<1>2. UNCHANGED <<left, alive, topic, instructed, booting, copies, rows>> /\ ~ booting
  BY <1>1 DEF Finish, telegram, One, Undisturbed
<1>3. task'["ingress"] = Idle /\ task'["refresh"] = task["refresh"]
  BY TasksAre DEF Finish, IInv, Types
<1>4. task'["ingress"].at = "idle"
  BY <1>3 DEF Idle
<1>5. \A q \in Responses : OneOf(q)'
  BY <1>1, <1>2, SameRow
<1>6. PICK q \in Responses : TRUE
  BY <1>1, TasksAre, Labels DEF IInv, Queue, Update
<1> QED
  BY <1>1, <1>2, <1>3, <1>4, <1>5, IngressStep DEF LosesCopy, Publishing

LEMMA WithdrawOne ==
  ASSUME IInv, One, Withdraw, Next
  PROVE  One'
<1>1. task["ingress"].at = "withdraw" /\ task["ingress"].at \notin Working
  BY DEF Withdraw, At, Working, Publishing
<1>2. PICK q \in Responses : q = task["ingress"].r /\ rows[q].state # "deleted"
  BY <1>1, Labels, TasksAre DEF IInv, Held, GoodTask
<1>3. UNCHANGED <<left, alive, topic, instructed, booting, rows>> /\ ~ booting
  BY <1>1 DEF Withdraw, One, Undisturbed
<1>4. Keeps("ingress") /\ task'["ingress"].at = "save"
  BY GoesKeeps, TasksAre DEF Withdraw
<1>5. copies' \subseteq copies
  BY DEF Withdraw, Without
<1>6. CopiesOf(q)' = {}
  <2>1. OneOf(q) /\ LosesCopy
    BY DEF One
  <2>2. CASE rows[q].state = "valid"
    <3>1. rows[q].published # 0
      BY <1>1, <2>1, <2>2 DEF OneOf, LooksComplete, Handled
    <3>2. copies' = Without(rows[q].published)
      BY <1>1, <1>2, <2>1, <2>2, <3>1 DEF Withdraw, LosesCopy
    <3>3. \A c \in CopiesOf(q) : c.id = rows[q].published
      BY <1>1, NobodyPublishes DEF Working
    <3> QED
      BY <3>2, <3>3 DEF Without, CopiesOf
  <2>3. CASE rows[q].state # "valid"
    <3>1. rows[q].state \in {"none", "pending"}
      BY <1>2, <2>3 DEF IInv, Types, Row, States
    <3>2. CopiesOf(q) = {}
      BY <1>1, <2>1, <3>1, NobodyPublishes DEF Working, OneOf
    <3> QED
      BY <1>5, <3>2 DEF CopiesOf
  <2> QED
    BY <2>2, <2>3
<1>7. OneOf(q)'
  BY <1>1, <1>3, <1>5, SameRow
<1>8. LosesCopy'
  BY <1>2, <1>4, <1>6 DEF LosesCopy, Keeps
<1> QED
  BY <1>1, <1>3, <1>4, <1>5, <1>7, <1>8, IngressStep, TasksAre DEF Keeps, Others, Publishing

LEMMA SavePendingOne ==
  ASSUME IInv, One, SavePending, Next
  PROVE  One'
<1>1. task["ingress"].at = "save" /\ task["ingress"].at \notin Working
  BY DEF SavePending, At, Working, Publishing
<1>2. PICK q \in Responses : q = task["ingress"].r
  BY <1>1, Labels, TasksAre DEF IInv, Held, GoodTask
<1>3. UNCHANGED <<left, alive, topic, instructed, booting, copies>> /\ ~ booting
  BY <1>1 DEF SavePending, telegram, One, Undisturbed
<1>4. PICK n \in Nat :
        /\ rows' = [rows EXCEPT ![q] = [NoRow EXCEPT !.state = "pending", !.deadline = n,
                                                     !.warning = rows[q].warning]]
        /\ task' = [task EXCEPT !["ingress"].at = "warn", !["ingress"].row.deadline = n]
  <2>1. task["ingress"].row.deadline \in Nat /\ clock + 1 \in Nat
    BY TasksAre DEF IInv, Types, Task, Row
  <2> QED
    BY <1>2, <2>1 DEF SavePending
<1>5. Same(q) /\ rows'[q].published = 0 /\ rows'[q].state = "pending"
  BY <1>4, Rejected DEF IInv, Types
<1>6. /\ task'["refresh"] = task["refresh"] /\ task'["ingress"].at = "warn"
  BY <1>4, Dated DEF IInv
<1>7. CopiesOf(q)' = {}
  BY <1>1, <1>2, <1>3 DEF One, LosesCopy, CopiesOf
<1>8. OneOf(q)'
  BY <1>5, <1>7 DEF OneOf
<1>9. LosesCopy'
  BY <1>6 DEF LosesCopy
<1> QED
  BY <1>1, <1>3, <1>5, <1>6, <1>8, <1>9, IngressStep DEF Same, Publishing

LEMMA WarnOne ==
  ASSUME IInv, One, Warn, Next
  PROVE  One'
<1>1. task["ingress"].at = "warn" /\ task["ingress"].at \notin Working
  BY DEF Warn, At, Working, Publishing
<1>2. PICK q \in Responses : q = task["ingress"].r
  BY <1>1, TasksAre DEF IInv, Held, GoodTask, Busy, Rejecting
<1>3. UNCHANGED <<left, alive, topic, instructed, booting, copies>> /\ ~ booting
  BY <1>1 DEF Warn, telegram, One, Undisturbed
<1>4. PICK b \in BOOLEAN : b = (rows[q].warning \/ rows[q].state = "pending")
  OBVIOUS
<1>5. \/ rows' = [rows EXCEPT ![q].warning = b] /\ Goto("ingress", "finish")
      \/ rows' = rows /\ Raise("ingress")
  BY <1>2, <1>4 DEF Warn
<1>6. /\ task'["refresh"] = task["refresh"]
      /\ task'["ingress"].at \in {"idle", "finish"}
  BY <1>5, GoesKeeps, RaiseRests, TasksAre DEF Keeps, Others
<1>7. /\ \A r \in Responses : r # q => rows'[r] = rows[r]
      /\ rows'[q].state = rows[q].state /\ rows'[q].published = rows[q].published
      /\ rows'[q].current = rows[q].current
      /\ rows'[q].warning => rows[q].warning \/ rows[q].state = "pending"
  BY <1>4, <1>5, WarningColumn DEF Column
<1>8. OneOf(q)'
  <2>1. \A c \in CopiesOf(q) : c.id = rows[q].published
    BY <1>1, NobodyPublishes DEF Working
  <2>2. OneOf(q) /\ ~ Handled(q) /\ CopiesOf(q)' = CopiesOf(q)
    BY <1>1, <1>3 DEF One, Handled, CopiesOf
  <2> QED
    BY <1>7, <2>1, <2>2 DEF OneOf, LooksComplete
<1>9. LosesCopy'
  BY <1>6 DEF LosesCopy
<1> QED
  BY <1>1, <1>3, <1>6, <1>7, <1>8, <1>9, IngressStep DEF Publishing

LEMMA EraseOne ==
  ASSUME IInv, One, Erase, Next
  PROVE  One'
<1>1. task["ingress"].at = "erase" /\ task["ingress"].at \notin Working
  BY DEF Erase, At, Working, Publishing
<1>2. PICK q \in Responses : q = task["ingress"].r
  BY <1>1, TasksAre DEF IInv, Held, GoodTask, Busy, Erasing
<1>3. UNCHANGED <<left, alive, topic, instructed, booting, rows>> /\ ~ booting
  BY <1>1 DEF Erase, One, Undisturbed
<1>4. Keeps("ingress") /\ task'["ingress"].at = "clear"
  BY GoesKeeps, TasksAre DEF Erase
<1>5. copies' = Without(task["ingress"].copy) /\ copies' \subseteq copies
  BY DEF Erase, Without
<1>6. OneOf(q)'
  BY <1>1, <1>3, <1>5, SameRow
<1>7. LosesCopy'
  BY <1>4, <1>5 DEF LosesCopy, Keeps, Without
<1> QED
  BY <1>1, <1>3, <1>4, <1>5, <1>6, <1>7, IngressStep, TasksAre DEF Keeps, Others, Publishing

LEMMA ClearPublicationOne ==
  ASSUME IInv, One, ClearPublication, Next
  PROVE  One'
<1>1. task["ingress"].at = "clear" /\ task["ingress"].at \notin Working
  BY DEF ClearPublication, At, Working, Publishing
<1>2. PICK q \in Responses : q = task["ingress"].r
  BY <1>1, TasksAre DEF IInv, Held, GoodTask, Busy, Erasing
<1>3. UNCHANGED <<left, alive, topic, instructed, booting, copies>> /\ ~ booting
  BY <1>1 DEF ClearPublication, telegram, One, Undisturbed
<1>4. Keeps("ingress") /\ task'["ingress"].at = "finish"
  BY GoesKeeps, TasksAre DEF ClearPublication
<1>5. PICK n \in Nat : n = IF rows[q].state = "deleted" /\ rows[q].published = task["ingress"].copy
                           THEN 0 ELSE rows[q].published
  BY DEF IInv, Types, Row
<1>6. rows' = [rows EXCEPT ![q].published = n]
  BY <1>2, <1>5 DEF ClearPublication
<1>7. /\ Column(q) /\ rows'[q].published = n
      /\ rows'[q].state = rows[q].state /\ rows'[q].current = rows[q].current
      /\ rows'[q].warning = rows[q].warning
  BY <1>6, PublishedColumn
<1>8. OneOf(q)'
  <2>1. \A c \in CopiesOf(q) : c.id = rows[q].published /\ c.id # task["ingress"].copy
    BY <1>1, NobodyPublishes DEF Working, One, LosesCopy, CopiesOf
  <2>2. OneOf(q) /\ ~ Handled(q) /\ CopiesOf(q)' = CopiesOf(q)
    BY <1>1, <1>3 DEF One, Handled, CopiesOf
  <2> QED
    BY <1>5, <1>7, <2>1, <2>2 DEF OneOf, LooksComplete
<1>9. LosesCopy'
  BY <1>4 DEF LosesCopy
<1> QED
  BY <1>1, <1>3, <1>4, <1>7, <1>8, <1>9, IngressStep, TasksAre DEF Keeps, Others, Publishing, Column

\* A task takes the lock of a row whose copy is out of date.
LEMMA StartOne ==
  ASSUME IInv, One, Next, NEW t \in Tasks, NEW q \in Responses, NEW refresh,
         StartPublish(t, q, FALSE, refresh), rows[q].state = "valid",
         task["ingress"].at = "lock", task["ingress"].r = q, RecordFree(q),
         UNCHANGED <<left, alive, topic, instructed, booting, rows, copies>>
  PROVE  One'
<1>1. /\ \A u \in Tasks : task[u].at \notin Publishing
      /\ \A r \in Responses : \A c \in CopiesOf(r) : c.id = rows[r].published /\ c.id # 0
      /\ \A r \in Responses : rows[r].published = 0 => CopiesOf(r) = {}
  BY NobodyPublishes DEF Publishing
<1>2. /\ Others(t) /\ task'[t].at = FirstCall(rows[q], FALSE, refresh)
      /\ task'[t].r = q /\ task'[t].row = rows[q] /\ task'[t].copy = rows[q].published
      /\ task'[t].replaced = task[t].replaced
  BY DEF IInv, Types, Task, StartPublish, Others
<1>3. \/ task'[t].at = "send" /\ rows[q].published = 0
      \/ task'[t].at \in {"edit", "clean"} /\ rows[q].published # 0
  BY <1>2 DEF FirstCall
<1>4. task'[t].at \in Publishing
  BY <1>3 DEF Publishing
<1>5. Undisturbed'
  BY <1>2, <1>4, TasksAre DEF One, Undisturbed, Others, Tasks, Publishing
<1>6. Alternate'
  <2>1. CASE t = "ingress"
    BY <1>1, <1>2, <2>1, TasksAre DEF One, Alternate, Others
  <2>2. CASE t = "refresh"
    BY <1>2, <1>4, <2>2, TasksAre DEF Alternate, Others, Publishing
  <2> QED
    BY <2>1, <2>2 DEF Tasks
<1>7. LosesCopy'
  BY <1>2, <1>4, TasksAre DEF LosesCopy, Others, Tasks, Publishing
<1>8. CopiesOf(q)' = CopiesOf(q)
  BY DEF CopiesOf
<1>9. PublishesOne(t)'
  BY <1>1, <1>2, <1>3, <1>8 DEF PublishesOne
<1>10. \A u \in Tasks : PublishesOne(u)'
  BY <1>1, <1>2, <1>9 DEF PublishesOne, Others
<1>11. ASSUME NEW r \in Responses
       PROVE  OneOf(r)'
  <2>1. Handled(r) => Handled(r)'
    BY <1>2, <1>4, TasksAre DEF Handled, Others, Working, Tasks
  <2>2. CopiesOf(r)' = CopiesOf(r)
    BY DEF CopiesOf
  <2> QED
    BY <1>1, <2>1, <2>2, OneOfKept DEF Publishing
<1> QED
  BY <1>5, <1>6, <1>7, <1>10, <1>11 DEF One

LEMMA LockRecordOne ==
  ASSUME IInv, One, LockRecord, Next
  PROVE  One'
<1>1. task["ingress"].at = "lock"
  BY DEF LockRecord, At
<1>2. PICK q \in Responses : q = task["ingress"].r
  BY <1>1, TasksAre DEF IInv, Held, GoodTask, Busy
<1>3. RecordFree(q) /\ UNCHANGED <<left, alive, topic, instructed, booting, rows, copies>>
  BY <1>2 DEF LockRecord, telegram
<1>4. CASE rows[q].state = "valid"
  BY <1>1, <1>2, <1>3, <1>4, StartOne, TasksAre DEF LockRecord
<1>5. CASE rows[q].state # "valid"
  <2>1. Keeps("ingress") /\ task'["ingress"].at = "finish"
    BY <1>2, <1>5, GoesKeeps, TasksAre DEF LockRecord
  <2>2. \A t \in Tasks : task[t].at \notin Publishing
    BY <1>1, <1>2, <1>3, NobodyPublishes DEF Publishing
  <2>3. /\ task'["refresh"] = task["refresh"]
        /\ \A t \in Tasks : task'[t].at \notin Publishing
    BY <2>1, <2>2, TasksAre DEF Keeps, Others, Tasks, Publishing
  <2>4. Undisturbed'
    BY <1>1, <1>3, <2>3 DEF One, Undisturbed
  <2>5. Alternate'
    BY <1>3, <2>3, TasksAre DEF One, Alternate
  <2>6. LosesCopy'
    BY <2>1 DEF LosesCopy
  <2>7. ASSUME NEW r \in Responses
        PROVE  OneOf(r)'
    <3>1. CopiesOf(r)' = CopiesOf(r) /\ rows'[r] = rows[r]
      BY <1>3 DEF CopiesOf
    <3>2. \A c \in CopiesOf(r) : c.id = rows[r].published
      BY <1>1, <1>2, <1>3, NobodyPublishes DEF Publishing
    <3>3. Handled(r) => r = q
      BY <1>2 DEF Handled
    <3> QED
      BY <1>5, <3>1, <3>2, <3>3 DEF One, OneOf
  <2>8. \A t \in Tasks : PublishesOne(t)'
    BY <2>3 DEF PublishesOne
  <2> QED
    BY <2>4, <2>5, <2>6, <2>7, <2>8 DEF One
<1> QED
  BY <1>4, <1>5

\* A step of anybody else, or of the refresh between two responses.
LEMMA SideStep ==
  ASSUME IInv, One, Next, task'["ingress"] = task["ingress"],
         \/ task'["refresh"] = task["refresh"]
         \/ /\ task["refresh"].at \notin Publishing /\ task'["refresh"].at \notin Publishing
            /\ task'["refresh"].at = "cleanup"
                 => \A r \in task'["refresh"].todo : rows'[r].state = "deleted",
         Undisturbed', copies' \subseteq copies,
         \A r \in Responses : \/ rows'[r] = rows[r]
                              \/ /\ rows[r].state # "valid" /\ rows'[r].state # "valid"
                                 /\ OneOf(r)'
  PROVE  One'
<1>1. Alternate'
  <2>1. CASE task'["refresh"] = task["refresh"]
    <3>1. \A r \in Responses : rows[r].state = "deleted" => rows'[r].state = "deleted"
      BY EveryStep DEF Good, RowsMove, RowMoves
    <3>2. task["refresh"].todo \subseteq Responses
      BY TasksAre DEF IInv, Types, Task
    <3> QED
      BY <2>1, <3>1, <3>2 DEF One, Alternate
  <2>2. CASE task'["refresh"] # task["refresh"]
    BY <2>2 DEF Alternate
  <2> QED
    BY <2>1, <2>2
<1>2. \A r \in Responses : CopiesOf(r)' \subseteq CopiesOf(r)
  BY DEF CopiesOf
<1>3. LosesCopy'
  <2>1. CASE task["ingress"].at \in {"withdraw", "save", "clear"}
    <3>1. task["ingress"].r \in Responses
      BY <2>1, TasksAre DEF IInv, Held, GoodTask, Busy, Rejecting, Erasing
    <3> QED
      BY <1>2, <3>1 DEF One, LosesCopy
  <2>2. CASE task["ingress"].at \notin {"withdraw", "save", "clear"}
    BY <2>2 DEF LosesCopy
  <2> QED
    BY <2>1, <2>2
<1>4. ASSUME NEW r \in Responses
      PROVE  OneOf(r)'
  <2>1. CASE rows'[r] = rows[r]
    <3>1. Handled(r) => Handled(r)'
      BY DEF Handled
    <3>2. \A t \in Tasks : task[t].r = r /\ task[t].at = "record"
                            => /\ task'[t].r = r /\ task'[t].at = "record"
                               /\ task'[t].copy = task[t].copy
      BY DEF Tasks, Publishing
    <3> QED
      BY <1>2, <2>1, <3>1, <3>2, OneOfKept
  <2> QED
    BY <2>1
<1>5. ASSUME NEW t \in Tasks
      PROVE  PublishesOne(t)'
  <2>1. CASE task[t].at \in Publishing /\ task'[t] = task[t]
    <3>1. PICK q \in Responses : q = task[t].r
      BY <2>1, Labels DEF IInv, Held, GoodTask
    <3>2. PublishesOne(t)
      BY DEF One
    <3>3. rows[q].state = "valid"
      BY <2>1, <3>1, <3>2 DEF PublishesOne
    <3>4. rows'[q] = rows[q] /\ CopiesOf(q)' \subseteq CopiesOf(q)
      BY <1>2, <3>3
    <3> QED
      BY <2>1, <3>1, <3>2, <3>4 DEF PublishesOne
  <2>2. CASE task'[t].at \notin Publishing
    BY <2>2 DEF PublishesOne
  <2> QED
    BY <2>1, <2>2 DEF Tasks
<1> QED
  BY <1>1, <1>3, <1>4, <1>5 DEF One

LEMMA PeopleOne ==
  ASSUME IInv, Budget, One, Arrive \/ RemoveByHand, Next
  PROVE  One'
<1>1. UNCHANGED <<task, rows, alive, topic, instructed, booting>> /\ copies' \subseteq copies
  BY DEF Arrive, RemoveByHand
<1>2. left'.failures = 0 /\ left'.crashes = 0 /\ left'.topics = 0
  BY DEF Arrive, RemoveByHand, Spend, Budget, One, Undisturbed
<1>3. Undisturbed'
  BY <1>1, <1>2 DEF One, Undisturbed
<1> QED
  BY <1>1, <1>3, SideStep

LEMMA ExpireOne ==
  ASSUME IInv, One, NEW q \in Responses, Expire(q), Next
  PROVE  One'
<1>1. UNCHANGED <<task, left, alive, topic, instructed, booting, copies>>
  BY DEF Expire, Wake, RemoveSource, DropRow, telegram
<1>2. \A r \in Responses : rows'[r] = rows[r] \/ (rows[r].state = "pending" /\ rows'[r] = NoRow)
  BY DEF Expire, Wake, RemoveSource, DropRow, Expires, IInv, Types
<1>3. Undisturbed'
  BY <1>1, <1>2 DEF One, Undisturbed
<1>4. ASSUME NEW r \in Responses, rows[r].state = "pending", rows'[r] = NoRow
      PROVE  rows'[r].state # "valid" /\ OneOf(r)'
  <2>1. OneOf(r) /\ CopiesOf(r)' = CopiesOf(r) /\ rows[r].published = 0
    BY <1>1, <1>4 DEF One, OneOf, CopiesOf
  <2> QED
    BY <1>1, <1>4, <2>1 DEF OneOf, NoRow
<1> QED
  BY <1>1, <1>2, <1>3, <1>4, SideStep

LEMMA RoundOne ==
  ASSUME IInv, One, Start \/ Tick \/ Probe \/ EndRound, Next
  PROVE  One'
<1>1. /\ UNCHANGED <<left, alive, topic, rows, copies>> /\ instructed' \in {0, 1}
      /\ booting' => booting
  <2>1. CASE Start
    BY <2>1 DEF Start, One, Undisturbed
  <2>2. CASE Tick
    BY <2>2 DEF Tick, telegram, One, Undisturbed
  <2>3. CASE Probe
    BY <2>3 DEF Probe, telegram, One, Undisturbed
  <2>4. CASE EndRound
    BY <2>4 DEF EndRound, telegram, One, Undisturbed
  <2> QED
    BY <2>1, <2>2, <2>3, <2>4
<1>2. task["refresh"].at \in {"start", "idle", "probe", "restore"}
  BY DEF Start, Tick, Probe, EndRound, At
<1>3. /\ task'["ingress"] = task["ingress"]
      /\ task'["refresh"].at \in {"idle", "probe", "cleanup"} /\ ~ task'["refresh"].replaced
      /\ task'["refresh"].at = "cleanup" => task'["refresh"].todo = Tombstones
  <2>1. CASE Start
    BY <2>1, GoesKeeps, TasksAre DEF Start, Keeps, Others, One, Undisturbed
  <2>2. CASE Tick
    BY <2>2, TasksAre DEF Tick, IInv, Types, Idle
  <2>3. CASE Probe
    <3>1. ToCleanup(FALSE)
      BY <2>3 DEF Probe, One, Undisturbed
    <3> QED
      BY <3>1, TasksAre DEF ToCleanup, IInv, Types, Task
  <2>4. CASE EndRound
    BY <2>4, TasksAre DEF EndRound, IInv, Types, Idle
  <2> QED
    BY <2>1, <2>2, <2>3, <2>4
<1>4. Undisturbed'
  BY <1>1, <1>3 DEF One, Undisturbed
<1>5. \A r \in Tombstones : rows'[r].state = "deleted"
  BY <1>1 DEF Tombstones
<1> QED
  BY <1>1, <1>2, <1>3, <1>4, <1>5, SideStep DEF Publishing

LEMMA CleanupOne ==
  ASSUME IInv, One, Cleanup, Next
  PROVE  One'
<1>1. /\ task["refresh"].at = "cleanup" /\ task["refresh"].todo \subseteq Responses
      /\ ~ task["refresh"].replaced
  BY TasksAre DEF Cleanup, At, IInv, Types, Task, One, Undisturbed
<1>2. UNCHANGED <<left, alive, topic, instructed, booting>>
  BY DEF Cleanup
<1>3. CASE task["refresh"].todo = {}
  <2>1. /\ UNCHANGED <<rows, copies>> /\ task'["ingress"] = task["ingress"]
        /\ task'["refresh"].at = "restore" /\ ~ task'["refresh"].replaced
    BY <1>1, <1>3, TasksAre DEF Cleanup, IInv, Types, Task
  <2>2. Undisturbed'
    BY <1>2, <2>1 DEF One, Undisturbed
  <2> QED
    BY <1>1, <2>1, <2>2, SideStep DEF Publishing
<1>4. CASE task["refresh"].todo # {}
  <2>1. PICK q \in task["refresh"].todo :
          /\ rows' = [rows EXCEPT ![q].published = 0]
          /\ copies' = Without(rows[q].published)
          /\ task' = [task EXCEPT !["refresh"].todo = @ \ {q}]
    BY <1>1, <1>4 DEF Cleanup
  <2>2. q \in Responses /\ rows[q].state = "deleted"
    BY <1>1 DEF One, Alternate
  <2>3. Column(q) /\ rows'[q].published = 0 /\ rows'[q].state = rows[q].state
    BY <2>1, <2>2, PublishedColumn
  <2>4. /\ task'["ingress"] = task["ingress"]
        /\ task'["refresh"].at = "cleanup" /\ ~ task'["refresh"].replaced
        /\ task'["refresh"].todo \subseteq task["refresh"].todo
    BY <1>1, <2>1, TasksAre DEF IInv, Types, Task
  <2>5. CopiesOf(q)' = {}
    <3>1. ASSUME NEW t \in Tasks, task[t].at = "record", task[t].r = q
          PROVE  FALSE
      BY <2>2, <3>1 DEF One, PublishesOne, Publishing
    <3>2. \A c \in CopiesOf(q) : c.id = rows[q].published
      BY <2>2, <3>1 DEF One, OneOf
    <3> QED
      BY <2>1, <3>2 DEF CopiesOf, Without
  <2>6. OneOf(q)'
    BY <2>2, <2>3, <2>5 DEF OneOf
  <2>7. Undisturbed'
    BY <1>2, <2>2, <2>3, <2>4 DEF One, Undisturbed, Column
  <2>8. \A r \in task'["refresh"].todo : rows'[r].state = "deleted"
    BY <1>1, <2>2, <2>3, <2>4 DEF One, Alternate, Column
  <2>9. copies' \subseteq copies
    BY <2>1 DEF Without
  <2> QED
    BY <1>1, <2>2, <2>3, <2>4, <2>6, <2>7, <2>8, <2>9, SideStep DEF Publishing, Column
<1> QED
  BY <1>3, <1>4

LEMMA RestoreOne ==
  ASSUME IInv, One, Restore, Next
  PROVE  One'
<1>1. /\ task["refresh"].at = "restore" /\ task["refresh"].todo \subseteq Responses
      /\ ~ task["refresh"].replaced
  BY TasksAre DEF Restore, At, IInv, Types, Task, One, Undisturbed
<1>2. UNCHANGED <<left, alive, topic, instructed, booting, rows, copies>>
  BY DEF Restore, telegram
<1>3. PICK q \in Responses :
        /\ RecordFree(q)
        /\ \/ task' = [task EXCEPT !["refresh"].todo = @ \ {q}]
           \/ /\ rows[q].state = "valid" /\ (booting \/ ~ LooksComplete(rows[q]))
              /\ \E refresh : StartPublish("refresh", q, FALSE, refresh)
  <2>1. PICK q \in Responses :
          /\ RecordFree(q)
          /\ \/ task' = [task EXCEPT !["refresh"].todo = @ \ {q}]
             \/ /\ rows[q].state = "valid" /\ (booting \/ ~ LooksComplete(rows[q]))
                /\ StartPublish("refresh", q, task["refresh"].replaced, booting)
    BY <1>1 DEF Restore
  <2>2. task["refresh"].replaced = FALSE
    BY <1>1, TasksAre DEF IInv, Types, Task
  <2> QED
    BY <2>1, <2>2
<1>4. CASE task' = [task EXCEPT !["refresh"].todo = @ \ {q}]
  <2>1. /\ task'["ingress"] = task["ingress"]
        /\ task'["refresh"].at = "restore" /\ ~ task'["refresh"].replaced
    BY <1>1, <1>4, TasksAre DEF IInv, Types, Task
  <2>2. Undisturbed'
    BY <1>2, <2>1 DEF One, Undisturbed
  <2> QED
    BY <1>1, <1>2, <2>1, <2>2, SideStep DEF Publishing
<1>5. CASE /\ rows[q].state = "valid" /\ (booting \/ ~ LooksComplete(rows[q]))
           /\ \E refresh : StartPublish("refresh", q, FALSE, refresh)
  <2>1. ~ booting
    BY <1>5 DEF One, Undisturbed
  <2>2. Handled(q)
    BY <1>5, <2>1 DEF One, OneOf
  <2>3. task["ingress"].at = "lock" /\ task["ingress"].r = q
    BY <1>3, <2>2, TasksAre DEF Handled, Working, RecordFree
  <2> QED
    BY <1>2, <1>3, <1>5, <2>3, StartOne, TasksAre
<1> QED
  BY <1>3, <1>4, <1>5

\* What fails is not in the plan.
LEMMA NothingFails ==
  ASSUME One,
         \/ DeleteTopic \/ Crash \/ EraseFails \/ Recover \/ Discard \/ Instruct
         \/ \E r \in Responses : RemoveFails(r)
         \/ \E t \in Tasks : CallFails(t) \/ AnswerLost(t) \/ CleanFails(t)
  PROVE  FALSE
<1>1. ~ Spend("failures") /\ ~ Spend("crashes") /\ ~ Spend("topics")
  BY DEF One, Undisturbed, Spend
<1>2. ~ DeleteTopic /\ ~ Crash /\ ~ EraseFails
  BY <1>1 DEF DeleteTopic, Crash, EraseFails
<1>3. ~ Recover /\ ~ Discard /\ ~ Instruct
  BY DEF Recover, Discard, Instruct, At, One, Undisturbed
<1>4. \A r \in Responses : ~ RemoveFails(r)
  BY <1>1 DEF RemoveFails
<1>5. \A t \in Tasks : ~ CallFails(t) /\ ~ AnswerLost(t) /\ ~ CleanFails(t)
  BY <1>1 DEF CallFails, AnswerLost, CleanFails
<1> QED
  BY <1>2, <1>3, <1>4, <1>5

LEMMA EveryOne ==
  ASSUME IInv, Budget, One, Next
  PROVE  One'
<1>1. ASSUME NEW t \in Tasks, Publish(t)
      PROVE  One'
  BY <1>1, EditOne, SendCopyOne, RecordOne, CleanOne, CompleteOne DEF Publish
<1>2. CASE Ingress
  BY <1>1, <1>2, TasksAre, BeginOne, FinishOne, LockRecordOne, WithdrawOne, SavePendingOne,
     WarnOne, EraseOne, ClearPublicationOne DEF Ingress
<1>3. CASE Refresh
  BY <1>1, <1>3, TasksAre, RoundOne, NothingFails, CleanupOne, RestoreOne DEF Refresh
<1>4. CASE Arrive \/ RemoveByHand \/ DeleteTopic \/ Crash \/ EraseFails
  BY <1>4, PeopleOne, NothingFails
<1>5. CASE \E r \in Responses : Expire(r) \/ RemoveFails(r)
  BY <1>5, ExpireOne, NothingFails
<1>6. CASE \E t \in Tasks : CallFails(t) \/ AnswerLost(t) \/ CleanFails(t)
  BY <1>6, NothingFails
<1> QED
  BY <1>2, <1>3, <1>4, <1>5, <1>6 DEF Next

LEMMA OneKept ==
  ASSUME IInv, Budget, QuietOne, [Next]_vars
  PROVE  QuietOne'
<1>1. CASE UNCHANGED vars
  BY <1>1 DEF QuietOne, Quiet, One, Undisturbed, Alternate, LosesCopy, OneOf, PublishesOne, Handled,
              CopiesOf, vars, telegram
<1>2. CASE Next
  <2>1. plan' = plan
    BY <1>2, EveryStep DEF Good
  <2> QED
    BY <1>2, <2>1, EveryOne DEF QuietOne, Quiet
<1> QED
  BY <1>1, <1>2

LEMMA OneInitially ==
  ASSUME Init
  PROVE  Budget /\ Copies /\ QuietOne
<1>1. Budget
  <2>1. plan.failures \in Nat /\ plan.crashes \in Nat /\ plan.topics \in Nat /\ plan.hands \in Nat
    BY ResponsesAssumption DEF Init
  <2> QED
    BY <2>1 DEF Init, Budget
<1>2. Copies
  BY DEF Init, Copies
<1>3. /\ task["ingress"] = Idle /\ task["refresh"] = [Idle EXCEPT !.at = "start"]
      /\ rows = [r \in Responses |-> NoRow] /\ copies = {} /\ alive /\ topic = 1
      /\ instructed = 0
      /\ left = [failures |-> plan.failures, crashes |-> plan.crashes,
                 topics |-> plan.topics, hands |-> plan.hands]
  BY DEF Init
<1>4. task["ingress"].at = "idle" /\ task["refresh"].at = "start" /\ ~ task["refresh"].replaced
  BY <1>3 DEF Idle
<1>5. Quiet => Undisturbed
  BY <1>3, <1>4 DEF Quiet, Undisturbed, NoRow
<1>6. Alternate /\ LosesCopy
  BY <1>4 DEF Alternate, LosesCopy, Publishing
<1>7. \A r \in Responses : OneOf(r)
  BY <1>3 DEF OneOf, NoRow, CopiesOf
<1>8. \A t \in Tasks : PublishesOne(t)
  BY <1>4 DEF PublishesOne, Tasks, Publishing
<1> QED
  BY <1>1, <1>2, <1>5, <1>6, <1>7, <1>8 DEF QuietOne, One

\* Two copies of a response would have the same number.
LEMMA OneAtMost ==
  ASSUME IInv, Copies, One, NEW r \in Responses
  PROVE  Cardinality(CopiesOf(r)) <= 1
<1>1. ASSUME NEW c \in CopiesOf(r), NEW d \in CopiesOf(r)
      PROVE  c = d
  <2>1. c \in [id : 1..sent, r : Responses] /\ d \in [id : 1..sent, r : Responses] /\ c.r = d.r
    BY DEF Copies, CopiesOf
  <2>2. c.id = d.id
    <3>1. CASE \E t \in Tasks : task[t].at = "record" /\ task[t].r = r
      BY <3>1 DEF One, PublishesOne, Publishing
    <3>2. CASE ~ \E t \in Tasks : task[t].at = "record" /\ task[t].r = r
      BY <3>2 DEF One, OneOf
    <3> QED
      BY <3>1, <3>2
  <2> QED
    BY <2>1, <2>2
<1>2. CASE CopiesOf(r) = {}
  BY <1>2, FS_EmptySet
<1>3. CASE CopiesOf(r) # {}
  <2>1. PICK c : CopiesOf(r) = {c}
    BY <1>1, <1>3
  <2> QED
    BY <2>1, FS_Singleton
<1> QED
  BY <1>2, <1>3

\* However messages, button, expiration and refresh interleave, a response has one copy
\* at most, unless a call failed, the process crashed or the topic was deleted.
THEOREM OneCopyEach == Spec => []OneCopy
<1> DEFINE Inv == IInv /\ Budget /\ Copies /\ QuietOne
<1>1. Init => Inv
  BY Initially, OneInitially
<1>2. Inv /\ [Next]_vars => Inv'
  BY EveryStep, Preserved, Stutters, BudgetKept, CopiesKept, OneKept
<1>3. Inv => OneCopy
  BY OneAtMost DEF QuietOne, Quiet, OneCopy
<1> QED
  BY <1>1, <1>2, <1>3, PTL DEF Spec

===============================================================================
