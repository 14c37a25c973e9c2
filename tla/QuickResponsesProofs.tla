------------------------- MODULE QuickResponsesProofs -------------------------
(***************************************************************************)
(* Theorems about QuickResponses, for any responses, scenarios and bounds.   *)
(*                                                                         *)
(* A tombstone stays because whoever may write to a row has seen that it is  *)
(* none and holds a lock against the button: the record lock while a copy is *)
(* published, the single thread of the ingress worker while a response is    *)
(* rejected (Held).                                                         *)
(***************************************************************************)
EXTENDS QuickResponses, TLAPS

States == {"none", "valid", "pending", "deleted"}
Row == [state : States, published : Nat, current : BOOLEAN, deadline : Nat, warning : BOOLEAN]
Alone == {"idle", "finish", "start", "probe", "recover", "discard", "instruct", "cleanup",
          "restore"}
Busy == {"lock"} \union Publishing \union Erasing \union Rejecting
Task == [at : Alone \union Busy, r : Responses \union {0}, row : Row, copy : Nat,
         todo : SUBSET Responses, replaced : BOOLEAN]
Timer == [at : {"none", "wait", "remove", "drop"}, deadline : Nat]
Update == [r : Responses, kind : Kinds, copy : Nat, topic : Nat]

Types ==
    /\ plan \in Scenarios
    /\ rows \in [Responses -> Row]
    /\ task \in [Tasks -> Task]
    /\ timer \in [Responses -> Timer]
    /\ clock \in Nat /\ sent \in Nat

\* Numbers of copies and deadlines were handed out before they are used.
GoodRow(row) ==
    /\ row.published <= sent
    /\ row.deadline <= clock
    /\ row.state = "pending" <=> row.deadline # 0

GoodRows == \A r \in Responses : GoodRow(rows[r])

Messages ==
    /\ source \in [Responses -> {"unsent", "there", "gone"}]
    /\ \A c \in copies : c.id \in 1..sent /\ c.r \in Responses

Topics == topic \in Nat /\ instructed \in 0..topic

\* The ingress worker at work has an update.
Queue ==
    /\ inbox \in Seq(Update)
    /\ \A i \in 1..Len(inbox) : inbox[i].copy <= sent
    /\ attempts \in Nat
    /\ handled \in 0..Len(inbox)
    /\ task["ingress"].at # "idle" => handled < Len(inbox)

\* A task at work has a response in hand; one that publishes or rejects it keeps
\* the button away.
GoodTask(t) ==
    /\ task[t].copy <= sent
    /\ task[t].row.deadline <= clock
    /\ task[t].row.state = "pending" => task[t].row.deadline # 0
    /\ task[t].at \in Busy => task[t].r \in Responses
    /\ task[t].at \in {"withdraw", "save"} => t = "ingress"
    /\ task[t].at \in Publishing \union {"withdraw", "save"}
           => rows[task[t].r].state # "deleted"

Held == \A t \in Tasks : GoodTask(t)

IInv == Types /\ GoodRows /\ Messages /\ Topics /\ Queue /\ Held

-----------------------------------------------------------------------------
LEMMA IdleType == Idle \in Task /\ NoRow \in Row /\ NoTimer \in Timer
  BY DEF Idle, Task, Row, Timer, NoRow, NoTimer, States, Alone

LEMMA TasksAre == "ingress" \in Tasks /\ "refresh" \in Tasks
  BY DEF Tasks

\* What the updates of a task mean.
LEMMA Goes ==
  ASSUME task \in [Tasks -> Task], NEW t \in Tasks, NEW label \in Alone \union Busy,
         task' = [task EXCEPT ![t].at = label]
  PROVE  /\ task' \in [Tasks -> Task]
         /\ \A u \in Tasks : u # t => task'[u] = task[u]
         /\ task'[t].at = label /\ task'[t].r = task[t].r /\ task'[t].row = task[t].row
         /\ task'[t].copy = task[t].copy
  BY DEF Task

\* One field after the other.
LEMMA Fields ==
  ASSUME NEW f \in [Tasks -> Task], NEW t \in Tasks
  PROVE  /\ \A x \in Alone \union Busy : [f EXCEPT ![t].at = x] \in [Tasks -> Task]
         /\ \A x \in Responses \union {0} : [f EXCEPT ![t].r = x] \in [Tasks -> Task]
         /\ \A x \in Row : [f EXCEPT ![t].row = x] \in [Tasks -> Task]
         /\ \A x \in Nat : [f EXCEPT ![t].copy = x] \in [Tasks -> Task]
         /\ \A x \in SUBSET Responses : [f EXCEPT ![t].todo = x] \in [Tasks -> Task]
         /\ \A x \in BOOLEAN : [f EXCEPT ![t].replaced = x] \in [Tasks -> Task]
<1>1. \A x \in Alone \union Busy : [f EXCEPT ![t].at = x] \in [Tasks -> Task]
  BY DEF Task
<1>2. \A x \in Responses \union {0} : [f EXCEPT ![t].r = x] \in [Tasks -> Task]
  BY DEF Task
<1>3. \A x \in Row : [f EXCEPT ![t].row = x] \in [Tasks -> Task]
  BY DEF Task
<1>4. \A x \in Nat : [f EXCEPT ![t].copy = x] \in [Tasks -> Task]
  BY DEF Task
<1>5. \A x \in SUBSET Responses : [f EXCEPT ![t].todo = x] \in [Tasks -> Task]
  BY DEF Task
<1>6. \A x \in BOOLEAN : [f EXCEPT ![t].replaced = x] \in [Tasks -> Task]
  BY DEF Task
<1> QED
  BY <1>1, <1>2, <1>3, <1>4, <1>5, <1>6

LEMMA Becomes ==
  ASSUME task \in [Tasks -> Task], NEW t \in Tasks, NEW new \in Task,
         task' = [task EXCEPT ![t] = new]
  PROVE  /\ task' \in [Tasks -> Task]
         /\ \A u \in Tasks : u # t => task'[u] = task[u]
         /\ task'[t] = new
  OBVIOUS

LEMMA Raised ==
  ASSUME task \in [Tasks -> Task], NEW t \in Tasks, Raise(t)
  PROVE  /\ task' \in [Tasks -> Task]
         /\ \A u \in Tasks : u # t => task'[u] = task[u]
         /\ task'[t].at \in {"idle", "start"} /\ task'[t].copy = 0 /\ task'[t].row = NoRow
<1>1. Idle \in Task /\ [Idle EXCEPT !.at = "start"] \in Task
  BY IdleType DEF Task, Alone, Idle
<1>2. \E new \in {Idle, [Idle EXCEPT !.at = "start"]} : task' = [task EXCEPT ![t] = new]
  BY DEF Raise, Idle
<1>3. \A new \in {Idle, [Idle EXCEPT !.at = "start"]} :
        new.at \in {"idle", "start"} /\ new.copy = 0 /\ new.row = NoRow
  BY DEF Idle
<1>4. PICK new \in {Idle, [Idle EXCEPT !.at = "start"]} : task' = [task EXCEPT ![t] = new]
  BY <1>2
<1>5. new \in Task
  BY <1>1
<1> QED
  BY <1>3, <1>4, <1>5, Becomes

LEMMA Started ==
  ASSUME Types, NEW t \in Tasks, NEW r \in Responses, NEW force, NEW refresh,
         StartPublish(t, r, force, refresh)
  PROVE  /\ task' \in [Tasks -> Task]
         /\ \A u \in Tasks : u # t => task'[u] = task[u]
         /\ task'[t].at \in {"edit", "send", "clean"} /\ task'[t].r = r
         /\ task'[t].row = rows[r] /\ task'[t].copy \in {0, rows[r].published}
<1> DEFINE label == FirstCall(rows[r], force, refresh)
           copy == IF force THEN 0 ELSE rows[r].published
<1>1. label \in {"edit", "send", "clean"}
  BY DEF FirstCall
<1>2. rows[r] \in Row /\ copy \in Nat /\ copy \in {0, rows[r].published}
  BY DEF Types, Row
<1>3. task' = [task EXCEPT ![t].at = label, ![t].r = r, ![t].row = rows[r],
                           ![t].copy = copy, ![t].todo = @ \ {r}]
  BY DEF StartPublish
<1>4. label \in Alone \union Busy
  BY <1>1 DEF Busy, Publishing
<1> HIDE DEF label, copy
<1>5. task'[t].todo \subseteq Responses
  BY <1>3 DEF Types, Task
<1>6. /\ \A u \in Tasks : u # t => task'[u] = task[u]
      /\ task'[t].at = label /\ task'[t].r = r /\ task'[t].row = rows[r]
      /\ task'[t].copy = copy
  BY <1>3 DEF Types, Task
<1>7. task' \in [Tasks -> Task]
  <2> DEFINE f1 == [task EXCEPT ![t].at = label]
             f2 == [f1 EXCEPT ![t].r = r]
             f3 == [f2 EXCEPT ![t].row = rows[r]]
             f4 == [f3 EXCEPT ![t].copy = copy]
             f5 == [f4 EXCEPT ![t].todo = f4[t].todo \ {r}]
  <2>1. task' = f5
    BY <1>3
  <2>2. f1 \in [Tasks -> Task]
    BY <1>4, Fields DEF Types
  <2> HIDE DEF f1
  <2>3. f2 \in [Tasks -> Task]
    BY <2>2, Fields
  <2> HIDE DEF f2
  <2>4. f3 \in [Tasks -> Task]
    BY <1>2, <2>3, Fields
  <2> HIDE DEF f3
  <2>5. f4 \in [Tasks -> Task]
    BY <1>2, <2>4, Fields
  <2> HIDE DEF f4
  <2>6. f4[t].todo \ {r} \in SUBSET Responses
    BY <2>5 DEF Task
  <2>7. f5 \in [Tasks -> Task]
    BY <2>5, <2>6, Fields
  <2> QED
    BY <2>1, <2>7
<1> QED
  BY <1>1, <1>2, <1>6, <1>7

LEMMA Sent ==
  ASSUME Types, NEW t \in Tasks, task' = [task EXCEPT ![t].at = "record", ![t].copy = sent + 1]
  PROVE  /\ task' \in [Tasks -> Task]
         /\ \A u \in Tasks : u # t => task'[u] = task[u]
         /\ task'[t].at = "record" /\ task'[t].r = task[t].r /\ task'[t].row = task[t].row
         /\ task'[t].copy = sent + 1
<1>1. sent + 1 \in Nat /\ "record" \in Alone \union Busy
  BY DEF Types, Busy, Publishing
<1>2. /\ \A u \in Tasks : u # t => task'[u] = task[u]
      /\ task'[t].at = "record" /\ task'[t].r = task[t].r /\ task'[t].row = task[t].row
      /\ task'[t].copy = sent + 1
  BY DEF Types, Task
<1>3. task' \in [Tasks -> Task]
  <2> DEFINE f1 == [task EXCEPT ![t].at = "record"]
             f2 == [f1 EXCEPT ![t].copy = sent + 1]
  <2>1. task' = f2
    OBVIOUS
  <2>2. f1 \in [Tasks -> Task]
    BY <1>1, Fields DEF Types
  <2> HIDE DEF f1
  <2>3. f2 \in [Tasks -> Task]
    BY <1>1, <2>2, Fields
  <2> QED
    BY <2>1, <2>3
<1> QED
  BY <1>2, <1>3

LEMMA Dated ==
  ASSUME Types, NEW deadline \in Nat,
         task' = [task EXCEPT !["ingress"].at = "warn", !["ingress"].row.deadline = deadline]
  PROVE  /\ task' \in [Tasks -> Task]
         /\ task'["refresh"] = task["refresh"]
         /\ task'["ingress"].at = "warn" /\ task'["ingress"].r = task["ingress"].r
         /\ task'["ingress"].row.deadline = deadline
         /\ task'["ingress"].row.state = task["ingress"].row.state
         /\ task'["ingress"].copy = task["ingress"].copy
<1> DEFINE f1 == [task EXCEPT !["ingress"].at = "warn"]
           row == [f1["ingress"].row EXCEPT !.deadline = deadline]
           f2 == [f1 EXCEPT !["ingress"].row = row]
<1>1. task' = f2
  OBVIOUS
<1>2. "warn" \in Alone \union Busy
  BY DEF Busy, Rejecting
<1>3. f1 \in [Tasks -> Task]
  BY <1>2, Fields, TasksAre DEF Types
<1>4. /\ f1["refresh"] = task["refresh"]
      /\ f1["ingress"].at = "warn" /\ f1["ingress"].r = task["ingress"].r
      /\ f1["ingress"].row = task["ingress"].row
      /\ f1["ingress"].copy = task["ingress"].copy
  BY TasksAre DEF Types, Task
<1> HIDE DEF f1
<1>5. f1["ingress"].row \in Row
  BY <1>3, TasksAre DEF Task
<1>6. row \in Row /\ row.deadline = deadline /\ row.state = f1["ingress"].row.state
  BY <1>5 DEF Row
<1> HIDE DEF row
<1>7. f2 \in [Tasks -> Task]
  BY <1>3, <1>6, Fields, TasksAre
<1>8. /\ f2["refresh"] = f1["refresh"] /\ f2["ingress"].at = f1["ingress"].at
      /\ f2["ingress"].r = f1["ingress"].r /\ f2["ingress"].row = row
      /\ f2["ingress"].copy = f1["ingress"].copy
  BY <1>3, TasksAre DEF Task
<1> QED
  BY <1>1, <1>4, <1>6, <1>7, <1>8

\* The refresh goes on with what it has to look at.
LEMMA Looks ==
  ASSUME Types, NEW label \in Alone \union Busy, NEW S \in SUBSET Responses,
         NEW replaced \in BOOLEAN,
         \/ task' = [task EXCEPT !["refresh"].at = label, !["refresh"].todo = S,
                                 !["refresh"].replaced = replaced]
         \/ task' = [task EXCEPT !["refresh"].at = label, !["refresh"].todo = S]
         \/ /\ label = task.refresh.at
            /\ task' = [task EXCEPT !["refresh"].todo = S]
  PROVE  /\ task' \in [Tasks -> Task]
         /\ task'["ingress"] = task["ingress"]
         /\ task'["refresh"].at = label /\ task'["refresh"].r = task["refresh"].r
         /\ task'["refresh"].row = task["refresh"].row
         /\ task'["refresh"].copy = task["refresh"].copy
<1> DEFINE f1 == [task EXCEPT !["refresh"].at = label]
           f2 == [f1 EXCEPT !["refresh"].todo = S]
           f3 == [f2 EXCEPT !["refresh"].replaced = replaced]
           Same(f) == /\ f["ingress"] = task["ingress"]
                      /\ f["refresh"].at = label /\ f["refresh"].r = task["refresh"].r
                      /\ f["refresh"].row = task["refresh"].row
                      /\ f["refresh"].copy = task["refresh"].copy
<1>1. \/ task' = f3 \/ task' = f2
      \/ label = task["refresh"].at /\ task' = [task EXCEPT !["refresh"].todo = S]
  OBVIOUS
<1>2. f1 \in [Tasks -> Task] /\ Same(f1)
  <2>1. f1 \in [Tasks -> Task]
    BY Fields, TasksAre DEF Types
  <2>2. Same(f1)
    BY TasksAre DEF Types, Task
  <2> QED
    BY <2>1, <2>2
<1> HIDE DEF f1
<1>3. f2 \in [Tasks -> Task] /\ Same(f2)
  <2>1. f2 \in [Tasks -> Task]
    BY <1>2, Fields, TasksAre
  <2>2. Same(f2)
    BY <1>2, TasksAre DEF Task
  <2> QED
    BY <2>1, <2>2
<1> HIDE DEF f2
<1>4. f3 \in [Tasks -> Task] /\ Same(f3)
  <2>1. f3 \in [Tasks -> Task]
    BY <1>3, Fields, TasksAre
  <2>2. Same(f3)
    BY <1>3, TasksAre DEF Task
  <2> QED
    BY <2>1, <2>2
<1> HIDE DEF f3
<1>5. ASSUME label = task["refresh"].at, task' = [task EXCEPT !["refresh"].todo = S]
      PROVE  task' \in [Tasks -> Task] /\ Same(task')
  <2>1. task' \in [Tasks -> Task]
    BY <1>5, Fields, TasksAre DEF Types
  <2>2. Same(task')
    BY <1>5, TasksAre DEF Types, Task
  <2> QED
    BY <2>1, <2>2
<1> QED
  BY <1>1, <1>3, <1>4, <1>5

-----------------------------------------------------------------------------
(* What the steps do to the rows.                                           *)

\* A row in which one column is changed.
Same(q) ==
    /\ rows' \in [Responses -> Row]
    /\ \A r \in Responses : r # q => rows'[r] = rows[r]

LEMMA PublishedSet ==
  ASSUME rows \in [Responses -> Row], NEW q \in Responses, NEW n \in Nat,
         rows' = [rows EXCEPT ![q].published = n]
  PROVE  /\ Same(q)
         /\ rows'[q].published = n /\ rows'[q].state = rows[q].state
         /\ rows'[q].deadline = rows[q].deadline
  BY DEF Row, Same

LEMMA FlagSet ==
  ASSUME rows \in [Responses -> Row], NEW q \in Responses, NEW b \in BOOLEAN,
         \/ rows' = [rows EXCEPT ![q].warning = b]
         \/ rows' = [rows EXCEPT ![q].current = b]
  PROVE  /\ Same(q)
         /\ rows'[q].published = rows[q].published /\ rows'[q].state = rows[q].state
         /\ rows'[q].deadline = rows[q].deadline
<1>1. CASE rows' = [rows EXCEPT ![q].warning = b]
  BY <1>1 DEF Row, Same
<1>2. CASE rows' = [rows EXCEPT ![q].current = b]
  BY <1>2 DEF Row, Same
<1> QED
  BY <1>1, <1>2

LEMMA Deleted ==
  ASSUME rows \in [Responses -> Row], NEW q \in Responses,
         rows' = [rows EXCEPT ![q].state = "deleted"]
  PROVE  /\ Same(q)
         /\ rows'[q].published = rows[q].published /\ rows'[q].state = "deleted"
         /\ rows'[q].deadline = rows[q].deadline
  BY DEF Row, Same, States

LEMMA Valid ==
  ASSUME rows \in [Responses -> Row], NEW q \in Responses,
         rows' = [rows EXCEPT ![q] = Accepted(@)]
  PROVE  /\ Same(q)
         /\ rows'[q].published = rows[q].published /\ rows'[q].state = "valid"
         /\ rows'[q].deadline = 0
<1> DEFINE half == [rows[q] EXCEPT !.state = "valid"]
           new == [half EXCEPT !.deadline = 0]
<1>1. half \in Row /\ half.published = rows[q].published /\ half.state = "valid"
  BY DEF Row, States
<1> HIDE DEF half
<1>2. new \in Row /\ new.published = half.published /\ new.state = half.state /\ new.deadline = 0
  BY <1>1 DEF Row
<1>3. rows' = [rows EXCEPT ![q] = new]
  BY DEF Accepted, half
<1> HIDE DEF new
<1> QED
  BY <1>1, <1>2, <1>3 DEF Same

LEMMA Rejected ==
  ASSUME rows \in [Responses -> Row], NEW q \in Responses, NEW n \in Nat,
         rows' = [rows EXCEPT ![q] = [NoRow EXCEPT !.state = "pending", !.deadline = n,
                                                   !.warning = rows[q].warning]]
  PROVE  /\ Same(q)
         /\ rows'[q].published = 0 /\ rows'[q].state = "pending" /\ rows'[q].deadline = n
<1> DEFINE f1 == [NoRow EXCEPT !.state = "pending"]
           f2 == [f1 EXCEPT !.deadline = n]
           f3 == [f2 EXCEPT !.warning = rows[q].warning]
<1>1. /\ f1 \in Row /\ f1.published = 0 /\ f1.state = "pending"
  BY DEF NoRow, Row, States
<1> HIDE DEF f1
<1>2. /\ f2 \in Row /\ f2.published = 0 /\ f2.state = "pending" /\ f2.deadline = n
  BY <1>1 DEF Row
<1> HIDE DEF f2
<1>3. /\ f3 \in Row /\ f3.published = 0 /\ f3.state = "pending" /\ f3.deadline = n
  BY <1>2 DEF Row
<1>4. rows' = [rows EXCEPT ![q] = f3]
  BY DEF f1, f2
<1> HIDE DEF f3
<1> QED
  BY <1>3, <1>4 DEF Same

\* Only the button makes a tombstone, and nothing takes it away.
Deletes(r) == At("ingress", "idle") /\ RecordFree(r) /\ task'["ingress"].at = "erase"

RowMoves(r) ==
    /\ GoodRow(rows[r])'
    /\ rows[r].state = "deleted" => rows'[r].state = "deleted"
    /\ rows'[r].state = "deleted" /\ rows[r].state # "deleted" => Deletes(r)

\* Numbers only grow.
Grow == sent \in Nat /\ sent' \in Nat /\ clock \in Nat /\ clock' \in Nat
        /\ sent <= sent' /\ clock <= clock'

RowsMove == rows' \in [Responses -> Row] /\ \A r \in Responses : RowMoves(r)

LEMMA RowsKept ==
  ASSUME IInv, Grow, UNCHANGED rows
  PROVE  RowsMove
<1>1. \A r \in Responses : rows[r] \in Row
  BY DEF IInv, Types
<1>2. \A r \in Responses : GoodRow(rows[r])'
  BY <1>1 DEF IInv, GoodRows, GoodRow, Grow, Row
<1> QED
  BY <1>2 DEF IInv, Types, RowsMove, RowMoves

LEMMA OneRowMoves ==
  ASSUME IInv, Grow, NEW q \in Responses, Same(q), RowMoves(q)
  PROVE  RowsMove
<1>1. \A r \in Responses : rows[r] \in Row
  BY DEF IInv, Types
<1>2. \A r \in Responses : r # q => GoodRow(rows[r])'
  BY <1>1 DEF IInv, GoodRows, GoodRow, Grow, Row, Same
<1> QED
  BY <1>2 DEF RowsMove, RowMoves, Same

\* A column other than the state.
LEMMA StateKept ==
  ASSUME IInv, Grow, NEW q \in Responses, Same(q), rows'[q].state = rows[q].state,
         rows'[q].deadline = rows[q].deadline, rows'[q].published <= sent'
  PROVE  RowsMove
<1>1. rows[q] \in Row /\ rows'[q] \in Row
  BY DEF IInv, Types, Same
<1>2. GoodRow(rows[q])'
  BY <1>1 DEF IInv, GoodRows, GoodRow, Grow, Row
<1> QED
  BY <1>2, OneRowMoves DEF RowMoves

-----------------------------------------------------------------------------
(* What the steps do to the tasks.                                          *)

\* A task either stays as it is or is as it should be.
Moves == task' \in [Tasks -> Task] /\ \A t \in Tasks : task'[t] = task[t] \/ GoodTask(t)'

\* The lock of the row and the single thread of the ingress worker.
LEMMA StillHeld ==
  ASSUME IInv, RowsMove, NEW t \in Tasks, task[t].at \in Publishing \union {"withdraw", "save"}
  PROVE  task[t].r \in Responses /\ rows'[task[t].r].state # "deleted"
<1>1. task[t].r \in Responses /\ rows[task[t].r].state # "deleted"
  BY DEF IInv, Held, GoodTask, Busy, Rejecting
<1>2. ~ Deletes(task[t].r)
  BY DEF IInv, Held, GoodTask, Deletes, At, RecordFree, Publishing
<1> QED
  BY <1>1, <1>2 DEF RowsMove, RowMoves

LEMMA TasksHeld ==
  ASSUME IInv, Grow, RowsMove, Moves
  PROVE  Held'
<1> SUFFICES ASSUME NEW t \in Tasks, task'[t] = task[t]
             PROVE  GoodTask(t)'
  BY DEF Held, Moves
<1>1. task[t] \in Task /\ task[t].row \in Row
  BY DEF IInv, Types, Task
<1>2. task[t].copy <= sent' /\ task[t].row.deadline <= clock'
  BY <1>1 DEF IInv, Held, GoodTask, Grow, Task, Row
<1>3. task[t].at \in Publishing \union {"withdraw", "save"} => rows'[task[t].r].state # "deleted"
  BY StillHeld
<1> QED
  BY <1>2, <1>3 DEF IInv, Held, GoodTask

\* A task goes on with the same response in hand.
LEMMA Relabelled ==
  ASSUME IInv, Grow, RowsMove, NEW t \in Tasks, task' \in [Tasks -> Task],
         \A u \in Tasks : u # t => task'[u] = task[u],
         task'[t].r = task[t].r, task'[t].row = task[t].row, task'[t].copy = task[t].copy,
         task'[t].at \in Busy => task[t].at \in Busy,
         task'[t].at \in {"withdraw", "save"} => t = "ingress",
         task'[t].at \in Publishing \union {"withdraw", "save"}
             => task[t].at \in Publishing \union {"withdraw", "save"}
  PROVE  Moves
<1>1. task[t] \in Task /\ task[t].row \in Row
  BY DEF IInv, Types, Task
<1>2. task[t].copy <= sent' /\ task[t].row.deadline <= clock'
  BY <1>1 DEF IInv, Held, GoodTask, Grow, Task, Row
<1>3. task[t].at \in Publishing \union {"withdraw", "save"} => rows'[task[t].r].state # "deleted"
  BY StillHeld
<1>4. GoodTask(t)'
  BY <1>2, <1>3 DEF IInv, Held, GoodTask
<1> QED
  BY <1>4 DEF Moves

\* A task with nothing in hand.
LEMMA Resting ==
  ASSUME Grow, NEW t \in Tasks, task' \in [Tasks -> Task],
         \A u \in Tasks : u # t => task'[u] = task[u],
         task'[t].at \in Alone, task'[t].copy = 0, task'[t].row = NoRow
  PROVE  Moves
<1>1. task'[t].at \notin Busy
  BY DEF Alone, Busy, Publishing, Erasing, Rejecting
<1>2. task'[t].at \notin Publishing \union {"withdraw", "save"}
  BY DEF Alone, Publishing
<1>3. 0 <= sent' /\ 0 <= clock'
  BY DEF Grow
<1>4. GoodTask(t)'
  BY <1>1, <1>2, <1>3 DEF GoodTask, NoRow
<1> QED
  BY <1>4 DEF Moves

LEMMA AfterRaise ==
  ASSUME IInv, Grow, NEW t \in Tasks, Raise(t)
  PROVE  Moves /\ (t = "refresh" => task'["ingress"] = task["ingress"])
<1>1. Moves
  <2>1. task'[t].at \in Alone
    BY Raised DEF IInv, Types, Alone
  <2> QED
    BY <2>1, Raised, Resting DEF IInv, Types
<1>2. t = "refresh" => task'["ingress"] = task["ingress"]
  BY Raised, TasksAre DEF IInv, Types
<1> QED
  BY <1>1, <1>2

-----------------------------------------------------------------------------
(* The rest of the state.                                                   *)

LEMMA CopiesInInbox ==
  ASSUME IInv
  PROVE  \A i \in 1..Len(inbox) : /\ inbox[i] \in Update
                                  /\ inbox[i].copy \in Nat /\ inbox[i].copy <= sent
<1>1. \A i \in 1..Len(inbox) : inbox[i] \in Update
  BY DEF IInv, Queue
<1>2. \A i \in 1..Len(inbox) : inbox[i].copy \in Nat
  BY <1>1 DEF Update
<1> QED
  BY <1>1, <1>2 DEF IInv, Queue

LEMMA QueueKept ==
  ASSUME IInv, Grow, UNCHANGED updates,
         task'["ingress"].at # "idle" => task["ingress"].at # "idle"
  PROVE  Queue'
  BY CopiesInInbox DEF IInv, Queue, updates, Grow

LEMMA QueueRaised ==
  ASSUME IInv, Grow, NEW t \in Tasks, Raise(t), t = "ingress" => task[t].at # "idle"
  PROVE  Queue'
<1>1. CASE t = "refresh"
  <2>1. UNCHANGED updates
    BY <1>1 DEF Raise
  <2> QED
    BY <1>1, <2>1, AfterRaise, QueueKept
<1>2. CASE t = "ingress"
  <2>1. task'["ingress"].at = "idle"
    BY <1>2 DEF Raise, Idle, IInv, Types
  <2>2. handled' \in {handled, handled + 1} /\ attempts' \in {0, attempts} /\ inbox' = inbox
    BY <1>2 DEF Raise
  <2>3. handled < Len(inbox) /\ handled \in Nat /\ Len(inbox) \in Nat
    BY <1>2 DEF IInv, Queue
  <2>4. \A i \in 1..Len(inbox) : inbox[i].copy \in Nat /\ inbox[i].copy <= sent
    BY CopiesInInbox
  <2> QED
    BY <2>1, <2>2, <2>3, <2>4 DEF IInv, Queue, Grow
<1> QED
  BY <1>1, <1>2 DEF Tasks

LEMMA MessagesKept ==
  ASSUME IInv, Grow, source' \in [Responses -> {"unsent", "there", "gone"}], copies' \subseteq copies
  PROVE  Messages'
  BY DEF IInv, Messages, Grow

LEMMA Removed ==
  ASSUME IInv, NEW r \in Responses, source' = [source EXCEPT ![r] = Gone(@)]
  PROVE  source' \in [Responses -> {"unsent", "there", "gone"}]
  BY DEF IInv, Messages, Gone

LEMMA CopyAdded ==
  ASSUME IInv, NEW r \in Responses, UNCHANGED source, sent' = sent + 1,
         copies' = copies \union {[id |-> sent + 1, r |-> r]}
  PROVE  Messages'
  BY DEF IInv, Types, Messages

LEMMA TopicsKept ==
  ASSUME IInv, UNCHANGED <<topic, instructed>>
  PROVE  Topics'
  BY DEF IInv, Topics

\* What a step leaves behind.
Good ==
    /\ Grow /\ RowsMove /\ Moves
    /\ Messages' /\ Topics' /\ Queue'
    /\ timer' \in [Responses -> Timer]
    /\ plan' = plan

LEMMA Preserved ==
  ASSUME IInv, Good
  PROVE  IInv'
<1>1. Types'
  BY DEF IInv, Types, Good, Grow, Moves, RowsMove
<1>2. GoodRows'
  BY DEF Good, RowsMove, RowMoves, GoodRows
<1>3. Held'
  BY TasksHeld DEF Good
<1> QED
  BY <1>1, <1>2, <1>3 DEF Good, IInv

LEMMA RowsAsTheyWere ==
  ASSUME IInv, UNCHANGED <<rows, sent, clock>>
  PROVE  Grow /\ RowsMove
<1>1. Grow
  BY DEF IInv, Types, Grow
<1> QED
  BY <1>1, RowsKept

LEMMA TasksAsTheyWere ==
  ASSUME IInv, UNCHANGED task
  PROVE  Moves
  BY DEF IInv, Types, Moves

-----------------------------------------------------------------------------
(* People and the process.                                                  *)

LEMMA ArriveGood ==
  ASSUME IInv, Arrive
  PROVE  Good
<1> USE DEF Arrive
<1>1. Grow /\ RowsMove /\ Moves /\ Topics' /\ plan' = plan /\ UNCHANGED <<timer, task, copies, sent>>
  BY RowsAsTheyWere, TasksAsTheyWere, TopicsKept
<1> DEFINE u == plan.updates[Len(inbox) + 1]
<1>2. u \in [r : Responses, kind : Kinds]
  <2> DEFINE S == [r : Responses, kind : Kinds]
             given == plan.updates
  <2>1. given \in Seq(S)
    BY ResponsesAssumption DEF IInv, Types
  <2>2. Len(inbox) \in Nat /\ Len(inbox) < Len(given)
    BY DEF IInv, Queue
  <2> HIDE DEF Arrive, S, given
  <2>3. given[Len(inbox) + 1] \in S
    BY <2>1, <2>2
  <2> QED
    BY <2>3 DEF S, given
<1>3. u.r \in Responses /\ u.kind \in Kinds
  BY <1>2
<1>4. PICK n \in 0..sent : inbox' = Append(inbox, [r |-> u.r, kind |-> u.kind, copy |-> n,
                                                    topic |-> topic])
  <2>1. CASE u.kind = "delete"
    <3>1. PICK c \in CopiesOf(u.r) : inbox' = Append(inbox, [r |-> u.r, kind |-> u.kind,
                                                           copy |-> c.id, topic |-> topic])
      BY <2>1
    <3>2. c.id \in 0..sent
      BY DEF CopiesOf, IInv, Types, Messages
    <3> QED
      BY <3>1, <3>2
  <2>2. CASE u.kind # "delete"
    BY <2>2 DEF IInv, Types
  <2> QED
    BY <2>1, <2>2
<1>5. source' \in [Responses -> {"unsent", "there", "gone"}]
  <2>1. source' = source \/ source' = [source EXCEPT ![u.r] = "there"]
    OBVIOUS
  <2> QED
    BY <1>3, <2>1 DEF IInv, Messages
<1>6. Messages'
  BY <1>1, <1>5, MessagesKept
<1>7. Queue'
  <2> DEFINE new == [r |-> u.r, kind |-> u.kind, copy |-> n, topic |-> topic]
  <2>1. new \in Update /\ new.copy <= sent
    BY <1>3 DEF Update, IInv, Types, Topics
  <2>2. inbox \in Seq(Update) /\ inbox' = Append(inbox, new)
    BY <1>4 DEF IInv, Queue
  <2>3. UNCHANGED <<attempts, handled, sent, task>>
    OBVIOUS
  <2> HIDE DEF new, Arrive
  <2>4. inbox' \in Seq(Update) /\ Len(inbox') = Len(inbox) + 1 /\ Len(inbox) \in Nat
    BY <2>1, <2>2
  <2>5. \A i \in 1..Len(inbox') : inbox'[i].copy <= sent
    BY <2>1, <2>2, <2>4 DEF IInv, Queue
  <2> QED
    BY <2>3, <2>4, <2>5 DEF IInv, Queue
<1> QED
  BY <1>1, <1>6, <1>7 DEF Good, IInv, Types

LEMMA RemoveByHandGood ==
  ASSUME IInv, RemoveByHand
  PROVE  Good
<1> USE DEF RemoveByHand
<1>1. Grow /\ RowsMove /\ Moves /\ Topics' /\ plan' = plan /\ UNCHANGED <<timer, task, updates>>
  BY RowsAsTheyWere, TasksAsTheyWere, TopicsKept
<1>2. Messages'
  <2>1. /\ copies' \subseteq copies
        /\ source' = source \/ \E r \in Responses : source' = [source EXCEPT ![r] = "gone"]
    OBVIOUS
  <2>2. source' \in [Responses -> {"unsent", "there", "gone"}]
    BY <2>1 DEF IInv, Messages
  <2> QED
    BY <1>1, <2>1, <2>2, MessagesKept
<1>3. Queue'
  BY <1>1, QueueKept
<1> QED
  BY <1>1, <1>2, <1>3 DEF Good, IInv, Types

LEMMA DeleteTopicGood ==
  ASSUME IInv, DeleteTopic
  PROVE  Good
<1> USE DEF DeleteTopic
<1>1. Grow /\ RowsMove /\ Moves /\ Topics' /\ plan' = plan /\ UNCHANGED <<timer, task, updates>>
  BY RowsAsTheyWere, TasksAsTheyWere, TopicsKept
<1>2. Messages'
  <2>1. source' \in [Responses -> {"unsent", "there", "gone"}]
    BY DEF IInv, Messages, Gone
  <2> QED
    BY <1>1, <2>1, MessagesKept
<1>3. Queue'
  BY <1>1, QueueKept
<1> QED
  BY <1>1, <1>2, <1>3 DEF Good, IInv, Types

LEMMA CrashGood ==
  ASSUME IInv, Crash
  PROVE  Good
<1> USE DEF Crash
<1>1. Grow /\ RowsMove /\ Topics' /\ Messages' /\ plan' = plan /\ UNCHANGED updates
  BY RowsAsTheyWere, TopicsKept, MessagesKept DEF telegram, IInv, Messages
<1>2. Idle \in Task /\ [Idle EXCEPT !.at = "start"] \in Task
  BY IdleType DEF Task, Alone, Idle
<1>3. /\ task' \in [Tasks -> Task]
      /\ task'["ingress"] = Idle /\ task'["refresh"] = [Idle EXCEPT !.at = "start"]
  BY <1>2 DEF Tasks
<1>4. ASSUME NEW t \in Tasks
      PROVE  GoodTask(t)'
  <2>1. task'[t].at \in {"idle", "start"} /\ task'[t].copy = 0 /\ task'[t].row = NoRow
    BY <1>3 DEF Tasks, Idle
  <2>2. task'[t].at \notin Busy \union Publishing \union {"withdraw", "save"}
    BY <2>1 DEF Busy, Publishing, Erasing, Rejecting
  <2>3. 0 <= sent' /\ 0 <= clock'
    BY <1>1 DEF Grow
  <2> QED
    BY <2>1, <2>2, <2>3 DEF GoodTask, NoRow
<1>5. Queue'
  BY <1>1, <1>3, QueueKept DEF Idle
<1>6. timer' \in [Responses -> Timer]
  BY IdleType
<1> QED
  BY <1>1, <1>3, <1>4, <1>5, <1>6 DEF Good, Moves

-----------------------------------------------------------------------------
(* Expiration tasks.                                                        *)

LEMMA TimerSet ==
  ASSUME IInv, NEW r \in Responses, NEW label \in {"none", "wait", "remove", "drop"},
         NEW deadline \in Nat, NEW new, timer' = [timer EXCEPT ![r] = new],
         \/ new = [timer[r] EXCEPT !.at = label]
         \/ new = NoTimer
         \/ new = [at |-> label, deadline |-> deadline]
  PROVE  timer' \in [Responses -> Timer]
<1>1. new \in Timer
  BY IdleType DEF IInv, Types, Timer
<1> QED
  BY <1>1 DEF IInv, Types

LEMMA WakeGood ==
  ASSUME IInv, NEW r \in Responses, Wake(r) \/ RemoveFails(r)
  PROVE  Good
<1> USE DEF Wake, RemoveFails
<1>1. /\ Grow /\ RowsMove /\ Moves /\ Topics' /\ Messages' /\ plan' = plan
      /\ UNCHANGED <<task, updates>>
  BY RowsAsTheyWere, TasksAsTheyWere, TopicsKept, MessagesKept DEF telegram, IInv, Messages
<1>2. timer' \in [Responses -> Timer]
  <2>1. \/ timer' = [timer EXCEPT ![r] = [timer[r] EXCEPT !.at = "remove"]]
        \/ timer' = [timer EXCEPT ![r] = [timer[r] EXCEPT !.at = "wait"]]
        \/ timer' = [timer EXCEPT ![r] = NoTimer]
    OBVIOUS
  <2> QED
    BY <2>1, TimerSet
<1>3. Queue'
  BY <1>1, QueueKept
<1> QED
  BY <1>1, <1>2, <1>3 DEF Good

LEMMA RemoveSourceGood ==
  ASSUME IInv, NEW r \in Responses, RemoveSource(r)
  PROVE  Good
<1> USE DEF RemoveSource
<1>1. /\ Grow /\ RowsMove /\ Moves /\ Topics' /\ plan' = plan /\ UNCHANGED <<task, updates, copies>>
  BY RowsAsTheyWere, TasksAsTheyWere, TopicsKept
<1>2. timer' \in [Responses -> Timer]
  BY TimerSet
<1>3. Queue'
  BY <1>1, QueueKept
<1>4. Messages'
  BY <1>1, Removed, MessagesKept
<1> QED
  BY <1>1, <1>2, <1>3, <1>4 DEF Good

\* The deadline of a tombstone is nobody's: it expires for none.
LEMMA DropRowGood ==
  ASSUME IInv, NEW r \in Responses, DropRow(r)
  PROVE  Good
<1> USE DEF DropRow
<1>1. Grow /\ Moves /\ Topics' /\ Messages' /\ plan' = plan /\ UNCHANGED <<task, updates, sent, clock>>
  BY TasksAsTheyWere, TopicsKept, MessagesKept DEF telegram, IInv, Types, Messages, Grow
<1>2. RowsMove
  <2>1. CASE ~ Expires(r)
    <3>1. rows' = rows
      BY <2>1 DEF IInv, Types
    <3> QED
      BY <1>1, <3>1, RowsKept
  <2>2. CASE Expires(r)
    <3>1. Same(r) /\ rows'[r] = NoRow /\ rows[r].state = "pending"
      BY <2>2, IdleType DEF IInv, Types, Same, Expires
    <3>2. RowMoves(r)
      BY <1>1, <3>1 DEF RowMoves, GoodRow, NoRow, Grow
    <3> QED
      BY <1>1, <3>1, <3>2, OneRowMoves
  <2> QED
    BY <2>1, <2>2
<1>3. timer' \in [Responses -> Timer]
  BY TimerSet
<1>4. Queue'
  BY <1>1, QueueKept
<1> QED
  BY <1>1, <1>2, <1>3, <1>4 DEF Good

-----------------------------------------------------------------------------
(* A task goes from one call to the next.                                   *)

LEMMA Labels ==
  /\ Publishing \subseteq Busy /\ Erasing \subseteq Busy /\ Rejecting \subseteq Busy
  /\ {"withdraw", "save"} \subseteq Busy
  /\ \A label \in Alone : label \notin Busy \union Publishing \union {"withdraw", "save"}
  /\ "idle" \in Alone /\ "finish" \in Alone /\ "restore" \in Alone
  BY DEF Alone, Busy, Publishing, Erasing, Rejecting

LEMMA GoesOn ==
  ASSUME IInv, Grow, RowsMove, NEW t \in Tasks, NEW label \in Alone \union Busy, Goto(t, label),
         label \in Busy => task[t].at \in Busy,
         label \in {"withdraw", "save"} => t = "ingress",
         label \in Publishing \union {"withdraw", "save"}
             => task[t].at \in Publishing \union {"withdraw", "save"}
  PROVE  /\ Moves
         /\ \A u \in Tasks : u # t => task'[u] = task[u]
         /\ task'[t].at = label
<1>1. /\ task' \in [Tasks -> Task]
      /\ \A u \in Tasks : u # t => task'[u] = task[u]
      /\ task'[t].at = label /\ task'[t].r = task[t].r /\ task'[t].row = task[t].row
      /\ task'[t].copy = task[t].copy
  BY Goes DEF Goto, IInv, Types
<1> HIDE DEF Goto
<1>2. Moves
  BY <1>1, Relabelled
<1> QED
  BY <1>1, <1>2

LEMMA EraseFailsGood ==
  ASSUME IInv, EraseFails
  PROVE  Good
<1> USE DEF EraseFails
<1>1. /\ Grow /\ RowsMove /\ Topics' /\ Messages' /\ plan' = plan /\ UNCHANGED <<timer, updates>>
  BY RowsAsTheyWere, TopicsKept, MessagesKept DEF telegram, IInv, Messages
<1>2. Moves
  BY <1>1, GoesOn, Labels, TasksAre
<1>3. Queue'
  BY <1>1, QueueKept DEF At
<1> QED
  BY <1>1, <1>2, <1>3 DEF Good, IInv, Types

LEMMA CallFailsGood ==
  ASSUME IInv, NEW t \in Tasks, CallFails(t)
  PROVE  Good
<1> USE DEF CallFails
<1>1. Grow /\ RowsMove /\ Topics' /\ Messages' /\ plan' = plan /\ UNCHANGED timer
  BY RowsAsTheyWere, TopicsKept, MessagesKept DEF telegram, IInv, Messages
<1>2. Moves /\ Queue'
  BY <1>1, AfterRaise, QueueRaised
<1> QED
  BY <1>1, <1>2 DEF Good, IInv, Types

LEMMA AnswerLostGood ==
  ASSUME IInv, NEW t \in Tasks, AnswerLost(t)
  PROVE  Good
<1> USE DEF AnswerLost
<1>1. Grow /\ RowsMove /\ Topics' /\ plan' = plan /\ UNCHANGED timer
  BY RowsKept, TopicsKept DEF IInv, Types, Grow
<1>2. Moves /\ Queue'
  BY <1>1, AfterRaise, QueueRaised DEF At
<1>3. task[t].r \in Responses
  BY Labels DEF IInv, Held, GoodTask, At, Publishing
<1>4. Messages'
  BY <1>3, CopyAdded
<1> QED
  BY <1>1, <1>2, <1>4 DEF Good, IInv, Types

LEMMA CleanFailsGood ==
  ASSUME IInv, NEW t \in Tasks, CleanFails(t)
  PROVE  Good
<1> USE DEF CleanFails
<1>1. Grow /\ RowsMove /\ Topics' /\ plan' = plan /\ UNCHANGED timer
  BY RowsAsTheyWere, TopicsKept
<1>2. Moves /\ Queue'
  BY <1>1, AfterRaise, QueueRaised DEF At
<1>3. task[t].r \in Responses
  BY Labels DEF IInv, Held, GoodTask, At, Publishing
<1>4. Messages'
  BY <1>1, <1>3, Removed, MessagesKept DEF IInv, Messages
<1> QED
  BY <1>1, <1>2, <1>4 DEF Good, IInv, Types

-----------------------------------------------------------------------------
(* Publishing.                                                              *)

\* The queue is left alone by a task that goes on.
LEMMA QueueGoesOn ==
  ASSUME IInv, Grow, UNCHANGED updates, NEW t \in Tasks, task[t].at # "idle",
         \A u \in Tasks : u # t => task'[u] = task[u]
  PROVE  Queue'
  BY QueueKept, TasksAre

LEMMA EditGood ==
  ASSUME IInv, NEW t \in Tasks, Edit(t)
  PROVE  Good
<1> USE DEF Edit
<1>1. /\ Grow /\ RowsMove /\ Topics' /\ Messages' /\ plan' = plan /\ UNCHANGED <<timer, updates>>
  BY RowsAsTheyWere, TopicsKept, MessagesKept DEF telegram, IInv, Messages
<1>2. PICK label \in {"clean", "send"} : Goto(t, label)
  BY DEF AfterEdit
<1>3. label \in Publishing /\ label \notin {"withdraw", "save"} /\ task[t].at \in Publishing
  BY DEF Publishing, At
<1> HIDE DEF Edit
<1>4. Moves /\ \A u \in Tasks : u # t => task'[u] = task[u]
  BY <1>1, <1>2, <1>3, GoesOn, Labels
<1>5. Queue'
  BY <1>1, <1>3, <1>4, QueueGoesOn DEF Publishing
<1> QED
  BY <1>1, <1>4, <1>5 DEF Good, IInv, Types

LEMMA SendCopyGood ==
  ASSUME IInv, NEW t \in Tasks, SendCopy(t)
  PROVE  Good
<1> USE DEF SendCopy
<1>1. task[t].at = "send" /\ task[t].r \in Responses /\ task[t].at \in Publishing
  BY Labels DEF IInv, Held, GoodTask, At, Publishing
<1>2. Topics' /\ plan' = plan /\ UNCHANGED timer
  BY TopicsKept
<1>3. Grow /\ RowsMove
  BY RowsKept DEF IInv, Types, Grow
<1>4. CASE ~ alive
  <2>1. Raise(t) /\ Messages'
    BY <1>3, <1>4, MessagesKept DEF IInv, Messages
  <2> QED
    BY <1>1, <1>2, <1>3, <2>1, AfterRaise, QueueRaised DEF Good, IInv, Types
<1>5. CASE alive
  <2>1. task' = [task EXCEPT ![t].at = "record", ![t].copy = sent + 1]
    BY <1>5
  <2>2. Messages' /\ UNCHANGED <<updates, clock, rows>> /\ sent' = sent + 1
    BY <1>1, <1>5, CopyAdded
  <2>3. /\ task' \in [Tasks -> Task]
        /\ \A u \in Tasks : u # t => task'[u] = task[u]
        /\ task'[t].at = "record" /\ task'[t].r = task[t].r /\ task'[t].row = task[t].row
        /\ task'[t].copy = sent + 1
    BY <2>1, Sent DEF IInv
  <2> HIDE DEF SendCopy
  <2>4. GoodTask(t)'
    <3>1. /\ task'[t].copy <= sent' /\ task'[t].row.deadline <= clock'
          /\ task'[t].row.state = "pending" => task'[t].row.deadline # 0
      BY <1>3, <2>2, <2>3 DEF IInv, Held, GoodTask, Grow
    <3>2. rows'[task[t].r].state # "deleted"
      BY <1>1, <1>3, StillHeld
    <3>3. "record" \notin {"withdraw", "save"}
      OBVIOUS
    <3> QED
      BY <1>1, <2>3, <3>1, <3>2, <3>3 DEF GoodTask
  <2>5. Moves
    BY <2>3, <2>4 DEF Moves
  <2>6. Queue'
    BY <1>1, <1>3, <2>2, <2>3, QueueGoesOn
  <2> QED
    BY <1>2, <1>3, <2>2, <2>5, <2>6 DEF Good, IInv, Types
<1> QED
  BY <1>4, <1>5

LEMMA RecordGood ==
  ASSUME IInv, NEW t \in Tasks, Record(t)
  PROVE  Good
<1> USE DEF Record
<1>1. task[t].at = "record" /\ task[t].r \in Responses /\ task[t].at \in Publishing
  BY Labels DEF IInv, Held, GoodTask, At, Publishing
<1>2. /\ Grow /\ Topics' /\ Messages' /\ plan' = plan
      /\ UNCHANGED <<timer, updates, sent, clock>>
  BY TopicsKept, MessagesKept DEF telegram, IInv, Types, Messages, Grow
<1>3. RowsMove
  <2> DEFINE q == task[t].r
             n == IF rows[q].state = "valid" THEN task[t].copy ELSE rows[q].published
  <2>1. rows' = [rows EXCEPT ![q].published = n]
    OBVIOUS
  <2>2. n \in Nat /\ n <= sent
    <3>1. task[t].copy \in Nat /\ rows[q].published \in Nat
      BY <1>1 DEF IInv, Types, Task, Row
    <3> QED
      BY <1>1, <3>1 DEF IInv, GoodRows, GoodRow, Held, GoodTask
  <2> HIDE DEF n, Record
  <2>3. /\ Same(q) /\ rows'[q].published = n /\ rows'[q].state = rows[q].state
        /\ rows'[q].deadline = rows[q].deadline
    BY <1>1, <2>1, <2>2, PublishedSet DEF IInv, Types
  <2> QED
    BY <1>1, <1>2, <2>2, <2>3, StateKept
<1>4. "clean" \in Publishing /\ "clean" \notin {"withdraw", "save"} /\ Goto(t, "clean")
  BY DEF Publishing
<1> HIDE DEF Record
<1>5. Moves /\ \A u \in Tasks : u # t => task'[u] = task[u]
  BY <1>1, <1>2, <1>3, <1>4, GoesOn, Labels
<1>6. Queue'
  BY <1>1, <1>2, <1>5, QueueGoesOn
<1> QED
  BY <1>2, <1>3, <1>5, <1>6 DEF Good, IInv, Types

LEMMA CleanGood ==
  ASSUME IInv, NEW t \in Tasks, Clean(t)
  PROVE  Good
<1> USE DEF Clean
<1>1. task[t].at = "clean" /\ task[t].r \in Responses /\ task[t].at \in Publishing
  BY Labels DEF IInv, Held, GoodTask, At, Publishing
<1>2. /\ Grow /\ Topics' /\ plan' = plan /\ UNCHANGED <<timer, updates, sent, clock>>
  BY TopicsKept DEF IInv, Types, Grow
<1>3. Messages'
  BY <1>1, <1>2, Removed, MessagesKept
<1>4. RowsMove
  <2> DEFINE q == task[t].r
             b == rows[q].warning /\ ~ task[t].row.warning
  <2>1. rows' = [rows EXCEPT ![q].warning = b]
    OBVIOUS
  <2>2. b \in BOOLEAN
    OBVIOUS
  <2>3. rows[q].published <= sent
    BY <1>1 DEF IInv, GoodRows, GoodRow
  <2> HIDE DEF b, Clean
  <2>4. /\ Same(q) /\ rows'[q].published = rows[q].published /\ rows'[q].state = rows[q].state
        /\ rows'[q].deadline = rows[q].deadline
    BY <1>1, <2>1, <2>2, FlagSet DEF IInv, Types
  <2> QED
    BY <1>1, <1>2, <2>3, <2>4, StateKept
<1>5. "complete" \in Publishing /\ "complete" \notin {"withdraw", "save"} /\ Goto(t, "complete")
  BY DEF Publishing
<1> HIDE DEF Clean
<1>6. Moves /\ \A u \in Tasks : u # t => task'[u] = task[u]
  BY <1>1, <1>2, <1>4, <1>5, GoesOn, Labels
<1>7. Queue'
  BY <1>1, <1>2, <1>6, QueueGoesOn
<1> QED
  BY <1>2, <1>3, <1>4, <1>6, <1>7 DEF Good, IInv, Types

LEMMA CompleteGood ==
  ASSUME IInv, NEW t \in Tasks, Complete(t)
  PROVE  Good
<1> USE DEF Complete
<1>1. task[t].at = "complete" /\ task[t].r \in Responses
  BY Labels DEF IInv, Held, GoodTask, At, Publishing
<1>2. /\ Grow /\ Topics' /\ Messages' /\ plan' = plan /\ UNCHANGED <<timer, sent, clock>>
  BY TopicsKept, MessagesKept DEF telegram, IInv, Types, Messages, Grow
<1> DEFINE q == task[t].r
<1>3. CASE rows[q].state = "valid" /\ rows[q].published = task[t].copy
  <2>1. /\ rows' = [rows EXCEPT ![q].current = TRUE] /\ Goto(t, Finished(t)) /\ UNCHANGED updates
        /\ rows[q].published <= sent
    BY <1>1, <1>3 DEF IInv, GoodRows, GoodRow
  <2> HIDE DEF Complete
  <2>2. /\ Same(q) /\ rows'[q].published = rows[q].published /\ rows'[q].state = rows[q].state
        /\ rows'[q].deadline = rows[q].deadline
    BY <1>1, <2>1, FlagSet DEF IInv, Types
  <2>3. RowsMove
    BY <1>1, <1>2, <2>1, <2>2, StateKept
  <2>4. Finished(t) \in Alone /\ Finished(t) \notin Busy \union Publishing \union {"withdraw", "save"}
    BY Labels DEF Finished
  <2>5. Moves /\ \A u \in Tasks : u # t => task'[u] = task[u]
    BY <1>2, <2>1, <2>3, <2>4, GoesOn
  <2>6. Queue'
    BY <1>1, <1>2, <2>1, <2>5, QueueGoesOn
  <2> QED
    BY <1>2, <2>3, <2>5, <2>6 DEF Good, IInv, Types
<1>4. CASE ~ (rows[q].state = "valid" /\ rows[q].published = task[t].copy)
  <2>1. Raise(t) /\ UNCHANGED rows
    BY <1>4
  <2>2. RowsMove
    BY <1>2, <2>1, RowsKept
  <2>3. Moves /\ Queue'
    BY <1>1, <1>2, <2>1, AfterRaise, QueueRaised
  <2> QED
    BY <1>2, <2>2, <2>3 DEF Good, IInv, Types
<1> QED
  BY <1>3, <1>4

-----------------------------------------------------------------------------
(* The ingress worker.                                                      *)

\* An update is taken up.
LEMMA Taken ==
  ASSUME IInv, NEW label \in Alone \union Busy, NEW r \in Responses, NEW n \in Nat,
         task' = [task EXCEPT !["ingress"] = [Idle EXCEPT !.at = label, !.r = r, !.row = rows[r],
                                                          !.copy = n]]
  PROVE  /\ task' \in [Tasks -> Task]
         /\ \A u \in Tasks : u # "ingress" => task'[u] = task[u]
         /\ task'["ingress"].at = label /\ task'["ingress"].r = r
         /\ task'["ingress"].row = rows[r] /\ task'["ingress"].copy = n
<1> DEFINE f1 == [Idle EXCEPT !.at = label]
           f2 == [f1 EXCEPT !.r = r]
           f3 == [f2 EXCEPT !.row = rows[r]]
           f4 == [f3 EXCEPT !.copy = n]
<1>1. f1 \in Task /\ f1.at = label
  BY IdleType DEF Idle, Task
<1>2. task' = [task EXCEPT !["ingress"] = f4]
  OBVIOUS
<1> HIDE DEF f1
<1>3. f2 \in Task /\ f2.at = label /\ f2.r = r
  BY <1>1 DEF Task
<1> HIDE DEF f2
<1>4. rows[r] \in Row
  BY DEF IInv, Types
<1>5. f3 \in Task /\ f3.at = label /\ f3.r = r /\ f3.row = rows[r]
  BY <1>3, <1>4 DEF Task
<1> HIDE DEF f3
<1>6. f4 \in Task /\ f4.at = label /\ f4.r = r /\ f4.row = rows[r] /\ f4.copy = n
  BY <1>5 DEF Task
<1> HIDE DEF f4
<1> QED
  BY <1>2, <1>6, Becomes, TasksAre DEF IInv, Types

LEMMA Begun ==
  ASSUME IInv, Grow, RowsMove, NEW label \in Alone \union Busy, NEW r \in Responses, NEW n \in Nat,
         n <= sent, label # "save",
         label \in Publishing \union {"withdraw"} => rows'[r].state # "deleted",
         task' = [task EXCEPT !["ingress"] = [Idle EXCEPT !.at = label, !.r = r, !.row = rows[r],
                                                          !.copy = n]]
  PROVE  Moves /\ task'["ingress"].at = label
<1>1. /\ task' \in [Tasks -> Task]
      /\ \A u \in Tasks : u # "ingress" => task'[u] = task[u]
      /\ task'["ingress"].at = label /\ task'["ingress"].r = r
      /\ task'["ingress"].row = rows[r] /\ task'["ingress"].copy = n
  BY Taken
<1>2. /\ n <= sent' /\ rows[r].deadline <= clock'
      /\ rows[r].state = "pending" => rows[r].deadline # 0
  <2>1. rows[r] \in Row
    BY DEF IInv, Types
  <2> QED
    BY <2>1 DEF IInv, GoodRows, GoodRow, Grow, Row
<1>3. GoodTask("ingress")'
  BY <1>1, <1>2 DEF GoodTask
<1> QED
  BY <1>1, <1>3 DEF Moves

LEMMA BeginGood ==
  ASSUME IInv, Begin
  PROVE  Good
<1> DEFINE u == inbox[handled + 1]
<1>1. /\ task["ingress"].at = "idle" /\ handled < Len(inbox) /\ attempts' = attempts + 1
      /\ UNCHANGED <<plan, sent, clock, inbox, handled, source, copies, topic, instructed>>
  BY DEF Begin, At, telegram
<1>2. u \in Update /\ u.copy \in Nat /\ u.copy <= sent
  BY <1>1, CopiesInInbox DEF IInv, Queue
<1>3. PICK r \in Responses, n \in Nat : r = u.r /\ n = u.copy /\ n <= sent
  BY <1>2 DEF Update
<1> DEFINE goes(label) == task' = [task EXCEPT !["ingress"] =
                              [Idle EXCEPT !.at = label, !.r = r, !.row = rows[r], !.copy = n]]
<1>4. \/ goes("finish") /\ UNCHANGED <<rows, timer>>
      \/ /\ ~ Refuses(r)
         /\ rows' = [rows EXCEPT ![r] = Accepted(@)]
         /\ timer' = [timer EXCEPT ![r] = NoTimer]
         /\ goes("lock")
      \/ ~ Refuses(r) /\ goes("withdraw") /\ UNCHANGED <<rows, timer>>
      \/ /\ RecordFree(r)
         /\ rows[r].state \in {"valid", "deleted"}
         /\ rows' = [rows EXCEPT ![r].state = "deleted"]
         /\ goes("erase")
         /\ UNCHANGED timer
  BY <1>3 DEF Begin
<1>5. Grow /\ Topics' /\ Messages'
  BY <1>1, TopicsKept, MessagesKept DEF IInv, Types, Messages, Grow
<1>6. Queue'
  BY <1>1, CopiesInInbox DEF IInv, Queue
<1>7. {"finish", "lock", "withdraw", "erase"} \subseteq Alone \union Busy
  BY DEF Alone, Busy, Erasing, Rejecting
<1>8. {"finish", "lock", "erase"} \cap (Publishing \union {"withdraw", "save"}) = {}
  BY DEF Publishing
<1>9. rows[r] \in Row /\ GoodRow(rows[r])
  BY DEF IInv, Types, GoodRows
<1> HIDE DEF u
<1>10. CASE goes("finish") /\ UNCHANGED <<rows, timer>>
  <2>1. RowsMove
    BY <1>5, <1>10, RowsKept
  <2>2. Moves
    BY <1>5, <1>3, <1>7, <1>8, <1>10, <2>1, Begun
  <2> QED
    BY <1>1, <1>5, <1>6, <1>10, <2>1, <2>2 DEF Good, IInv, Types
<1>11. CASE /\ ~ Refuses(r)
            /\ rows' = [rows EXCEPT ![r] = Accepted(@)]
            /\ timer' = [timer EXCEPT ![r] = NoTimer]
            /\ goes("lock")
  <2>1. /\ Same(r)
        /\ rows'[r].published = rows[r].published /\ rows'[r].state = "valid"
        /\ rows'[r].deadline = 0
    BY <1>11, Valid DEF IInv, Types
  <2>2. RowMoves(r)
    <3>1. rows'[r].published <= sent' /\ 0 <= clock'
      BY <1>5, <1>9, <2>1 DEF GoodRow, Grow, Row
    <3> QED
      BY <1>11, <2>1, <3>1 DEF RowMoves, GoodRow, Refuses
  <2>3. RowsMove
    BY <1>5, <2>1, <2>2, OneRowMoves
  <2>4. Moves
    BY <1>5, <1>3, <1>7, <1>8, <1>11, <2>3, Begun
  <2>5. timer' \in [Responses -> Timer]
    BY <1>11, IdleType DEF IInv, Types
  <2> QED
    BY <1>1, <1>5, <1>6, <2>3, <2>4, <2>5 DEF Good
<1>12. CASE ~ Refuses(r) /\ goes("withdraw") /\ UNCHANGED <<rows, timer>>
  <2>1. RowsMove
    BY <1>5, <1>12, RowsKept
  <2>2. Moves
    BY <1>5, <1>3, <1>7, <1>12, <2>1, Begun DEF Refuses
  <2> QED
    BY <1>1, <1>5, <1>6, <1>12, <2>1, <2>2 DEF Good, IInv, Types
<1>13. CASE /\ RecordFree(r)
            /\ rows[r].state \in {"valid", "deleted"}
            /\ rows' = [rows EXCEPT ![r].state = "deleted"]
            /\ goes("erase")
            /\ UNCHANGED timer
  <2>1. /\ Same(r)
        /\ rows'[r].published = rows[r].published /\ rows'[r].state = "deleted"
        /\ rows'[r].deadline = rows[r].deadline
    BY <1>13, Deleted DEF IInv, Types
  <2>2. task'["ingress"].at = "erase"
    BY <1>3, <1>7, <1>13, Taken
  <2>3. RowMoves(r)
    <3>1. rows'[r].published <= sent' /\ rows'[r].deadline <= clock' /\ rows'[r].deadline = 0
      BY <1>1, <1>9, <1>13, <2>1 DEF GoodRow
    <3> QED
      BY <1>1, <1>13, <2>1, <2>2, <3>1 DEF RowMoves, GoodRow, Deletes, At
  <2>4. RowsMove
    BY <1>5, <2>1, <2>3, OneRowMoves
  <2>5. Moves
    BY <1>5, <1>3, <1>7, <1>8, <1>13, <2>4, Begun
  <2> QED
    BY <1>1, <1>5, <1>6, <1>13, <2>4, <2>5 DEF Good, IInv, Types
<1> QED
  BY <1>4, <1>10, <1>11, <1>12, <1>13

LEMMA FinishGood ==
  ASSUME IInv, Finish
  PROVE  Good
<1> USE DEF Finish
<1>1. /\ Grow /\ RowsMove /\ Topics' /\ Messages' /\ plan' = plan /\ UNCHANGED <<timer, inbox, sent>>
  BY RowsAsTheyWere, TopicsKept, MessagesKept DEF telegram, IInv, Messages
<1>2. /\ task' \in [Tasks -> Task] /\ task'["ingress"] = Idle
      /\ \A u \in Tasks : u # "ingress" => task'[u] = task[u]
  BY Becomes, IdleType, TasksAre DEF IInv, Types
<1>3. Moves
  BY <1>1, <1>2, Resting, Labels, TasksAre DEF Idle
<1>4. Queue'
  <2>1. handled < Len(inbox) /\ handled \in Nat /\ Len(inbox) \in Nat
    BY DEF At, IInv, Queue
  <2>2. handled' = handled + 1 /\ attempts' = 0 /\ task'["ingress"].at = "idle"
    BY <1>2 DEF Idle
  <2> QED
    BY <1>1, <2>1, <2>2 DEF IInv, Queue
<1> QED
  BY <1>1, <1>3, <1>4 DEF Good, IInv, Types

LEMMA WithdrawGood ==
  ASSUME IInv, Withdraw
  PROVE  Good
<1> USE DEF Withdraw
<1>1. /\ Grow /\ RowsMove /\ Topics' /\ plan' = plan /\ UNCHANGED <<timer, updates>>
  BY RowsAsTheyWere, TopicsKept
<1>2. Messages'
  BY <1>1, MessagesKept DEF Without, IInv, Messages
<1>3. "save" \in Busy /\ "withdraw" \in Busy /\ task["ingress"].at = "withdraw" /\ Goto("ingress", "save")
  BY Labels DEF At
<1> HIDE DEF Withdraw
<1>4. Moves /\ \A u \in Tasks : u # "ingress" => task'[u] = task[u]
  BY <1>1, <1>3, GoesOn, TasksAre
<1>5. Queue'
  BY <1>1, <1>3, <1>4, QueueGoesOn, TasksAre
<1> QED
  BY <1>1, <1>2, <1>4, <1>5 DEF Good, IInv, Types

LEMMA EraseGood ==
  ASSUME IInv, Erase
  PROVE  Good
<1> USE DEF Erase
<1>1. /\ Grow /\ RowsMove /\ Topics' /\ plan' = plan /\ UNCHANGED <<timer, updates>>
  BY RowsAsTheyWere, TopicsKept
<1>2. Messages'
  BY <1>1, MessagesKept DEF Without, IInv, Messages
<1>3. /\ "clear" \in Busy /\ "erase" \in Busy /\ "clear" \notin Publishing \union {"withdraw", "save"}
      /\ task["ingress"].at = "erase" /\ Goto("ingress", "clear")
  BY DEF At, Busy, Erasing, Publishing
<1> HIDE DEF Erase
<1>4. Moves /\ \A u \in Tasks : u # "ingress" => task'[u] = task[u]
  BY <1>1, <1>3, GoesOn, TasksAre
<1>5. Queue'
  BY <1>1, <1>3, <1>4, QueueGoesOn, TasksAre
<1> QED
  BY <1>1, <1>2, <1>4, <1>5 DEF Good, IInv, Types

LEMMA ClearPublicationGood ==
  ASSUME IInv, ClearPublication
  PROVE  Good
<1> USE DEF ClearPublication
<1>1. /\ task["ingress"].at = "clear" /\ task["ingress"].r \in Responses
      /\ Goto("ingress", "finish")
  BY Labels, TasksAre DEF IInv, Held, GoodTask, At, Erasing
<1>2. /\ Grow /\ Topics' /\ Messages' /\ plan' = plan
      /\ UNCHANGED <<timer, updates, sent, clock>>
  BY TopicsKept, MessagesKept DEF telegram, IInv, Types, Messages, Grow
<1>3. RowsMove
  <2> DEFINE q == task["ingress"].r
             n == IF rows[q].state = "deleted" /\ rows[q].published = task["ingress"].copy
                  THEN 0 ELSE rows[q].published
  <2>1. rows' = [rows EXCEPT ![q].published = n]
    OBVIOUS
  <2>2. n \in Nat /\ n <= sent
    <3>1. rows[q].published \in Nat
      BY <1>1 DEF IInv, Types, Row
    <3> QED
      BY <1>1, <3>1 DEF IInv, GoodRows, GoodRow, Types
  <2> HIDE DEF n, ClearPublication
  <2>3. /\ Same(q) /\ rows'[q].published = n /\ rows'[q].state = rows[q].state
        /\ rows'[q].deadline = rows[q].deadline
    BY <1>1, <2>1, <2>2, PublishedSet DEF IInv, Types
  <2> QED
    BY <1>1, <1>2, <2>2, <2>3, StateKept
<1> HIDE DEF ClearPublication
<1>4. Moves /\ \A u \in Tasks : u # "ingress" => task'[u] = task[u]
  BY <1>1, <1>2, <1>3, GoesOn, Labels, TasksAre
<1>5. Queue'
  BY <1>1, <1>2, <1>4, QueueGoesOn, TasksAre
<1> QED
  BY <1>2, <1>3, <1>4, <1>5 DEF Good, IInv, Types

LEMMA StartedGood ==
  ASSUME IInv, UNCHANGED <<rows, sent, clock>>, NEW t \in Tasks, NEW r \in Responses, NEW force,
         NEW refresh, StartPublish(t, r, force, refresh), rows[r].state = "valid"
  PROVE  Grow /\ RowsMove /\ Moves /\ \A u \in Tasks : u # t => task'[u] = task[u]
<1>1. Grow /\ RowsMove
  BY RowsAsTheyWere
<1>2. /\ task' \in [Tasks -> Task]
      /\ \A u \in Tasks : u # t => task'[u] = task[u]
      /\ task'[t].at \in {"edit", "send", "clean"} /\ task'[t].r = r
      /\ task'[t].row = rows[r] /\ task'[t].copy \in {0, rows[r].published}
  BY Started DEF IInv
<1>3. rows[r] \in Row /\ GoodRow(rows[r])
  BY DEF IInv, Types, GoodRows
<1>4. task'[t].copy <= sent' /\ task'[t].row.deadline <= clock'
  BY <1>1, <1>2, <1>3 DEF GoodRow, Grow
<1>5. GoodTask(t)'
  BY <1>2, <1>3, <1>4 DEF GoodTask, GoodRow
<1> QED
  BY <1>1, <1>2, <1>5 DEF Moves

LEMMA LockRecordGood ==
  ASSUME IInv, LockRecord
  PROVE  Good
<1> USE DEF LockRecord
<1>1. task["ingress"].at = "lock" /\ "lock" \in Busy
  BY DEF At, Busy
<1>2. PICK r \in Responses : r = task["ingress"].r
  BY <1>1, TasksAre DEF IInv, Held, GoodTask
<1>3. /\ Grow /\ RowsMove /\ Topics' /\ Messages' /\ plan' = plan
      /\ UNCHANGED <<timer, updates, rows, sent, clock>>
  BY RowsAsTheyWere, TopicsKept, MessagesKept DEF telegram, IInv, Messages
<1>4. \/ rows[r].state = "valid" /\ StartPublish("ingress", r, FALSE, TRUE)
      \/ Goto("ingress", "finish")
  BY <1>2
<1> HIDE DEF LockRecord
<1>5. Moves /\ \A u \in Tasks : u # "ingress" => task'[u] = task[u]
  <2>1. CASE rows[r].state = "valid" /\ StartPublish("ingress", r, FALSE, TRUE)
    BY <1>3, <2>1, StartedGood, TasksAre
  <2>2. CASE Goto("ingress", "finish")
    BY <1>3, <2>2, GoesOn, Labels, TasksAre
  <2> QED
    BY <1>4, <2>1, <2>2
<1>6. Queue'
  BY <1>1, <1>3, <1>5, QueueGoesOn, TasksAre
<1> QED
  BY <1>3, <1>5, <1>6 DEF Good, IInv, Types

\* The ingress worker is the one that would set the tombstone: the row it saved over
\* is none.
LEMMA SavePendingGood ==
  ASSUME IInv, SavePending
  PROVE  Good
<1> USE DEF SavePending
<1>1. /\ task["ingress"].at = "save" /\ "save" \in Busy /\ task["ingress"] \in Task
      /\ GoodTask("ingress")
  BY TasksAre DEF At, Busy, Rejecting, IInv, Held, Types
<1>2. PICK r \in Responses : r = task["ingress"].r /\ rows[r].state # "deleted"
  BY <1>1 DEF GoodTask
<1>3. PICK n \in Nat : /\ n # 0 /\ clock' \in Nat /\ clock <= clock' /\ n <= clock'
                       /\ n = IF task["ingress"].row.state = "pending"
                              THEN task["ingress"].row.deadline ELSE clock + 1
  <2>1. /\ task["ingress"].row.deadline \in Nat /\ task["ingress"].row.deadline <= clock
        /\ task["ingress"].row.state = "pending" => task["ingress"].row.deadline # 0
        /\ clock \in Nat
    BY <1>1 DEF Task, Row, GoodTask, IInv, Types
  <2> QED
    BY <2>1
<1>4. /\ rows' = [rows EXCEPT ![r] = [NoRow EXCEPT !.state = "pending", !.deadline = n,
                                                   !.warning = rows[r].warning]]
      /\ task' = [task EXCEPT !["ingress"].at = "warn", !["ingress"].row.deadline = n]
  BY <1>2, <1>3
<1>5. /\ Topics' /\ Messages' /\ plan' = plan /\ UNCHANGED <<timer, updates, sent>> /\ Grow
  BY <1>3, TopicsKept, MessagesKept DEF telegram, IInv, Types, Messages, Grow
<1> HIDE DEF SavePending
<1>6. Same(r) /\ rows'[r].published = 0 /\ rows'[r].state = "pending" /\ rows'[r].deadline = n
  BY <1>4, Rejected DEF IInv, Types
<1>7. RowMoves(r)
  <2>1. 0 <= sent'
    BY <1>5 DEF Grow
  <2> QED
    BY <1>2, <1>3, <1>6, <2>1 DEF RowMoves, GoodRow
<1>8. RowsMove
  BY <1>5, <1>6, <1>7, OneRowMoves
<1>9. /\ task' \in [Tasks -> Task] /\ task'["refresh"] = task["refresh"]
      /\ task'["ingress"].at = "warn" /\ task'["ingress"].r = task["ingress"].r
      /\ task'["ingress"].row.deadline = n
      /\ task'["ingress"].copy = task["ingress"].copy
  BY <1>4, Dated DEF IInv
<1>10. GoodTask("ingress")'
  <2>1. "warn" \notin Publishing \union {"withdraw", "save"}
    BY DEF Publishing
  <2> QED
    BY <1>1, <1>2, <1>3, <1>5, <1>9, <2>1 DEF GoodTask
<1>11. Moves
  BY <1>9, <1>10 DEF Moves, Tasks
<1>12. Queue'
  BY <1>1, <1>5, QueueKept
<1> QED
  BY <1>5, <1>8, <1>11, <1>12 DEF Good, IInv, Types

LEMMA WarnGood ==
  ASSUME IInv, Warn
  PROVE  Good
<1> USE DEF Warn
<1>1. task["ingress"].at = "warn" /\ "warn" \in Busy
  BY DEF At, Busy, Rejecting
<1>2. PICK r \in Responses : r = task["ingress"].r
  BY <1>1, TasksAre DEF IInv, Held, GoodTask
<1>3. /\ Grow /\ Topics' /\ Messages' /\ plan' = plan /\ UNCHANGED <<sent, clock>>
  BY TopicsKept, MessagesKept DEF telegram, IInv, Types, Messages, Grow
<1> DEFINE b == rows[r].warning \/ rows[r].state = "pending"
           deadline == task["ingress"].row.deadline
<1>4. \/ /\ rows' = [rows EXCEPT ![r].warning = b]
         /\ timer' = [timer EXCEPT ![r] = [at |-> "wait", deadline |-> deadline]]
         /\ Goto("ingress", "finish")
         /\ UNCHANGED updates
      \/ Raise("ingress") /\ UNCHANGED <<rows, timer>>
  BY <1>2
<1>5. b \in BOOLEAN /\ deadline \in Nat /\ rows[r].published <= sent
  BY TasksAre DEF IInv, Types, Task, Row, GoodRows, GoodRow
<1> HIDE DEF Warn, b, deadline
<1>6. CASE /\ rows' = [rows EXCEPT ![r].warning = b]
           /\ timer' = [timer EXCEPT ![r] = [at |-> "wait", deadline |-> deadline]]
           /\ Goto("ingress", "finish")
           /\ UNCHANGED updates
  <2>1. /\ Same(r) /\ rows'[r].published = rows[r].published /\ rows'[r].state = rows[r].state
        /\ rows'[r].deadline = rows[r].deadline
    BY <1>5, <1>6, FlagSet DEF IInv, Types
  <2>2. RowsMove
    BY <1>3, <1>5, <2>1, StateKept
  <2>3. timer' \in [Responses -> Timer]
    <3>1. [at |-> "wait", deadline |-> deadline] \in Timer
      BY <1>5 DEF Timer
    <3> QED
      BY <1>6, <3>1 DEF IInv, Types
  <2>4. Moves /\ \A u \in Tasks : u # "ingress" => task'[u] = task[u]
    BY <1>3, <1>6, <2>2, GoesOn, Labels, TasksAre
  <2>5. Queue'
    BY <1>1, <1>3, <1>6, <2>4, QueueGoesOn, TasksAre
  <2> QED
    BY <1>3, <2>2, <2>3, <2>4, <2>5 DEF Good
<1>7. CASE Raise("ingress") /\ UNCHANGED <<rows, timer>>
  <2>1. RowsMove
    BY <1>3, <1>7, RowsKept
  <2>2. Moves /\ Queue'
    BY <1>1, <1>3, <1>7, AfterRaise, QueueRaised, TasksAre
  <2> QED
    BY <1>3, <1>7, <2>1, <2>2 DEF Good, IInv, Types
<1> QED
  BY <1>4, <1>6, <1>7

-----------------------------------------------------------------------------
(* The refresh worker.                                                      *)

LEMMA RefreshQueue ==
  ASSUME IInv, Grow, UNCHANGED updates, task'["ingress"] = task["ingress"]
  PROVE  Queue'
  BY QueueKept

LEMMA RefreshGoes ==
  ASSUME IInv, Grow, RowsMove, NEW label \in Alone, Goto("refresh", label)
  PROVE  Moves /\ task'["ingress"] = task["ingress"]
<1>1. Moves /\ \A u \in Tasks : u # "refresh" => task'[u] = task[u]
  BY GoesOn, Labels, TasksAre
<1> QED
  BY <1>1, TasksAre

LEMMA RefreshLooks ==
  ASSUME IInv, Grow, RowsMove, NEW label \in Alone, NEW S \in SUBSET Responses,
         NEW replaced \in BOOLEAN,
         \/ task' = [task EXCEPT !["refresh"].at = label, !["refresh"].todo = S,
                                 !["refresh"].replaced = replaced]
         \/ task' = [task EXCEPT !["refresh"].at = label, !["refresh"].todo = S]
         \/ /\ label = task.refresh.at
            /\ task' = [task EXCEPT !["refresh"].todo = S]
  PROVE  Moves /\ task'["ingress"] = task["ingress"]
<1>1. /\ task' \in [Tasks -> Task]
      /\ task'["ingress"] = task["ingress"]
      /\ task'["refresh"].at = label /\ task'["refresh"].r = task["refresh"].r
      /\ task'["refresh"].row = task["refresh"].row
      /\ task'["refresh"].copy = task["refresh"].copy
  BY Looks DEF IInv
<1>2. \A u \in Tasks : u # "refresh" => task'[u] = task[u]
  BY <1>1 DEF Tasks
<1>3. Moves
  BY <1>1, <1>2, Labels, Relabelled, TasksAre
<1> QED
  BY <1>1, <1>3

LEMMA StartGood ==
  ASSUME IInv, Start \/ Recover
  PROVE  Good
<1> USE DEF Start, Recover
<1>1. Grow /\ RowsMove /\ Messages' /\ plan' = plan /\ UNCHANGED <<timer, updates>>
  BY RowsAsTheyWere, MessagesKept DEF IInv, Messages
<1>2. Topics'
  BY DEF IInv, Topics
<1>3. PICK label \in {"probe", "discard"} : Goto("refresh", label)
  OBVIOUS
<1> HIDE DEF Start, Recover
<1>4. Moves /\ task'["ingress"] = task["ingress"]
  BY <1>1, <1>3, RefreshGoes DEF Alone
<1>5. Queue'
  BY <1>1, <1>4, RefreshQueue
<1> QED
  BY <1>1, <1>2, <1>4, <1>5 DEF Good, IInv, Types

LEMMA TickGood ==
  ASSUME IInv, Tick
  PROVE  Good
<1> USE DEF Tick
<1>1. /\ Grow /\ RowsMove /\ Messages' /\ Topics' /\ plan' = plan /\ UNCHANGED <<timer, updates>>
  BY RowsAsTheyWere, TopicsKept, MessagesKept DEF telegram, IInv, Messages
<1> DEFINE new == [Idle EXCEPT !.at = "probe"]
<1>2. new \in Task /\ new.at = "probe" /\ new.copy = 0 /\ new.row = NoRow /\ "probe" \in Alone
  BY IdleType DEF Idle, Task, Alone
<1>3. task' = [task EXCEPT !["refresh"] = new]
  OBVIOUS
<1> HIDE DEF new, Tick
<1>4. /\ task' \in [Tasks -> Task]
      /\ \A u \in Tasks : u # "refresh" => task'[u] = task[u]
      /\ task'["refresh"] = new
  BY <1>2, <1>3, Becomes, TasksAre DEF IInv, Types
<1>5. Moves
  BY <1>1, <1>2, <1>4, Resting, TasksAre
<1>6. Queue'
  BY <1>1, <1>4, RefreshQueue, TasksAre
<1> QED
  BY <1>1, <1>5, <1>6 DEF Good, IInv, Types

LEMMA ProbeGood ==
  ASSUME IInv, Probe \/ Instruct
  PROVE  Good
<1> USE DEF Probe, Instruct
<1>1. Grow /\ RowsMove /\ Messages' /\ plan' = plan /\ UNCHANGED <<timer, updates>>
  BY RowsAsTheyWere, MessagesKept DEF telegram, IInv, Messages
<1>2. Topics'
  <2>1. instructed' \in {instructed, topic} /\ topic' = topic
    OBVIOUS
  <2> HIDE DEF Probe, Instruct
  <2> QED
    BY <2>1 DEF IInv, Topics
<1>3. \/ \E label \in {"discard", "recover"} : Goto("refresh", label)
      \/ \E replaced \in BOOLEAN : ToCleanup(replaced)
  OBVIOUS
<1> HIDE DEF Probe, Instruct
<1>4. Moves /\ task'["ingress"] = task["ingress"]
  <2>1. CASE \E label \in {"discard", "recover"} : Goto("refresh", label)
    <3>1. PICK label \in {"discard", "recover"} : Goto("refresh", label)
      BY <2>1
    <3> QED
      BY <1>1, <3>1, RefreshGoes DEF Alone
  <2>2. CASE \E replaced \in BOOLEAN : ToCleanup(replaced)
    <3>1. PICK replaced \in BOOLEAN, S \in SUBSET Responses :
            task' = [task EXCEPT !["refresh"].at = "cleanup", !["refresh"].todo = S,
                                 !["refresh"].replaced = replaced]
      BY <2>2 DEF ToCleanup, Tombstones
    <3>2. "cleanup" \in Alone
      BY DEF Alone
    <3> QED
      BY <1>1, <3>1, <3>2, RefreshLooks
  <2> QED
    BY <1>3, <2>1, <2>2
<1>5. Queue'
  BY <1>1, <1>4, RefreshQueue
<1> QED
  BY <1>1, <1>2, <1>4, <1>5 DEF Good, IInv, Types

LEMMA DiscardGood ==
  ASSUME IInv, Discard
  PROVE  Good
<1> USE DEF Discard
<1>1. /\ Grow /\ Messages' /\ Topics' /\ plan' = plan /\ UNCHANGED <<updates, sent, clock>>
  BY TopicsKept, MessagesKept DEF telegram, IInv, Types, Messages, Grow
<1>2. rows' = [r \in Responses |-> IF rows[r].state = "pending" THEN NoRow ELSE rows[r]]
  OBVIOUS
<1>3. timer' \in [Responses -> Timer]
  BY IdleType
<1>4. Goto("refresh", "instruct") /\ "instruct" \in Alone
  BY DEF Alone
<1> HIDE DEF Discard
<1>5. RowsMove
  <2>1. rows' \in [Responses -> Row]
    BY <1>2, IdleType DEF IInv, Types
  <2>2. ASSUME NEW r \in Responses
        PROVE  RowMoves(r)
    <3>1. CASE rows[r].state = "pending"
      <4>1. rows'[r] = NoRow
        BY <1>2, <3>1
      <4> QED
        BY <1>1, <3>1, <4>1 DEF RowMoves, GoodRow, NoRow, Grow
    <3>2. CASE rows[r].state # "pending"
      <4>1. rows'[r] = rows[r] /\ GoodRow(rows[r])
        BY <1>2, <3>2 DEF IInv, GoodRows
      <4> QED
        BY <1>1, <4>1 DEF RowMoves, GoodRow
    <3> QED
      BY <3>1, <3>2
  <2> QED
    BY <2>1, <2>2 DEF RowsMove
<1>6. Moves /\ task'["ingress"] = task["ingress"]
  BY <1>1, <1>4, <1>5, RefreshGoes
<1>7. Queue'
  BY <1>1, <1>6, RefreshQueue
<1> QED
  BY <1>1, <1>3, <1>5, <1>6, <1>7 DEF Good

LEMMA CleanupGood ==
  ASSUME IInv, Cleanup
  PROVE  Good
<1> USE DEF Cleanup
<1>1. /\ Grow /\ Topics' /\ plan' = plan /\ UNCHANGED <<timer, updates, sent, clock, source>>
  BY TopicsKept DEF IInv, Types, Grow
<1>2. task["refresh"].at = "cleanup" /\ task["refresh"].todo \subseteq Responses /\ "cleanup" \in Alone
      /\ "restore" \in Alone
  BY TasksAre DEF At, IInv, Types, Task, Alone
<1>3. Messages'
  <2>1. copies' \subseteq copies
    BY DEF Without
  <2> QED
    BY <1>1, <2>1, MessagesKept DEF IInv, Messages
<1>4. RowsMove
  <2>1. CASE UNCHANGED rows
    BY <1>1, <2>1, RowsKept
  <2>2. CASE \E q \in task.refresh.todo : rows' = [rows EXCEPT ![q].published = 0]
    <3>1. PICK q \in Responses : rows' = [rows EXCEPT ![q].published = 0]
      BY <1>2, <2>2
    <3> HIDE DEF Cleanup
    <3>2. /\ Same(q) /\ rows'[q].published = 0 /\ rows'[q].state = rows[q].state
          /\ rows'[q].deadline = rows[q].deadline
      BY <3>1, PublishedSet DEF IInv, Types
    <3>3. 0 <= sent'
      BY <1>1 DEF Grow
    <3> QED
      BY <1>1, <3>2, <3>3, StateKept
  <2> QED
    BY <2>1, <2>2
<1>5. PICK S \in SUBSET Responses :
         \/ task' = [task EXCEPT !["refresh"].todo = S]
         \/ task' = [task EXCEPT !["refresh"].at = "restore", !["refresh"].todo = S]
  <2>1. ASSUME NEW q \in task.refresh.todo, task' = [task EXCEPT !["refresh"].todo = @ \ {q}]
        PROVE  \E S \in SUBSET Responses : task' = [task EXCEPT !["refresh"].todo = S]
    BY <1>2, <2>1
  <2>2. {r \in Responses : rows[r].state = "valid"} \in SUBSET Responses
    OBVIOUS
  <2> QED
    BY <2>1, <2>2
<1> HIDE DEF Cleanup
<1>6. Moves /\ task'["ingress"] = task["ingress"]
  BY <1>1, <1>2, <1>4, <1>5, RefreshLooks
<1>7. Queue'
  BY <1>1, <1>6, RefreshQueue
<1> QED
  BY <1>1, <1>3, <1>4, <1>6, <1>7 DEF Good, IInv, Types

LEMMA RestoreGood ==
  ASSUME IInv, Restore
  PROVE  Good
<1> USE DEF Restore
<1>1. /\ Grow /\ RowsMove /\ Topics' /\ Messages' /\ plan' = plan
      /\ UNCHANGED <<timer, updates, rows, sent, clock>>
  BY RowsAsTheyWere, TopicsKept, MessagesKept DEF telegram, IInv, Messages
<1>2. task["refresh"].at = "restore" /\ task["refresh"].todo \subseteq Responses /\ "restore" \in Alone
  BY TasksAre DEF At, IInv, Types, Task, Alone
<1>3. PICK r, replaced, starting :
         /\ r \in Responses
         /\ \/ task' = [task EXCEPT !["refresh"].todo = @ \ {r}]
            \/ rows[r].state = "valid" /\ StartPublish("refresh", r, replaced, starting)
  BY <1>2
<1> HIDE DEF Restore
<1>4. Moves /\ task'["ingress"] = task["ingress"]
  <2>1. CASE task' = [task EXCEPT !["refresh"].todo = @ \ {r}]
    <3>1. PICK S \in SUBSET Responses : task' = [task EXCEPT !["refresh"].todo = S]
      BY <1>2, <2>1
    <3> QED
      BY <1>1, <1>2, <3>1, RefreshLooks
  <2>2. CASE rows[r].state = "valid" /\ StartPublish("refresh", r, replaced, starting)
    BY <1>1, <1>3, <2>2, StartedGood, TasksAre
  <2> QED
    BY <1>3, <2>1, <2>2
<1>5. Queue'
  BY <1>1, <1>4, RefreshQueue
<1> QED
  BY <1>1, <1>4, <1>5 DEF Good, IInv, Types

LEMMA EndRoundGood ==
  ASSUME IInv, EndRound
  PROVE  Good
<1> USE DEF EndRound
<1>1. /\ Grow /\ RowsMove /\ Topics' /\ Messages' /\ plan' = plan /\ UNCHANGED updates
  BY RowsAsTheyWere, TopicsKept, MessagesKept DEF telegram, IInv, Messages
<1>2. /\ task' \in [Tasks -> Task] /\ task'["refresh"] = Idle
      /\ \A u \in Tasks : u # "refresh" => task'[u] = task[u]
  BY Becomes, IdleType, TasksAre DEF IInv, Types
<1>3. Moves
  BY <1>1, <1>2, Resting, Labels, TasksAre DEF Idle
<1>4. Queue'
  BY <1>1, <1>2, RefreshQueue, TasksAre
<1>5. timer' \in [Responses -> Timer]
  <2>1. \A r \in Responses : [at |-> "wait", deadline |-> rows[r].deadline] \in Timer
    BY DEF IInv, Types, Row, Timer
  <2> QED
    BY <2>1, IdleType DEF IInv, Types
<1> QED
  BY <1>1, <1>3, <1>4, <1>5 DEF Good

-----------------------------------------------------------------------------
(* The inductive invariant.                                                 *)

LEMMA Initially ==
  ASSUME Init
  PROVE  IInv
<1> USE DEF Init
<1>1. Idle \in Task /\ [Idle EXCEPT !.at = "start"] \in Task
  BY IdleType DEF Task, Alone, Idle
<1>2. Types
  BY <1>1, IdleType DEF Types, Tasks
<1>3. GoodRows /\ Messages /\ Topics
  BY DEF GoodRows, GoodRow, NoRow, Messages, Topics
<1>4. Queue
  BY DEF Queue, Idle
<1>5. Held
  <2> SUFFICES ASSUME NEW t \in Tasks
               PROVE  GoodTask(t)
    BY DEF Held
  <2>1. task[t].at \in {"idle", "start"} /\ task[t].copy = 0 /\ task[t].row = NoRow
    BY DEF Tasks, Idle
  <2>2. task[t].at \notin Busy \union Publishing \union {"withdraw", "save"}
    BY <2>1 DEF Busy, Publishing, Erasing, Rejecting
  <2> QED
    BY <2>1, <2>2 DEF GoodTask, NoRow
<1> QED
  BY <1>2, <1>3, <1>4, <1>5 DEF IInv

LEMMA EveryStep ==
  ASSUME IInv, Next
  PROVE  Good
<1>1. ASSUME NEW t \in Tasks, Publish(t)
      PROVE  Good
  BY <1>1, EditGood, SendCopyGood, RecordGood, CleanGood, CompleteGood DEF Publish
<1>2. CASE Ingress
  BY <1>1, <1>2, TasksAre, BeginGood, FinishGood, LockRecordGood, WithdrawGood, SavePendingGood,
     WarnGood, EraseGood, ClearPublicationGood DEF Ingress
<1>3. CASE Refresh
  BY <1>1, <1>3, TasksAre, StartGood, TickGood, ProbeGood, DiscardGood, CleanupGood, RestoreGood,
     EndRoundGood DEF Refresh
<1>4. CASE Arrive \/ RemoveByHand \/ DeleteTopic \/ Crash \/ EraseFails
  BY <1>4, ArriveGood, RemoveByHandGood, DeleteTopicGood, CrashGood, EraseFailsGood
<1>5. CASE \E r \in Responses : Expire(r) \/ RemoveFails(r)
  BY <1>5, WakeGood, RemoveSourceGood, DropRowGood DEF Expire
<1>6. CASE \E t \in Tasks : CallFails(t) \/ AnswerLost(t) \/ CleanFails(t)
  BY <1>6, CallFailsGood, AnswerLostGood, CleanFailsGood
<1> QED
  BY <1>2, <1>3, <1>4, <1>5, <1>6 DEF Next

LEMMA Stutters ==
  ASSUME IInv, UNCHANGED vars
  PROVE  IInv'
  BY DEF IInv, Types, GoodRows, GoodRow, Messages, Topics, Queue, Held, GoodTask,
         vars, updates, telegram

LEMMA Invariant == Spec => []IInv
<1>1. IInv /\ [Next]_vars => IInv'
  BY EveryStep, Preserved, Stutters
<1> QED
  BY <1>1, Initially, PTL DEF Spec

\* Rows refer to copies that were published and deadlines that were handed out, the
\* ingress worker stays within its queue, the instruction is in no topic to come.
THEOREM TypeCorrect == Spec => []TypeOK
<1>1. IInv => TypeOK
  <2> SUFFICES ASSUME IInv
               PROVE  TypeOK
    OBVIOUS
  <2>1. ASSUME NEW r \in Responses
        PROVE  /\ rows[r].state \in {"none", "valid", "pending", "deleted"}
               /\ rows[r].published \in 0..sent
               /\ rows[r].deadline \in 0..clock
               /\ rows[r].state = "pending" <=> rows[r].deadline # 0
               /\ source[r] \in {"unsent", "there", "gone"}
               /\ timer[r].at \in {"none", "wait", "remove", "drop"}
    <3>1. rows[r] \in Row /\ GoodRow(rows[r]) /\ timer[r] \in Timer /\ sent \in Nat /\ clock \in Nat
      BY DEF IInv, Types, GoodRows
    <3>2. source[r] \in {"unsent", "there", "gone"}
      BY DEF IInv, Messages
    <3> QED
      BY <3>1, <3>2 DEF Row, States, GoodRow, Timer
  <2> QED
    BY <2>1 DEF IInv, Messages, Topics, Queue, TypeOK
<1> QED
  BY <1>1, Invariant, PTL

-----------------------------------------------------------------------------
(* Tombstones.                                                              *)

\* Copies are added by the task that sends one, of the response it has in hand.
LEMMA CopiesGrow ==
  ASSUME Next
  PROVE  \/ copies' \subseteq copies
         \/ \E t \in Tasks : /\ task[t].at = "send"
                             /\ copies' = copies \union {[id |-> sent + 1, r |-> task[t].r]}
<1>1. ASSUME NEW t \in Tasks, SendCopy(t) \/ AnswerLost(t)
      PROVE  \/ copies' \subseteq copies
             \/ /\ task[t].at = "send"
                /\ copies' = copies \union {[id |-> sent + 1, r |-> task[t].r]}
  BY <1>1 DEF SendCopy, AnswerLost, At
<1>2. ASSUME NEW t \in Tasks, \/ Edit(t) \/ Record(t) \/ Clean(t) \/ Complete(t)
                              \/ CallFails(t) \/ CleanFails(t)
      PROVE  copies' \subseteq copies
  BY <1>2 DEF Edit, Record, Clean, Complete, CallFails, CleanFails, telegram
<1>3. ASSUME \/ Begin \/ Finish \/ LockRecord \/ Withdraw \/ SavePending \/ Warn \/ Erase
             \/ ClearPublication \/ EraseFails
      PROVE  copies' \subseteq copies
  BY <1>3 DEF Begin, Finish, LockRecord, Withdraw, SavePending, Warn, Erase, ClearPublication,
              EraseFails, Without, telegram
<1>4. ASSUME \/ Start \/ Tick \/ Probe \/ Recover \/ Discard \/ Instruct \/ Cleanup \/ Restore
             \/ EndRound
      PROVE  copies' \subseteq copies
  BY <1>4 DEF Start, Tick, Probe, Recover, Discard, Instruct, Cleanup, Restore, EndRound,
              Without, telegram
<1>5. ASSUME \/ Arrive \/ RemoveByHand \/ DeleteTopic \/ Crash
             \/ \E r \in Responses : Expire(r) \/ RemoveFails(r)
      PROVE  copies' \subseteq copies
  BY <1>5 DEF Arrive, RemoveByHand, DeleteTopic, Crash, Expire, Wake, RemoveSource, DropRow,
              RemoveFails, telegram
<1> QED
  BY <1>1, <1>2, <1>3, <1>4, <1>5, TasksAre DEF Next, Ingress, Refresh, Publish

\* A response that was deleted by its button never comes back, however handler, refresh
\* and expiration interleave, and whatever fails, is lost or is replayed.
THEOREM TombstonesStay == Spec => TombstoneHolds
<1> DEFINE Stay == \A r \in Responses :
                     rows[r].state = "deleted" =>
                         /\ rows'[r].state = "deleted"
                         /\ {c \in copies' : c.r = r} \subseteq copies
<1>1. ASSUME IInv, Next
      PROVE  Stay
  <2> SUFFICES ASSUME NEW r \in Responses, rows[r].state = "deleted"
               PROVE  /\ rows'[r].state = "deleted"
                      /\ {c \in copies' : c.r = r} \subseteq copies
    OBVIOUS
  <2>1. rows'[r].state = "deleted"
    BY <1>1, EveryStep DEF Good, RowsMove, RowMoves
  <2>2. \A t \in Tasks : task[t].at = "send" => task[t].r # r
    BY <1>1 DEF IInv, Held, GoodTask, Publishing
  <2>3. {c \in copies' : c.r = r} \subseteq copies
    BY <1>1, <2>2, CopiesGrow
  <2> QED
    BY <2>1, <2>3
<1>2. IInv /\ [Next]_vars => [Stay]_vars
  BY <1>1
<1>3. IInv /\ [Next]_vars => IInv'
  BY EveryStep, Preserved, Stutters
<1> QED
  BY <1>2, Invariant, PTL DEF Spec, TombstoneHolds

===============================================================================
