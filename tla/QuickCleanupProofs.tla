-------------------------- MODULE QuickCleanupProofs --------------------------
(***************************************************************************)
(* While no update can be given up, the message of a valid response is       *)
(* removed only when its copy is there, for any responses, scenarios and     *)
(* bounds.                                                                   *)
(*                                                                           *)
(* The steps are first described one aspect at a time: what they do with the *)
(* response a task has in hand, with a row, a message, a timer, the topic,   *)
(* the copies and the queue.  The invariant says whose number a copy has     *)
(* (Owned), when a message is gone for good (Sources), and that a valid      *)
(* response whose message is still there is the one the ingress worker has   *)
(* in hand, with a try left (Trying, Pursued), so that nobody else rejects   *)
(* it or takes its copy away (Backed).                                       *)
(***************************************************************************)
EXTENDS QuickCopiesProofs

Current == inbox[handled + 1]

\* What a step does with what a task has in hand.
Hand(t) ==
    \/ task'[t] = task[t]
    \/ task'[t].at \notin Busy
    \/ /\ task[t].at \in Busy
       /\ task'[t].r = task[t].r
       /\ task'[t].row.published = task[t].row.published
       /\ task'[t].at \in Publishing => task[t].at \in Publishing
       /\ \/ task'[t].copy = task[t].copy
          \/ /\ task[t].at = "send"
             /\ task'[t].copy = sent + 1
             /\ copies' = copies \union {[id |-> sent + 1, r |-> task[t].r]}
    \/ /\ t = "ingress" /\ task[t].at = "idle" /\ handled < Len(inbox)
       /\ task'[t].r = Current.r /\ task'[t].row = rows[Current.r] /\ task'[t].copy = Current.copy
       /\ task'[t].at \notin Publishing
    \/ /\ task'[t].r \in Responses /\ rows[task'[t].r].state = "valid" /\ rows' = rows
       /\ \/ task'[t].at \in {"edit", "send"}
          \/ task'[t].at = "clean" /\ rows[task'[t].r].current
       /\ task'[t].row = rows[task'[t].r]
       /\ task'[t].copy \in {0, rows[task'[t].r].published}

LEMMA HandGoesOn ==
  ASSUME IInv, NEW t \in Tasks, Keeps(t), task[t].at \in Busy \/ task'[t].at \notin Busy,
         task'[t].at \in Publishing => task[t].at \in Publishing
  PROVE  \A u \in Tasks : Hand(u)
  BY DEF Keeps, Others, Hand

LEMMA HandRests ==
  ASSUME IInv, NEW t \in Tasks, Others(t), task'[t].at \notin Busy
  PROVE  \A u \in Tasks : Hand(u)
  BY DEF Others, Hand

LEMMA HandStarts ==
  ASSUME IInv, NEW t \in Tasks, NEW q \in Responses, NEW force, NEW refresh,
         rows[q].state = "valid", StartPublish(t, q, force, refresh), rows' = rows
  PROVE  \A u \in Tasks : Hand(u)
<1> DEFINE label == FirstCall(rows[q], force, refresh)
<1>1. /\ Others(t) /\ task'[t].r = q /\ task'[t].row = rows[q]
      /\ task'[t].copy \in {0, rows[q].published}
  BY Started DEF IInv, Others
<1>2. task'[t].at = label
  BY StartsPublishing
<1>3. label \in {"edit", "send"} \/ (label = "clean" /\ rows[q].current)
  <2>1. label \in {"edit", "send", "clean"}
    BY DEF FirstCall
  <2>2. label = "clean" => rows[q].current
    BY DEF FirstCall
  <2> HIDE DEF label
  <2> QED
    BY <2>1, <2>2
<1> HIDE DEF label
<1> QED
  BY <1>1, <1>2, <1>3 DEF Hand, Others

LEMMA HandsOfPublish ==
  ASSUME IInv, NEW t \in Tasks, Publish(t) \/ CallFails(t) \/ AnswerLost(t) \/ CleanFails(t)
  PROVE  \A u \in Tasks : Hand(u)
<1>1. CASE Raise(t)
  <2>1. task'[t].at \in {"idle", "start"}
    BY <1>1, RaiseRests
  <2> QED
    BY <1>1, <2>1, RaiseRests, HandRests DEF Busy, Publishing, Erasing, Rejecting
<1>2. CASE Publish(t) /\ ~ Raise(t) /\ task[t].at \in Publishing
  <2>1. CASE \E label \in {"clean", "send", "complete", Finished(t)} : Goto(t, label)
    BY <1>2, <2>1, GoesKeeps, HandGoesOn, Labels
  <2>2. CASE SendCopy(t)
    <3>1. /\ task' = [task EXCEPT ![t].at = "record", ![t].copy = sent + 1]
          /\ copies' = copies \union {[id |-> sent + 1, r |-> task[t].r]}
          /\ task[t].at = "send"
      BY <1>2, <2>2 DEF SendCopy, At
    <3>2. /\ \A u \in Tasks : u # t => task'[u] = task[u]
          /\ task'[t].r = task[t].r /\ task'[t].row = task[t].row
          /\ task'[t].copy = sent + 1
      BY <3>1, Sent DEF IInv
    <3> QED
      BY <1>2, <3>1, <3>2, Labels DEF Hand
  <2>3. CASE Edit(t) \/ Record(t) \/ Clean(t) \/ Complete(t)
    <3>1. \E label \in {"clean", "send", "complete", Finished(t)} : Goto(t, label)
      BY <1>2, <2>3 DEF Edit, AfterEdit, Record, Clean, Complete
    <3> QED
      BY <2>1, <3>1
  <2> QED
    BY <1>2, <2>2, <2>3 DEF Publish
<1>3. Publish(t) => task[t].at \in Publishing
  BY DEF Publish, Edit, SendCopy, Record, Clean, Complete, At, Publishing
<1>4. CallFails(t) \/ AnswerLost(t) \/ CleanFails(t) => Raise(t)
  BY DEF CallFails, AnswerLost, CleanFails
<1> QED
  BY <1>1, <1>2, <1>3, <1>4

LEMMA HandsOfIngress ==
  ASSUME IInv, \/ Begin \/ Finish \/ LockRecord \/ Withdraw \/ SavePending \/ Warn
               \/ Erase \/ ClearPublication \/ EraseFails
  PROVE  \A u \in Tasks : Hand(u)
<1>1. CASE Begin
  <2> DEFINE u == inbox[handled + 1]
  <2>1. u \in Update /\ task["ingress"].at = "idle" /\ handled < Len(inbox)
    <3>1. handled + 1 \in 1..Len(inbox)
      BY <1>1 DEF Begin, IInv, Queue
    <3> QED
      BY <1>1, <3>1, CopiesInInbox DEF Begin, At
  <2>2. PICK label \in {"finish", "lock", "withdraw", "erase"} :
          task' = [task EXCEPT !["ingress"] = [Idle EXCEPT !.at = label, !.r = u.r, !.row = rows[u.r],
                                                           !.copy = u.copy]]
    BY <1>1 DEF Begin
  <2>3. u.r \in Responses /\ u.copy \in Nat
    BY <2>1 DEF Update
  <2>4. label \in Alone \union Busy
    BY DEF Alone, Busy, Publishing, Erasing, Rejecting
  <2> HIDE DEF u
  <2>5. /\ Others("ingress") /\ task'["ingress"].at = label /\ task'["ingress"].r = u.r
        /\ task'["ingress"].row = rows[u.r] /\ task'["ingress"].copy = u.copy
    BY <2>2, <2>3, <2>4, Takes
  <2> QED
    BY <2>1, <2>5 DEF Hand, Others, Current, u, Publishing
<1>2. CASE Finish
  <2>1. task'["ingress"] = Idle /\ Others("ingress")
    BY <1>2, TasksAre DEF Finish, IInv, Types, Others
  <2> QED
    BY <2>1, HandRests, TasksAre, Labels DEF Idle
<1>3. CASE LockRecord
  <2>1. task["ingress"].at = "lock"
    BY <1>3 DEF LockRecord, At
  <2>2. PICK q \in Responses : q = task["ingress"].r
    BY <2>1, TasksAre DEF IInv, Held, GoodTask, Busy
  <2>3. CASE Goto("ingress", "finish")
    BY <2>3, GoesKeeps, HandGoesOn, Labels, TasksAre
  <2>4. CASE rows[q].state = "valid" /\ StartPublish("ingress", q, FALSE, TRUE)
    BY <1>3, <2>4, HandStarts, TasksAre DEF LockRecord
  <2> QED
    BY <1>3, <2>2, <2>3, <2>4 DEF LockRecord
<1>4. CASE Withdraw \/ Erase \/ ClearPublication \/ EraseFails
  <2>1. PICK label : /\ Goto("ingress", label) /\ task["ingress"].at \in Busy
                        /\ label \notin Publishing
    BY <1>4 DEF Withdraw, Erase, ClearPublication, EraseFails, At, Busy, Erasing, Rejecting, Publishing
  <2> QED
    BY <2>1, GoesKeeps, HandGoesOn, TasksAre
<1>5. CASE SavePending
  <2>1. task["ingress"].at = "save" /\ task["ingress"].at \in Busy
    BY <1>5 DEF SavePending, At, Busy, Rejecting
  <2>2. PICK n \in Nat : task' = [task EXCEPT !["ingress"].at = "warn", !["ingress"].row.deadline = n]
    <3>1. task["ingress"].row.deadline \in Nat /\ clock + 1 \in Nat
      BY TasksAre DEF IInv, Types, Task, Row
    <3> QED
      BY <1>5, <3>1 DEF SavePending
  <2>3. /\ task'["refresh"] = task["refresh"] /\ task'["ingress"].r = task["ingress"].r
        /\ task'["ingress"].copy = task["ingress"].copy
    BY <2>2, Dated DEF IInv
  <2>5. task'["ingress"].at \notin Publishing
    BY <2>2, Dated DEF IInv, Publishing
  <2>4. task'["ingress"].row.published = task["ingress"].row.published
    BY <2>2, TasksAre DEF IInv, Types, Task, Row
  <2> QED
    BY <2>1, <2>3, <2>4, <2>5 DEF Hand, Tasks
<1>6. CASE Warn
  <2>1. Goto("ingress", "finish") \/ Raise("ingress")
    BY <1>6 DEF Warn
  <2>2. CASE Goto("ingress", "finish")
    BY <2>2, GoesKeeps, HandGoesOn, Labels, TasksAre
  <2>3. CASE Raise("ingress")
    BY <2>3, RaiseRests, HandRests, TasksAre, Labels
  <2> QED
    BY <2>1, <2>2, <2>3
<1> QED
  BY <1>1, <1>2, <1>3, <1>4, <1>5, <1>6

LEMMA HandsOfRefresh ==
  ASSUME IInv, \/ Start \/ Tick \/ Probe \/ Recover \/ Discard \/ Instruct
               \/ Cleanup \/ Restore \/ EndRound
  PROVE  \A u \in Tasks : Hand(u)
<1>1. CASE \E label \in Alone : Goto("refresh", label)
  BY <1>1, GoesKeeps, HandGoesOn, Labels, TasksAre
<1>2. CASE \E S : \/ task' = [task EXCEPT !["refresh"].at = "restore", !["refresh"].todo = S]
                  \/ task' = [task EXCEPT !["refresh"].todo = S]
                       /\ task["refresh"].at \in {"restore", "cleanup"}
                  \/ \E replaced :
                       task' = [task EXCEPT !["refresh"].at = "cleanup", !["refresh"].todo = S,
                                            !["refresh"].replaced = replaced]
  <2>1. Others("refresh") /\ task'["refresh"].at \in {"restore", "cleanup"}
    BY <1>2, TasksAre DEF IInv, Types, Task, Others
  <2>2. task'["refresh"].at \notin Busy
    BY <2>1 DEF Busy, Publishing, Erasing, Rejecting
  <2> QED
    BY <2>1, <2>2, HandRests, TasksAre
<1>3. CASE task' = [task EXCEPT !["refresh"] = Idle]
  <2>1. task'["refresh"] = Idle /\ Others("refresh")
    BY <1>3, TasksAre DEF IInv, Types, Others
  <2> QED
    BY <2>1, HandRests, TasksAre, Labels DEF Idle
<1>4. CASE Tick
  <2>1. task'["refresh"].at = "probe" /\ Others("refresh")
    BY <1>4, TasksAre DEF Tick, IInv, Types, Others, Idle
  <2> QED
    BY <2>1, HandRests, TasksAre DEF Busy, Publishing, Erasing, Rejecting
<1>5. ASSUME rows' = rows,
             \E q \in Responses : \E replaced, starting :
               rows[q].state = "valid" /\ StartPublish("refresh", q, replaced, starting)
      PROVE  \A u \in Tasks : Hand(u)
  <2>1. PICK q \in Responses : \E replaced, starting :
             rows[q].state = "valid" /\ StartPublish("refresh", q, replaced, starting)
    BY <1>5
  <2> QED
    BY <1>5, <2>1, HandStarts, TasksAre
<1>6. CASE Start \/ Recover \/ Discard
  BY <1>1, <1>6 DEF Start, Recover, Discard, Alone
<1>7. CASE Probe \/ Instruct
  BY <1>1, <1>2, <1>7 DEF Probe, Instruct, ToCleanup, Alone
<1>8. CASE Cleanup
  BY <1>2, <1>8 DEF Cleanup, At
<1>9. CASE Restore
  <2>1. task["refresh"].todo \subseteq Responses
    BY TasksAre DEF IInv, Types, Task
  <2> QED
    BY <1>2, <1>5, <1>9, <2>1 DEF Restore, At
<1>10. CASE EndRound
  BY <1>3, <1>10 DEF EndRound
<1> QED
  BY <1>4, <1>6, <1>7, <1>8, <1>9, <1>10

LEMMA Hands ==
  ASSUME IInv, Next
  PROVE  \A t \in Tasks : Hand(t)
<1>1. CASE Arrive \/ RemoveByHand \/ DeleteTopic \/ \E r \in Responses : Expire(r) \/ RemoveFails(r)
  <2>1. task' = task
    BY <1>1 DEF Arrive, RemoveByHand, DeleteTopic, Expire, Wake, RemoveSource, DropRow, RemoveFails
  <2> QED
    BY <2>1 DEF Hand
<1>2. CASE Crash
  <2>1. \A t \in Tasks : task'[t].at \in {"idle", "start"}
    BY <1>2 DEF Crash, Tasks, Idle
  <2> QED
    BY <2>1 DEF Hand, Busy, Publishing, Erasing, Rejecting
<1> QED
  BY <1>1, <1>2, HandsOfPublish, HandsOfIngress, HandsOfRefresh, TasksAre
     DEF Next, Ingress, Refresh

-----------------------------------------------------------------------------
\* What a step does to a row.
AtWork(t, r) == task[t].at \in Busy /\ task[t].r = r
RowChange(r) ==
    \/ rows'[r] = rows[r]
    \/ \E t \in Tasks :
        /\ AtWork(t, r)
        /\ \/ rows'[r].published \in {rows[r].published, 0}
           \/ task[t].at = "record" /\ rows'[r].published = task[t].copy
        /\ rows'[r].current => rows[r].current \/ task[t].at = "complete"
        /\ \/ rows'[r].state = rows[r].state
           \/ t = "ingress" /\ task[t].at = "save" /\ rows'[r].state = "pending"
    \/ /\ task["ingress"].at = "idle" /\ handled < Len(inbox) /\ r = Current.r
       /\ rows'[r].published = rows[r].published /\ rows'[r].current = rows[r].current
       /\ \/ /\ rows'[r].state = "valid" /\ Current.kind = "valid" /\ Current.topic = topic
             /\ timer[r].at \notin {"remove", "drop"} /\ task'["ingress"].at = "lock"
             /\ UNCHANGED <<inbox, handled, topic, source>>
          \/ rows'[r].state = "deleted" /\ RecordFree(r)
    \/ rows[r].state = "pending" /\ rows'[r] = NoRow
    \/ /\ rows[r].state = "deleted" /\ rows'[r].state = "deleted" /\ rows'[r].published = 0
       /\ rows'[r].current = rows[r].current

LEMMA WorkChanges ==
  ASSUME NEW t \in Tasks, NEW q \in Responses, AtWork(t, q),
         \A r \in Responses : r # q => rows'[r] = rows[r],
         \/ rows'[q].published \in {rows[q].published, 0}
         \/ task[t].at = "record" /\ rows'[q].published = task[t].copy,
         rows'[q].current => rows[q].current \/ task[t].at = "complete",
         \/ rows'[q].state = rows[q].state
         \/ t = "ingress" /\ task[t].at = "save" /\ rows'[q].state = "pending"
  PROVE  \A r \in Responses : RowChange(r)
<1>1. RowChange(q)
  BY DEF RowChange
<1>2. \A r \in Responses : r # q => RowChange(r)
  BY DEF RowChange
<1> QED
  BY <1>1, <1>2

LEMMA RowsOfPublish ==
  ASSUME IInv, NEW t \in Tasks, Publish(t) \/ CallFails(t) \/ AnswerLost(t) \/ CleanFails(t)
  PROVE  \A r \in Responses : RowChange(r)
<1>1. CASE rows' = rows
  BY <1>1 DEF RowChange
<1>2. CASE Record(t) \/ Clean(t) \/ Complete(t)
  <2>1. task[t].at \in {"record", "clean", "complete"} /\ task[t].at \in Busy
    BY <1>2 DEF Record, Clean, Complete, At, Busy, Publishing
  <2>2. PICK q \in Responses : q = task[t].r
    BY <2>1 DEF IInv, Held, GoodTask
  <2>3. task[t].copy \in Nat /\ rows[q].published \in Nat
    BY DEF IInv, Types, Task, Row
  <2>4. CASE Record(t)
    <3>1. PICK n \in Nat : /\ n \in {task[t].copy, rows[q].published}
                           /\ rows' = [rows EXCEPT ![q].published = n]
      BY <2>2, <2>3, <2>4 DEF Record
    <3>2. task[t].at = "record"
      BY <2>4 DEF Record, At
    <3> QED
      BY <2>1, <2>2, <3>1, <3>2, PublishedColumn, WorkChanges DEF Column, AtWork
  <2>5. CASE Clean(t)
    <3>1. PICK b \in BOOLEAN : b = (rows[q].warning /\ ~ task[t].row.warning)
      OBVIOUS
    <3>2. rows' = [rows EXCEPT ![q].warning = b]
      BY <2>2, <2>5, <3>1 DEF Clean
    <3> QED
      BY <2>1, <2>2, <3>2, WarningColumn, WorkChanges DEF Column, AtWork
  <2>6. CASE Complete(t) /\ rows' # rows
    <3>1. rows' = [rows EXCEPT ![q].current = TRUE]
      BY <2>2, <2>6 DEF Complete
    <3>2. task[t].at = "complete"
      BY <2>6 DEF Complete, At
    <3> QED
      BY <2>1, <2>2, <3>1, <3>2, CurrentColumn, WorkChanges DEF Column, AtWork
  <2> QED
    BY <1>1, <1>2, <2>4, <2>5, <2>6
<1>3. \/ rows' = rows \/ Record(t) \/ Clean(t) \/ Complete(t)
  BY DEF Publish, Edit, SendCopy, CallFails, AnswerLost, CleanFails
<1> QED
  BY <1>1, <1>2, <1>3

LEMMA RowsOfIngress ==
  ASSUME IInv, \/ Begin \/ Finish \/ LockRecord \/ Withdraw \/ SavePending \/ Warn
               \/ Erase \/ ClearPublication \/ EraseFails
  PROVE  \A r \in Responses : RowChange(r)
<1>1. CASE rows' = rows
  BY <1>1 DEF RowChange
<1>2. CASE Begin /\ rows' # rows
  <2> DEFINE u == inbox[handled + 1]
  <2>1. u \in Update /\ task["ingress"].at = "idle" /\ handled < Len(inbox)
    <3>1. handled + 1 \in 1..Len(inbox)
      BY <1>2 DEF Begin, IInv, Queue
    <3> QED
      BY <1>2, <3>1, CopiesInInbox DEF Begin, At
  <2>2. u.r \in Responses /\ u.copy \in Nat
    BY <2>1 DEF Update
  <2>3. CASE /\ u.topic = topic /\ u.kind = "valid" /\ SourceFree(u.r)
             /\ rows' = [rows EXCEPT ![u.r] = Accepted(@)]
             /\ task' = [task EXCEPT !["ingress"] = [Idle EXCEPT !.at = "lock", !.r = u.r,
                                                     !.row = rows[u.r], !.copy = u.copy]]
    <3>1. "lock" \in Alone \union Busy
      BY DEF Busy
    <3> HIDE DEF u
    <3>2. task'["ingress"].at = "lock"
      BY <2>2, <2>3, <3>1, Takes
    <3>3. UNCHANGED <<inbox, handled, topic, source>>
      BY <1>2 DEF Begin, telegram
    <3>4. timer[u.r].at \notin {"remove", "drop"}
      BY <2>3 DEF SourceFree
    <3> QED
      BY <2>1, <2>2, <2>3, <3>2, <3>3, <3>4, AcceptedColumns DEF RowChange, Column, Current, u
  <2>4. CASE rows' = [rows EXCEPT ![u.r].state = "deleted"] /\ RecordFree(u.r)
    <3> HIDE DEF u
    <3> QED
      BY <2>1, <2>2, <2>4, DeletedColumn DEF RowChange, Column, Current, u
  <2> QED
    BY <1>2, <2>3, <2>4 DEF Begin
<1>3. CASE (SavePending \/ Warn \/ ClearPublication) /\ rows' # rows
  <2>1. task["ingress"].at \in Busy
    BY <1>3 DEF SavePending, Warn, ClearPublication, At, Busy, Rejecting, Erasing
  <2>2. PICK q \in Responses : q = task["ingress"].r
    BY <2>1, TasksAre DEF IInv, Held, GoodTask
  <2>3. CASE SavePending
    <3>1. PICK n \in Nat : rows' = [rows EXCEPT ![q] =
                     [NoRow EXCEPT !.state = "pending", !.deadline = n, !.warning = rows[q].warning]]
      <4>1. task["ingress"].row.deadline \in Nat /\ clock + 1 \in Nat
        BY TasksAre DEF IInv, Types, Task, Row
      <4> QED
        BY <2>2, <2>3, <4>1 DEF SavePending
    <3>2. Same(q) /\ rows'[q].published = 0 /\ rows'[q].state = "pending"
      BY <3>1, Rejected DEF IInv, Types
    <3>3. ~ rows'[q].current
      BY <3>1 DEF IInv, Types, NoRow
    <3>4. task["ingress"].at = "save"
      BY <2>3 DEF SavePending, At
    <3> QED
      BY <2>1, <2>2, <3>2, <3>3, <3>4, TasksAre, WorkChanges DEF Same, AtWork
  <2>4. CASE Warn
    <3>1. PICK b \in BOOLEAN : b = (rows[q].warning \/ rows[q].state = "pending")
      OBVIOUS
    <3>2. rows' = [rows EXCEPT ![q].warning = b]
      BY <1>3, <2>2, <2>4, <3>1 DEF Warn
    <3> QED
      BY <2>1, <2>2, <3>2, WarningColumn, TasksAre, WorkChanges DEF Column, AtWork
  <2>5. CASE ClearPublication
    <3>1. PICK n \in Nat : /\ n \in {0, rows[q].published}
                           /\ rows' = [rows EXCEPT ![q].published = n]
      <4>1. rows[q].published \in Nat
        BY DEF IInv, Types, Row
      <4> QED
        BY <2>2, <2>5, <4>1 DEF ClearPublication
    <3> QED
      BY <2>1, <2>2, <3>1, PublishedColumn, TasksAre, WorkChanges DEF Column, AtWork
  <2> QED
    BY <1>3, <2>3, <2>4, <2>5
<1>4. Finish \/ LockRecord \/ Withdraw \/ Erase \/ EraseFails => rows' = rows
  BY DEF Finish, LockRecord, Withdraw, Erase, EraseFails
<1> QED
  BY <1>1, <1>2, <1>3, <1>4

LEMMA RowChanges ==
  ASSUME IInv, Next,
         task["refresh"].at = "cleanup" => \A r \in task["refresh"].todo : rows[r].state = "deleted"
  PROVE  \A r \in Responses : RowChange(r)
<1>1. CASE rows' = rows
  BY <1>1 DEF RowChange
<1>2. CASE Discard
  BY <1>2 DEF Discard, RowChange
<1>3. CASE Cleanup /\ rows' # rows
  <2>1. PICK q \in task["refresh"].todo : rows' = [rows EXCEPT ![q].published = 0]
    BY <1>3 DEF Cleanup
  <2>2. q \in Responses /\ rows[q].state = "deleted"
    BY <1>3, TasksAre DEF IInv, Types, Task, Cleanup, At
  <2> QED
    BY <2>1, <2>2, PublishedColumn DEF Column, RowChange
<1>4. CASE \E q \in Responses : DropRow(q)
  BY <1>4 DEF DropRow, Expires, RowChange, IInv, Types
<1>5. CASE Arrive \/ RemoveByHand \/ DeleteTopic \/ Crash \/ \E r \in Responses : RemoveFails(r)
  BY <1>1, <1>5 DEF Arrive, RemoveByHand, DeleteTopic, Crash, RemoveFails
<1>6. CASE \E r \in Responses : Wake(r) \/ RemoveSource(r)
  BY <1>1, <1>6 DEF Wake, RemoveSource
<1>7. CASE \/ Start \/ Tick \/ Probe \/ Recover \/ Instruct \/ Restore \/ EndRound
  BY <1>1, <1>7 DEF Start, Tick, Probe, Recover, Instruct, Restore, EndRound
<1> QED
  BY <1>1, <1>2, <1>3, <1>4, <1>5, <1>6, <1>7, RowsOfPublish, RowsOfIngress, TasksAre
     DEF Next, Ingress, Refresh, Expire

-----------------------------------------------------------------------------
\* What a step does to the messages of operators, to the timers and the topic.
SourceChange(r) ==
    \/ source'[r] = source[r]
    \/ Arrive
    \/ /\ source[r] = "there" /\ source'[r] = "gone"
       /\ \/ \E t \in Tasks : task[t].at = "clean" /\ task[t].r = r
          \/ timer[r].at = "remove"
          \/ left'.hands # plan.hands
          \/ ~ alive'

TimerChange(r) ==
    \/ timer'[r].at \notin {"remove", "drop"}
    \/ timer[r].at \in {"remove", "drop"}
    \/ rows[r].state = "pending" /\ rows' = rows

TopicChange ==
    \/ alive' = alive /\ topic' = topic
    \/ ~ alive' /\ topic' = topic /\ \A r \in Responses : source'[r] # "there"
    \/ ~ alive /\ source' = source

LEMMA SourceGoes ==
  ASSUME IInv, NEW q \in Responses, source' = [source EXCEPT ![q] = Gone(@)]
  PROVE  \A r \in Responses :
            source'[r] = source[r] \/ (r = q /\ source[r] = "there" /\ source'[r] = "gone")
  BY DEF IInv, Messages, Gone

LEMMA HandSpent ==
  ASSUME IInv, Budget, Spend("hands")
  PROVE  left'.hands # plan.hands
  BY Natural DEF Budget, Spend

LEMMA SourceChanges ==
  ASSUME IInv, Budget, Next, NEW r \in Responses
  PROVE  SourceChange(r)
<1>1. CASE source' = source
  BY <1>1 DEF SourceChange
<1>2. ASSUME NEW t \in Tasks, Clean(t) \/ CleanFails(t)
      PROVE  SourceChange(r)
  <2>1. task[t].at = "clean"
    BY <1>2 DEF Clean, CleanFails, At
  <2>2. task[t].r \in Responses
    BY <2>1 DEF IInv, Held, GoodTask, Busy, Publishing
  <2>3. source' = source \/ source' = [source EXCEPT ![task[t].r] = Gone(@)]
    BY <1>2 DEF Clean, CleanFails
  <2> QED
    BY <1>1, <2>1, <2>2, <2>3, SourceGoes DEF SourceChange
<1>3. ASSUME NEW q \in Responses, RemoveSource(q)
      PROVE  SourceChange(r)
  BY <1>3, SourceGoes DEF SourceChange, RemoveSource
<1>4. CASE RemoveByHand
  <2>1. left'.hands # plan.hands
    BY <1>4, HandSpent DEF RemoveByHand
  <2> QED
    BY <1>4, <2>1 DEF RemoveByHand, SourceChange, IInv, Messages
<1>5. CASE DeleteTopic
  BY <1>5 DEF DeleteTopic, SourceChange, Gone, IInv, Messages
<1>6. CASE Arrive
  BY <1>6 DEF SourceChange
<1>7. ASSUME NEW t \in Tasks,
             Edit(t) \/ SendCopy(t) \/ Record(t) \/ Complete(t) \/ CallFails(t) \/ AnswerLost(t)
      PROVE  source' = source
  BY <1>7 DEF Edit, SendCopy, Record, Complete, CallFails, AnswerLost, telegram
<1>8. ASSUME \/ Begin \/ Finish \/ LockRecord \/ Withdraw \/ SavePending \/ Warn \/ Erase
             \/ ClearPublication \/ EraseFails \/ Crash
      PROVE  source' = source
  BY <1>8 DEF Begin, Finish, LockRecord, Withdraw, SavePending, Warn, Erase, ClearPublication,
              EraseFails, Crash, telegram
<1>9. ASSUME \/ Start \/ Tick \/ Probe \/ Recover \/ Discard \/ Instruct \/ Cleanup \/ Restore
             \/ EndRound \/ \E q \in Responses : Wake(q) \/ DropRow(q) \/ RemoveFails(q)
      PROVE  source' = source
  BY <1>9 DEF Start, Tick, Probe, Recover, Discard, Instruct, Cleanup, Restore, EndRound,
              Wake, DropRow, RemoveFails, telegram
<1> QED
  BY <1>1, <1>2, <1>3, <1>4, <1>5, <1>6, <1>7, <1>8, <1>9, TasksAre
     DEF Next, Ingress, Refresh, Publish, Expire

LEMMA TimerChanges ==
  ASSUME IInv, Next, NEW r \in Responses
  PROVE  TimerChange(r)
<1>1. CASE timer' = timer
  BY <1>1 DEF TimerChange
<1>2. CASE \E q \in Responses : Expire(q) \/ RemoveFails(q)
  BY <1>2 DEF Expire, Wake, RemoveSource, DropRow, RemoveFails, Expires, NoTimer, TimerChange, IInv,
              Types, Timer
<1>3. CASE Warn \/ Begin
  BY <1>3 DEF Warn, Begin, NoTimer, TimerChange, IInv, Types
<1>4. CASE Crash \/ Discard \/ EndRound
  BY <1>4 DEF Crash, Discard, EndRound, NoTimer, TimerChange
<1>5. ASSUME NEW t \in Tasks, Publish(t) \/ CallFails(t) \/ AnswerLost(t) \/ CleanFails(t)
      PROVE  timer' = timer
  BY <1>5 DEF Publish, Edit, SendCopy, Record, Clean, Complete, CallFails, AnswerLost, CleanFails
<1>6. ASSUME \/ Finish \/ LockRecord \/ Withdraw \/ SavePending \/ Erase
             \/ ClearPublication \/ EraseFails \/ Arrive \/ RemoveByHand \/ DeleteTopic
      PROVE  timer' = timer
  BY <1>6 DEF Finish, LockRecord, Withdraw, SavePending, Erase, ClearPublication,
              EraseFails, Arrive, RemoveByHand, DeleteTopic
<1>7. ASSUME \/ Start \/ Tick \/ Probe \/ Recover \/ Instruct \/ Cleanup \/ Restore
      PROVE  timer' = timer
  BY <1>7 DEF Start, Tick, Probe, Recover, Instruct, Cleanup, Restore
<1> QED
  BY <1>1, <1>2, <1>3, <1>4, <1>5, <1>6, <1>7, TasksAre DEF Next, Ingress, Refresh

LEMMA TopicChanges ==
  ASSUME IInv, Next, task["refresh"].at = "recover" => ~ alive
  PROVE  TopicChange
<1>1. CASE UNCHANGED <<alive, topic>>
  BY <1>1 DEF TopicChange
<1>2. CASE DeleteTopic
  BY <1>2 DEF DeleteTopic, TopicChange, Gone, IInv, Messages
<1>3. CASE Start
  BY <1>3 DEF Start, TopicChange
<1>4. CASE Recover
  BY <1>4 DEF Recover, At, TopicChange
<1>5. ASSUME NEW t \in Tasks, Publish(t) \/ CallFails(t) \/ AnswerLost(t) \/ CleanFails(t)
      PROVE  UNCHANGED <<alive, topic>>
  BY <1>5 DEF Publish, Edit, SendCopy, Record, Clean, Complete, CallFails, AnswerLost, CleanFails,
              telegram
<1>6. ASSUME \/ Finish \/ LockRecord \/ Withdraw \/ SavePending \/ Erase \/ Begin \/ Warn
             \/ ClearPublication \/ EraseFails \/ Arrive \/ RemoveByHand \/ Crash
      PROVE  UNCHANGED <<alive, topic>>
  BY <1>6 DEF Finish, LockRecord, Withdraw, SavePending, Erase, Begin, Warn, ClearPublication,
              EraseFails, Arrive, RemoveByHand, Crash, telegram
<1>7. ASSUME \/ Tick \/ Probe \/ Discard \/ Instruct \/ Cleanup \/ Restore \/ EndRound
             \/ \E q \in Responses : Expire(q) \/ RemoveFails(q)
      PROVE  UNCHANGED <<alive, topic>>
  BY <1>7 DEF Tick, Probe, Discard, Instruct, Cleanup, Restore, EndRound, Expire, Wake,
              RemoveSource, DropRow, RemoveFails, telegram
<1> QED
  BY <1>1, <1>2, <1>3, <1>4, <1>5, <1>6, <1>7, TasksAre DEF Next, Ingress, Refresh

-----------------------------------------------------------------------------
\* Who takes a copy away.
CopyLost(c) ==
    \/ task["ingress"].at = "withdraw" /\ c.id = task["ingress"].row.published
    \/ task["ingress"].at = "erase" /\ c.id = task["ingress"].copy
    \/ task["refresh"].at = "cleanup" /\ \E q \in task["refresh"].todo : c.id = rows[q].published
    \/ left'.hands # plan.hands
    \/ ~ alive'

LEMMA CopiesLost ==
  ASSUME IInv, Budget, Next, NEW c \in copies, c \notin copies'
  PROVE  CopyLost(c)
<1>1. ASSUME NEW t \in Tasks, Publish(t) \/ CallFails(t) \/ AnswerLost(t) \/ CleanFails(t)
      PROVE  copies \subseteq copies'
  BY <1>1 DEF Publish, Edit, SendCopy, Record, Clean, Complete, CallFails, AnswerLost, CleanFails,
              telegram
<1>2. ASSUME \/ Begin \/ Finish \/ LockRecord \/ SavePending \/ Warn
             \/ ClearPublication \/ EraseFails \/ Crash \/ Arrive
      PROVE  copies' = copies
  BY <1>2 DEF Begin, Finish, LockRecord, SavePending, Warn, ClearPublication, EraseFails, Crash,
              Arrive, telegram
<1>3. ASSUME \/ Start \/ Tick \/ Probe \/ Recover \/ Discard \/ Instruct \/ Restore \/ EndRound
             \/ \E q \in Responses : Expire(q) \/ RemoveFails(q)
      PROVE  copies' = copies
  BY <1>3 DEF Start, Tick, Probe, Recover, Discard, Instruct, Restore, EndRound, Expire, Wake,
              RemoveSource, DropRow, RemoveFails, telegram
<1>4. CASE Withdraw \/ Erase
  BY <1>4 DEF Withdraw, Erase, Without, CopyLost, At
<1>5. CASE Cleanup
  BY <1>5 DEF Cleanup, Without, CopyLost, At
<1>6. CASE RemoveByHand
  BY <1>6, HandSpent DEF RemoveByHand, CopyLost
<1>7. CASE DeleteTopic
  BY <1>7 DEF DeleteTopic, CopyLost
<1> QED
  BY <1>1, <1>2, <1>3, <1>4, <1>5, <1>6, <1>7, TasksAre DEF Next, Ingress, Refresh

\* How a task comes to record a copy, to remove the source, to complete the row.
PublishStep(t) ==
    /\ task'[t].at = "record" => \/ task'[t] = task[t]
                                 \/ [id |-> sent + 1, r |-> task'[t].r] \in copies'
    /\ task'[t].at = "clean" =>
         \/ task'[t] = task[t]
         \/ task[t].at = "edit" /\ copies' = copies /\ \E c \in copies : c.id = task[t].copy
         \/ task[t].at = "record" /\ copies' = copies /\ task'[t].r = task[t].r
         \/ rows[task'[t].r].current /\ rows' = rows /\ task'[t].r \in Responses
    /\ task'[t].at = "complete" =>
         \/ task'[t] = task[t]
         \/ task[t].at = "clean" /\ task'[t].r = task[t].r
            /\ source' = [source EXCEPT ![task[t].r] = Gone(@)]

LEMMA Publishes1 ==
  ASSUME IInv, NEW t \in Tasks, Publish(t) \/ CallFails(t) \/ AnswerLost(t) \/ CleanFails(t)
  PROVE  \A u \in Tasks : PublishStep(u)
<1>1. ASSUME Others(t), task'[t].at \notin {"record", "clean", "complete"}
      PROVE  \A u \in Tasks : PublishStep(u)
  BY <1>1 DEF Others, PublishStep
<1>2. CASE Raise(t)
  BY <1>1, <1>2, RaiseRests
<1>3. CASE Edit(t)
  <2>1. Keeps(t) /\ task'[t].at = AfterEdit(\E c \in copies : c.id = task[t].copy)
    BY <1>3, GoesKeeps DEF Edit
  <2>2. task[t].at = "edit" /\ copies' = copies
    BY <1>3 DEF Edit, At, telegram
  <2> QED
    BY <2>1, <2>2 DEF Keeps, Others, PublishStep, AfterEdit
<1>4. CASE SendCopy(t) /\ alive
  <2>1. /\ task' = [task EXCEPT ![t].at = "record", ![t].copy = sent + 1]
        /\ [id |-> sent + 1, r |-> task[t].r] \in copies'
    BY <1>4 DEF SendCopy
  <2>2. /\ \A u \in Tasks : u # t => task'[u] = task[u]
        /\ task'[t].at = "record" /\ task'[t].r = task[t].r
    BY <2>1, Sent DEF IInv
  <2> QED
    BY <2>1, <2>2 DEF PublishStep
<1>5. CASE Record(t)
  <2>1. Keeps(t) /\ task'[t].at = "clean" /\ task[t].at = "record" /\ copies' = copies
    BY <1>5, GoesKeeps DEF Record, At, telegram
  <2> QED
    BY <2>1 DEF Keeps, Others, PublishStep
<1>6. CASE Clean(t)
  <2>1. /\ Keeps(t) /\ task'[t].at = "complete" /\ task[t].at = "clean"
        /\ source' = [source EXCEPT ![task[t].r] = Gone(@)]
    BY <1>6, GoesKeeps DEF Clean, At
  <2> QED
    BY <2>1 DEF Keeps, Others, PublishStep
<1>7. CASE Complete(t) /\ ~ Raise(t)
  <2>1. Goto(t, Finished(t))
    BY <1>7 DEF Complete
  <2>2. Keeps(t) /\ task'[t].at \in {"finish", "restore"}
    BY <2>1, GoesKeeps DEF Finished
  <2> QED
    BY <1>1, <2>2 DEF Keeps
<1> QED
  BY <1>2, <1>3, <1>4, <1>5, <1>6, <1>7 DEF Publish, SendCopy, CallFails, AnswerLost, CleanFails

\* A task that publishes is moved by its own calls only, or starts again.
LEMMA OthersWait ==
  ASSUME IInv, Next, NEW t \in Tasks, task[t].at \in Publishing, task'[t] # task[t],
         task'[t].at \in Busy
  PROVE  \E u \in Tasks : Publish(u) \/ CallFails(u) \/ AnswerLost(u) \/ CleanFails(u)
<1>1. CASE \/ Begin \/ Finish \/ LockRecord \/ Withdraw \/ SavePending \/ Warn
           \/ Erase \/ ClearPublication \/ EraseFails
  <2>1. task["ingress"].at \notin Publishing
    BY <1>1 DEF Begin, Finish, LockRecord, Withdraw, SavePending, Warn, Erase, ClearPublication,
                EraseFails, At, Publishing
  <2>2. CASE Warn
    <3>1. Goto("ingress", "finish") \/ Raise("ingress")
      BY <2>2 DEF Warn
    <3>2. Others("ingress")
      BY <3>1, GoesKeeps, RaiseRests, TasksAre DEF Keeps
    <3> QED
      BY <2>1, <3>2 DEF Others, Tasks
  <2>3. CASE LockRecord
    <3>1. \/ Goto("ingress", "finish")
          \/ StartPublish("ingress", task["ingress"].r, FALSE, TRUE)
      BY <2>3 DEF LockRecord
    <3>2. Goto("ingress", "finish") => Others("ingress")
      BY GoesKeeps, TasksAre DEF Keeps
    <3>3. ASSUME StartPublish("ingress", task["ingress"].r, FALSE, TRUE)
          PROVE  task'["refresh"] = task["refresh"]
      BY <3>3, TasksAre DEF StartPublish, IInv, Types
    <3> QED
      BY <2>1, <3>1, <3>2, <3>3 DEF Others, Tasks
  <2>4. CASE ~ Warn /\ ~ LockRecord
    <3>1. task'["refresh"] = task["refresh"]
      BY <1>1, <2>4, TasksAre DEF Begin, Finish, Withdraw, SavePending, Erase, ClearPublication,
                  EraseFails, Goto, IInv, Types
    <3> QED
      BY <2>1, <3>1 DEF Tasks
  <2> QED
    BY <2>2, <2>3, <2>4
<1>2. CASE \/ Start \/ Tick \/ Probe \/ Recover \/ Discard \/ Instruct
           \/ Cleanup \/ Restore \/ EndRound
  <2>1. task["refresh"].at \notin Publishing
    BY <1>2 DEF Start, Tick, Probe, Recover, Discard, Instruct, Cleanup, Restore, EndRound, At,
                Publishing
  <2>2. task'["ingress"] = task["ingress"]
    BY <1>2, TasksAre DEF Start, Tick, Probe, Recover, Discard, Instruct, Cleanup, Restore,
                EndRound, Goto, ToCleanup, StartPublish, IInv, Types
  <2> QED
    BY <2>1, <2>2 DEF Tasks
<1>3. CASE Arrive \/ RemoveByHand \/ DeleteTopic \/ \E r \in Responses : Expire(r) \/ RemoveFails(r)
  BY <1>3 DEF Arrive, RemoveByHand, DeleteTopic, Expire, Wake, RemoveSource, DropRow, RemoveFails
<1>4. CASE Crash
  BY <1>4 DEF Crash, Tasks, Idle, Busy, Publishing, Erasing, Rejecting
<1> QED
  BY <1>1, <1>2, <1>3, <1>4, TasksAre DEF Next, Ingress, Refresh

LEMMA PublishSteps ==
  ASSUME IInv, Next, NEW t \in Tasks
  PROVE  PublishStep(t)
<1>1. CASE \E u \in Tasks : Publish(u) \/ CallFails(u) \/ AnswerLost(u) \/ CleanFails(u)
  BY <1>1, Publishes1
<1>2. CASE task'[t].at \notin {"record", "clean", "complete"} \/ task'[t] = task[t]
  BY <1>2 DEF PublishStep
<1>3. CASE /\ ~ \E u \in Tasks : Publish(u) \/ CallFails(u) \/ AnswerLost(u) \/ CleanFails(u)
           /\ task'[t].at \in {"record", "clean", "complete"} /\ task'[t] # task[t]
  <2>1. task'[t].at \in Busy /\ task'[t].at \in Publishing
    BY <1>3 DEF Busy, Publishing
  <2>2. task[t].at \notin Publishing
    BY <1>3, <2>1, OthersWait
  <2>3. task'[t].at = "clean" /\ rows[task'[t].r].current /\ rows' = rows /\ task'[t].r \in Responses
    BY <1>3, <2>1, <2>2, Hands DEF Hand
  <2> QED
    BY <2>3 DEF PublishStep
<1> QED
  BY <1>1, <1>2, <1>3

-----------------------------------------------------------------------------
LEMMA InboxChanges ==
  ASSUME IInv, Next
  PROVE  inbox' = inbox \/ Arrive
<1>1. ASSUME NEW t \in Tasks, Publish(t) \/ CallFails(t) \/ AnswerLost(t) \/ CleanFails(t)
      PROVE  inbox' = inbox
  BY <1>1 DEF Publish, Edit, SendCopy, Record, Clean, Complete, CallFails, AnswerLost, CleanFails,
              Raise, updates
<1>2. ASSUME \/ Finish \/ LockRecord \/ Withdraw \/ SavePending \/ Erase \/ Begin \/ Warn
             \/ ClearPublication \/ EraseFails \/ RemoveByHand \/ Crash \/ DeleteTopic
      PROVE  inbox' = inbox
  BY <1>2 DEF Finish, LockRecord, Withdraw, SavePending, Erase, Begin, Warn,
              ClearPublication, EraseFails, DeleteTopic, RemoveByHand, Crash, updates, Raise
<1>3. ASSUME \/ Start \/ Tick \/ Probe \/ Recover \/ Discard \/ Instruct \/ Cleanup \/ Restore
             \/ EndRound \/ \E q \in Responses : Expire(q) \/ RemoveFails(q)
      PROVE  inbox' = inbox
  BY <1>3 DEF Start, Tick, Probe, Recover, Discard, Instruct, Cleanup, Restore, EndRound, Expire,
              Wake, RemoveSource, DropRow, RemoveFails, updates
<1> QED
  BY <1>1, <1>2, <1>3, TasksAre DEF Next, Ingress, Refresh

\* How the refresh comes to remove copies, and to replace the topic.
RefreshStep ==
    \/ task'["refresh"] = task["refresh"]
    \/ task'["refresh"].at \notin {"cleanup", "recover"}
    \/ /\ task'["refresh"].at = "cleanup" /\ task["refresh"].at = "cleanup"
       /\ task'["refresh"].todo \subseteq task["refresh"].todo
    \/ task'["refresh"].at = "cleanup" /\ task'["refresh"].todo = Tombstones
    \/ task'["refresh"].at = "recover" /\ ~ alive /\ alive' = alive

LEMMA RefreshSteps ==
  ASSUME IInv, Next
  PROVE  RefreshStep
<1> DEFINE Fine == \/ task'["refresh"] = task["refresh"]
                   \/ task'["refresh"].at \notin {"cleanup", "recover"}
<1>1. ASSUME NEW t \in Tasks, Publish(t) \/ CallFails(t) \/ AnswerLost(t) \/ CleanFails(t)
      PROVE  Fine
  <2>1. CASE Raise(t)
    BY <2>1, RaiseRests, TasksAre DEF Others
  <2>2. CASE SendCopy(t) /\ ~ Raise(t)
    <3>1. task' = [task EXCEPT ![t].at = "record", ![t].copy = sent + 1]
      BY <2>2 DEF SendCopy
    <3>2. (\A u \in Tasks : u # t => task'[u] = task[u]) /\ task'[t].at = "record"
      BY <3>1, Sent DEF IInv
    <3> QED
      BY <3>2, TasksAre
  <2>3. CASE \E label \in {"clean", "send", "complete", Finished(t)} : Goto(t, label)
    BY <2>3, GoesKeeps, TasksAre DEF Keeps, Others, Finished
  <2> QED
    BY <1>1, <2>1, <2>2, <2>3 DEF Publish, Edit, AfterEdit, SendCopy, Record, Clean, Complete,
       CallFails, AnswerLost, CleanFails
<1>2. ASSUME \/ Begin \/ Finish \/ LockRecord \/ Withdraw \/ SavePending \/ Warn
             \/ Erase \/ ClearPublication \/ EraseFails
      PROVE  Fine
  <2>1. CASE Warn
    <3>1. Goto("ingress", "finish") \/ Raise("ingress")
      BY <2>1 DEF Warn
    <3>2. Others("ingress")
      BY <3>1, GoesKeeps, RaiseRests, TasksAre DEF Keeps
    <3> QED
      BY <3>2, TasksAre DEF Others
  <2>2. CASE LockRecord
    <3>1. \/ Goto("ingress", "finish")
          \/ StartPublish("ingress", task["ingress"].r, FALSE, TRUE)
      BY <2>2 DEF LockRecord
    <3>2. Goto("ingress", "finish") => task'["refresh"] = task["refresh"]
      BY GoesKeeps, TasksAre DEF Keeps, Others
    <3>3. ASSUME StartPublish("ingress", task["ingress"].r, FALSE, TRUE)
          PROVE  task'["refresh"] = task["refresh"]
      BY <3>3, TasksAre DEF StartPublish, IInv, Types
    <3> QED
      BY <3>1, <3>2, <3>3
  <2>3. CASE ~ Warn /\ ~ LockRecord
    <3>1. task'["refresh"] = task["refresh"]
      BY <1>2, <2>3, TasksAre DEF Begin, Finish, Withdraw, SavePending, Erase, ClearPublication,
                  EraseFails, Goto, IInv, Types
    <3> QED
      BY <3>1
  <2> QED
    BY <2>1, <2>2, <2>3
<1>3. ASSUME Start \/ Recover \/ Discard
      PROVE  Fine
  BY <1>3, GoesKeeps, TasksAre DEF Start, Recover, Discard
<1>4. CASE (Probe \/ Instruct) /\ ~ Fine
  <2>1. CASE \E replaced : ToCleanup(replaced)
    <3>1. task'["refresh"].at = "cleanup" /\ task'["refresh"].todo = Tombstones
      BY <2>1, TasksAre DEF ToCleanup, IInv, Types, Task
    <3> QED
      BY <3>1 DEF RefreshStep
  <2>2. CASE ~ alive /\ Goto("refresh", "recover")
    <3>1. alive' = alive /\ task'["refresh"].at = "recover"
      BY <1>4, <2>2, GoesKeeps, TasksAre DEF Probe, Instruct, telegram
    <3> QED
      BY <2>2, <3>1 DEF RefreshStep
  <2>3. CASE Goto("refresh", "discard")
    BY <1>4, <2>3, GoesKeeps, TasksAre
  <2> QED
    BY <1>4, <2>1, <2>2, <2>3 DEF Probe, Instruct
<1>5. CASE Cleanup
  <2>1. CASE \E q : task' = [task EXCEPT !["refresh"].todo = @ \ {q}]
    <3>1. PICK q : task' = [task EXCEPT !["refresh"].todo = @ \ {q}]
      BY <2>1
    <3>2. task'["refresh"].todo = task["refresh"].todo \ {q} /\ task["refresh"].at = "cleanup"
          /\ task'["refresh"].at = "cleanup"
      BY <1>5, <3>1, TasksAre DEF Cleanup, At, IInv, Types, Task
    <3> QED
      BY <3>2 DEF RefreshStep
  <2>2. CASE \E S : task' = [task EXCEPT !["refresh"].at = "restore", !["refresh"].todo = S]
    BY <2>2, TasksAre DEF IInv, Types, Task, RefreshStep
  <2> QED
    BY <1>5, <2>1, <2>2 DEF Cleanup
<1>6. ASSUME Restore
      PROVE  Fine
  <2>1. CASE \E q : task' = [task EXCEPT !["refresh"].todo = @ \ {q}]
    <3>1. task'["refresh"].at = "restore"
      BY <1>6, <2>1, TasksAre DEF Restore, At, IInv, Types, Task
    <3> QED
      BY <3>1
  <2>2. CASE \E q \in Responses : \E replaced, starting :
               StartPublish("refresh", q, replaced, starting)
    <3>1. PICK q \in Responses : \E replaced, starting : StartPublish("refresh", q, replaced, starting)
      BY <2>2
    <3> QED
      BY <3>1, Started, TasksAre DEF IInv
  <2>3. task["refresh"].todo \subseteq Responses
    BY TasksAre DEF IInv, Types, Task
  <2> QED
    BY <1>6, <2>1, <2>2, <2>3 DEF Restore
<1>7. ASSUME EndRound \/ Tick
      PROVE  Fine
  BY <1>7, TasksAre DEF EndRound, Tick, Idle, IInv, Types, Task
<1>8. ASSUME Arrive \/ RemoveByHand \/ DeleteTopic \/ \E r \in Responses : Expire(r) \/ RemoveFails(r)
      PROVE  Fine
  BY <1>8 DEF Arrive, RemoveByHand, DeleteTopic, Expire, Wake, RemoveSource, DropRow, RemoveFails
<1>9. ASSUME Crash
      PROVE  Fine
  BY <1>9 DEF Crash, Idle
<1>10. Fine => RefreshStep
  BY DEF RefreshStep
<1> QED
  BY <1>1, <1>2, <1>3, <1>4, <1>5, <1>6, <1>7, <1>8, <1>9, <1>10, TasksAre DEF Next, Ingress, Refresh

-----------------------------------------------------------------------------
(* The invariant.                                                          *)

\* A copy and whoever knows its number.
Owned ==
    /\ \A c, d \in copies : c.id = d.id => c = d
    /\ \A c \in copies :
        /\ \A r \in Responses : c.id = rows[r].published => c.r = r
        /\ \A i \in 1..Len(inbox) : c.id = inbox[i].copy => c.r = inbox[i].r
        /\ \A t \in Tasks :
            task[t].at \in Busy /\ c.id \in {task[t].copy, task[t].row.published}
                => c.r = task[t].r
    /\ \A t \in Tasks : task[t].at \in Busy => task[t].row.published <= sent

\* What the refresh believes.
Believed ==
    /\ task["refresh"].at = "cleanup"
         => \A r \in task["refresh"].todo : rows[r].state = "deleted"
    /\ task["refresh"].at = "recover" => ~ alive

\* The message of an operator: not yet sent, gone for good.
Unsent(r) ==
    /\ rows[r].state = "none"
    /\ \A i \in 1..Len(inbox) : inbox[i].r # r
    /\ \A c \in copies : c.r # r
    /\ \A t \in Tasks : task[t].at \in Busy => task[t].r # r
Sources ==
    /\ ~ alive => \A r \in Responses : source[r] # "there"
    /\ \A r \in Responses :
        /\ source[r] = "unsent" => Unsent(r)
        /\ rows[r].current => source[r] = "gone"
        /\ timer[r].at \in {"remove", "drop"} => rows[r].state # "valid"
    /\ \A t \in Tasks : task[t].at = "complete" => source[task[t].r] = "gone"

Spent(what) == plan[what] - left[what]
SpentTries == Spent("failures") + Spent("crashes")

\* The update in hand, and how often it was tried.
Trying ==
    /\ handled = Len(inbox) => attempts = 0
    /\ handled < Len(inbox) /\ Current.kind = "valid" =>
        /\ task["ingress"].at \in {"idle", "finish"} \union Working
        /\ task["ingress"].at \in Working => task["ingress"].r = Current.r
        /\ source[Current.r] = "there"
             => /\ attempts <= SpentTries + 1
                /\ task["ingress"].at = "idle" => attempts <= SpentTries

\* A valid response whose message is still there is in the hands of the ingress
\* worker, and nobody rejects it.
Pursued ==
    \A r \in Responses :
        rows[r].state = "valid" /\ source[r] = "there" =>
            /\ handled < Len(inbox)
            /\ Current.kind = "valid" /\ Current.r = r /\ Current.topic = topic
            /\ task["ingress"].at \in {"idle", "lock", "edit", "send", "record", "clean"}

Backed ==
    \A t \in Tasks :
        task[t].at \in Publishing /\ source[task[t].r] = "there" =>
            /\ rows[task[t].r].state = "valid"
            /\ task[t].at \in {"record", "clean"} /\ left.hands = plan.hands
                 => CopiesOf(task[t].r) # {}

Kept == /\ Budget /\ Copies /\ Owned /\ Believed /\ Sources
        /\ ~ MayGiveUp => Trying /\ Pursued /\ Backed

-----------------------------------------------------------------------------
\* What goes wrong was still to come.
LEMMA Spends ==
  ASSUME IInv, Budget, [Next]_vars
  PROVE  /\ \A what \in {"failures", "crashes", "topics", "hands"} : left'[what] <= left[what]
         /\ SpentTries <= SpentTries' /\ SpentTries \in Nat
         /\ Spend("failures") \/ Spend("crashes") => SpentTries' = SpentTries + 1
<1>1. plan' = plan
  BY EveryStep DEF Good, vars
<1>2. \/ left' = left
      \/ \E what \in {"failures", "crashes", "topics", "hands"} : Spend(what)
  BY LeftFalls
<1>3. \A what \in {"failures", "crashes", "topics", "hands"} :
         left[what] \in Nat /\ plan[what] \in Nat /\ left[what] <= plan[what]
  BY Natural DEF Budget
<1>4. ASSUME NEW what \in {"failures", "crashes", "topics", "hands"}, Spend(what)
      PROVE  /\ left'[what] = left[what] - 1
             /\ \A other \in {"failures", "crashes", "topics", "hands"} :
                  other # what => left'[other] = left[other]
  BY <1>1, <1>4, Spending
<1>5. \A what \in {"failures", "crashes", "topics", "hands"} : left'[what] <= left[what]
  BY <1>2, <1>3, <1>4
<1>6. SpentTries <= SpentTries' /\ SpentTries \in Nat
  <2>1. /\ left'.failures <= left.failures /\ left'.crashes <= left.crashes
        /\ left'.failures \in Int /\ left'.crashes \in Int
    BY <1>2, <1>3, <1>4, <1>5
  <2> QED
    BY <1>1, <1>3, <2>1 DEF SpentTries, Spent
<1>7. ASSUME Spend("failures") \/ Spend("crashes")
      PROVE  SpentTries' = SpentTries + 1
  BY <1>1, <1>3, <1>4, <1>7 DEF SpentTries, Spent
<1> QED
  BY <1>5, <1>6, <1>7

\* What a step does for the update in hand.
Begins ==
    /\ task["ingress"].at = "idle" /\ handled < Len(inbox)
    /\ handled' = handled /\ attempts' = attempts + 1
    /\ task'["ingress"].r = Current.r
    /\ Current.kind = "valid" =>
         /\ task'["ingress"].at \in {"lock", "finish"}
         /\ task'["ingress"].at = "finish" => Current.topic # topic \/ rows[Current.r].state = "deleted"
WorksOn ==
    /\ task["ingress"].at \in Busy
    /\ handled' = handled /\ attempts' = attempts
    /\ task'["ingress"].r = task["ingress"].r
    /\ task["ingress"].at \in Working =>
         \/ task'["ingress"].at \in Publishing
         \/ /\ task'["ingress"].at = "finish"
            /\ task["ingress"].at = "complete" \/ rows[task["ingress"].r].state # "valid"
GivesUp ==
    /\ handled' = IF attempts >= MaxAttempts THEN handled + 1 ELSE handled
    /\ attempts' = IF attempts >= MaxAttempts THEN 0 ELSE attempts
Rests ==
    /\ task'["ingress"].at = "idle"
    /\ \/ task["ingress"].at = "finish" /\ handled' = handled + 1 /\ attempts' = 0
       \/ handled' = handled /\ attempts' = attempts /\ Spend("crashes")
       \/ /\ GivesUp /\ task["ingress"].at # "idle"
          /\ \/ Spend("failures")
             \/ task["ingress"].at \in {"warn", "complete"}
             \/ task["ingress"].at = "send" /\ ~ alive
Progress ==
    \/ UNCHANGED <<handled, attempts>> /\ task'["ingress"] = task["ingress"]
    \/ Begins \/ WorksOn \/ Rests

LEMMA IngressRaises ==
  ASSUME IInv, Raise("ingress"), task["ingress"].at # "idle",
         \/ Spend("failures")
         \/ task["ingress"].at \in {"warn", "complete"}
         \/ task["ingress"].at = "send" /\ ~ alive
  PROVE  Rests
<1>1. task'["ingress"].at = "idle"
  BY RaiseRests, TasksAre
<1> QED
  BY <1>1 DEF Rests, GivesUp, Raise

LEMMA RefreshRaises ==
  ASSUME IInv, Raise("refresh")
  PROVE  Progress
<1>1. task'["ingress"] = task["ingress"]
  BY RaiseRests, TasksAre DEF Others
<1> QED
  BY <1>1 DEF Raise, updates, Progress

LEMMA ProgressOfPublish ==
  ASSUME IInv, NEW t \in Tasks, Publish(t) \/ CallFails(t) \/ AnswerLost(t) \/ CleanFails(t)
  PROVE  Progress
<1>1. CASE Raise(t)
  <2>1. CASE t = "refresh"
    BY <1>1, <2>1, RefreshRaises
  <2>2. CASE t = "ingress"
    <3>1. task["ingress"].at # "idle"
      BY <2>2 DEF Publish, Edit, SendCopy, Record, Clean, Complete, AnswerLost, CleanFails,
         CallFails, At
    <3>2. \/ Spend("failures")
          \/ task["ingress"].at \in {"warn", "complete"}
          \/ task["ingress"].at = "send" /\ ~ alive
      <4>1. CASE Publish(t)
        <5>1. CASE SendCopy(t)
          <6>1. alive => task'[t].at = "record"
            <7>1. alive => task' = [task EXCEPT ![t].at = "record", ![t].copy = sent + 1]
              BY <5>1 DEF SendCopy
            <7> QED
              BY <7>1, Sent DEF IInv
          <6> QED
            BY <1>1, <2>2, <5>1, <6>1, RaiseRests DEF SendCopy, At
        <5>2. CASE Complete(t)
          BY <2>2, <5>2 DEF Complete, At
        <5>3. CASE Edit(t) \/ Record(t) \/ Clean(t)
          <6>1. \E label \in {"clean", "send", "complete"} : Goto(t, label)
            BY <5>3 DEF Edit, AfterEdit, Record, Clean
          <6> QED
            BY <1>1, <6>1, GoesKeeps, RaiseRests
        <5> QED
          BY <4>1, <5>1, <5>2, <5>3 DEF Publish
      <4>2. CASE CallFails(t) \/ AnswerLost(t) \/ CleanFails(t)
        BY <4>2 DEF CallFails, AnswerLost, CleanFails
      <4> QED
        BY <4>1, <4>2
    <3> QED
      BY <1>1, <2>2, <3>1, <3>2, IngressRaises DEF Progress
  <2> QED
    BY <2>1, <2>2 DEF Tasks
<1>2. CASE ~ Raise(t)
  <2>1. Publish(t)
    BY <1>2 DEF CallFails, AnswerLost, CleanFails
  <2>2. UNCHANGED <<handled, attempts>>
    BY <1>2, <2>1 DEF Publish, Edit, SendCopy, Record, Clean, Complete, updates
  <2>3. /\ Others(t) /\ task[t].at \in Publishing /\ task'[t].r = task[t].r
        /\ \/ task'[t].at \in Publishing
           \/ task[t].at = "complete" /\ task'[t].at = Finished(t)
    <3>1. CASE SendCopy(t)
      <4>1. task' = [task EXCEPT ![t].at = "record", ![t].copy = sent + 1] /\ task[t].at = "send"
        BY <1>2, <3>1 DEF SendCopy, At
      <4> QED
        BY <4>1, Sent DEF IInv, Others, Publishing
    <3>2. CASE Edit(t) \/ Record(t) \/ Clean(t)
      <4>1. /\ \E label \in {"clean", "send", "complete"} : Goto(t, label)
            /\ task[t].at \in Publishing
        BY <3>2 DEF Edit, AfterEdit, Record, Clean, At, Publishing
      <4> QED
        BY <4>1, GoesKeeps DEF Keeps, Publishing
    <3>3. CASE Complete(t)
      <4>1. Goto(t, Finished(t)) /\ task[t].at = "complete"
        BY <1>2, <3>3 DEF Complete, At
      <4> QED
        BY <4>1, GoesKeeps DEF Keeps, Publishing
    <3> QED
      BY <2>1, <3>1, <3>2, <3>3 DEF Publish
  <2>4. CASE t = "ingress"
    BY <2>2, <2>3, <2>4 DEF Progress, WorksOn, Finished, Busy
  <2>5. CASE t = "refresh"
    BY <2>2, <2>3, <2>5, TasksAre DEF Progress, Others
  <2> QED
    BY <2>4, <2>5 DEF Tasks
<1> QED
  BY <1>1, <1>2

LEMMA ProgressOfIngress ==
  ASSUME IInv, \/ Begin \/ Finish \/ LockRecord \/ Withdraw \/ SavePending \/ Warn
               \/ Erase \/ ClearPublication \/ EraseFails
  PROVE  Progress
<1>1. CASE Begin
  <2> DEFINE u == inbox[handled + 1]
  <2>1. u \in Update /\ task["ingress"].at = "idle" /\ handled < Len(inbox)
    <3>1. handled + 1 \in 1..Len(inbox)
      BY <1>1 DEF Begin, IInv, Queue
    <3> QED
      BY <1>1, <3>1, CopiesInInbox DEF Begin, At
  <2>2. PICK label \in {"finish", "lock", "withdraw", "erase"} :
          /\ task' = [task EXCEPT !["ingress"] = [Idle EXCEPT !.at = label, !.r = u.r,
                                                   !.row = rows[u.r], !.copy = u.copy]]
          /\ u.kind = "valid" => label \in {"lock", "finish"}
          /\ u.kind = "valid" /\ label = "finish" => u.topic # topic \/ rows[u.r].state = "deleted"
    BY <1>1 DEF Begin, Refuses
  <2>3. u.r \in Responses /\ u.copy \in Nat
    BY <2>1 DEF Update
  <2>4. label \in Alone \union Busy
    BY DEF Alone, Busy, Publishing, Erasing, Rejecting
  <2>6. handled' = handled /\ attempts' = attempts + 1
    BY <1>1 DEF Begin
  <2> HIDE DEF u
  <2>5. task'["ingress"].at = label /\ task'["ingress"].r = u.r
    BY <2>2, <2>3, <2>4, Takes
  <2> QED
    BY <2>1, <2>2, <2>5, <2>6 DEF Progress, Begins, Current, u
<1>2. CASE Finish
  <2>1. task'["ingress"] = Idle
    BY <1>2, TasksAre DEF Finish, IInv, Types
  <2> QED
    BY <1>2, <2>1 DEF Finish, At, Idle, Progress, Rests
<1>3. CASE LockRecord
  <2>1. task["ingress"].at = "lock" /\ UNCHANGED <<handled, attempts>>
    BY <1>3 DEF LockRecord, At, updates
  <2>2. PICK q \in Responses : q = task["ingress"].r
    BY <2>1, TasksAre DEF IInv, Held, GoodTask, Busy
  <2>3. CASE Goto("ingress", "finish") /\ rows[q].state # "valid"
    <3>1. task'["ingress"].at = "finish" /\ task'["ingress"].r = q
      BY <2>2, <2>3, GoesKeeps, TasksAre DEF Keeps
    <3> QED
      BY <2>1, <2>2, <2>3, <3>1 DEF Progress, WorksOn, Busy
  <2>4. CASE StartPublish("ingress", q, FALSE, TRUE)
    <3>1. task'["ingress"].at \in Publishing /\ task'["ingress"].r = q
      BY <2>4, Started, TasksAre DEF IInv, Publishing
    <3> QED
      BY <2>1, <2>2, <3>1 DEF Progress, WorksOn, Busy
  <2> QED
    BY <1>3, <2>2, <2>3, <2>4 DEF LockRecord
<1>4. CASE Withdraw \/ Erase \/ ClearPublication \/ EraseFails
  <2>1. PICK label : /\ Goto("ingress", label) /\ task["ingress"].at \in Busy
                     /\ task["ingress"].at \notin Working
                     /\ UNCHANGED <<handled, attempts>>
    BY <1>4 DEF Withdraw, Erase, ClearPublication, EraseFails, At, Busy, Erasing, Rejecting,
                Publishing, Working, updates
  <2> QED
    BY <2>1, GoesKeeps, TasksAre DEF Keeps, Progress, WorksOn
<1>5. CASE SavePending
  <2>1. /\ task["ingress"].at \in Busy /\ task["ingress"].at \notin Working
        /\ UNCHANGED <<handled, attempts>>
    BY <1>5 DEF SavePending, At, Busy, Rejecting, Working, Publishing, updates
  <2>2. PICK n \in Nat : task' = [task EXCEPT !["ingress"].at = "warn", !["ingress"].row.deadline = n]
    <3>1. task["ingress"].row.deadline \in Nat /\ clock + 1 \in Nat
      BY TasksAre DEF IInv, Types, Task, Row
    <3> QED
      BY <1>5, <3>1 DEF SavePending
  <2>3. task'["ingress"].r = task["ingress"].r
    BY <2>2, Dated DEF IInv
  <2> QED
    BY <2>1, <2>3 DEF Progress, WorksOn
<1>6. CASE Warn
  <2>1. task["ingress"].at = "warn" /\ task["ingress"].at \in Busy /\ task["ingress"].at \notin Working
    BY <1>6 DEF Warn, At, Busy, Rejecting, Working, Publishing
  <2>2. \/ Goto("ingress", "finish") /\ UNCHANGED <<handled, attempts>>
        \/ Raise("ingress")
    BY <1>6 DEF Warn, updates
  <2>3. CASE Goto("ingress", "finish") /\ UNCHANGED <<handled, attempts>>
    BY <2>1, <2>3, GoesKeeps, TasksAre DEF Keeps, Progress, WorksOn
  <2>4. CASE Raise("ingress")
    BY <2>1, <2>4, IngressRaises DEF Progress
  <2> QED
    BY <2>2, <2>3, <2>4
<1> QED
  BY <1>1, <1>2, <1>3, <1>4, <1>5, <1>6

LEMMA Progresses ==
  ASSUME IInv, Next
  PROVE  Progress
<1>1. CASE \/ Start \/ Tick \/ Probe \/ Recover \/ Discard \/ Instruct
           \/ Cleanup \/ Restore \/ EndRound
  <2>1. task'["ingress"] = task["ingress"]
    BY <1>1, TasksAre DEF Start, Tick, Probe, Recover, Discard, Instruct, Cleanup, Restore,
                EndRound, Goto, ToCleanup, StartPublish, IInv, Types
  <2>2. UNCHANGED <<handled, attempts>>
    BY <1>1 DEF Start, Tick, Probe, Recover, Discard, Instruct, Cleanup, Restore, EndRound, updates
  <2> QED
    BY <2>1, <2>2 DEF Progress
<1>2. CASE Arrive \/ RemoveByHand \/ DeleteTopic \/ \E r \in Responses : Expire(r) \/ RemoveFails(r)
  BY <1>2 DEF Arrive, RemoveByHand, DeleteTopic, Expire, Wake, RemoveSource, DropRow, RemoveFails,
              updates, Progress
<1>3. CASE Crash
  <2>1. task'["ingress"].at = "idle"
    BY <1>3 DEF Crash, Idle
  <2> QED
    BY <1>3, <2>1 DEF Crash, updates, Progress, Rests
<1> QED
  BY <1>1, <1>2, <1>3, ProgressOfPublish, ProgressOfIngress, TasksAre DEF Next, Ingress, Refresh

-----------------------------------------------------------------------------
\* What an arriving message changes.
LEMMA Arrives ==
  ASSUME IInv, Arrive
  PROVE  /\ UNCHANGED <<left, rows, handled, attempts, copies, sent, alive, topic, task, timer>>
         /\ alive /\ Len(inbox') = Len(inbox) + 1
         /\ \A i \in 1..Len(inbox) : inbox'[i] = inbox[i]
         /\ \/ /\ \E c \in copies : /\ c.r = inbox'[Len(inbox) + 1].r
                                    /\ c.id = inbox'[Len(inbox) + 1].copy
               /\ source' = source
            \/ /\ inbox'[Len(inbox) + 1].copy = 0
               /\ source[inbox'[Len(inbox) + 1].r] # "gone"
               /\ source' = [source EXCEPT ![inbox'[Len(inbox) + 1].r] = "there"]
<1> DEFINE u == plan.updates[Len(inbox) + 1]
<1>1. Len(inbox) \in Nat /\ inbox \in Seq(Update)
  BY DEF IInv, Queue
<1>2. PICK new : /\ inbox' = Append(inbox, new)
                 /\ \/ /\ \E c \in copies : c.r = new.r /\ c.id = new.copy
                       /\ source' = source
                    \/ /\ new.copy = 0 /\ source[new.r] # "gone"
                       /\ source' = [source EXCEPT ![new.r] = "there"]
  <2>1. CASE u.kind = "delete"
    <3>1. PICK c \in copies : c.r = u.r /\ inbox' = Append(inbox, [r |-> u.r, kind |-> u.kind, copy |-> c.id,
                                                topic |-> topic])
      BY <2>1 DEF Arrive, CopiesOf
    <3>2. source' = source
      BY <2>1 DEF Arrive
    <3> QED
      BY <3>1, <3>2
  <2>2. CASE u.kind # "delete"
    BY <2>2 DEF Arrive
  <2> QED
    BY <2>1, <2>2
<1>3. /\ Len(inbox') = Len(inbox) + 1 /\ inbox'[Len(inbox) + 1] = new
      /\ \A i \in 1..Len(inbox) : inbox'[i] = inbox[i]
  BY <1>1, <1>2
<1>4. UNCHANGED <<left, rows, handled, attempts, copies, sent, alive, topic, task, timer>> /\ alive
  BY DEF Arrive
<1> QED
  BY <1>2, <1>3, <1>4

\* A copy is there already, or it is the next one.
LEMMA NextCopy ==
  ASSUME IInv, Next
  PROVE  \/ copies' \subseteq copies
         \/ \E t \in Tasks : /\ task[t].at = "send" /\ task[t].r \in Responses
                             /\ copies' = copies \union {[id |-> sent + 1, r |-> task[t].r]}
  BY CopiesGrow, Labels DEF IInv, Held, GoodTask, Publishing

LEMMA RowGrows ==
  ASSUME IInv, Next
  PROVE  /\ \A r \in Responses : rows[r].published \in 0..sent
         /\ \A t \in Tasks : task[t].copy \in 0..sent
         /\ \A c \in copies : c.id \in 1..sent /\ c.r \in Responses
         /\ sent \in Nat /\ sent' \in Nat /\ sent <= sent'
         /\ handled < Len(inbox) => handled + 1 \in 1..Len(inbox) /\ Current \in Update
<1>1. Grow
  BY EveryStep DEF Good
<1>2. handled < Len(inbox) => handled + 1 \in 1..Len(inbox) /\ Current \in Update
  <2>1. handled < Len(inbox) => handled + 1 \in 1..Len(inbox)
    BY DEF IInv, Queue
  <2> QED
    BY <2>1, CopiesInInbox DEF Current
<1>3. \A r \in Responses : rows[r].published \in Nat
  BY DEF IInv, Types, Row
<1>4. \A t \in Tasks : task[t].copy \in Nat
  BY DEF IInv, Types, Task
<1> QED
  BY <1>1, <1>2, <1>3, <1>4 DEF IInv, GoodRows, GoodRow, Held, GoodTask, Messages, Grow

LEMMA OwnedKept ==
  ASSUME IInv, Owned, Believed, Next
  PROVE  Owned'
<1>0. /\ \A t \in Tasks : Hand(t)
      /\ \A r \in Responses : RowChange(r)
  BY Hands, RowChanges DEF Believed
<1>1. \A c, d \in copies' : c.id = d.id => c = d
  BY NextCopy, RowGrows DEF Owned
<1>2. ASSUME NEW c \in copies', NEW r \in Responses, c.id = rows'[r].published
      PROVE  c.r = r
  <2>1. rows'[r].published \in 0..sent
    BY <1>0, RowGrows DEF RowChange, NoRow
  <2>2. c \in copies
    BY <1>2, <2>1, NextCopy, RowGrows
  <2>3. c.id # 0
    BY <2>2, RowGrows
  <2>4. rows'[r].published = rows[r].published => c.r = r
    BY <1>2, <2>2 DEF Owned
  <2>5. ASSUME NEW t \in Tasks, AtWork(t, r), rows'[r].published = task[t].copy
        PROVE  c.r = r
    BY <1>2, <2>2, <2>5 DEF Owned, AtWork
  <2> QED
    BY <1>0, <1>2, <2>3, <2>4, <2>5 DEF RowChange, NoRow
<1>3. ASSUME NEW c \in copies', NEW i \in 1..Len(inbox'), c.id = inbox'[i].copy
      PROVE  c.r = inbox'[i].r
  <2>1. CASE Arrive
    <3>1. Len(inbox) \in Nat
      BY DEF IInv, Queue
    <3>2. c \in copies /\ c.id # 0
      BY <2>1, Arrives, RowGrows
    <3>3. CASE i \in 1..Len(inbox)
      BY <1>3, <2>1, <3>2, <3>3, Arrives DEF Owned
    <3>4. CASE i = Len(inbox) + 1
      <4>1. PICK d \in copies : d.r = inbox'[i].r /\ d.id = inbox'[i].copy
        BY <1>3, <2>1, <3>2, <3>4, Arrives
      <4> QED
        BY <1>3, <3>2, <4>1 DEF Owned
    <3> QED
      BY <2>1, <3>1, <3>3, <3>4, Arrives
  <2>2. CASE inbox' = inbox
    <3>1. inbox[i].copy \in Nat /\ inbox[i].copy <= sent
      BY <2>2, CopiesInInbox
    <3>2. c \in copies
      BY <1>3, <2>2, <3>1, NextCopy, RowGrows
    <3> QED
      BY <1>3, <2>2, <3>2 DEF Owned
  <2> QED
    BY <2>1, <2>2, InboxChanges
<1>4. ASSUME NEW t \in Tasks, task'[t].at \in Busy
      PROVE  /\ \A c \in copies' : c.id \in {task'[t].copy, task'[t].row.published} => c.r = task'[t].r
             /\ task'[t].row.published <= sent'
  <2>1. CASE task'[t] = task[t]
    <3>1. task[t].row.published \in Nat
      BY DEF IInv, Types, Task, Row
    <3>2. task[t].row.published <= sent
      BY <1>4, <2>1 DEF Owned
    <3> QED
      BY <1>4, <2>1, <3>1, <3>2, NextCopy, RowGrows DEF Owned
  <2>2. CASE /\ task[t].at \in Busy
             /\ task'[t].r = task[t].r
             /\ task'[t].row.published = task[t].row.published
             /\ \/ task'[t].copy = task[t].copy
                \/ /\ task[t].at = "send"
                   /\ task'[t].copy = sent + 1
                   /\ copies' = copies \union {[id |-> sent + 1, r |-> task[t].r]}
    <3>1. task[t].row.published \in Nat
      BY DEF IInv, Types, Task, Row
    <3>2. task[t].row.published <= sent
      BY <2>2 DEF Owned
    <3>3. CASE task'[t].copy = task[t].copy
      BY <2>2, <3>1, <3>2, <3>3, NextCopy, RowGrows DEF Owned
    <3>4. CASE /\ task'[t].copy = sent + 1
               /\ copies' = copies \union {[id |-> sent + 1, r |-> task[t].r]}
      BY <2>2, <3>1, <3>2, <3>4, RowGrows DEF Owned
    <3> QED
      BY <2>2, <3>3, <3>4
  <2>3. CASE /\ t = "ingress" /\ handled < Len(inbox)
             /\ task'[t].r = Current.r /\ task'[t].row = rows[Current.r] /\ task'[t].copy = Current.copy
    <3>1. handled + 1 \in 1..Len(inbox) /\ Current.r \in Responses
      BY <2>3, RowGrows DEF Update
    <3>2. Current.copy \in Nat /\ Current.copy <= sent
      BY <3>1, CopiesInInbox DEF Current
    <3>3. \A c \in copies' : c.id \in {task'[t].copy, task'[t].row.published} => c \in copies
      BY <2>3, <3>1, <3>2, NextCopy, RowGrows
    <3>4. \A c \in copies : c.id = Current.copy => c.r = Current.r
      BY <3>1 DEF Owned, Current
    <3> QED
      BY <2>3, <3>1, <3>3, <3>4, RowGrows DEF Owned
  <2>4. CASE /\ task'[t].r \in Responses
             /\ task'[t].row = rows[task'[t].r]
             /\ task'[t].copy \in {0, rows[task'[t].r].published}
    <3>1. \A c \in copies' : c.id \in {task'[t].copy, task'[t].row.published} => c \in copies
      BY <2>4, NextCopy, RowGrows
    <3> QED
      BY <2>4, <3>1, RowGrows DEF Owned
  <2> QED
    BY <1>0, <1>4, <2>1, <2>2, <2>3, <2>4 DEF Hand
<1> QED
  BY <1>1, <1>2, <1>3, <1>4 DEF Owned

\* Only a new topic is there again.
LEMMA OnlyReplaced ==
  ASSUME IInv, Next, ~ alive, alive'
  PROVE  Start \/ Recover
<1>1. ASSUME NEW t \in Tasks, Publish(t) \/ CallFails(t) \/ AnswerLost(t) \/ CleanFails(t)
      PROVE  alive' = alive
  BY <1>1 DEF Publish, Edit, SendCopy, Record, Clean, Complete, CallFails, AnswerLost, CleanFails,
              telegram
<1>2. ASSUME \/ Finish \/ LockRecord \/ Withdraw \/ SavePending \/ Erase \/ Begin \/ Warn
             \/ ClearPublication \/ EraseFails \/ Arrive \/ RemoveByHand \/ Crash \/ DeleteTopic
      PROVE  ~ alive'
  BY <1>2 DEF Finish, LockRecord, Withdraw, SavePending, Erase, Begin, Warn,
              ClearPublication, EraseFails, Arrive, RemoveByHand, Crash, DeleteTopic, telegram
<1>3. ASSUME \/ Tick \/ Probe \/ Discard \/ Instruct \/ Cleanup \/ Restore \/ EndRound
             \/ \E q \in Responses : Expire(q) \/ RemoveFails(q)
      PROVE  alive' = alive
  BY <1>3 DEF Tick, Probe, Discard, Instruct, Cleanup, Restore, EndRound, Expire, Wake,
              RemoveSource, DropRow, RemoveFails, telegram
<1> QED
  BY <1>1, <1>2, <1>3, TasksAre DEF Next, Ingress, Refresh

LEMMA BelievedKept ==
  ASSUME IInv, Believed, Next
  PROVE  Believed'
<1>1. \A r \in Responses : rows[r].state = "deleted" => rows'[r].state = "deleted"
  BY EveryStep DEF Good, RowsMove, RowMoves
<1>2. task["refresh"].todo \subseteq Responses
  BY TasksAre DEF IInv, Types, Task
<1>3. CASE task'["refresh"] = task["refresh"]
  <2>1. task["refresh"].at = "recover" => ~ alive'
    <3>1. CASE Start \/ Recover
      BY <1>3, <3>1, GoesKeeps, TasksAre DEF Start, Recover, At
    <3>2. CASE ~ (Start \/ Recover)
      BY <3>2, OnlyReplaced DEF Believed
    <3> QED
      BY <3>1, <3>2
  <2> QED
    BY <1>1, <1>2, <1>3, <2>1 DEF Believed
<1>4. CASE task'["refresh"] # task["refresh"]
  <2>1. Tombstones \subseteq Responses /\ \A r \in Tombstones : rows[r].state = "deleted"
    BY DEF Tombstones
  <2> QED
    BY <1>1, <1>2, <1>4, <2>1, RefreshSteps DEF RefreshStep, Believed
<1> QED
  BY <1>3, <1>4

\* A message is there now, so it was there or has just arrived; the topic is the same.
LEMMA StillThere ==
  ASSUME IInv, Budget, Believed, Sources, Next, NEW r \in Responses, source'[r] = "there"
  PROVE  /\ alive /\ alive' /\ topic' = topic
         /\ \/ source[r] = "there"
            \/ Arrive /\ Unsent(r)
<1>1. SourceChange(r) /\ TopicChange
  BY SourceChanges, TopicChanges DEF Believed
<1>2. source[r] = "there" \/ (Arrive /\ Unsent(r))
  <2>1. CASE Arrive
    <3>1. source[r] # "gone"
      BY <2>1, Arrives DEF IInv, Messages
    <3> QED
      BY <2>1, <3>1 DEF IInv, Messages, Sources
  <2>2. CASE ~ Arrive
    BY <1>1, <2>2 DEF SourceChange
  <2> QED
    BY <2>1, <2>2
<1>3. alive
  <2>1. CASE Arrive
    BY <2>1, Arrives
  <2>2. CASE source[r] = "there"
    BY <2>2 DEF Sources
  <2> QED
    BY <1>2, <2>1, <2>2
<1>4. alive' /\ topic' = topic
  BY <1>1, <1>3 DEF TopicChange
<1> QED
  BY <1>2, <1>3, <1>4

LEMMA SourcesKept ==
  ASSUME IInv, Budget, Owned, Believed, Sources, Next
  PROVE  Sources'
<1>0. /\ \A t \in Tasks : Hand(t) /\ PublishStep(t)
      /\ \A r \in Responses : RowChange(r) /\ SourceChange(r) /\ TimerChange(r)
  BY Hands, PublishSteps, RowChanges, SourceChanges, TimerChanges DEF Believed
<1>1. ~ alive' => \A r \in Responses : source'[r] # "there"
  BY StillThere
<1>2. ASSUME NEW r \in Responses, source[r] = "gone"
      PROVE  source'[r] = "gone"
  <2>1. CASE Arrive
    BY <1>2, <2>1, Arrives DEF IInv, Messages
  <2>2. CASE ~ Arrive
    BY <1>0, <1>2, <2>2 DEF SourceChange
  <2> QED
    BY <2>1, <2>2
<1>3. ASSUME NEW r \in Responses, source'[r] = "unsent"
      PROVE  Unsent(r)'
  <2>1. source[r] = "unsent" /\ Unsent(r)
    <3>1. source[r] = "unsent"
      <4>1. CASE Arrive
        BY <1>3, <4>1, Arrives DEF IInv, Messages
      <4>2. CASE ~ Arrive
        BY <1>0, <1>3, <4>2 DEF SourceChange
      <4> QED
        BY <4>1, <4>2
    <3> QED
      BY <3>1 DEF Sources
  <2>2. handled < Len(inbox) => Current.r # r
    BY <2>1, RowGrows DEF Unsent, Current
  <2>3. rows'[r].state = "none"
    BY <1>0, <2>1, <2>2 DEF RowChange, AtWork, Unsent
  <2>4. ASSUME NEW i \in 1..Len(inbox')
        PROVE  inbox'[i].r # r
    <3>1. CASE inbox' = inbox
      BY <2>1, <3>1 DEF Unsent
    <3>2. CASE Arrive
      <4>1. Len(inbox) \in Nat
        BY DEF IInv, Queue
      <4>2. CASE i \in 1..Len(inbox)
        BY <2>1, <3>2, <4>2, Arrives DEF Unsent
      <4>3. CASE i = Len(inbox) + 1
        BY <1>3, <2>1, <3>2, <4>3, Arrives DEF Unsent, IInv, Messages
      <4> QED
        BY <3>2, <4>1, <4>2, <4>3, Arrives
    <3> QED
      BY <3>1, <3>2, InboxChanges
  <2>5. \A c \in copies' : c.r # r
    BY <2>1, NextCopy, Labels DEF Unsent, Publishing
  <2>6. ASSUME NEW t \in Tasks, task'[t].at \in Busy
        PROVE  task'[t].r # r
    BY <1>0, <2>1, <2>2, <2>6 DEF Hand, Unsent
  <2> QED
    BY <2>3, <2>4, <2>5, <2>6 DEF Unsent
<1>4. ASSUME NEW r \in Responses, rows'[r].current
      PROVE  source'[r] = "gone"
  <2>1. rows[r].current \/ \E t \in Tasks : task[t].at = "complete" /\ task[t].r = r
    BY <1>0, <1>4 DEF RowChange, AtWork, NoRow
  <2> QED
    BY <1>2, <2>1 DEF Sources
<1>5. ASSUME NEW r \in Responses, timer'[r].at \in {"remove", "drop"}
      PROVE  rows'[r].state # "valid"
  <2>1. CASE timer[r].at \in {"remove", "drop"}
    BY <1>0, <2>1 DEF RowChange, NoRow, Sources
  <2>2. CASE rows[r].state = "pending" /\ rows' = rows
    BY <2>2
  <2> QED
    BY <1>0, <1>5, <2>1, <2>2 DEF TimerChange
<1>6. ASSUME NEW t \in Tasks, task'[t].at = "complete"
      PROVE  source'[task'[t].r] = "gone"
  <2>1. CASE task'[t] = task[t]
    <3>1. task[t].r \in Responses
      BY <1>6, <2>1, Labels DEF IInv, Held, GoodTask, Publishing
    <3> QED
      BY <1>2, <1>6, <2>1, <3>1 DEF Sources
  <2>2. CASE /\ task[t].at = "clean" /\ task'[t].r = task[t].r
             /\ source' = [source EXCEPT ![task[t].r] = Gone(@)]
    <3>1. PICK q \in Responses : q = task[t].r
      BY <2>2, Labels DEF IInv, Held, GoodTask, Publishing
    <3>2. q \in DOMAIN source
      BY DEF IInv, Messages
    <3>3. source[q] # "unsent"
      BY <2>2, <3>1, Labels DEF Sources, Unsent, Publishing
    <3> QED
      BY <2>2, <3>1, <3>2, <3>3 DEF Gone, IInv, Messages
  <2> QED
    BY <1>0, <1>6, <2>1, <2>2 DEF PublishStep
<1> QED
  BY <1>1, <1>3, <1>4, <1>5, <1>6 DEF Sources

\* While tries are left, an update is not given up.
LEMMA NotGivenUp ==
  ASSUME IInv, Budget, ~ MayGiveUp, Next, Spend("failures"), attempts <= SpentTries + 1
  PROVE  attempts < MaxAttempts /\ attempts <= SpentTries'
<1>1. SpentTries' = SpentTries + 1 /\ SpentTries \in Nat
  BY Spends
<1>2. SpentTries' <= plan.failures + plan.crashes
  <2>1. Budget' /\ plan' = plan
    BY BudgetKept, EveryStep DEF Good
  <2> QED
    BY <2>1, Natural DEF Budget, SpentTries, Spent
<1>3. attempts \in Nat /\ MaxAttempts \in Nat
  BY ResponsesAssumption DEF IInv, Queue
<1> QED
  BY <1>1, <1>2, <1>3, Natural DEF MayGiveUp

LEMMA TryingKept ==
  ASSUME IInv, Budget, Believed, Sources, Trying, ~ MayGiveUp, Next
  PROVE  Trying'
<1>1. Progress
  BY Progresses
<1>2. /\ attempts \in Nat /\ handled \in Nat /\ handled <= Len(inbox) /\ Len(inbox) \in Nat
      /\ task["ingress"].at # "idle" => handled < Len(inbox)
      /\ MaxAttempts \in Nat \ {0}
      /\ "idle" \notin Working
  BY ResponsesAssumption DEF IInv, Queue, Working, Publishing
<1>3. PICK m \in Nat, n \in Nat : m = SpentTries /\ n = SpentTries' /\ m <= n
  <2>1. Budget' /\ plan' = plan
    BY BudgetKept, EveryStep DEF Good
  <2>2. SpentTries' \in Nat
    BY <2>1, Natural DEF Budget, SpentTries, Spent
  <2> QED
    BY <2>2, Spends
<1>4. m \in Nat /\ n \in Nat /\ m <= n
  BY <1>3
<1>5. 0 <= n /\ 0 <= n + 1
  OBVIOUS
<1>6. ASSUME source[Current.r] = "there", handled < Len(inbox), Current.kind = "valid"
      PROVE  /\ attempts <= n + 1
             /\ task["ingress"].at = "idle" => attempts <= n
  <2>1. /\ attempts <= m + 1
        /\ task["ingress"].at = "idle" => attempts <= m
    BY <1>6, <1>3 DEF Trying
  <2> QED
    BY <1>2, <1>4, <2>1
<1>7. CASE Arrive
  <2>1. CASE handled < Len(inbox)
    <3>1. Current' = Current
      BY <1>2, <1>3, <1>7, <2>1, Arrives DEF Current
    <3>2. Current.r \in Responses
      BY <2>1, RowGrows DEF Update
    <3>3. source'[Current.r] = "there" => source[Current.r] = "there"
      BY <2>1, <3>2, StillThere, RowGrows DEF Unsent, Current
    <3>4. UNCHANGED <<handled, attempts, task>> /\ Len(inbox') = Len(inbox) + 1
      BY <1>7, Arrives
    <3>5. source'[Current.r] = "there" /\ Current.kind = "valid"
            => /\ attempts' <= n + 1
               /\ task["ingress"].at = "idle" => attempts' <= n
      BY <1>6, <2>1, <3>3, <3>4
    <3> QED
      <4>1. handled' = Len(inbox') => attempts' = 0
        BY <1>2, <2>1, <3>4
      <4> QED
        BY <1>3, <2>1, <3>1, <3>4, <3>5, <4>1 DEF Trying
  <2>2. CASE handled = Len(inbox)
    <3>1. /\ UNCHANGED <<handled, attempts, task>> /\ Len(inbox') = Len(inbox) + 1
          /\ attempts = 0 /\ task["ingress"].at = "idle"
      BY <1>2, <1>7, <2>2, Arrives DEF Trying
    <3> QED
      BY <1>2, <1>3, <1>5, <3>1 DEF Trying
  <2> QED
    BY <1>2, <1>3, <2>1, <2>2
<1>8. CASE inbox' = inbox /\ ~ Arrive
  <2>1. handled' = Len(inbox') => attempts' = 0
    BY <1>1, <1>2, <1>8, Labels DEF Progress, Begins, WorksOn, Rests, GivesUp, Trying
  <2>2. CASE handled' = handled + 1 /\ attempts' = 0 /\ task'["ingress"].at = "idle"
    BY <1>2, <1>3, <1>5, <2>1, <2>2 DEF Trying
  <2>3. CASE handled' = handled
    <3> SUFFICES ASSUME handled < Len(inbox), Current.kind = "valid"
                 PROVE  /\ task'["ingress"].at \in {"idle", "finish"} \union Working
                        /\ task'["ingress"].at \in Working => task'["ingress"].r = Current.r
                        /\ source'[Current.r] = "there"
                             => /\ attempts' <= SpentTries' + 1
                                /\ task'["ingress"].at = "idle" => attempts' <= SpentTries'
      BY <1>8, <2>1, <2>3 DEF Trying, Current
    <3>1. Current.r \in Responses
      BY RowGrows DEF Update
    <3>2. source'[Current.r] = "there" => alive /\ source[Current.r] = "there"
      BY <1>8, <3>1, StillThere
    <3>3. CASE UNCHANGED <<handled, attempts>> /\ task'["ingress"] = task["ingress"]
      BY <1>2, <1>3, <1>6, <3>2, <3>3 DEF Trying
    <3>4. CASE Begins
      <4>1. source'[Current.r] = "there" => attempts <= m
        BY <1>3, <3>2, <3>4 DEF Begins, Trying
      <4>2. source'[Current.r] = "there" => attempts' <= n + 1
        BY <1>2, <1>4, <3>4, <4>1 DEF Begins
      <4>3. /\ task'["ingress"].at \in {"lock", "finish"}
            /\ task'["ingress"].r = Current.r
        BY <3>4 DEF Begins
      <4> QED
        BY <1>3, <4>2, <4>3 DEF Working
    <3>5. CASE WorksOn
      <4>1. task["ingress"].at \in Working
        BY <3>5, Labels DEF WorksOn, Trying
      <4>2. task["ingress"].at # "idle" /\ "idle" \notin Publishing
        BY <4>1 DEF Working, Publishing
      <4>3. task'["ingress"].at \in {"finish"} \union Publishing /\ task'["ingress"].r = Current.r
        BY <3>5, <4>1 DEF WorksOn, Trying
      <4> QED
        <5>1. source'[Current.r] = "there" => attempts <= m + 1
          BY <1>3, <3>2 DEF Trying
        <5>2. source'[Current.r] = "there" => attempts' <= n + 1
          BY <1>2, <1>4, <3>5, <5>1 DEF WorksOn
        <5> QED
          BY <1>3, <4>2, <4>3, <5>2 DEF Working
    <3>6. CASE Rests
      <4>1. CASE handled' = handled /\ attempts' = attempts /\ Spend("crashes")
        <5>1. SpentTries' = SpentTries + 1
          BY <4>1, Spends
        <5> QED
          BY <1>2, <1>3, <3>2, <3>6, <4>1, <5>1 DEF Rests, Trying
      <4>2. CASE GivesUp /\ task["ingress"].at # "idle" /\ Spend("failures")
        <5>1. source'[Current.r] = "there" => attempts <= SpentTries + 1
          BY <3>2 DEF Trying
        <5>2. source'[Current.r] = "there" => attempts < MaxAttempts /\ attempts <= SpentTries'
          BY <4>2, <5>1, NotGivenUp
        <5>3. source'[Current.r] = "there" => attempts' <= n
          BY <1>2, <1>3, <4>2, <5>2 DEF GivesUp
        <5> QED
          <6>1. task'["ingress"].at = "idle"
            BY <3>6 DEF Rests
          <6>2. source'[Current.r] = "there" => attempts' <= n /\ attempts' <= n + 1
            <7>1. attempts' \in Nat
              BY <1>2, <4>2 DEF GivesUp
            <7> QED
              BY <1>4, <5>3, <7>1
          <6> QED
            BY <1>2, <1>3, <6>1, <6>2
      <4>3. CASE task["ingress"].at \in {"warn", "complete"}
        <5>1. task["ingress"].at = "complete"
          BY <4>3 DEF Trying, Working, Publishing
        <5>2. source[Current.r] = "gone"
          BY <5>1, TasksAre DEF Sources, Trying, Working, Publishing
        <5> QED
          BY <1>2, <1>3, <3>2, <3>6, <5>2 DEF Rests
      <4>4. CASE ~ alive
        BY <1>2, <1>3, <3>2, <3>6, <4>4 DEF Rests
      <4> QED
        BY <1>2, <1>3, <2>3, <3>6, <4>1, <4>2, <4>3, <4>4 DEF Rests
    <3> QED
      BY <1>1, <3>3, <3>4, <3>5, <3>6 DEF Progress
  <2> QED
    BY <1>1, <1>2, <2>2, <2>3 DEF Progress, Begins, WorksOn, Rests, GivesUp
<1> QED
  BY <1>7, <1>8, InboxChanges

LEMMA PursuedKept ==
  ASSUME IInv, Budget, Believed, Sources, Trying, Pursued, ~ MayGiveUp, Next
  PROVE  Pursued'
<1> SUFFICES ASSUME NEW r \in Responses, rows'[r].state = "valid", source'[r] = "there"
             PROVE  /\ handled' < Len(inbox')
                    /\ Current'.kind = "valid" /\ Current'.r = r /\ Current'.topic = topic'
                    /\ task'["ingress"].at \in {"idle", "lock", "edit", "send", "record", "clean"}
  BY DEF Pursued
<1>0. RowChange(r) /\ Progress /\ PublishStep("ingress")
  BY RowChanges, Progresses, PublishSteps, TasksAre DEF Believed
<1>1. source[r] = "there" /\ alive /\ topic' = topic
  <2>1. ~ (Arrive /\ Unsent(r))
    BY Arrives DEF Unsent
  <2> QED
    BY <2>1, StillThere
<1>2. /\ attempts \in Nat /\ handled \in Nat /\ handled <= Len(inbox) /\ Len(inbox) \in Nat
      /\ MaxAttempts \in Nat \ {0}
  BY ResponsesAssumption DEF IInv, Queue
<1>3. ASSUME handled' = handled, handled < Len(inbox)
      PROVE  Current' = Current /\ handled' < Len(inbox')
  <2>1. CASE Arrive
    BY <1>2, <1>3, <2>1, Arrives DEF Current
  <2> QED
    BY <1>3, <2>1, InboxChanges DEF Current
<1>4. CASE rows[r].state = "valid"
  <2>1. /\ handled < Len(inbox)
        /\ Current.kind = "valid" /\ Current.r = r /\ Current.topic = topic
        /\ task["ingress"].at \in {"idle", "lock", "edit", "send", "record", "clean"}
    BY <1>1, <1>4 DEF Pursued
  <2>2. CASE UNCHANGED <<handled, attempts>> /\ task'["ingress"] = task["ingress"]
    BY <1>1, <1>3, <2>1, <2>2
  <2>3. CASE Begins
    BY <1>1, <1>3, <1>4, <2>1, <2>3 DEF Begins
  <2>4. CASE WorksOn
    <3>1. task["ingress"].at \in Working /\ task["ingress"].r = r
      <4>1. task["ingress"].at \in Working
        BY <2>1, <2>4, Labels DEF WorksOn, Working, Publishing
      <4> QED
        BY <2>1, <4>1 DEF Trying
    <3>2. task'["ingress"].at \in Publishing
      BY <1>4, <2>1, <2>4, <3>1 DEF WorksOn
    <3>3. task'["ingress"].at # "complete"
      <4>1. task'["ingress"] # task["ingress"] \/ task'["ingress"].at # "complete"
        BY <2>1
      <4>2. source' # [source EXCEPT ![r] = Gone(@)]
        BY <1>1 DEF IInv, Messages, Gone
      <4> QED
        BY <1>0, <3>1, <4>1, <4>2 DEF PublishStep
    <3> QED
      BY <1>1, <1>3, <2>1, <2>4, <3>2, <3>3 DEF WorksOn, Publishing
  <2>5. CASE Rests
    <3>1. handled' = handled
      <4>1. CASE GivesUp /\ task["ingress"].at # "idle" /\ Spend("failures")
        <5>1. attempts <= SpentTries + 1
          BY <1>1, <2>1, <4>1 DEF Trying
        <5> QED
          BY <1>2, <4>1, <5>1, NotGivenUp DEF GivesUp
      <4> QED
        BY <1>1, <2>1, <2>5, <4>1 DEF Rests
    <3> QED
      BY <1>1, <1>3, <2>1, <2>5, <3>1 DEF Rests
  <2> QED
    BY <1>0, <2>2, <2>3, <2>4, <2>5 DEF Progress
<1>5. CASE rows[r].state # "valid"
  <2>1. /\ handled < Len(inbox) /\ r = Current.r
        /\ Current.kind = "valid" /\ Current.topic = topic
        /\ task'["ingress"].at = "lock"
        /\ handled' = handled
    BY <1>0, <1>5 DEF RowChange, NoRow
  <2> QED
    BY <1>1, <1>3, <2>1
<1> QED
  BY <1>4, <1>5

\* The copy of a valid response whose message is there stays.
LEMMA CopyStays ==
  ASSUME IInv, Budget, Owned, Believed, Sources, Pursued, Next,
         NEW q \in Responses, rows[q].state = "valid", source[q] = "there", source'[q] = "there",
         left'.hands = plan.hands, CopiesOf(q) # {}
  PROVE  CopiesOf(q)' # {}
<1>1. PICK c \in copies : c.r = q
  BY DEF CopiesOf
<1>2. alive'
  BY StillThere
<1>3. task["ingress"].at \notin {"withdraw", "erase"}
  BY DEF Pursued
<1>4. ASSUME NEW p \in task["refresh"].todo, task["refresh"].at = "cleanup"
      PROVE  c.id # rows[p].published
  <2>1. p \in Responses /\ rows[p].state = "deleted"
    BY <1>4, TasksAre DEF Believed, IInv, Types, Task
  <2> QED
    BY <1>1, <2>1 DEF Owned
<1>5. c \in copies'
  BY <1>1, <1>2, <1>3, <1>4, CopiesLost DEF CopyLost
<1> QED
  BY <1>1, <1>5 DEF CopiesOf

LEMMA BackedKept ==
  ASSUME IInv, Budget, Owned, Believed, Sources, Trying, Pursued, Backed, Next
  PROVE  Backed'
<1> SUFFICES ASSUME NEW t \in Tasks, task'[t].at \in Publishing, source'[task'[t].r] = "there"
             PROVE  /\ rows'[task'[t].r].state = "valid"
                    /\ task'[t].at \in {"record", "clean"} /\ left'.hands = plan'.hands
                         => \E c \in copies' : c.r = task'[t].r
  BY DEF Backed, CopiesOf
<1>1. PICK q \in Responses : q = task'[t].r
  <2>1. IInv'
    BY EveryStep, Preserved
  <2> QED
    BY <2>1, Labels DEF IInv, Held, GoodTask
<1>0. Hand(t) /\ RowChange(q) /\ PublishStep(t)
  BY Hands, RowChanges, PublishSteps DEF Believed
<1>2. source[q] = "there"
  <2>1. ~ (Arrive /\ Unsent(q))
    <3>1. Arrive => task'[t] = task[t]
      BY Arrives
    <3> QED
      BY <1>1, <3>1, Labels DEF Unsent
  <2> QED
    BY <1>1, <2>1, StillThere
<1>3. ~ rows[q].current
  BY <1>2 DEF Sources
<1>4. CASE task[t].at \in Publishing /\ task[t].r = q
  <2>1. rows[q].state = "valid"
    BY <1>2, <1>4 DEF Backed
  <2>2. /\ task["ingress"].at # "save" /\ ~ RecordFree(q)
    BY <1>2, <1>4, <2>1 DEF Pursued, RecordFree
  <2>3. rows'[q].state = "valid"
    BY <1>0, <2>1, <2>2 DEF RowChange
  <2>4. ASSUME task'[t].at \in {"record", "clean"}, left'.hands = plan'.hands
        PROVE  CopiesOf(q)' # {}
    <3>1. plan' = plan
      BY EveryStep DEF Good
    <3>2. left.hands = plan.hands
      BY <2>4, <3>1, Spends, Natural DEF Budget
    <3>3. CopiesOf(q) # {} => CopiesOf(q)' # {}
      BY <1>1, <1>2, <2>1, <2>4, <3>1, CopyStays
    <3>4. CASE task[t].at \in {"record", "clean"}
      BY <1>2, <1>4, <3>2, <3>3, <3>4 DEF Backed
    <3>5. CASE task'[t].at = "record" /\ [id |-> sent + 1, r |-> q] \in copies'
      BY <3>5 DEF CopiesOf
    <3>6. CASE task[t].at = "edit" /\ \E c \in copies : c.id = task[t].copy
      <4>1. PICK c \in copies : c.id = task[t].copy
        BY <3>6
      <4>2. c.r = q
        BY <1>4, <4>1, Labels DEF Owned
      <4> QED
        BY <3>3, <4>1, <4>2 DEF CopiesOf
    <3> QED
      BY <1>0, <1>1, <1>3, <2>4, <3>4, <3>5, <3>6 DEF PublishStep
  <2> QED
    BY <1>1, <2>3, <2>4 DEF CopiesOf
<1>5. CASE /\ rows[q].state = "valid" /\ rows' = rows
           /\ task'[t].at \in {"edit", "send"}
  BY <1>1, <1>5
<1> QED
  BY <1>0, <1>1, <1>3, <1>4, <1>5, Labels DEF Hand

-----------------------------------------------------------------------------
LEMMA KeptKept ==
  ASSUME IInv, Kept, [Next]_vars
  PROVE  Kept'
<1>1. CASE Next
  <2>1. plan' = plan
    BY <1>1, EveryStep DEF Good
  <2>2. (~ MayGiveUp)' <=> ~ MayGiveUp
    BY <2>1 DEF MayGiveUp
  <2>3. Budget' /\ Copies' /\ Owned' /\ Believed' /\ Sources'
    BY <1>1, BudgetKept, CopiesKept, OwnedKept, BelievedKept, SourcesKept DEF Kept
  <2> QED
    BY <1>1, <2>2, <2>3, TryingKept, PursuedKept, BackedKept DEF Kept
<1>2. CASE UNCHANGED vars
  <2>1. UNCHANGED <<plan, left, rows, inbox, handled, attempts, source, copies, sent, alive, topic,
                    task, timer>>
    BY <1>2 DEF vars, updates, telegram
  <2>2. Budget' /\ Copies' /\ Believed'
    BY <1>2, <2>1, BudgetKept, CopiesKept DEF Kept, Believed
  <2>3. Owned' /\ Sources'
    BY <2>1 DEF Kept, Owned, Sources, Unsent
  <2>4. MayGiveUp' = MayGiveUp /\ Current' = Current /\ SpentTries' = SpentTries
    BY <2>1 DEF MayGiveUp, Current, SpentTries, Spent
  <2>5. /\ Trying => Trying'
        /\ Pursued => Pursued'
        /\ Backed => Backed'
    BY <2>1, <2>4 DEF Trying, Pursued, Backed, CopiesOf
  <2> QED
    BY <2>2, <2>3, <2>4, <2>5 DEF Kept
<1> QED
  BY <1>1, <1>2

LEMMA KeptInitially ==
  ASSUME Init
  PROVE  Kept
<1>1. Budget /\ Copies
  BY OneInitially
<1>2. /\ rows = [r \in Responses |-> NoRow] /\ copies = {} /\ inbox = <<>> /\ alive
      /\ handled = 0 /\ attempts = 0
      /\ source = [r \in Responses |-> "unsent"] /\ timer = [r \in Responses |-> NoTimer]
      /\ \A t \in Tasks : task[t].at \in {"idle", "start"}
      /\ task["refresh"].at = "start"
  BY DEF Init, Tasks, Idle
<1>3. \A t \in Tasks : task[t].at \notin Busy
  BY <1>2 DEF Busy, Publishing, Erasing, Rejecting
<1>4. Owned /\ Believed
  BY <1>2, <1>3 DEF Owned, Believed
<1>5. Sources
  BY <1>2, <1>3, Labels DEF Sources, Unsent, NoRow, NoTimer, Publishing
<1>6. Trying /\ Pursued /\ Backed
  BY <1>2, <1>3, Labels DEF Trying, Pursued, Backed
<1> QED
  BY <1>1, <1>4, <1>5, <1>6 DEF Kept

\* While no update can be given up, the message of a valid response is removed only when
\* its copy is there, whoever removes it and whatever fails or crashes; people who
\* remove messages by hand and a deleted topic apart.
THEOREM CopyFirst == Spec => CopyBeforeCleanup
<1> DEFINE Removal ==
        \A r \in Responses :
            (/\ ~ MayGiveUp
             /\ source[r] = "there"
             /\ source'[r] = "gone"
             /\ rows[r].state = "valid"
             /\ alive'
             /\ left'.hands = plan.hands) => CopiesOf(r) # {}
<1>1. ASSUME IInv, Kept, Next
      PROVE  Removal
  <2> SUFFICES ASSUME NEW r \in Responses, ~ MayGiveUp, source[r] = "there", source'[r] = "gone",
                      rows[r].state = "valid", alive', left'.hands = plan.hands
               PROVE  CopiesOf(r) # {}
    OBVIOUS
  <2>1. ~ Arrive
    BY <1>1, Arrives DEF IInv, Messages
  <2>2. timer[r].at # "remove"
    BY <1>1 DEF Kept, Sources
  <2>3. PICK t \in Tasks : task[t].at = "clean" /\ task[t].r = r
    BY <1>1, <2>1, <2>2, SourceChanges DEF SourceChange, Kept
  <2>4. left.hands = plan.hands
    BY <1>1, Spends, Natural DEF Kept, Budget
  <2> QED
    BY <1>1, <2>3, <2>4 DEF Kept, Backed, Publishing
<1>2. IInv /\ Kept /\ [Next]_vars => [Removal]_vars
  BY <1>1
<1>3. IInv /\ Kept /\ [Next]_vars => IInv' /\ Kept'
  BY EveryStep, Preserved, Stutters, KeptKept
<1>4. Init => IInv /\ Kept
  BY Initially, KeptInitially
<1> QED
  BY <1>2, <1>3, <1>4, PTL DEF Spec, CopyBeforeCleanup

===============================================================================
