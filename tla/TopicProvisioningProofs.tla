----------------------- MODULE TopicProvisioningProofs -----------------------
(***************************************************************************)
(* Theorems about TopicProvisioning, for any bounds.                        *)
(***************************************************************************)
EXTENDS TopicProvisioning, TLAPS

(***************************************************************************)
(* The inductive invariant.                                                 *)
(***************************************************************************)

\* A ticket with a topic has no claim in its row.
BoundUnclaimed == topic # 0 => token = None

\* A claim for an open ticket is withdrawn by the close that would outdate it.
OpenClaim ==
    token # None /\ At(token) = "reread" /\ task[token].mode = "plain" => ~Closed

\* Startup recovery runs only while the process boots.
StartupFirst == phase # "booting" => At("startup") = "idle"

\* /bindtopic runs in the worker that replays the updates, and never creates a topic.
BindIsIngress ==
    \A a \in Actors :
        /\ task[a].mode = "bind" =>
              /\ a = "ingress"
              /\ At(a) \in {"bindclaim", "attach", "abort", "ensured", "sync", "unbind"}
        /\ At(a) \in {"bindclaim", "abort"} => task[a].mode = "bind"

\* What an actor attaches or deletes is a topic that has been created.
OwnsCreated ==
    \A a \in Actors :
        At(a) \in {"bindclaim", "attach", "cleanup"} => task[a].own \in 1..made

Claims ==
    /\ TypeOK
    /\ BoundUnclaimed
    /\ OpenClaim
    /\ StartupFirst
    /\ BindIsIngress
    /\ OwnsCreated
    /\ ClaimNotForgotten

\* The lock of the ticket is held from the first step under it to the last, by
\* every task but the handler of customer messages.
LockHeld ==
    /\ \A a \in Actors \ {"ingress"} :
        At(a) \notin {"idle", "queued", "finish", "retry"} => lock = a
    /\ At("ingress") \in {"bindclaim", "abort"} => lock = "ingress"
    /\ At("ingress") = "attach" /\ task["ingress"].mode = "bind"
           => lock = "ingress"

\* Two tasks never hold the same new topic.
OwnDistinct ==
    \A a, b \in Actors :
        /\ a # b
        /\ At(a) \in {"attach", "cleanup"}
        /\ At(b) \in {"attach", "cleanup"}
        => task[a].own # task[b].own

Cleanups ==
    /\ Claims
    /\ LockHeld
    /\ OwnDistinct
    /\ CleanupSparesBound
\* Every topic a task has in view has been created, and the verdict that it is gone
\* from Telegram is final: no number is used twice.
Verdicts ==
    /\ topic \in 0..made
    /\ \A a \in Actors :
        /\ task[a].topic \in 0..made
        /\ At(a) \in {"unbind", "replace"} => task[a].topic \notin live
-----------------------------------------------------------------------------
\* What the steps of a coroutine leave behind is a coroutine.
LEMMA NoTaskType == NoTask \in Tasks
  BY ProvisioningAssumption DEF NoTask, Tasks, Stages

LEMMA StageType ==
  ASSUME NEW r \in Tasks, NEW s \in Stages
  PROVE  [r EXCEPT !.stage = s] \in Tasks
  BY DEF Tasks

LEMMA OwnType ==
  ASSUME NEW r \in Tasks, NEW s \in Stages, NEW x \in 0..MaxTopics,
         NEW m \in {"plain", "closed", "any", "bind"}, NEW t \in {"open", "closed"}
  PROVE  /\ [r EXCEPT !.stage = s, !.own = x] \in Tasks
         /\ [r EXCEPT !.stage = s, !.mode = m, !.own = x] \in Tasks
         /\ [r EXCEPT !.stage = s, !.title = t, !.topic = x] \in Tasks
         /\ r.own \in 0..MaxTopics
  BY DEF Tasks

LEMMA GotoType ==
  ASSUME task \in [Actors -> Tasks], NEW a \in Actors, NEW s \in Stages, Goto(a, s)
  PROVE  task' \in [Actors -> Tasks]
  BY NoTaskType, StageType DEF Goto

LEMMA RaiseType ==
  ASSUME task \in [Actors -> Tasks], lock \in Actors \union {None},
         NEW a \in Actors, Raise(a)
  PROVE  task' \in [Actors -> Tasks] /\ lock' \in Actors \union {None}
  BY GotoType DEF Raise, Unlock, Stages

LEMMA SyncedType ==
  ASSUME task \in [Actors -> Tasks], lock \in Actors \union {None},
         NEW a \in Actors, NEW ok \in BOOLEAN, Synced(a, ok)
  PROVE  task' \in [Actors -> Tasks] /\ lock' \in Actors \union {None}
  BY GotoType DEF Synced, Unlock, Stages

\* A task whose transaction fails ends; the lock it may have held is released.
LEMMA FailsGoes ==
  ASSUME NEW a \in Actors, TransactionFails(a)
  PROVE  \E s \in {"retry", "idle"} :
            /\ Goto(a, s)
            /\ s = "retry" => a = "job"
            /\ lock' = lock \/ (lock = a /\ lock' = None)
  BY DEF TransactionFails, Raise, Unlock

LEMMA AttachedType ==
  ASSUME task \in [Actors -> Tasks], lock \in Actors \union {None},
         NEW a \in Actors, Attached(a)
  PROVE  task' \in [Actors -> Tasks] /\ lock' \in Actors \union {None}
<1>1. CASE Raise(a)
  BY <1>1, RaiseType
<1>2. CASE ~Raise(a)
  <2> DEFINE s == IF task[a].mode = "bind" THEN "sync" ELSE "ensured"
  <2>1. s \in Stages /\ Title \in {"open", "closed"}
    BY DEF Stages, Title
  <2>2. task[a].own \in 0..MaxTopics
    BY DEF Tasks
  <2>3. [task[a] EXCEPT !.stage = s, !.title = Title, !.topic = task[a].own] \in Tasks
    BY <2>1, <2>2, OwnType
  <2>4. /\ task' = [task EXCEPT ![a] = [@ EXCEPT !.stage = s, !.title = Title,
                                                !.topic = task[a].own]]
        /\ lock' = lock \/ Unlock(a)
    BY <1>2 DEF Attached
  <2>5. QED
    BY <2>3, <2>4 DEF Unlock
<1>3. QED
  BY <1>1, <1>2

LEMMA ReadType ==
  ASSUME task \in [Actors -> Tasks], topic \in 0..MaxTopics,
         NEW a \in Actors, NEW s \in Stages, Read(a, s)
  PROVE  task' \in [Actors -> Tasks]
<1>1. [task[a] EXCEPT !.stage = s, !.title = Title, !.topic = topic] \in Tasks
  BY DEF Tasks, Title
<1>2. QED
  BY <1>1 DEF Read

LEMMA EnsureType ==
  ASSUME task \in [Actors -> Tasks], topic \in 0..MaxTopics, NEW a \in Actors,
         NEW m \in {"plain", "closed", "any", "bind"}, Ensure(a, m)
  PROVE  task' \in [Actors -> Tasks]
<1>1. [stage |-> IF topic # 0 THEN "ensured" ELSE "claim", title |-> Title,
       topic |-> topic, mode |-> m, own |-> 0] \in Tasks
  BY ProvisioningAssumption DEF Tasks, Stages, Title
<1>2. QED
  BY <1>1 DEF Ensure

LEMMA InitType ==
  ASSUME Init
  PROVE  TypeOK
<1> USE ProvisioningAssumption
<1>1. task \in [Actors -> Tasks]
  BY NoTaskType DEF Init
<1>2. waiting \in BOOLEAN /\ unreviewed \in BOOLEAN /\ asked \in BOOLEAN
      /\ retried \in BOOLEAN
  BY DEF Init
<1>3. QED
  BY <1>1, <1>2 DEF Init, TypeOK

LEMMA StepType ==
  ASSUME TypeOK, [Next]_vars
  PROVE  TypeOK'
<1> USE ProvisioningAssumption
<1> USE DEF TypeOK, Topics, ticketVars, jobVars, telegramVars, actorVars,
            historyVars, boundVars
<1>1. ASSUME CustomerMessage PROVE TypeOK'
  BY <1>1, EnsureType DEF CustomerMessage, AcceptMessage, Opened, Enqueue, Actors
<1>2. ASSUME WebMessage PROVE TypeOK'
  BY <1>2 DEF WebMessage, AcceptMessage, Opened, Enqueue
<1>3. ASSUME Close PROVE TypeOK'
  BY <1>3 DEF Close, Enqueue
<1>4. ASSUME Reopen PROVE TypeOK'
  BY <1>4 DEF Reopen, Opened, Enqueue
<1>5. ASSUME RetryTopic PROVE TypeOK'
  BY <1>5 DEF RetryTopic, Reset
<1>6. ASSUME SyncTopics PROVE TypeOK'
  BY <1>6 DEF SyncTopics, Enqueue
<1>7. ASSUME NEW x \in Topics, BindTopic(x) PROVE TypeOK'
  <2>1. task' \in [Actors -> Tasks]
    <3>1. x \in 0..MaxTopics /\ "ingress" \in Actors /\ "bindclaim" \in Stages
      BY <1>7 DEF BindTopic, Actors, Stages
    <3>2. [task["ingress"] EXCEPT !.stage = "bindclaim", !.mode = "bind", !.own = x]
            \in Tasks
      BY <3>1, OwnType
    <3>3. QED
      BY <1>7, <3>1, <3>2 DEF BindTopic
  <2>2. unreviewed' \in BOOLEAN /\ asked' \in BOOLEAN /\ retried' \in BOOLEAN
    BY <1>7 DEF BindTopic, Reset
  <2>3. QED
    BY <1>7, <2>1, <2>2 DEF BindTopic, Reset, Actors
<1>8. ASSUME NEW x \in Topics, DeleteTopic(x) PROVE TypeOK'
  BY <1>8 DEF DeleteTopic
<1>9. ASSUME NEW x \in Topics, MissingTopic(x) PROVE TypeOK'
  BY <1>9, ReadType, EnsureType DEF MissingTopic, Stages, Actors
<1>10. ASSUME PrepareTopic PROVE TypeOK'
  BY <1>10, ReadType DEF PrepareTopic, Stages, Actors
<1>11. ASSUME ClaimJob PROVE TypeOK'
  BY <1>11, GotoType DEF ClaimJob, Stages, Actors
<1>12. ASSUME ReleaseStaleJob PROVE TypeOK'
  BY <1>12 DEF ReleaseStaleJob
<1>13. ASSUME FinishJob PROVE TypeOK'
  BY <1>13, GotoType DEF FinishJob, Stages, Actors
<1>14. ASSUME RetryJob PROVE TypeOK'
  BY <1>14, GotoType DEF RetryJob, Stages, Actors
<1>15. ASSUME NEW a \in Actors, Continue(a) PROVE TypeOK'
  <2>1. CASE Enter(a)
    BY <2>1, EnsureType DEF Enter, Actors
  <2>2. CASE Claim(a)
    BY <2>2, GotoType DEF Claim, Stages, Actors
  <2>3. CASE Reread(a)
    BY <2>3, ReadType DEF Reread, Stages, Actors
  <2>4. CASE CreateTopic(a)
    <3>1. made + 1 \in 0..MaxTopics /\ "attach" \in Stages
      BY <2>4 DEF CreateTopic, TopicCreated, Stages
    <3>2. [task[a] EXCEPT !.stage = "attach", !.own = made + 1] \in Tasks
      BY <3>1, OwnType
    <3>3. QED
      BY <2>4, <3>2 DEF CreateTopic, TopicCreated, Mark
  <2>5. CASE CreationUnknown(a)
    <3>1. task' \in [Actors -> Tasks] /\ lock' \in Actors \union {None}
      BY <2>5, RaiseType DEF CreationUnknown
    <3>2. unreviewed' \in BOOLEAN /\ asked' \in BOOLEAN /\ retried' \in BOOLEAN
      BY <2>5 DEF CreationUnknown
    <3>3. made' \in 0..MaxTopics /\ live' \subseteq 1..made' /\ marked' \subseteq live'
      <4>1. CASE TopicCreated(a)
        BY <4>1 DEF TopicCreated, Mark
      <4>2. CASE UNCHANGED telegramVars
        BY <4>2
      <4>3. QED
        BY <2>5, <4>1, <4>2 DEF CreationUnknown
    <3>4. QED
      BY <2>5, <3>1, <3>2, <3>3 DEF CreationUnknown
  <2>6. CASE Attach(a)
    <3>1. task' \in [Actors -> Tasks] /\ lock' \in Actors \union {None}
      BY <2>6, AttachedType DEF Attach
    <3>2. task[a].own \in 0..MaxTopics
      BY DEF Tasks
    <3>3. QED
      BY <2>6, <3>1, <3>2 DEF Attach
  <2>7. CASE AttachAgain(a)
    BY <2>7, AttachedType DEF AttachAgain
  <2>8. CASE AttachRefused(a)
    BY <2>8, GotoType DEF AttachRefused, Stages, Actors
  <2>9. CASE Cleanup(a)
    BY <2>9, GotoType DEF Cleanup, Stages, Actors
  <2>10. CASE BindClaim(a)
    BY <2>10, GotoType DEF BindClaim, Unlock, Stages, Actors
  <2>11. CASE BindAbort(a)
    BY <2>11, GotoType DEF BindAbort, Unlock, Stages, Actors
  <2>12. CASE Ensured(a)
    BY <2>12, GotoType, RaiseType DEF Ensured, Stages, Actors
  <2>13. CASE Sync(a)
    <3>1. task' \in [Actors -> Tasks] /\ lock' \in Actors \union {None}
      BY <2>13, GotoType, SyncedType DEF Sync, Stages
    <3>2. QED
      BY <2>13, <3>1 DEF Sync, Mark
  <2>14. CASE Unbind(a)
    <3>1. task' \in [Actors -> Tasks] /\ lock' \in Actors \union {None}
      BY <2>14, SyncedType DEF Unbind
    <3>2. QED
      BY <2>14, <3>1 DEF Unbind, Invalidate
  <2>15. CASE Replace(a)
    BY <2>15 DEF Replace, Invalidate, Tasks, Stages, Title
  <2>16. QED
    BY <1>15, <2>1, <2>2, <2>3, <2>4, <2>5, <2>6, <2>7, <2>8, <2>9, <2>10, <2>11,
       <2>12, <2>13, <2>14, <2>15 DEF Continue
<1>16. ASSUME NEW a \in Actors, AttachLost(a) PROVE TypeOK'
  <2>1. task' \in [Actors -> Tasks] /\ lock' \in Actors \union {None}
    BY <1>16, RaiseType DEF AttachLost
  <2>2. unreviewed' \in BOOLEAN /\ asked' \in BOOLEAN /\ retried' \in BOOLEAN
    BY <1>16 DEF AttachLost
  <2>3. QED
    BY <1>16, <2>1, <2>2 DEF AttachLost, Fault
<1>16a. ASSUME NEW a \in Actors, TransactionFails(a) PROVE TypeOK'
  <2>1. PICK s \in {"retry", "idle"} : Goto(a, s) /\ (lock' = lock \/ lock' = None)
    BY <1>16a, FailsGoes
  <2>2. task' \in [Actors -> Tasks]
    BY <2>1, GotoType DEF Stages
  <2>3. unreviewed' \in BOOLEAN /\ asked' \in BOOLEAN
    BY <1>16a DEF TransactionFails
  <2>4. QED
    BY <1>16a, <2>1, <2>2, <2>3 DEF TransactionFails, Fault
<1>17. ASSUME Crash PROVE TypeOK'
  BY <1>17, NoTaskType DEF Crash, Fault
<1>18. ASSUME Boot PROVE TypeOK'
  BY <1>18, GotoType DEF Boot, Stages, Actors
<1>19. ASSUME Ready PROVE TypeOK'
  BY <1>19 DEF Ready
<1>20. ASSUME UNCHANGED vars PROVE TypeOK'
  BY <1>20 DEF vars
<1>21. QED
  BY <1>1, <1>2, <1>3, <1>4, <1>5, <1>6, <1>7, <1>8, <1>9, <1>10, <1>11, <1>12,
     <1>13, <1>14, <1>15, <1>16, <1>16a, <1>17, <1>18, <1>19, <1>20 DEF Next

\* Every reachable state is well typed, whatever the bounds.
THEOREM TypeCorrect == Spec => []TypeOK
<1>1. Init => TypeOK
  BY InitType
<1>2. TypeOK /\ [Next]_vars => TypeOK'
  BY StepType
<1>3. QED
  BY <1>1, <1>2, PTL DEF Spec
-----------------------------------------------------------------------------
(***************************************************************************)
(* What the steps of a coroutine do to the tasks.                           *)
(***************************************************************************)

\* Actor a is at step s now and nobody else has moved.
Moved(a, s) ==
    /\ \A b \in Actors \ {a} : task'[b] = task[b]
    /\ task'[a].stage = s

\* It is still about the same claim and the same new topic, or it is done.
Kept(a) ==
    IF task'[a].stage = "idle"
    THEN task'[a].mode = "plain" /\ task'[a].own = 0
    ELSE task'[a].mode = task[a].mode /\ task'[a].own = task[a].own

LEMMA GotoMoves ==
  ASSUME task \in [Actors -> Tasks], NEW a \in Actors, NEW s \in Stages, Goto(a, s)
  PROVE  Moved(a, s) /\ Kept(a)
<1>1. CASE s = "idle"
  BY <1>1 DEF Goto, Moved, Kept, NoTask
<1>2. CASE s # "idle"
  BY <1>2 DEF Goto, Moved, Kept, Tasks
<1>3. QED
  BY <1>1, <1>2

LEMMA GotoSees ==
  ASSUME task \in [Actors -> Tasks], NEW a \in Actors, NEW s \in Stages, Goto(a, s)
  PROVE  Moved(a, s) /\ task'[a].topic \in {0, task[a].topic}
<1>1. CASE s = "idle"
  BY <1>1 DEF Goto, Moved, NoTask
<1>2. CASE s # "idle"
  BY <1>2 DEF Goto, Moved, Tasks
<1>3. QED
  BY <1>1, <1>2

LEMMA RaiseMoves ==
  ASSUME task \in [Actors -> Tasks], NEW a \in Actors, Raise(a)
  PROVE  Moved(a, IF a = "job" THEN "retry" ELSE "idle") /\ Kept(a)
  BY GotoMoves DEF Raise, Stages

LEMMA SyncedMoves ==
  ASSUME task \in [Actors -> Tasks], NEW a \in Actors, NEW ok \in BOOLEAN,
         Synced(a, ok)
  PROVE  /\ IF a = "job" THEN Moved(a, "finish") \/ Moved(a, "retry")
            ELSE Moved(a, "idle")
         /\ Kept(a)
  BY GotoMoves DEF Synced, Stages

\* After its topic is bound a task goes on, about the same topic; it gives up the
\* lock if it raises or is the command that binds.
LEMMA AttachedMoves ==
  ASSUME task \in [Actors -> Tasks], NEW a \in Actors, Attached(a)
  PROVE  /\ Moved(a, "sync") \/ Moved(a, "ensured")
            \/ Moved(a, IF a = "job" THEN "retry" ELSE "idle")
         /\ Kept(a)
         /\ lock' = lock \/ (lock = a /\ lock' = None)
         /\ lock' = lock \/ task[a].mode = "bind" \/ task'[a].stage \in {"retry", "idle"}
         /\ task'[a].topic \in {0, task[a].topic, task[a].own}
<1>1. CASE Raise(a)
  <2>1. Moved(a, IF a = "job" THEN "retry" ELSE "idle") /\ Kept(a)
    BY <1>1, RaiseMoves
  <2>2. task'[a].topic \in {0, task[a].topic}
    BY <1>1, GotoSees DEF Raise, Stages
  <2>3. QED
    BY <1>1, <2>1, <2>2 DEF Raise, Unlock, Moved
<1>2. CASE ~Raise(a)
  <2> DEFINE s == IF task[a].mode = "bind" THEN "sync" ELSE "ensured"
  <2>1. task' = [task EXCEPT ![a] = [@ EXCEPT !.stage = s, !.title = Title,
                                             !.topic = task[a].own]]
    BY <1>2 DEF Attached
  <2>2. IF task[a].mode = "bind" THEN Unlock(a) ELSE UNCHANGED lock
    BY <1>2 DEF Attached
  <2>3. s \in {"sync", "ensured"} /\ task[a] \in Tasks
    OBVIOUS
  <2>4. lock' = lock \/ (lock = a /\ lock' = None)
    BY <2>2 DEF Unlock
  <2>5. lock' = lock \/ task[a].mode = "bind"
    BY <2>2
  <2> HIDE DEF s
  <2>6. /\ Moved(a, s) /\ Kept(a)
        /\ task'[a].topic = task[a].own
    BY <2>1, <2>3 DEF Moved, Kept, Tasks
  <2>7. QED
    BY <2>3, <2>4, <2>5, <2>6
<1>3. QED
  BY <1>1, <1>2

LEMMA ReadMoves ==
  ASSUME task \in [Actors -> Tasks], NEW a \in Actors, NEW s \in Stages \ {"idle"},
         Read(a, s)
  PROVE  Moved(a, s) /\ Kept(a)
  BY DEF Read, Moved, Kept, Tasks

LEMMA EnsureMoves ==
  ASSUME task \in [Actors -> Tasks], NEW a \in Actors, NEW m, Ensure(a, m)
  PROVE  /\ Moved(a, "ensured") \/ Moved(a, "claim")
         /\ task'[a].mode = m
  BY DEF Ensure, Moved

LEMMA InitClaims ==
  ASSUME Init
  PROVE  Claims
<1>1. TypeOK
  BY InitType
<1>2. \A a \in Actors : task[a] = NoTask
  BY DEF Init
<1>3. topic = 0 /\ token = None
  BY DEF Init
<1>4. QED
  BY <1>1, <1>2, <1>3 DEF Actors, Claims, BoundUnclaimed, OpenClaim,
     StartupFirst, BindIsIngress, OwnsCreated, ClaimNotForgotten, NoTask, At

LEMMA StepClaims ==
  ASSUME Claims, [Next]_vars
  PROVE  Claims'
<1>1. TypeOK /\ TypeOK'
  BY StepType DEF Claims
<1>2. /\ task \in [Actors -> Tasks] /\ task' \in [Actors -> Tasks]
      /\ topic \in 0..MaxTopics /\ made \in 0..MaxTopics /\ live \subseteq 1..made
      /\ token \in Actors \union {None} /\ made' \in Nat /\ None \notin Actors
  BY <1>1 DEF TypeOK, Actors, None
<1>3. BoundUnclaimed /\ OpenClaim /\ StartupFirst /\ BindIsIngress /\ OwnsCreated /\ ClaimNotForgotten
  BY DEF Claims
<1> DEFINE Parts == BoundUnclaimed /\ OpenClaim /\ StartupFirst /\ BindIsIngress /\ OwnsCreated /\ ClaimNotForgotten
<1> SUFFICES Parts'
  BY <1>1 DEF Claims
<1> USE <1>2, <1>3 DEF BoundUnclaimed, OpenClaim, StartupFirst, BindIsIngress, OwnsCreated, ClaimNotForgotten, At, Closed, Moved, Kept, Actors,
        ticketVars, telegramVars, actorVars, historyVars
<1>4. ASSUME CustomerMessage PROVE Parts'
  BY <1>4, EnsureMoves DEF CustomerMessage, AcceptMessage, Opened
<1>5. ASSUME WebMessage PROVE Parts'
  BY <1>5 DEF WebMessage, AcceptMessage, Opened
<1>6. ASSUME Close PROVE Parts'
  BY <1>6 DEF Close
<1>7. ASSUME Reopen PROVE Parts'
  BY <1>7 DEF Reopen, Opened
<1>8. ASSUME RetryTopic PROVE Parts'
  BY <1>8 DEF RetryTopic, Reset
<1>9. ASSUME SyncTopics PROVE Parts'
  BY <1>9 DEF SyncTopics
<1>10. ASSUME NEW x \in Topics, BindTopic(x) PROVE Parts'
  BY <1>10 DEF BindTopic, Reset, Tasks
<1>11. ASSUME NEW x \in Topics, DeleteTopic(x) PROVE Parts'
  BY <1>11 DEF DeleteTopic
<1>12. ASSUME NEW x \in Topics, MissingTopic(x) PROVE Parts'
  BY <1>12, ReadMoves, EnsureMoves DEF MissingTopic, Stages
<1>13. ASSUME PrepareTopic PROVE Parts'
  BY <1>13, ReadMoves DEF PrepareTopic, Stages
<1>14. ASSUME ClaimJob PROVE Parts'
  BY <1>14, GotoMoves DEF ClaimJob, Stages
<1>15. ASSUME ReleaseStaleJob PROVE Parts'
  BY <1>15 DEF ReleaseStaleJob
<1>16. ASSUME FinishJob PROVE Parts'
  BY <1>16, GotoMoves DEF FinishJob, Stages
<1>17. ASSUME RetryJob PROVE Parts'
  BY <1>17, GotoMoves DEF RetryJob, Stages
<1>18. ASSUME NEW a \in Actors, Continue(a) PROVE Parts'
  <2>1. CASE Enter(a)
    BY <2>1, EnsureMoves DEF Enter
  <2>2. CASE Claim(a)
    BY <2>2, GotoMoves DEF Claim, MayClaim, Stages
  <2>3. CASE Reread(a)
    BY <2>3, ReadMoves DEF Reread, Stages
  <2>4. CASE CreateTopic(a)
    BY <2>4 DEF CreateTopic, TopicCreated, Tasks
  <2>5. CASE CreationUnknown(a)
    BY <2>5, RaiseMoves DEF CreationUnknown, TopicCreated
  <2>6. CASE Attach(a)
    <3>1. CASE Attached(a)
      BY <2>6, <3>1, AttachedMoves DEF Attach
    <3>2. CASE UNCHANGED actorVars
      BY <2>6, <3>2 DEF Attach
    <3>3. QED
      BY <2>6, <3>1, <3>2 DEF Attach
  <2>7. CASE AttachAgain(a)
    BY <2>7, AttachedMoves DEF AttachAgain
  <2>8. CASE AttachRefused(a)
    BY <2>8, GotoMoves DEF AttachRefused, Stages
  <2>9. CASE Cleanup(a)
    BY <2>9, GotoMoves DEF Cleanup, Stages
  <2>10. CASE BindClaim(a)
    BY <2>10, GotoMoves DEF BindClaim, MayClaim, Stages
  <2>11. CASE BindAbort(a)
    BY <2>11, GotoMoves DEF BindAbort, Stages
  <2>12. CASE Ensured(a)
    BY <2>12, GotoMoves, RaiseMoves DEF Ensured, Stages
  <2>13. CASE Sync(a)
    <3>1. /\ \A b \in Actors \ {a} : task'[b] = task[b]
          /\ task'[a].stage \in {"retry", "idle", "finish", "unbind"}
          /\ task'[a].stage \in {"retry", "finish"} => a = "job"
          /\ Kept(a)
      BY <2>13, GotoMoves, SyncedMoves DEF Sync, Stages
    <3>2. QED
      BY <2>13, <3>1 DEF Sync
  <2>14. CASE Unbind(a)
    BY <2>14, SyncedMoves DEF Unbind, Invalidate
  <2>15. CASE Replace(a)
    BY <2>15 DEF Replace, Invalidate
  <2>16. QED
    BY <1>18, <2>1, <2>2, <2>3, <2>4, <2>5, <2>6, <2>7, <2>8, <2>9, <2>10,
       <2>11, <2>12, <2>13, <2>14, <2>15 DEF Continue
<1>19. ASSUME NEW a \in Actors, AttachLost(a) PROVE Parts'
  BY <1>19, RaiseMoves DEF AttachLost
<1>19a. ASSUME NEW a \in Actors, TransactionFails(a) PROVE Parts'
  <2>1. PICK s \in {"retry", "idle"} : Goto(a, s) /\ (s = "retry" => a = "job")
    BY <1>19a, FailsGoes
  <2>2. Moved(a, s) /\ Kept(a)
    BY <2>1, GotoMoves DEF Stages
  <2>3. QED
    BY <1>19a, <2>1, <2>2 DEF TransactionFails
<1>20. ASSUME Crash PROVE Parts'
  BY <1>20 DEF Crash, NoTask
<1>21. ASSUME Boot PROVE Parts'
  BY <1>21, GotoMoves DEF Boot, Stages
<1>22. ASSUME Ready PROVE Parts'
  BY <1>22 DEF Ready
<1>23. ASSUME UNCHANGED vars PROVE Parts'
  BY <1>23 DEF vars
<1>24. QED
  BY <1>4, <1>5, <1>6, <1>7, <1>8, <1>9, <1>10, <1>11, <1>12, <1>13, <1>14,
     <1>15, <1>16, <1>17, <1>18, <1>19, <1>19a, <1>20, <1>21, <1>22, <1>23 DEF Next

\* Nothing leaves a claim behind but a failure: a creation with an unknown result, a
\* crash, or a failed transaction of the claiming task.  Every other way in which a task
\* leaves _ensure_topic either has given the claim up or has found that the claim was
\* not its own, whatever closes, binds or competes meanwhile.
THEOREM ClaimsStand == Spec => []ClaimNotForgotten
<1>1. Init => Claims
  BY InitClaims
<1>2. Claims /\ [Next]_vars => Claims'
  BY StepClaims
<1>3. Claims => ClaimNotForgotten
  BY DEF Claims
<1>4. QED
  BY <1>1, <1>2, <1>3, PTL DEF Spec
-----------------------------------------------------------------------------
\* A topic an actor has created and may still delete is never the one the ticket
\* has: creators number their topics apart, and /bindtopic, which could hand such
\* a topic to the ticket, waits for the lock its creator holds.
LEMMA StepCleanups ==
  ASSUME Cleanups, [Next]_vars
  PROVE  Cleanups'
<1>1. Claims /\ Claims'
  BY StepClaims DEF Cleanups
<1>2. /\ task \in [Actors -> Tasks] /\ task' \in [Actors -> Tasks]
      /\ topic \in 0..MaxTopics /\ made \in 0..MaxTopics /\ live \subseteq 1..made
      /\ lock \in Actors \union {None} /\ made' \in Nat /\ None \notin Actors
  BY <1>1 DEF Claims, TypeOK, Actors, None
<1>3. LockHeld /\ OwnDistinct /\ CleanupSparesBound
  BY DEF Cleanups
<1>4. StartupFirst /\ BindIsIngress /\ OwnsCreated
  BY <1>1 DEF Claims
<1> DEFINE Parts == LockHeld /\ OwnDistinct /\ CleanupSparesBound
<1> SUFFICES Parts'
  BY <1>1 DEF Cleanups
<1> USE <1>2, <1>3, <1>4 DEF LockHeld, OwnDistinct, CleanupSparesBound, BindIsIngress,
        OwnsCreated, At, Moved, Kept, Actors, ticketVars, telegramVars, actorVars
<1>5. ASSUME CustomerMessage PROVE Parts'
  BY <1>5, EnsureMoves DEF CustomerMessage, AcceptMessage
<1>6. ASSUME WebMessage PROVE Parts'
  BY <1>6 DEF WebMessage, AcceptMessage
<1>7. ASSUME Close PROVE Parts'
  BY <1>7 DEF Close
<1>8. ASSUME Reopen PROVE Parts'
  BY <1>8 DEF Reopen
<1>9. ASSUME RetryTopic PROVE Parts'
  BY <1>9 DEF RetryTopic
<1>10. ASSUME SyncTopics PROVE Parts'
  BY <1>10 DEF SyncTopics
<1>11. ASSUME NEW x \in Topics, BindTopic(x) PROVE Parts'
  BY <1>11 DEF BindTopic, Tasks
<1>12. ASSUME NEW x \in Topics, DeleteTopic(x) PROVE Parts'
  BY <1>12 DEF DeleteTopic
<1>13. ASSUME NEW x \in Topics, MissingTopic(x) PROVE Parts'
  BY <1>13, ReadMoves, EnsureMoves DEF MissingTopic, Stages
<1>14. ASSUME PrepareTopic PROVE Parts'
  BY <1>14, ReadMoves DEF PrepareTopic, Stages
<1>15. ASSUME ClaimJob PROVE Parts'
  BY <1>15, GotoMoves DEF ClaimJob, Stages
<1>16. ASSUME ReleaseStaleJob PROVE Parts'
  BY <1>16 DEF ReleaseStaleJob
<1>17. ASSUME FinishJob PROVE Parts'
  BY <1>17, GotoMoves DEF FinishJob, Stages
<1>18. ASSUME RetryJob PROVE Parts'
  BY <1>18, GotoMoves DEF RetryJob, Stages
<1>19. ASSUME NEW a \in Actors, Continue(a) PROVE Parts'
  <2>1. CASE Enter(a)
    BY <2>1, EnsureMoves DEF Enter
  <2>2. CASE Claim(a)
    BY <2>2, GotoMoves DEF Claim, Stages
  <2>3. CASE Reread(a)
    BY <2>3, ReadMoves DEF Reread, Stages
  <2>4. CASE CreateTopic(a)
    <3>1. /\ Moved(a, "attach")
          /\ task'[a].mode = task[a].mode
          /\ task'[a].own = made + 1
      BY <2>4 DEF CreateTopic, Tasks
    <3>2. \A b \in Actors \ {a} :
             At(b) \in {"attach", "cleanup"} => task[b].own # made + 1
      BY DEF Tasks
    <3>3. LockHeld' /\ CleanupSparesBound'
      BY <2>4, <3>1 DEF CreateTopic
    <3>4. OwnDistinct'
      BY <3>1, <3>2
    <3>5. QED
      BY <3>3, <3>4
  <2>5. CASE CreationUnknown(a)
    BY <2>5, RaiseMoves DEF CreationUnknown, Raise, Unlock
  <2>6. CASE Attach(a)
    <3>1. topic' = task[a].own
      BY <2>6 DEF Attach
    <3>2. CASE Attached(a)
      BY <2>6, <3>1, <3>2, AttachedMoves DEF Attach
    <3>3. CASE UNCHANGED actorVars
      BY <2>6, <3>1, <3>3 DEF Attach
    <3>4. QED
      BY <2>6, <3>2, <3>3 DEF Attach
  <2>7. CASE AttachAgain(a)
    BY <2>7, AttachedMoves DEF AttachAgain
  <2>8. CASE AttachRefused(a)
    BY <2>8, GotoMoves DEF AttachRefused, Stages
  <2>9. CASE Cleanup(a)
    BY <2>9, GotoMoves DEF Cleanup, Stages
  <2>10. CASE BindClaim(a)
    BY <2>10, GotoMoves DEF BindClaim, Unlock, Stages
  <2>11. CASE BindAbort(a)
    BY <2>11, GotoMoves DEF BindAbort, Unlock, Stages
  <2>12. CASE Ensured(a)
    BY <2>12, GotoMoves, RaiseMoves DEF Ensured, Raise, Unlock, Stages
  <2>13. CASE Sync(a)
    <3>1. \/ /\ Moved(a, "unbind") /\ Kept(a)
             /\ lock' = lock
          \/ /\ Moved(a, "idle") \/ Moved(a, "finish") \/ Moved(a, "retry")
             /\ Kept(a)
             /\ Unlock(a)
      BY <2>13, GotoMoves, SyncedMoves DEF Sync, Synced, Stages
    <3>2. QED
      BY <2>13, <3>1 DEF Sync, Unlock
  <2>14. CASE Unbind(a)
    <3>1. /\ Moved(a, "idle") \/ Moved(a, "finish") \/ Moved(a, "retry")
          /\ Kept(a)
          /\ Unlock(a)
      BY <2>14, SyncedMoves DEF Unbind, Synced
    <3>2. topic' \in {0, topic}
      BY <2>14 DEF Unbind, Invalidate
    <3>3. LockHeld' /\ OwnDistinct'
      BY <3>1 DEF Unlock
    <3>4. CleanupSparesBound'
      BY <3>1, <3>2
    <3>5. QED
      BY <3>3, <3>4
  <2>15. CASE Replace(a)
    BY <2>15 DEF Replace, Invalidate
  <2>16. QED
    BY <1>19, <2>1, <2>2, <2>3, <2>4, <2>5, <2>6, <2>7, <2>8, <2>9, <2>10, <2>11,
       <2>12, <2>13, <2>14, <2>15 DEF Continue
<1>20. ASSUME NEW a \in Actors, AttachLost(a) PROVE Parts'
  BY <1>20, RaiseMoves DEF AttachLost, Raise, Unlock
<1>20a. ASSUME NEW a \in Actors, TransactionFails(a) PROVE Parts'
  <2>1. PICK s \in {"retry", "idle"} :
            /\ Goto(a, s)
            /\ s = "retry" => a = "job"
            /\ lock' = lock \/ (lock = a /\ lock' = None)
    BY <1>20a, FailsGoes
  <2>2. Moved(a, s) /\ Kept(a)
    BY <2>1, GotoMoves DEF Stages
  <2>3. QED
    BY <1>20a, <2>1, <2>2 DEF TransactionFails
<1>21. ASSUME Crash PROVE Parts'
  BY <1>21 DEF Crash, NoTask
<1>22. ASSUME Boot PROVE Parts'
  BY <1>22, GotoMoves DEF Boot, Stages
<1>23. ASSUME Ready PROVE Parts'
  BY <1>23 DEF Ready
<1>24. ASSUME UNCHANGED vars PROVE Parts'
  BY <1>24 DEF vars
<1>25. QED
  BY <1>5, <1>6, <1>7, <1>8, <1>9, <1>10, <1>11, <1>12, <1>13, <1>14, <1>15,
     <1>16, <1>17, <1>18, <1>19, <1>20, <1>20a, <1>21, <1>22, <1>23, <1>24 DEF Next

\* The topic that is deleted after a refused attachment is never the topic of the
\* ticket.
THEOREM CleanupIsSafe == Spec => []CleanupSparesBound
<1>1. Init => Cleanups
  <2> SUFFICES ASSUME Init PROVE Cleanups
    OBVIOUS
  <2>1. \A a \in Actors : task[a] = NoTask
    BY DEF Init
  <2>2. QED
    BY <2>1, InitClaims DEF Cleanups, LockHeld, OwnDistinct, CleanupSparesBound,
       NoTask, At, Actors
<1>2. Cleanups /\ [Next]_vars => Cleanups'
  BY StepCleanups
<1>3. Cleanups => CleanupSparesBound
  BY DEF Cleanups
<1>4. QED
  BY <1>1, <1>2, <1>3, PTL DEF Spec
-----------------------------------------------------------------------------
LEMMA StepVerdicts ==
  ASSUME Claims, Verdicts, [Next]_vars
  PROVE  Verdicts'
<1>1. /\ task \in [Actors -> Tasks] /\ task' \in [Actors -> Tasks]
      /\ topic \in 0..MaxTopics /\ made \in 0..MaxTopics /\ live \subseteq 1..made
  BY StepClaims DEF Claims, TypeOK
<1>2. OwnsCreated
  BY DEF Claims
<1> USE <1>1, <1>2 DEF Verdicts, OwnsCreated, At, Moved, Actors,
        ticketVars, telegramVars, actorVars
<1>3. ASSUME CustomerMessage PROVE Verdicts'
  BY <1>3 DEF CustomerMessage, AcceptMessage, Ensure
<1>4. ASSUME WebMessage PROVE Verdicts'
  BY <1>4 DEF WebMessage, AcceptMessage
<1>5. ASSUME Close PROVE Verdicts'
  BY <1>5 DEF Close
<1>6. ASSUME Reopen PROVE Verdicts'
  BY <1>6 DEF Reopen
<1>7. ASSUME RetryTopic PROVE Verdicts'
  BY <1>7 DEF RetryTopic
<1>8. ASSUME SyncTopics PROVE Verdicts'
  BY <1>8 DEF SyncTopics
<1>9. ASSUME NEW x \in Topics, BindTopic(x) PROVE Verdicts'
  BY <1>9 DEF BindTopic, Tasks
<1>10. ASSUME NEW x \in Topics, DeleteTopic(x) PROVE Verdicts'
  BY <1>10 DEF DeleteTopic
<1>11. ASSUME NEW x \in Topics, MissingTopic(x) PROVE Verdicts'
  <2>1. /\ \A b \in Actors \ {"delivery"} : task'[b] = task[b]
        /\ task'["delivery"].topic = topic
        /\ task'["delivery"].stage = "replace" => topic = x
        /\ task'["delivery"].stage # "unbind"
    <3>1. CASE topic = x
      <4>1. Read("delivery", "replace")
        BY <1>11, <3>1 DEF MissingTopic
      <4>2. task["delivery"] \in Tasks
        OBVIOUS
      <4>3. task'["delivery"] = [task["delivery"] EXCEPT !.stage = "replace",
                                   !.title = Title, !.topic = topic]
        BY <4>1 DEF Read
      <4>4. \A b \in Actors \ {"delivery"} : task'[b] = task[b]
        BY <4>1 DEF Read
      <4>5. task'["delivery"].topic = topic /\ task'["delivery"].stage = "replace"
        BY <4>2, <4>3 DEF Tasks
      <4>6. QED
        BY <3>1, <4>4, <4>5
    <3>2. CASE topic # x
      BY <1>11, <3>2 DEF MissingTopic, Ensure
    <3>3. QED
      BY <3>1, <3>2
  <2>2. x \notin live /\ UNCHANGED <<ticketVars, telegramVars>>
    BY <1>11 DEF MissingTopic
  <2>3. QED
    BY <2>1, <2>2
<1>12. ASSUME PrepareTopic PROVE Verdicts'
  BY <1>12 DEF PrepareTopic, Read, Tasks
<1>13. ASSUME ClaimJob PROVE Verdicts'
  BY <1>13, GotoSees DEF ClaimJob, Stages
<1>14. ASSUME ReleaseStaleJob PROVE Verdicts'
  BY <1>14 DEF ReleaseStaleJob
<1>15. ASSUME FinishJob PROVE Verdicts'
  BY <1>15, GotoSees DEF FinishJob, Stages
<1>16. ASSUME RetryJob PROVE Verdicts'
  BY <1>16, GotoSees DEF RetryJob, Stages
<1>17. ASSUME NEW a \in Actors, Continue(a) PROVE Verdicts'
  <2>1. CASE Enter(a)
    BY <2>1 DEF Enter, Ensure
  <2>2. CASE Claim(a)
    BY <2>2, GotoSees DEF Claim, Stages
  <2>3. CASE Reread(a)
    BY <2>3 DEF Reread, Read, Tasks
  <2>4. CASE CreateTopic(a)
    BY <2>4 DEF CreateTopic, TopicCreated, Tasks
  <2>5. CASE CreationUnknown(a)
    BY <2>5, GotoSees DEF CreationUnknown, TopicCreated, Raise, Stages
  <2>6. CASE Attach(a)
    <3>1. CASE Attached(a)
      BY <2>6, <3>1, AttachedMoves DEF Attach
    <3>2. CASE UNCHANGED actorVars
      BY <2>6, <3>2 DEF Attach
    <3>3. QED
      BY <2>6, <3>1, <3>2 DEF Attach
  <2>7. CASE AttachAgain(a)
    BY <2>7, AttachedMoves DEF AttachAgain
  <2>8. CASE AttachRefused(a)
    BY <2>8, GotoSees DEF AttachRefused, Stages
  <2>9. CASE Cleanup(a)
    BY <2>9, GotoSees DEF Cleanup, Stages
  <2>10. CASE BindClaim(a)
    BY <2>10, GotoSees DEF BindClaim, Stages
  <2>11. CASE BindAbort(a)
    BY <2>11, GotoSees DEF BindAbort, Stages
  <2>12. CASE Ensured(a)
    BY <2>12, GotoSees DEF Ensured, Raise, Stages
  <2>13. CASE Sync(a)
    <3>1. /\ task'[a].topic \in {0, task[a].topic}
          /\ \A b \in Actors \ {a} : task'[b] = task[b]
          /\ task'[a].stage # "replace"
          /\ task'[a].stage = "unbind" => task[a].topic \notin live
      BY <2>13, GotoSees DEF Sync, Synced, Stages
    <3>2. QED
      BY <2>13, <3>1 DEF Sync
  <2>14. CASE Unbind(a)
    BY <2>14, GotoSees DEF Unbind, Invalidate, Synced, Stages
  <2>15. CASE Replace(a)
    BY <2>15 DEF Replace, Invalidate
  <2>16. QED
    BY <1>17, <2>1, <2>2, <2>3, <2>4, <2>5, <2>6, <2>7, <2>8, <2>9, <2>10, <2>11,
       <2>12, <2>13, <2>14, <2>15 DEF Continue
<1>18. ASSUME NEW a \in Actors, AttachLost(a) PROVE Verdicts'
  BY <1>18, GotoSees DEF AttachLost, Raise, Stages
<1>18a. ASSUME NEW a \in Actors, TransactionFails(a) PROVE Verdicts'
  <2>1. PICK s \in {"retry", "idle"} : Goto(a, s)
    BY <1>18a, FailsGoes
  <2>2. QED
    BY <1>18a, <2>1, GotoSees DEF TransactionFails, Stages
<1>19. ASSUME Crash PROVE Verdicts'
  BY <1>19 DEF Crash, NoTask
<1>20. ASSUME Boot PROVE Verdicts'
  BY <1>20, GotoSees DEF Boot, Stages
<1>21. ASSUME Ready PROVE Verdicts'
  BY <1>21 DEF Ready
<1>22. ASSUME UNCHANGED vars PROVE Verdicts'
  BY <1>22 DEF vars
<1>23. QED
  BY <1>3, <1>4, <1>5, <1>6, <1>7, <1>8, <1>9, <1>10, <1>11, <1>12, <1>13, <1>14,
     <1>15, <1>16, <1>17, <1>18, <1>18a, <1>19, <1>20, <1>21, <1>22 DEF Next

\* Only Unbind and Replace take a topic from the ticket.
LEMMA TopicTaken ==
  ASSUME Claims, Next, topic # 0, topic' # topic
  PROVE  \E a \in Actors : Unbind(a) \/ Replace(a)
<1> SUFFICES ASSUME \A a \in Actors : ~Unbind(a) /\ ~Replace(a) PROVE FALSE
  OBVIOUS
<1> USE DEF ticketVars
<1>1. ~CustomerMessage /\ ~WebMessage
  BY DEF CustomerMessage, WebMessage, AcceptMessage
<1>2. ~Close /\ ~Reopen /\ ~RetryTopic /\ ~SyncTopics
  BY DEF Close, Reopen, RetryTopic, SyncTopics
<1>3. \A x \in Topics : ~BindTopic(x) /\ ~DeleteTopic(x) /\ ~MissingTopic(x)
  BY DEF BindTopic, DeleteTopic, MissingTopic
<1>4. ~PrepareTopic /\ ~ClaimJob /\ ~ReleaseStaleJob /\ ~FinishJob /\ ~RetryJob
  BY DEF PrepareTopic, ClaimJob, ReleaseStaleJob, FinishJob, RetryJob
<1>5. ~Crash /\ ~Boot /\ ~Ready
  BY DEF Crash, Boot, Ready
<1>6. ASSUME NEW a \in Actors PROVE ~Continue(a) /\ ~AttachLost(a) /\ ~TransactionFails(a)
  <2>1. ~AttachLost(a) /\ ~TransactionFails(a) /\ ~Enter(a) /\ ~Claim(a) /\ ~Reread(a)
    BY DEF AttachLost, TransactionFails, Enter, Claim, Reread
  <2>2. ~CreateTopic(a) /\ ~CreationUnknown(a) /\ ~Cleanup(a)
    BY DEF CreateTopic, CreationUnknown, Cleanup
  <2>3. ~Attach(a) /\ ~AttachAgain(a) /\ ~AttachRefused(a)
    BY DEF Attach, AttachAgain, AttachRefused
  <2>4. ~BindClaim(a) /\ ~BindAbort(a) /\ ~Ensured(a) /\ ~Sync(a)
    BY DEF BindClaim, BindAbort, Ensured, Sync
  <2>5. QED
    BY <2>1, <2>2, <2>3, <2>4 DEF Continue
<1>7. QED
  BY <1>1, <1>2, <1>3, <1>4, <1>5, <1>6 DEF Next

\* A topic is taken from a ticket only when it is gone from Telegram.
THEOREM TopicKeptWhileAlive == Spec => UnbindsOnlyDeleted
<1> DEFINE Inv == Claims /\ Verdicts
           Only == topic # 0 /\ topic' # topic => topic' = 0 /\ topic \notin live
<1>1. Init => Inv
  <2> SUFFICES ASSUME Init PROVE Inv
    OBVIOUS
  <2>1. \A a \in Actors : task[a] = NoTask
    BY DEF Init
  <2>2. topic = 0 /\ made = 0
    BY DEF Init
  <2>3. Verdicts
    BY <2>1, <2>2 DEF Verdicts, NoTask, At
  <2>4. QED
    BY <2>3, InitClaims
<1>2. Inv /\ [Next]_vars => Inv'
  BY StepClaims, StepVerdicts
<1>3. Inv /\ [Next]_vars => [Only]_vars
  <2> SUFFICES ASSUME Inv, Next, topic # 0, topic' # topic
               PROVE  topic' = 0 /\ topic \notin live
    OBVIOUS
  <2>1. PICK a \in Actors : Unbind(a) \/ Replace(a)
    BY TopicTaken
  <2>2. topic = task[a].topic /\ topic' = 0
    BY <2>1 DEF Unbind, Replace, Invalidate
  <2>3. QED
    BY <2>1, <2>2 DEF Unbind, Replace, Verdicts
<1>4. QED
  BY <1>1, <1>2, <1>3, PTL DEF Spec, UnbindsOnlyDeleted
-----------------------------------------------------------------------------
(***************************************************************************)
(* Titles, without /bindtopic (which sets a title outside the lock).        *)
(***************************************************************************)
InSync == topic \in live => (topic \in marked <=> Closed)

\* Nothing has closed or reopened the ticket since the reconciliation worker
\* entered it for the last time: that would have made its row pending again.  (A
\* worker that has failed may have failed before it entered.)
Undisturbed ==
    \/ job = "done"
    \/ job = "processing" /\ At("job") \notin {"idle", "queued", "retry"}

\* The reconciliation row is finished, or about to be, only with the title right.
DoneRight ==
    /\ job = "done" => InSync
    /\ job = "processing" /\ At("job") = "finish" => InSync

\* A task under the lock of the ticket works on the topic of the ticket; unless the
\* ticket was closed or reopened meanwhile, it has read what the title should say.
ReadUnderLock ==
    \A a \in Actors \ {"ingress"} :
        /\ At(a) = "ensured" => task[a].topic \in {0, topic}
        /\ At(a) = "sync" => topic = task[a].topic /\ topic # 0
        /\ Undisturbed /\ At(a) \in {"ensured", "sync", "create"}
              => task[a].title = Title
        /\ Undisturbed /\ At(a) = "attach" /\ token = a /\ task[a].own \in live
              => (task[a].own \in marked <=> Closed)

\* The handler of messages, outside the lock, creates topics for open tickets only,
\* and a close takes its claim away.
HandlerOpens ==
    LET i == "ingress" IN
    /\ task[i].mode = "plain" /\ At(i) \notin {"queued", "sync", "unbind", "replace"}
    /\ token = i /\ At(i) \in {"reread", "create", "attach"} => ~Closed
    /\ At(i) = "create" => task[i].title = "open"
    /\ At(i) = "attach" /\ token = i => task[i].own \notin marked

Titles == Cleanups /\ Verdicts /\ DoneRight /\ ReadUnderLock /\ HandlerOpens

\* What each way to move leaves of what a task has read.
LEMMA GotoKeeps ==
  ASSUME task \in [Actors -> Tasks], NEW a \in Actors, NEW s \in Stages, Goto(a, s)
  PROVE  /\ \A b \in Actors \ {a} : task'[b] = task[b]
         /\ task'[a].stage = s
         /\ s # "idle" => /\ task'[a].title = task[a].title
                          /\ task'[a].topic = task[a].topic
                          /\ task'[a].own = task[a].own
         /\ task'[a].mode \in {"plain", task[a].mode}
<1>1. CASE s = "idle"
  BY <1>1 DEF Goto, NoTask
<1>2. CASE s # "idle"
  BY <1>2 DEF Goto, Tasks
<1> QED
  BY <1>1, <1>2

LEMMA ReadKeeps ==
  ASSUME task \in [Actors -> Tasks], NEW a \in Actors, NEW s \in Stages, Read(a, s)
  PROVE  /\ \A b \in Actors \ {a} : task'[b] = task[b]
         /\ task'[a].stage = s
         /\ task'[a].title = Title /\ task'[a].topic = topic
         /\ task'[a].mode = task[a].mode /\ task'[a].own = task[a].own
<1>1. task[a] \in Tasks /\ task'[a] = [task[a] EXCEPT !.stage = s, !.title = Title, !.topic = topic]
  BY DEF Read
<1> QED
  BY <1>1 DEF Tasks, Read

LEMMA EnsureKeeps ==
  ASSUME task \in [Actors -> Tasks], NEW a \in Actors, NEW m, Ensure(a, m)
  PROVE  /\ \A b \in Actors \ {a} : task'[b] = task[b]
         /\ task'[a].stage \in {"ensured", "claim"}
         /\ task'[a].title = Title /\ task'[a].topic = topic
         /\ task'[a].mode = m
  BY DEF Ensure

LEMMA AttachedKeeps ==
  ASSUME task \in [Actors -> Tasks], NEW a \in Actors, task[a].mode # "bind", Attached(a)
  PROVE  /\ \A b \in Actors \ {a} : task'[b] = task[b]
         /\ \/ task'[a].stage = IF a = "job" THEN "retry" ELSE "idle"
            \/ /\ task'[a].stage = "ensured"
               /\ task'[a].title = Title /\ task'[a].topic = task[a].own
         /\ task'[a].mode \in {"plain", task[a].mode}
<1>1. CASE Raise(a)
  BY <1>1, GotoKeeps DEF Raise, Stages
<1>2. CASE ~Raise(a)
  <2>1. /\ task[a] \in Tasks
        /\ task' = [task EXCEPT ![a] = [@ EXCEPT !.stage = "ensured", !.title = Title,
                                                !.topic = task[a].own]]
    BY <1>2 DEF Attached
  <2> QED
    BY <2>1 DEF Tasks
<1> QED
  BY <1>1, <1>2

LEMMA StepTitles ==
  ASSUME MaxBinds = 0, Titles, [Next]_vars
  PROVE  Titles'
<1>1. Cleanups' /\ Verdicts'
  BY StepCleanups, StepVerdicts DEF Titles, Cleanups
<1>2. Claims /\ LockHeld /\ OwnDistinct /\ CleanupSparesBound /\ Verdicts
  BY DEF Titles, Cleanups
<1>3. /\ task \in [Actors -> Tasks]
      /\ topic \in 0..made /\ made \in 0..MaxTopics /\ live \subseteq 1..made
      /\ marked \subseteq live /\ token \in Actors \union {None} /\ None \notin Actors
      /\ status \in {"absent", "provisioning", "open", "closed"}
      /\ job \in {"none", "pending", "processing", "done", "failed"}
      /\ lock \in Actors \union {None}
      /\ BoundUnclaimed /\ OwnsCreated /\ StartupFirst
      /\ binds \in Nat
  BY <1>2 DEF Claims, TypeOK, Verdicts, Actors, None
<1>4. DoneRight /\ ReadUnderLock /\ HandlerOpens
  BY DEF Titles
<1> DEFINE Parts == DoneRight /\ ReadUnderLock /\ HandlerOpens
<1> SUFFICES Parts'
  BY <1>1 DEF Titles
<1> USE <1>3, <1>4 DEF DoneRight, ReadUnderLock, HandlerOpens, InSync, Undisturbed,
        At, Closed, Title, Actors, ticketVars, jobVars, telegramVars, actorVars
<1>5. ASSUME CustomerMessage PROVE Parts'
  BY <1>5, EnsureKeeps DEF CustomerMessage, AcceptMessage, Opened, Enqueue
<1>6. ASSUME WebMessage PROVE Parts'
  BY <1>6 DEF WebMessage, AcceptMessage, Opened, Enqueue
<1>7. ASSUME Close PROVE Parts'
  BY <1>7 DEF Close, Enqueue
<1>8. ASSUME Reopen PROVE Parts'
  BY <1>8 DEF Reopen, Opened, Enqueue
<1>9. ASSUME RetryTopic PROVE Parts'
  BY <1>9 DEF RetryTopic, Reset
<1>10. ASSUME SyncTopics PROVE Parts'
  BY <1>10 DEF SyncTopics, Enqueue
<1>11. ASSUME NEW x \in Topics, BindTopic(x) PROVE Parts'
  BY <1>11 DEF BindTopic
<1>12. ASSUME NEW x \in Topics, DeleteTopic(x) PROVE Parts'
  BY <1>12 DEF DeleteTopic
<1>13. ASSUME NEW x \in Topics, MissingTopic(x) PROVE Parts'
  BY <1>13, ReadKeeps, EnsureKeeps DEF MissingTopic, Stages
<1>14. ASSUME PrepareTopic PROVE Parts'
  BY <1>14, ReadKeeps DEF PrepareTopic, Stages
<1>15. ASSUME ClaimJob PROVE Parts'
  BY <1>15, GotoKeeps DEF ClaimJob, Stages
<1>16. ASSUME ReleaseStaleJob PROVE Parts'
  BY <1>16 DEF ReleaseStaleJob
<1>17. ASSUME FinishJob PROVE Parts'
  BY <1>17, GotoKeeps DEF FinishJob, Stages
<1>18. ASSUME RetryJob PROVE Parts'
  BY <1>18, GotoKeeps DEF RetryJob, Stages
<1>19. ASSUME NEW a \in Actors, Continue(a) PROVE Parts'
  <2>1. CASE Enter(a)
    BY <1>2, <2>1, EnsureKeeps DEF Enter, LockHeld
  <2>2. CASE Claim(a)
    BY <2>2, GotoKeeps DEF Claim, MayClaim, Stages
  <2>3. CASE Reread(a)
    BY <2>3, ReadKeeps DEF Reread, Stages
  <2>4. CASE CreateTopic(a)
    <3>1. /\ \A b \in Actors \ {a} : task'[b] = task[b]
          /\ task'[a].stage = "attach" /\ task'[a].own = made + 1
          /\ task'[a].mode = task[a].mode
      BY <2>4 DEF CreateTopic, Tasks
    <3>2. /\ UNCHANGED <<ticketVars, jobVars, lock>> /\ task[a].stage = "create"
          /\ live' = live \union {made + 1}
          /\ marked' = IF task[a].title = "closed" THEN marked \union {made + 1} ELSE marked
      <4>1. made \in Nat /\ made + 1 \notin 1..made
        BY ProvisioningAssumption
      <4>2. marked \ {made + 1} = marked
        BY <4>1
      <4> QED
        BY <2>4, <4>2 DEF CreateTopic, TopicCreated, Mark
    <3>3. \A b \in Actors \ {a} : task[b].stage = "attach" => task[b].own # made + 1
      BY DEF OwnsCreated
    <3>4. DoneRight' /\ ReadUnderLock'
      BY <3>1, <3>2, <3>3
    <3>5. HandlerOpens'
      BY <3>1, <3>2, <3>3
    <3> QED
      BY <3>4, <3>5
  <2>5. CASE CreationUnknown(a)
    <3>1. /\ \A b \in Actors \ {a} : task'[b] = task[b]
          /\ task'[a].stage = (IF a = "job" THEN "retry" ELSE "idle")
          /\ task'[a].mode \in {"plain", task[a].mode}
      BY <2>5, GotoKeeps DEF CreationUnknown, Raise, Stages
    <3>2. /\ UNCHANGED <<ticketVars, jobVars>> /\ task[a].stage = "create"
          /\ \A x \in 1..made : /\ x \in live' <=> x \in live
                                /\ x \in marked' <=> x \in marked
      BY <2>5 DEF CreationUnknown, TopicCreated, Mark
    <3>3. /\ topic \in live' => topic \in 1..made
          /\ \A b \in Actors : task[b].stage = "attach" => task[b].own \in 1..made
      BY <2>5 DEF CreationUnknown, TopicCreated, OwnsCreated
    <3> QED
      BY <3>1, <3>2, <3>3
  <2>6. CASE Attach(a)
    BY <1>2, <2>6, AttachedKeeps DEF Attach, Claims, BindIsIngress
  <2>7. CASE AttachAgain(a)
    BY <1>2, <2>7, AttachedKeeps DEF AttachAgain, Claims, BindIsIngress
  <2>8. CASE AttachRefused(a)
    BY <2>8, GotoKeeps DEF AttachRefused, Stages
  <2>9. CASE Cleanup(a)
    BY <1>2, <2>9, GotoKeeps DEF Cleanup, Stages, CleanupSparesBound, OwnDistinct
  <2>10. CASE BindClaim(a) \/ BindAbort(a)
    BY <1>2, <2>10 DEF BindClaim, BindAbort, Claims, BindIsIngress
  <2>11. CASE Ensured(a)
    BY <2>11, GotoKeeps DEF Ensured, Raise, Stages
  <2>12. CASE Sync(a)
    <3>1. /\ a # "ingress" /\ task[a].topic = topic /\ topic # 0
          /\ UNCHANGED <<ticketVars, jobVars, made, live>>
          /\ \A b \in Actors \ {a} : task'[b] = task[b]
          /\ task'[a].mode \in {"plain", task[a].mode}
          /\ task'[a].stage \in {"idle", "finish", "retry", "unbind"}
          /\ task'[a].stage = "finish" => a = "job"
      BY <2>12, GotoKeeps DEF Sync, Synced, Stages
    <3>2. \/ topic \in live /\ marked' = Mark(a, topic)
          \/ marked' = marked /\ task'[a].stage # "finish"
      BY <2>12, <3>1, GotoKeeps DEF Sync, Synced, Stages
    <3>3. \A b \in Actors \ {a, "ingress"} : task[b].stage \in {"idle", "queued", "finish", "retry"}
      BY <1>2, <2>12, <3>1 DEF Sync, LockHeld
    <3>4. token = None
      BY <3>1 DEF BoundUnclaimed
    <3>5. CASE marked' = marked /\ task'[a].stage # "finish"
      BY <3>1, <3>3, <3>4, <3>5
    <3>6. CASE topic \in live /\ marked' = Mark(a, topic)
      <4>1. Undisturbed => (topic \in marked' <=> Closed)
        BY <2>12, <3>1, <3>6 DEF Sync, Mark
      <4> QED
        BY <2>12, <3>1, <3>3, <3>4, <3>6, <4>1 DEF Sync
    <3> QED
      BY <3>2, <3>5, <3>6
  <2>13. CASE Unbind(a)
    BY <1>2, <2>13, GotoKeeps DEF Unbind, Invalidate, Synced, LockHeld, Stages
  <2>14. CASE Replace(a)
    BY <1>2, <2>14 DEF Replace, Invalidate, LockHeld
  <2> QED
    BY <1>19, <2>1, <2>2, <2>3, <2>4, <2>5, <2>6, <2>7, <2>8, <2>9, <2>10, <2>11,
       <2>12, <2>13, <2>14 DEF Continue
<1>20. ASSUME NEW a \in Actors, AttachLost(a) PROVE Parts'
  BY <1>20, GotoKeeps DEF AttachLost, Raise, Stages
<1>20a. ASSUME NEW a \in Actors, TransactionFails(a) PROVE Parts'
  <2>1. PICK s \in {"retry", "idle"} : Goto(a, s) /\ (s = "retry" => a = "job")
    BY <1>20a, FailsGoes
  <2>2. QED
    BY <1>20a, <2>1, GotoKeeps DEF TransactionFails, Stages
<1>21. ASSUME Crash PROVE Parts'
  BY <1>21 DEF Crash, NoTask
<1>22. ASSUME Boot PROVE Parts'
  BY <1>22, GotoKeeps DEF Boot, Stages
<1>23. ASSUME Ready PROVE Parts'
  BY <1>23 DEF Ready
<1>24. ASSUME UNCHANGED vars PROVE Parts'
  BY <1>24 DEF vars
<1> QED
  BY <1>5, <1>6, <1>7, <1>8, <1>9, <1>10, <1>11, <1>12, <1>13, <1>14, <1>15, <1>16,
     <1>17, <1>18, <1>19, <1>20, <1>20a, <1>21, <1>22, <1>23, <1>24 DEF Next

\* Whenever the reconciliation row says done, the title of a topic that exists shows
\* whether the ticket is open, for any number of closes, reopenings and topics.
THEOREM DoneIsInSync ==
  ASSUME MaxBinds = 0
  PROVE  Spec => []DoneMeansInSync
<1>1. Init => Titles
  <2> SUFFICES ASSUME Init PROVE Titles
    OBVIOUS
  <2>1. \A a \in Actors : task[a] = NoTask
    BY DEF Init
  <2>2. Cleanups
    BY <2>1, InitClaims DEF Cleanups, LockHeld, OwnDistinct, CleanupSparesBound,
       NoTask, At, Actors
  <2>3. topic = 0 /\ made = 0 /\ job = "none" /\ token = None
    BY DEF Init
  <2> QED
    BY <2>1, <2>2, <2>3 DEF Titles, Verdicts, DoneRight, ReadUnderLock, HandlerOpens,
       Undisturbed, NoTask, At, Actors, None
<1>2. Titles /\ [Next]_vars => Titles'
  BY StepTitles
<1>3. Titles => DoneMeansInSync
  BY DEF Titles, DoneRight, InSync, DoneMeansInSync
<1> QED
  BY <1>1, <1>2, <1>3, PTL DEF Spec
=============================================================================
