------------------------- MODULE DeliveryOutboxProofs -------------------------
(***************************************************************************)
(* Theorems about DeliveryOutbox, for any tickets, rows, tokens and bounds. *)
(***************************************************************************)
EXTENDS DeliveryOutbox, TLAPS

(***************************************************************************)
(* Type correctness.                                                        *)
(***************************************************************************)

\* Every row of the table has a ticket.
LEMMA TicketType == \A d \in Deliveries : TicketOf[d] \in Tickets
  BY OutboxAssumption

\* Every reachable state of the outbox is well typed, whatever the constants:
\* in particular attempt_count never becomes negative when claims are given back.
THEOREM TypeCorrect == Spec => []TypeOK
<1> USE OutboxAssumption, TicketType
<1>1. Init => TypeOK
  BY DEF Init, TypeOK, Statuses, Stages
<1>2. TypeOK /\ [Next]_vars => TypeOK'
  <2> SUFFICES ASSUME TypeOK, [Next]_vars PROVE TypeOK'
    OBVIOUS
  <2> USE DEF TypeOK, Statuses, Stages, Unfinished, Terminal, ticketVars,
              rowVars, workerVars, Goto
  <2>1. ASSUME NEW d \in Deliveries, Accept(d) PROVE TypeOK'
    BY <2>1 DEF Accept, Stamp, FirstStatus, Topic
  <2>2. ASSUME NEW d \in Deliveries, BeginInsert(d) PROVE TypeOK'
    BY <2>2 DEF BeginInsert, Stamp, Topic
  <2>3. ASSUME NEW d \in Deliveries, CommitInsert(d) PROVE TypeOK'
    BY <2>3 DEF CommitInsert, FirstStatus
  <2>4. ASSUME NEW t \in Tickets, AttachTopic(t) PROVE TypeOK'
    BY <2>4 DEF AttachTopic, AttachAndRelease
  <2>5. ASSUME NEW t \in Tickets, TopicDeleted(t) PROVE TypeOK'
    BY <2>5 DEF TopicDeleted
  <2>6. ASSUME NEW t \in Tickets, InvalidateTopic(t) PROVE TypeOK'
    BY <2>6 DEF InvalidateTopic
  <2>7. ASSUME NEW t \in Tickets, SetBlock(t) PROVE TypeOK'
    BY <2>7 DEF SetBlock
  <2>8. ASSUME NEW S \in SUBSET Deliveries, Claim(S) PROVE TypeOK'
    BY <2>8 DEF Claim, FreshTokens
  <2>9. ASSUME NEW d \in Deliveries, ClaimExpires(d) PROVE TypeOK'
    BY <2>9 DEF ClaimExpires
  <2>10. ASSUME NEW d \in Deliveries, Deliver(d) PROVE TypeOK'
    <3>1. CASE CheckRecipient(d)
      BY <3>1 DEF CheckRecipient
    <3>2. CASE MarkCancelled(d) \/ MarkDelivered(d) \/ MarkRetry(d) \/ MarkFailed(d)
      BY <3>2 DEF MarkCancelled, MarkDelivered, MarkRetry, MarkFailed, Transition,
                  AfterRetry, Owns
    <3>3. CASE PrepareContext(d)
      BY <3>3 DEF PrepareContext, Owns
    <3>4. CASE Send(d)
      BY <3>4 DEF Send
    <3>5. CASE SendFails(d) \/ SendRejected(d)
      BY <3>5 DEF SendFails, SendRejected
    <3>6. CASE RecoverTopic(d)
      BY <3>6 DEF RecoverTopic, AttachAndRelease, Topic
    <3>7. CASE RecoverTopicFails(d)
      BY <3>7 DEF RecoverTopicFails
    <3>8. CASE Retarget(d)
      BY <3>8 DEF Retarget
    <3> QED
      BY <2>10, <3>1, <3>2, <3>3, <3>4, <3>5, <3>6, <3>7, <3>8 DEF Deliver
  <2>11. ASSUME NEW d \in Deliveries, OutcomeLost(d) PROVE TypeOK'
    BY <2>11 DEF OutcomeLost, Fault
  <2>12. CASE ReleaseStale
    BY <2>12 DEF ReleaseStale
  <2>13. CASE StartBatch
    BY <2>13 DEF StartBatch
  <2>14. CASE ReleaseUnstarted
    BY <2>14 DEF ReleaseUnstarted
  <2>15. CASE Stop \/ Exit \/ Restart
    BY <2>15 DEF Stop, Exit, Restart, Fault
  <2>16. CASE Crash
    BY <2>16 DEF Crash, Fault
  <2>17. CASE UNCHANGED vars
    BY <2>17 DEF vars
  <2> QED
    BY <2>1, <2>2, <2>3, <2>4, <2>5, <2>6, <2>7, <2>8, <2>9, <2>10, <2>11, <2>12,
       <2>13, <2>14, <2>15, <2>16, <2>17 DEF Next
<1> QED
  BY <1>1, <1>2, PTL DEF Spec
-----------------------------------------------------------------------------
(***************************************************************************)
(* Order and ownership.  TicketFIFO and InFlightOwnsClaim are not inductive:*)
(* a claimed row stays at the head of its ticket only because a new row is  *)
(* stamped later than every row of the ticket, and a redirection to a new   *)
(* topic takes no claim from a running job only because a ticket has one    *)
(* claimed row.                                                             *)
(***************************************************************************)
ClaimedAtHead ==
    \A d \in Undisturbed : status[d] = "processing" => NoEarlierUnfinished(d)

\* created_at orders the rows of a ticket, and no row is ahead of the clock.
StampsOrdered ==
    \A d \in Undisturbed :
        /\ created[d] <= clock[TicketOf[d]]
        /\ status[d] = "uncommitted" => Siblings(d) = {d} /\ d \notin Inbound
        /\ \A e \in Siblings(d) \ {d} :
             status[d] # "absent" /\ status[e] # "absent" => created[d] # created[e]

\* Only claimed rows are overdue.
OverdueClaimed == \A d \in overdue : status[d] = "processing"

\* Only rows to a topic wait for one, or are ever found to have lost theirs.
TopicRows ==
    /\ \A d \in Deliveries :
         /\ status[d] = "waiting_topic" => d \in Inbound
         /\ stage[d] \in {"missing", "retarget"} => d \in Inbound
    /\ \A t \in bound : threads[t] > 0

Owned == \A d \in Undisturbed : OwnsClaim(d)
ReleasedInTime == \A d \in Undisturbed : NotStranded(d)

Order ==
    /\ TypeOK
    /\ StampsOrdered
    /\ Owned
    /\ ClaimedAtHead
    /\ OverdueClaimed
    /\ TopicRows
    /\ ReleasedInTime

\* What disturbs one row of a ticket disturbs them all.
LEMMA SiblingsAlike ==
  /\ Undisturbed \subseteq Deliveries
  /\ \A d \in Deliveries : \A e \in Siblings(d) :
        /\ e \in Deliveries /\ d \in Siblings(e) /\ TicketOf[d] = TicketOf[e]
        /\ d \in Undisturbed <=> e \in Undisturbed
  /\ \A d \in Undisturbed \intersect Unserialized : Siblings(d) = {d} /\ d \notin Inbound
<1>1. /\ Undisturbed \subseteq Deliveries
      /\ \A d \in Deliveries : d \in Siblings(d)
  BY DEF Undisturbed, Siblings
<1>2. \A d \in Deliveries : \A e \in Siblings(d) :
        /\ e \in Deliveries /\ d \in Siblings(e) /\ TicketOf[d] = TicketOf[e]
        /\ Siblings(d) = Siblings(e)
  BY DEF Siblings
<1>3. \A d \in Deliveries : \A e \in Siblings(d) : d \in Undisturbed <=> e \in Undisturbed
  BY <1>1, <1>2 DEF Undisturbed
<1>4. \A d \in Undisturbed \intersect Unserialized : Siblings(d) = {d} /\ d \notin Inbound
  BY <1>1 DEF Undisturbed
<1> QED
  BY <1>1, <1>2, <1>3, <1>4

\* Which rows are undisturbed is known from the start.
LEMMA UndisturbedRows == Undisturbed \subseteq Deliveries /\ Undisturbed' = Undisturbed
  BY DEF Undisturbed, Siblings

\* Steps that take no row into the queue keep what is claimed at the head.
LEMMA HeadPreserved ==
  ASSUME ClaimedAtHead, UNCHANGED created,
         \A d \in Deliveries : status'[d] \in Unfinished => status[d] \in Unfinished,
         \A d \in Deliveries : status'[d] = "processing" => status[d] = "processing"
  PROVE  ClaimedAtHead'
  BY UndisturbedRows DEF ClaimedAtHead, NoEarlierUnfinished, Siblings

\* At most one row of a ticket is claimed.
LEMMA OneClaimPerTicket ==
  ASSUME Order, NEW d \in Undisturbed, NEW e \in Siblings(d),
         status[d] = "processing", status[e] = "processing"
  PROVE  e = d
  BY SiblingsAlike DEF Order, TypeOK, StampsOrdered, ClaimedAtHead, NoEarlierUnfinished,
         Siblings, Unfinished

\* Writing an outcome keeps the invariant: the row leaves PROCESSING.
LEMMA TransitionKeepsOrder ==
  ASSUME Order, TypeOK', NEW d \in Deliveries, NEW s \in {"pending"} \union Terminal,
         Transition(d, s)
  PROVE  Order'
<1> USE UndisturbedRows DEF OwnsClaim, NotStranded
<1> USE DEF Order, Transition, Goto, Owns, Unfinished, Terminal, ticketVars
<1>1. StampsOrdered'
  BY DEF StampsOrdered, Siblings, TypeOK, Statuses
<1>2. Owned'
  BY DEF Owned, TypeOK
<1>3. ClaimedAtHead'
  BY HeadPreserved DEF Owned, TypeOK
<1>4. OverdueClaimed'
  BY DEF OverdueClaimed, TypeOK
<1>5. TopicRows'
  BY DEF TopicRows, TypeOK
<1>6. ReleasedInTime'
  BY DEF ReleasedInTime, TypeOK
<1> QED
  BY <1>1, <1>2, <1>3, <1>4, <1>5, <1>6

\* Binding a new topic releases exactly the rows that wait for it.
LEMMA AttachKeepsOrder ==
  ASSUME Order, TypeOK', NEW t \in Tickets, AttachAndRelease(t),
         UNCHANGED <<created, owner, overdue, clock, batch>>,
         \A d \in Deliveries : stage'[d] # "idle" => stage[d] # "idle",
         \A d \in Deliveries : stage'[d] = "missing" => stage[d] = "missing",
         \A d \in Deliveries :
            stage'[d] = "retarget" => stage[d] \in {"missing", "retarget"}
  PROVE  Order'
<1> USE UndisturbedRows DEF OwnsClaim, NotStranded
<1> USE DEF Order, AttachAndRelease, Waiting, Unfinished
<1>1. StampsOrdered'
  BY DEF StampsOrdered, Siblings, TypeOK
<1>2. Owned'
  BY DEF Owned, TypeOK
<1>3. ClaimedAtHead'
  BY HeadPreserved DEF TypeOK
<1>4. OverdueClaimed'
  BY DEF OverdueClaimed, TypeOK
<1>5. TopicRows'
  BY DEF TopicRows, TypeOK
<1>6. ReleasedInTime'
  BY DEF ReleasedInTime, TopicRows, TypeOK
<1> QED
  BY <1>1, <1>2, <1>3, <1>4, <1>5, <1>6

\* Every step of a job keeps the invariant.
LEMMA DeliverKeepsOrder ==
  ASSUME Order, TypeOK', NEW d \in Deliveries, Deliver(d)
  PROVE  Order'
<1> USE OutboxAssumption
<1> USE UndisturbedRows DEF OwnsClaim, NotStranded
<1>0. TicketOf[d] \in Tickets
  BY TicketType
<1>1. CASE MarkCancelled(d) \/ MarkDelivered(d) \/ MarkRetry(d) \/ MarkFailed(d)
  BY <1>1, TransitionKeepsOrder DEF MarkCancelled, MarkDelivered, MarkRetry,
     MarkFailed, AfterRetry, Terminal
<1>2. CASE CheckRecipient(d) \/ SendFails(d) \/ SendRejected(d) \/ Send(d)
           \/ RecoverTopicFails(d) \/ PrepareContext(d)
  <2> USE DEF CheckRecipient, SendFails, SendRejected, Send, RecoverTopicFails,
              PrepareContext, Goto, Reachable, rowVars, ticketVars
  <2>1. /\ UNCHANGED <<status, created, owner, overdue, threads, batch, clock>>
        /\ bound' \subseteq bound
        /\ \A e \in Deliveries : stage'[e] # "idle" => stage[e] # "idle"
        /\ \A e \in Deliveries :
             stage'[e] \in {"missing", "retarget"} =>
                stage[e] \in {"missing", "retarget"} \/ e \in Inbound
    BY <1>2 DEF Order, TypeOK
  <2>2. StampsOrdered'
    BY <2>1 DEF Order, StampsOrdered, Siblings
  <2>3. Owned'
    BY <2>1 DEF Order, Owned
  <2>4. ClaimedAtHead'
    BY <2>1 DEF Order, ClaimedAtHead, NoEarlierUnfinished, Siblings
  <2>5. OverdueClaimed'
    BY <2>1 DEF Order, OverdueClaimed
  <2>6. TopicRows' /\ ReleasedInTime'
    BY <2>1 DEF Order, TopicRows, ReleasedInTime
  <2> QED
    BY <2>2, <2>3, <2>4, <2>5, <2>6 DEF Order
<1>3. CASE RecoverTopic(d)
  <2>1. CASE AttachAndRelease(TicketOf[d])
    BY <1>0, <1>3, <2>1, AttachKeepsOrder DEF RecoverTopic, Goto, Order, TypeOK
  <2>2. CASE UNCHANGED <<status, thread, threads, bound, gone>>
    <3> USE <1>3, <2>2 DEF Order, RecoverTopic, Goto
    <3>1. StampsOrdered' /\ OverdueClaimed' /\ ReleasedInTime'
      BY DEF StampsOrdered, Siblings, OverdueClaimed, ReleasedInTime
    <3>2. Owned'
      BY DEF Owned, TypeOK
    <3>3. ClaimedAtHead'
      BY DEF ClaimedAtHead, NoEarlierUnfinished, Siblings
    <3>4. TopicRows'
      BY DEF TopicRows, TypeOK
    <3> QED
      BY <3>1, <3>2, <3>3, <3>4
  <2> QED
    BY <1>3, <2>1, <2>2 DEF RecoverTopic
<1>4. CASE Retarget(d)
  <2> DEFINE S == Stranded(d)
  <2> USE <1>4 DEF Order, Retarget, Goto, ticketVars
  <2>1. \A e \in S : stage[e] # "idle" /\ e \in Undisturbed => e = d
    <3> SUFFICES ASSUME NEW e \in S, stage[e] # "idle", e \in Undisturbed PROVE e = d
      OBVIOUS
    <3>1. d \in Undisturbed /\ e \in Siblings(d)
      BY SiblingsAlike DEF Stranded
    <3>2. status[d] = "processing" /\ status[e] = "processing"
      BY <3>1 DEF Owned
    <3> QED
      BY <3>1, <3>2, OneClaimPerTicket
  <2>2. \A e \in S : e \in Deliveries /\ status[e] \in {"pending", "processing"}
    BY DEF Stranded, Siblings
  <2> HIDE DEF S
  <2>3. /\ status' = [e \in Deliveries |-> IF e \in S THEN "pending" ELSE status[e]]
        /\ owner' = [e \in Deliveries |-> IF e \in S THEN NoToken ELSE owner[e]]
        /\ overdue' = overdue \ S
        /\ stage' = [stage EXCEPT ![d] = IF S = {} THEN "retry" ELSE "idle"]
        /\ UNCHANGED <<created, clock, batch, bound, threads>>
    BY DEF S
  <2>4. StampsOrdered'
    BY <2>2, <2>3 DEF StampsOrdered, Siblings, TypeOK
  <2>5. Owned'
    BY <2>1, <2>2, <2>3 DEF Owned, TypeOK
  <2>6. ClaimedAtHead'
    BY <2>2, <2>3, HeadPreserved DEF TypeOK, Unfinished
  <2>7. OverdueClaimed'
    BY <2>2, <2>3 DEF OverdueClaimed, TypeOK
  <2>8. TopicRows' /\ ReleasedInTime'
    BY <2>2, <2>3 DEF TopicRows, ReleasedInTime, TypeOK
  <2> QED
    BY <2>4, <2>5, <2>6, <2>7, <2>8
<1> QED
  BY <1>1, <1>2, <1>3, <1>4 DEF Deliver

\* The invariant holds, whatever is inserted without a lock.
LEMMA OrderInvariant == Spec => []Order
<1> USE OutboxAssumption, TicketType
<1> USE UndisturbedRows DEF OwnsClaim, NotStranded
<1>1. Init => Order
  BY DEF Init, Order, TypeOK, Statuses, Stages, StampsOrdered, Owned,
         ClaimedAtHead, OverdueClaimed, TopicRows, ReleasedInTime, Siblings
<1>2. Order /\ TypeOK' /\ [Next]_vars => Order'
  <2> SUFFICES ASSUME Order, TypeOK', [Next]_vars PROVE Order'
    OBVIOUS
  <2>1. ASSUME NEW d \in Deliveries, Accept(d) PROVE Order'
    <3> USE <2>1 DEF Order, Accept, Stamp, workerVars
    <3>0. \A e \in Siblings(d) : d \in Undisturbed => created[e] < created'[d]
      BY SiblingsAlike DEF StampsOrdered, Siblings, TypeOK
    <3>1. /\ created' = [created EXCEPT ![d] = clock[TicketOf[d]] + 1]
          /\ \A e \in Deliveries \ {d} : created'[e] = created[e] /\ status'[e] = status[e]
          /\ d \in Undisturbed => stage[d] = "idle"
          /\ status[d] = "absent"
          /\ status'[d] = FirstStatus(d, Topic(TicketOf[d]))
          /\ status'[d] \in {"waiting_topic", "pending"}
      BY DEF StampsOrdered, Siblings, TypeOK, Owned, FirstStatus
    <3>2. StampsOrdered'
      BY <3>0, <3>1, SiblingsAlike DEF StampsOrdered, Siblings, TypeOK
    <3>3. Owned'
      BY <3>1 DEF Owned, TypeOK
    <3>4. ClaimedAtHead'
      BY <3>0, <3>1, SiblingsAlike DEF ClaimedAtHead, NoEarlierUnfinished, Siblings, TypeOK
    <3>5. OverdueClaimed'
      BY <3>1 DEF OverdueClaimed, TypeOK
    <3>6. TopicRows' /\ ReleasedInTime'
      BY <3>1 DEF TopicRows, ReleasedInTime, FirstStatus, Topic, TypeOK
    <3> QED
      BY <3>2, <3>3, <3>4, <3>5, <3>6
  <2>2. ASSUME NEW d \in Deliveries, BeginInsert(d) PROVE Order'
    <3> USE <2>2 DEF Order, BeginInsert, Stamp, workerVars
    <3>1. /\ created' = [created EXCEPT ![d] = clock[TicketOf[d]] + 1]
          /\ clock' = [clock EXCEPT ![TicketOf[d]] = @ + 1]
          /\ status' = [status EXCEPT ![d] = "uncommitted"]
          /\ status[d] = "absent"
          /\ d \in Undisturbed => Siblings(d) = {d} /\ d \notin Inbound
      BY SiblingsAlike
    <3>2. \A e \in Undisturbed : e # d => d \notin Siblings(e)
      BY <3>1, SiblingsAlike
    <3>3. StampsOrdered'
      BY <3>1, <3>2 DEF StampsOrdered, Siblings, TypeOK
    <3>4. Owned'
      BY <3>1 DEF Owned, TypeOK
    <3>5. ClaimedAtHead'
      BY <3>1, <3>2 DEF ClaimedAtHead, NoEarlierUnfinished, Siblings, TypeOK
    <3>6. OverdueClaimed'
      BY <3>1 DEF OverdueClaimed, TypeOK
    <3>7. TopicRows' /\ ReleasedInTime'
      BY <3>1 DEF TopicRows, ReleasedInTime, TypeOK
    <3> QED
      BY <3>3, <3>4, <3>5, <3>6, <3>7
  <2>13. ASSUME NEW d \in Deliveries, CommitInsert(d) PROVE Order'
    <3> USE <2>13 DEF Order, CommitInsert, ticketVars, workerVars
    <3>1. /\ status[d] = "uncommitted" /\ UNCHANGED <<created, clock, stage, bound>>
          /\ status' = [status EXCEPT ![d] = FirstStatus(d, thread[d])]
          /\ status'[d] \in {"waiting_topic", "pending"}
          /\ status'[d] = "waiting_topic" => d \in Inbound
          /\ d \in Undisturbed => Siblings(d) = {d} /\ d \notin Inbound
      BY DEF StampsOrdered, FirstStatus, TypeOK
    <3>2. \A e \in Undisturbed : e # d => d \notin Siblings(e)
      BY <3>1, SiblingsAlike
    <3>3. StampsOrdered'
      BY <3>1, <3>2 DEF StampsOrdered, Siblings, TypeOK
    <3>4. Owned'
      BY <3>1 DEF Owned, TypeOK
    <3>5. ClaimedAtHead'
      BY <3>1, <3>2 DEF ClaimedAtHead, NoEarlierUnfinished, Siblings, TypeOK
    <3>6. OverdueClaimed'
      BY <3>1 DEF OverdueClaimed, TypeOK
    <3>7. TopicRows' /\ ReleasedInTime'
      BY <3>1 DEF TopicRows, ReleasedInTime, TypeOK
    <3> QED
      BY <3>3, <3>4, <3>5, <3>6, <3>7
  <2>3. ASSUME NEW t \in Tickets, AttachTopic(t) PROVE Order'
    BY <2>3, AttachKeepsOrder DEF AttachTopic, workerVars
  <2>4. ASSUME NEW t \in Tickets,
               TopicDeleted(t) \/ InvalidateTopic(t) \/ SetBlock(t)
        PROVE Order'
    <3>1. /\ UNCHANGED <<rowVars, workerVars, threads, clock>>
          /\ bound' \subseteq bound
      BY <2>4 DEF TopicDeleted, InvalidateTopic, SetBlock
    <3> QED
      BY <3>1 DEF Order, rowVars, workerVars, StampsOrdered, Owned,
         ClaimedAtHead, OverdueClaimed, TopicRows, ReleasedInTime, Siblings,
         NoEarlierUnfinished
  <2>5. ASSUME NEW S \in SUBSET Deliveries, Claim(S) PROVE Order'
    <3> USE <2>5 DEF Order, Claim, ticketVars, Unfinished
    <3>1. StampsOrdered' /\ OverdueClaimed'
      BY DEF StampsOrdered, OverdueClaimed, Siblings, Claimable, TypeOK
    <3>2. Owned'
      BY DEF Owned, AllIdle, TypeOK
    <3>3. ClaimedAtHead'
      BY DEF ClaimedAtHead, NoEarlierUnfinished, Claimable, Siblings, TypeOK
    <3>4. TopicRows' /\ ReleasedInTime'
      BY DEF TopicRows, ReleasedInTime, TypeOK
    <3> QED
      BY <3>1, <3>2, <3>3, <3>4
  <2>6. ASSUME NEW d \in Deliveries, ClaimExpires(d) PROVE Order'
    BY <2>6 DEF ClaimExpires, Order, StampsOrdered, Owned,
       ClaimedAtHead, OverdueClaimed, TopicRows, ReleasedInTime, Siblings,
       NoEarlierUnfinished, ticketVars, workerVars
  <2>7. ASSUME NEW d \in Deliveries, Deliver(d) PROVE Order'
    BY <2>7, DeliverKeepsOrder
  <2>8. CASE ReleaseStale
    <3> USE <2>8 DEF Order, ReleaseStale, ticketVars, workerVars
    <3>1. StampsOrdered' /\ OverdueClaimed'
      BY DEF StampsOrdered, OverdueClaimed, Siblings, TypeOK
    <3>2. Owned'
      BY DEF Owned, AllIdle
    <3>3. ClaimedAtHead'
      BY HeadPreserved DEF OverdueClaimed, TypeOK, Unfinished
    <3>4. TopicRows' /\ ReleasedInTime'
      BY DEF TopicRows, ReleasedInTime, TypeOK
    <3> QED
      BY <3>1, <3>2, <3>3, <3>4
  <2>9. ASSUME StartBatch \/ Stop \/ Exit \/ Restart
                 \/ \E d \in Deliveries : OutcomeLost(d)
        PROVE  Order'
    <3>1. /\ UNCHANGED <<rowVars, ticketVars, batch>>
          /\ \A d \in Deliveries : stage'[d] # "idle" => stage[d] # "idle"
          /\ \A d \in Deliveries :
               stage'[d] \in {"missing", "retarget"} => stage'[d] = stage[d]
      BY <2>9 DEF StartBatch, Stop, Exit, Restart, OutcomeLost, Goto, Order, TypeOK
    <3> QED
      BY <3>1 DEF Order, rowVars, ticketVars, StampsOrdered, Owned,
         ClaimedAtHead, OverdueClaimed, TopicRows, ReleasedInTime, Siblings,
         NoEarlierUnfinished
  <2>10. CASE ReleaseUnstarted
    <3> USE <2>10 DEF Order, ReleaseUnstarted, ticketVars
    <3>1. StampsOrdered' /\ OverdueClaimed'
      BY DEF StampsOrdered, OverdueClaimed, Siblings, TypeOK
    <3>2. Owned'
      BY DEF Owned
    <3>3. ClaimedAtHead'
      BY HeadPreserved DEF TypeOK, Unfinished
    <3>4. TopicRows' /\ ReleasedInTime'
      BY DEF TopicRows, ReleasedInTime, TypeOK
    <3> QED
      BY <3>1, <3>2, <3>3, <3>4
  <2>11. CASE Crash
    <3> USE <2>11 DEF Order, Crash, ticketVars
    <3>1. \A d \in Deliveries :
            \/ status'[d] = status[d] /\ created'[d] = created[d]
            \/ status[d] = "uncommitted" /\ status'[d] = "absent" /\ created'[d] = 0
      BY DEF TypeOK
    <3>2. StampsOrdered' /\ OverdueClaimed'
      BY <3>1 DEF StampsOrdered, OverdueClaimed, Siblings, TypeOK
    <3>3. Owned'
      BY DEF Owned
    <3>4. ClaimedAtHead'
      BY <3>1 DEF ClaimedAtHead, NoEarlierUnfinished, Siblings, Unfinished, TypeOK
    <3>5. TopicRows' /\ ReleasedInTime'
      BY <3>1 DEF TopicRows, ReleasedInTime, TypeOK
    <3> QED
      BY <3>2, <3>3, <3>4, <3>5
  <2>12. CASE UNCHANGED vars
    BY <2>12 DEF vars, rowVars, ticketVars, workerVars, Order, StampsOrdered,
       Owned, ClaimedAtHead, OverdueClaimed, TopicRows,
       ReleasedInTime, Siblings, NoEarlierUnfinished
  <2> QED
    BY <2>1, <2>2, <2>3, <2>4, <2>5, <2>6, <2>7, <2>8, <2>9, <2>10, <2>11, <2>12, <2>13
       DEF Next
<1> QED
  BY <1>1, <1>2, TypeCorrect, PTL DEF Spec

\* A ticket whose rows are all inserted under its lock is served in order, by jobs that
\* own their rows, and none of its rows waits for a topic it has, whatever other
\* tickets suffer from inserts without a lock.
THEOREM UndisturbedTickets ==
  Spec => [](\A d \in Undisturbed : InOrder(d) /\ OwnsClaim(d) /\ NotStranded(d))
<1>1. Order => \A d \in Undisturbed : InOrder(d) /\ OwnsClaim(d) /\ NotStranded(d)
  BY DEF Order, InOrder, Owned, OwnsClaim, ClaimedAtHead, ReleasedInTime
<1> QED
  BY <1>1, OrderInvariant, PTL

\* FIFO inside every ticket, for any number of tickets, rows and faults.
THEOREM DeliveryIsFIFO ==
  ASSUME Undisturbed = Deliveries
  PROVE  Spec => []TicketFIFO
<1>1. (\A d \in Undisturbed : InOrder(d) /\ OwnsClaim(d) /\ NotStranded(d)) => TicketFIFO
  BY DEF TicketFIFO
<1> QED
  BY <1>1, UndisturbedTickets, PTL

\* No running job ever loses its claim.
THEOREM JobsOwnTheirClaims ==
  ASSUME Undisturbed = Deliveries
  PROVE  Spec => []InFlightOwnsClaim
<1>1. (\A d \in Undisturbed : InOrder(d) /\ OwnsClaim(d) /\ NotStranded(d)) => InFlightOwnsClaim
  BY DEF InFlightOwnsClaim
<1> QED
  BY <1>1, UndisturbedTickets, PTL

\* No row waits for a topic its ticket has.
THEOREM NobodyStranded ==
  ASSUME Undisturbed = Deliveries
  PROVE  Spec => []NoStrandedWaiter
<1>1. (\A d \in Undisturbed : InOrder(d) /\ OwnsClaim(d) /\ NotStranded(d)) => NoStrandedWaiter
  BY DEF NoStrandedWaiter
<1> QED
  BY <1>1, UndisturbedTickets, PTL
-----------------------------------------------------------------------------
(***************************************************************************)
(* Attempts, for all producers.  A row that is neither settled nor in the   *)
(* hands of a job has an attempt to spare: only a fault leaves a claim      *)
(* behind, and a job that gives its row back looks at the count first.      *)
(***************************************************************************)
Live(d) == stage[d] # "idle" /\ Owns(d)

Spare ==
    \A d \in Deliveries :
        status[d] \notin Terminal /\ ~ Live(d) => attempts[d] + 1 <= MaxAttempts + faults

\* The jobs of a batch start together, so a batch given back has none under way.
StartedTogether ==
    \A d, e \in Deliveries : stage[d] = "claimed" => stage[e] \in {"idle", "claimed"}

Budget ==
    /\ TypeOK
    /\ AttemptBudget
    /\ Spare
    /\ StartedTogether
    /\ OverdueClaimed
    /\ \A d \in Deliveries : stage[d] \in {"missing", "retarget"} => d \in Inbound

\* Writing an outcome: a row that returns to the queue has an attempt left.
LEMMA TransitionKeepsBudget ==
  ASSUME Budget, TypeOK', NEW d \in Deliveries, NEW s \in {"pending"} \union Terminal,
         s = "pending" => attempts[d] < MaxAttempts,
         stage[d] # "idle", Transition(d, s)
  PROVE  Budget'
<1> USE OutboxAssumption DEF Budget, Transition, Goto, Owns, Terminal, ticketVars
<1>1. AttemptBudget'
  BY DEF AttemptBudget
<1>2. Spare'
  BY DEF Spare, Live, TypeOK
<1>3. StartedTogether'
  BY DEF StartedTogether, TypeOK
<1>4. OverdueClaimed'
  BY DEF OverdueClaimed, TypeOK
<1>5. \A e \in Deliveries : stage'[e] \in {"missing", "retarget"} => e \in Inbound
  BY DEF TypeOK
<1> QED
  BY <1>1, <1>2, <1>3, <1>4, <1>5

\* Every step of a job keeps the budget.
LEMMA DeliverKeepsBudget ==
  ASSUME Budget, TypeOK', NEW d \in Deliveries, Deliver(d)
  PROVE  Budget'
<1> USE OutboxAssumption
<1>1. CASE MarkCancelled(d) \/ MarkDelivered(d) \/ MarkRetry(d) \/ MarkFailed(d)
  BY <1>1, TransitionKeepsBudget DEF MarkCancelled, MarkDelivered, MarkRetry,
     MarkFailed, AfterRetry, Terminal, Budget, TypeOK
<1>2. CASE CheckRecipient(d) \/ SendFails(d) \/ SendRejected(d) \/ Send(d)
           \/ RecoverTopicFails(d) \/ PrepareContext(d)
  <2>1. /\ UNCHANGED <<status, owner, overdue, attempts, batch, faults>>
        /\ stage[d] \notin {"idle", "claimed"} /\ stage'[d] # "claimed"
        /\ stage'[d] = "idle" => ~ Owns(d)
        /\ stage'[d] \in {"missing", "retarget"} => d \in Inbound
        /\ \A e \in Deliveries \ {d} : stage'[e] = stage[e]
    BY <1>2 DEF CheckRecipient, SendFails, SendRejected, Send, RecoverTopicFails,
       PrepareContext, Goto, Reachable, rowVars, ticketVars, Budget, TypeOK
  <2>2. AttemptBudget' /\ OverdueClaimed'
    BY <2>1 DEF Budget, AttemptBudget, OverdueClaimed
  <2>3. Spare'
    BY <2>1 DEF Budget, Spare, Live, Owns
  <2>4. StartedTogether'
    BY <2>1 DEF Budget, StartedTogether
  <2> QED
    BY <2>1, <2>2, <2>3, <2>4 DEF Budget
<1>3. CASE RecoverTopic(d)
  <2>1. /\ UNCHANGED <<owner, overdue, attempts, batch, faults>>
        /\ stage[d] = "missing" /\ stage' = [stage EXCEPT ![d] = "retarget"]
    BY <1>3 DEF RecoverTopic, Goto
  <2>2. \A e \in Deliveries :
          \/ status'[e] = status[e]
          \/ status[e] = "waiting_topic" /\ status'[e] = "pending"
    BY <1>3 DEF RecoverTopic, AttachAndRelease, Waiting, Budget, TypeOK
  <2>3. AttemptBudget'
    BY <2>1 DEF Budget, AttemptBudget
  <2>4. OverdueClaimed'
    BY <2>1, <2>2 DEF Budget, OverdueClaimed, TypeOK
  <2>5. Spare'
    BY <2>1, <2>2 DEF Budget, Spare, Live, Owns, Terminal, TypeOK
  <2>6. StartedTogether'
    BY <2>1 DEF Budget, StartedTogether, TypeOK
  <2> QED
    BY <2>1, <2>3, <2>4, <2>5, <2>6 DEF Budget, TypeOK
<1>4. CASE Retarget(d)
  <2> DEFINE S == Stranded(d)
  <2>1. /\ \A e \in S : e \in Deliveries /\ status[e] \in {"pending", "processing"}
        /\ Owns(d) => d \in S
    BY <1>4 DEF Stranded, Siblings, Owns, Retarget, Budget
  <2>2. /\ stage[d] = "retarget"
        /\ stage' = [stage EXCEPT ![d] = IF S = {} THEN "retry" ELSE "idle"]
        /\ status' = [e \in Deliveries |-> IF e \in S THEN "pending" ELSE status[e]]
        /\ attempts' = [e \in Deliveries |-> IF e \in S THEN 0 ELSE attempts[e]]
        /\ owner' = [e \in Deliveries |-> IF e \in S THEN NoToken ELSE owner[e]]
        /\ overdue' = overdue \ S
        /\ UNCHANGED <<batch, faults>>
    BY <1>4 DEF Retarget, Goto
  <2> HIDE DEF S
  <2>3. AttemptBudget'
    BY <2>2 DEF Budget, AttemptBudget, TypeOK
  <2>4. OverdueClaimed'
    BY <2>2 DEF Budget, OverdueClaimed, TypeOK
  <2>5. Spare'
    BY <2>1, <2>2 DEF Budget, Spare, Live, Owns, Terminal, TypeOK
  <2>6. StartedTogether'
    BY <2>2 DEF Budget, StartedTogether, TypeOK
  <2>7. \A e \in Deliveries : stage'[e] \in {"missing", "retarget"} => e \in Inbound
    BY <2>2 DEF Budget, TypeOK
  <2> QED
    BY <2>3, <2>4, <2>5, <2>6, <2>7 DEF Budget
<1> QED
  BY <1>1, <1>2, <1>3, <1>4 DEF Deliver

\* A row is claimed at most MaxAttempts times, plus once for each claim that a
\* crash or a lost commit left behind: no order of crashes, stale releases,
\* redirections and stops lets a message be tried for ever.
THEOREM AttemptsAreBounded == Spec => []AttemptBudget
<1> USE OutboxAssumption
<1>1. Init => Budget
  BY DEF Init, Budget, TypeOK, Statuses, Stages, AttemptBudget, Spare, StartedTogether,
         OverdueClaimed
<1>2. Budget /\ TypeOK' /\ [Next]_vars => Budget'
  <2> SUFFICES ASSUME Budget, TypeOK', [Next]_vars PROVE Budget'
    OBVIOUS
  <2>1. ASSUME NEW d \in Deliveries, Accept(d) \/ BeginInsert(d) \/ CommitInsert(d)
        PROVE Budget'
    <3>1. /\ UNCHANGED <<owner, overdue, attempts, stage, batch, faults>>
          /\ status[d] \in {"absent", "uncommitted"}
          /\ \A e \in Deliveries \ {d} : status'[e] = status[e]
      BY <2>1 DEF Accept, BeginInsert, CommitInsert, workerVars, Budget, TypeOK
    <3>2. AttemptBudget' /\ StartedTogether'
      BY <3>1 DEF Budget, AttemptBudget, StartedTogether
    <3>3. OverdueClaimed'
      BY <3>1 DEF Budget, OverdueClaimed, TypeOK
    <3>4. Spare'
      BY <3>1 DEF Budget, Spare, Live, Owns, Terminal, TypeOK
    <3> QED
      BY <3>1, <3>2, <3>3, <3>4 DEF Budget
  <2>2. ASSUME NEW t \in Tickets,
               AttachTopic(t) \/ TopicDeleted(t) \/ InvalidateTopic(t) \/ SetBlock(t)
        PROVE Budget'
    <3>1. /\ UNCHANGED <<owner, overdue, attempts, stage, batch, faults>>
          /\ \A e \in Deliveries :
               \/ status'[e] = status[e]
               \/ status[e] = "waiting_topic" /\ status'[e] = "pending"
      BY <2>2 DEF AttachTopic, TopicDeleted, InvalidateTopic, SetBlock, AttachAndRelease,
         Waiting, rowVars, workerVars, Budget, TypeOK
    <3>2. AttemptBudget' /\ StartedTogether'
      BY <3>1 DEF Budget, AttemptBudget, StartedTogether
    <3>3. OverdueClaimed'
      BY <3>1 DEF Budget, OverdueClaimed, TypeOK
    <3>4. Spare'
      BY <3>1 DEF Budget, Spare, Live, Owns, Terminal, TypeOK
    <3> QED
      BY <3>1, <3>2, <3>3, <3>4 DEF Budget
  <2>3. ASSUME NEW S \in SUBSET Deliveries, Claim(S) PROVE Budget'
    <3>1. /\ AllIdle
          /\ \A d \in S : status[d] = "pending"
          /\ UNCHANGED <<overdue, faults>>
          /\ batch' \in Tokens
          /\ owner' = [d \in Deliveries |-> IF d \in S THEN batch' ELSE owner[d]]
          /\ status' = [d \in Deliveries |-> IF d \in S THEN "processing" ELSE status[d]]
          /\ attempts' = [d \in Deliveries |->
                            IF d \in S THEN attempts[d] + 1 ELSE attempts[d]]
          /\ stage' = [d \in Deliveries |-> IF d \in S THEN "claimed" ELSE stage[d]]
      BY <2>3 DEF Claim, Claimable, FreshTokens
    <3>2. AttemptBudget'
      BY <3>1 DEF Budget, AttemptBudget, Spare, AllIdle, Live, Terminal, TypeOK
    <3>3. StartedTogether'
      BY <3>1 DEF AllIdle, StartedTogether
    <3>4. OverdueClaimed'
      BY <3>1 DEF Budget, OverdueClaimed, TypeOK
    <3>5. Spare'
      BY <3>1 DEF Budget, Spare, AllIdle, Live, Owns, Terminal, TypeOK
    <3>6. \A e \in Deliveries : stage'[e] \in {"missing", "retarget"} => e \in Inbound
      BY <3>1 DEF Budget
    <3> QED
      BY <3>2, <3>3, <3>4, <3>5, <3>6 DEF Budget
  <2>4. ASSUME NEW d \in Deliveries, ClaimExpires(d) PROVE Budget'
    BY <2>4 DEF ClaimExpires, Budget, AttemptBudget, Spare, StartedTogether,
       OverdueClaimed, Live, Owns, workerVars
  <2>5. ASSUME NEW d \in Deliveries, Deliver(d) PROVE Budget'
    BY <2>5, DeliverKeepsBudget
  <2>6. CASE ReleaseStale
    <3> USE <2>6 DEF Budget, ReleaseStale, workerVars
    <3>1. AttemptBudget' /\ StartedTogether' /\ OverdueClaimed'
      BY DEF AttemptBudget, StartedTogether, OverdueClaimed
    <3>2. Spare'
      BY DEF Spare, AllIdle, Live, Terminal, OverdueClaimed, TypeOK
    <3> QED
      BY <3>1, <3>2
  <2>7. CASE ReleaseUnstarted
    <3> DEFINE S == {d \in Deliveries : /\ stage[d] = "claimed"
                                        /\ status[d] = "processing"
                                        /\ owner[d] = batch}
    <3>1. /\ \A d \in Deliveries : Live(d) => d \in S
          /\ \A d \in S : d \in Deliveries /\ status[d] = "processing"
      BY <2>7 DEF ReleaseUnstarted, Live, Owns, Budget, StartedTogether
    <3>2. /\ UNCHANGED <<batch, faults>>
          /\ status' = [d \in Deliveries |-> IF d \in S THEN "pending" ELSE status[d]]
          /\ attempts' = [d \in Deliveries |->
                            IF d \in S /\ attempts[d] > 0 THEN attempts[d] - 1
                            ELSE attempts[d]]
          /\ overdue' = overdue \ S
          /\ stage' = [d \in Deliveries |-> "idle"]
      BY <2>7 DEF ReleaseUnstarted
    <3> HIDE DEF S
    <3>3. AttemptBudget'
      BY <3>2 DEF Budget, AttemptBudget, TypeOK
    <3>4. Spare'
      BY <3>1, <3>2 DEF Budget, AttemptBudget, Spare, Terminal, TypeOK
    <3>5. StartedTogether' /\ OverdueClaimed'
      BY <3>2 DEF Budget, StartedTogether, OverdueClaimed, TypeOK
    <3> QED
      BY <3>2, <3>3, <3>4, <3>5 DEF Budget
  <2>8. CASE StartBatch \/ Stop \/ Exit \/ Restart
    <3>1. /\ UNCHANGED <<rowVars, batch>>
          /\ faults' \in {faults, faults + 1}
          /\ \A d \in Deliveries :
               \/ stage'[d] = stage[d] /\ UNCHANGED stage
               \/ stage[d] = "claimed" /\ stage'[d] = "started"
               \/ stage[d] # "claimed" /\ stage'[d] = stage[d]
      BY <2>8 DEF StartBatch, Stop, Exit, Restart, Fault, Budget, TypeOK
    <3>2. AttemptBudget' /\ OverdueClaimed'
      BY <3>1 DEF Budget, AttemptBudget, OverdueClaimed, rowVars, TypeOK
    <3>3. Spare'
      BY <3>1 DEF Budget, Spare, Live, Owns, rowVars, TypeOK
    <3>4. StartedTogether'
      BY <3>1 DEF Budget, StartedTogether
    <3> QED
      BY <3>1, <3>2, <3>3, <3>4 DEF Budget
  <2>9. ASSUME NEW d \in Deliveries, OutcomeLost(d) PROVE Budget'
    <3> USE <2>9 DEF Budget, OutcomeLost, Fault, Goto, rowVars
    <3>1. AttemptBudget' /\ OverdueClaimed'
      BY DEF AttemptBudget, OverdueClaimed, TypeOK
    <3>2. Spare'
      BY DEF AttemptBudget, Spare, Live, Owns, TypeOK
    <3>3. StartedTogether'
      BY DEF StartedTogether, TypeOK
    <3> QED
      BY <3>1, <3>2, <3>3 DEF TypeOK
  <2>10. CASE Crash
    <3> USE <2>10 DEF Budget, Crash, Fault
    <3>1. AttemptBudget' /\ OverdueClaimed' /\ StartedTogether'
      BY DEF AttemptBudget, OverdueClaimed, StartedTogether, TypeOK
    <3>2. Spare'
      BY DEF AttemptBudget, Spare, Terminal, TypeOK
    <3> QED
      BY <3>1, <3>2 DEF TypeOK
  <2>11. CASE UNCHANGED vars
    BY <2>11 DEF vars, rowVars, workerVars, Budget, AttemptBudget, Spare,
       StartedTogether, OverdueClaimed, Live, Owns
  <2> QED
    BY <2>1, <2>2, <2>3, <2>4, <2>5, <2>6, <2>7, <2>8, <2>9, <2>10, <2>11 DEF Next
<1>3. Budget => AttemptBudget
  BY DEF Budget
<1> QED
  BY <1>1, <1>2, <1>3, TypeCorrect, PTL DEF Spec
-----------------------------------------------------------------------------
(***************************************************************************)
(* The request to refresh the topic of a reopened ticket, for all producers.*)
(***************************************************************************)
Refresh ==
    /\ \A d \in Deliveries : stage[d] = "ready" => d \notin context
    /\ ContextBeforeMessage
    /\ \A d \in Deliveries :
         status[d] \in {"absent", "uncommitted"} => sends[d] = 0 /\ stage[d] = "idle"

\* Steps that ask for no refresh, start no send and insert no row.
LEMMA RefreshPreserved ==
  ASSUME Refresh, UNCHANGED sends, context' \subseteq context,
         \A d \in Deliveries : stage'[d] = "ready" => stage[d] = "ready" \/ d \notin context',
         \A d \in Deliveries :
            status'[d] \in {"absent", "uncommitted"} =>
                status'[d] = status[d] /\ (stage'[d] = "idle" \/ stage'[d] = stage[d])
  PROVE  Refresh'
  BY DEF Refresh, ContextBeforeMessage

\* The message that reopened a ticket is never copied before the topic was
\* refreshed for it: the flag is cleared under the claim, by the attempt that sends.
THEOREM ContextFirst == Spec => []ContextBeforeMessage
<1> USE OutboxAssumption
<1>1. Init => Refresh
  BY DEF Init, Refresh, ContextBeforeMessage
<1>2. TypeOK /\ Refresh /\ TypeOK' /\ [Next]_vars => Refresh'
  <2> SUFFICES ASSUME TypeOK, Refresh, TypeOK', [Next]_vars PROVE Refresh'
    OBVIOUS
  <2> USE DEF TypeOK
  <2>1. ASSUME NEW d \in Deliveries, Accept(d) \/ BeginInsert(d) PROVE Refresh'
    <3>1. /\ status[d] = "absent" /\ context' \in {context, context \union {d}}
          /\ UNCHANGED <<sends, stage>>
          /\ \A e \in Deliveries \ {d} : status'[e] = status[e]
      BY <2>1 DEF Accept, BeginInsert, Stamp, workerVars
    <3> QED
      BY <3>1 DEF Refresh, ContextBeforeMessage
  <2>2. ASSUME NEW d \in Deliveries, CommitInsert(d) PROVE Refresh'
    BY <2>2, RefreshPreserved DEF CommitInsert, FirstStatus, workerVars
  <2>3. ASSUME NEW t \in Tickets,
               AttachTopic(t) \/ TopicDeleted(t) \/ InvalidateTopic(t) \/ SetBlock(t)
        PROVE Refresh'
    BY <2>3, RefreshPreserved DEF AttachTopic, TopicDeleted, InvalidateTopic, SetBlock,
       AttachAndRelease, rowVars, workerVars
  <2>4. ASSUME NEW S \in SUBSET Deliveries, Claim(S) PROVE Refresh'
    BY <2>4, RefreshPreserved DEF Claim, Claimable
  <2>5. ASSUME NEW d \in Deliveries, ClaimExpires(d) PROVE Refresh'
    BY <2>5, RefreshPreserved DEF ClaimExpires, workerVars
  <2>6. ASSUME NEW d \in Deliveries, Deliver(d) PROVE Refresh'
    <3>0. stage[d] # "idle" => status[d] \notin {"absent", "uncommitted"}
      BY DEF Refresh
    <3>1. CASE MarkCancelled(d) \/ MarkDelivered(d) \/ MarkRetry(d) \/ MarkFailed(d)
      BY <3>1, RefreshPreserved DEF MarkCancelled, MarkDelivered, MarkRetry, MarkFailed,
         Transition, AfterRetry, Goto
    <3>2. CASE CheckRecipient(d) \/ SendFails(d) \/ SendRejected(d) \/ PrepareContext(d)
               \/ RecoverTopicFails(d)
      <4>1. /\ UNCHANGED <<status, sends>>
            /\ context' \subseteq context
            /\ stage[d] # "idle" /\ (stage'[d] = "ready" => d \notin context')
            /\ \A e \in Deliveries \ {d} : stage'[e] = stage[e]
        BY <3>2 DEF CheckRecipient, SendFails, SendRejected, PrepareContext,
           RecoverTopicFails, Goto, rowVars
      <4> QED
        BY <3>0, <4>1, RefreshPreserved
    <3>3. CASE Send(d)
      BY <3>3 DEF Send, Goto, rowVars, Refresh, ContextBeforeMessage
    <3>4. CASE RecoverTopic(d)
      BY <3>0, <3>4, RefreshPreserved DEF RecoverTopic, AttachAndRelease, Goto
    <3>5. CASE Retarget(d)
      BY <3>0, <3>5, RefreshPreserved DEF Retarget, Goto
    <3> QED
      BY <2>6, <3>1, <3>2, <3>3, <3>4, <3>5 DEF Deliver
  <2>7. CASE ReleaseStale
    BY <2>7, RefreshPreserved DEF ReleaseStale, workerVars
  <2>8. CASE StartBatch \/ Stop \/ Exit \/ Restart \/ \E d \in Deliveries : OutcomeLost(d)
    <3>1. /\ UNCHANGED <<status, context, sends>>
          /\ \A d \in Deliveries :
               \/ stage'[d] \in {stage[d], "idle"}
               \/ stage[d] = "claimed" /\ stage'[d] = "started"
      BY <2>8 DEF StartBatch, Stop, Exit, Restart, OutcomeLost, Goto, rowVars
    <3> QED
      BY <3>1 DEF Refresh, ContextBeforeMessage
  <2>9. CASE ReleaseUnstarted
    BY <2>9, RefreshPreserved DEF ReleaseUnstarted
  <2>10. CASE Crash
    BY <2>10 DEF Crash, Refresh, ContextBeforeMessage
  <2>11. CASE UNCHANGED vars
    BY <2>11 DEF vars, rowVars, workerVars, Refresh, ContextBeforeMessage
  <2> QED
    BY <2>1, <2>2, <2>3, <2>4, <2>5, <2>6, <2>7, <2>8, <2>9, <2>10, <2>11 DEF Next
<1>3. Refresh => ContextBeforeMessage
  BY DEF Refresh
<1> QED
  BY <1>1, <1>2, <1>3, TypeCorrect, PTL DEF Spec
-----------------------------------------------------------------------------
(***************************************************************************)
(* The refinement: the outbox implements OrderedDelivery.                   *)
(***************************************************************************)
\* What the promise sees of one row.
Phase(d) ==
    CASE status[d] \in Unfinished -> "queued"
      [] status[d] = "delivered" -> "delivered"
      [] status[d] \in {"failed", "cancelled"} -> "dropped"
      [] OTHER -> "none"

Rank(d) == IF status[d] \in {"absent", "uncommitted"} THEN 0 ELSE created[d]

\* A job that goes on to record a delivery has seen Telegram's answer.
Answered == \A d \in Deliveries : stage[d] = "sent" => sends[d] > 0

Kept == Order /\ Answered

\* The phase of a row, status by status.
LEMMA PhaseOfStatus ==
  ASSUME TypeOK, NEW d \in Deliveries
  PROVE  /\ status[d] \in Unfinished <=> Phase(d) = "queued"
         /\ status[d] = "delivered" <=> Phase(d) = "delivered"
         /\ status[d] \in {"failed", "cancelled"} <=> Phase(d) = "dropped"
         /\ status[d] \in {"absent", "uncommitted"} <=> Phase(d) = "none"
  BY DEF Phase, TypeOK, Statuses, Unfinished, Terminal

Queued == [d \in Undisturbed |-> Phase(d)]
Ranks == [d \in Undisturbed |-> Rank(d)]
Copies == [d \in Undisturbed |-> sends[d]]

\* The promise, in the terms above.
LEMMA PromiseMeans ==
  /\ Promise!vars = <<Queued, Ranks, Copies>>
  /\ Promise!Init <=> /\ Queued = [d \in Undisturbed |-> "none"]
                      /\ Ranks = [d \in Undisturbed |-> 0]
                      /\ Copies = [d \in Undisturbed |-> 0]
  /\ \A d \in Undisturbed :
        Promise!AtHead(d) <=> /\ Phase(d) = "queued"
                              /\ \A e \in Siblings(d) : Rank(e) < Rank(d) => Phase(e) # "queued"
<1>1. /\ Promise!vars = <<Queued, Ranks, Copies>>
      /\ Promise!Init <=> /\ Queued = [d \in Undisturbed |-> "none"]
                          /\ Ranks = [d \in Undisturbed |-> 0]
                          /\ Copies = [d \in Undisturbed |-> 0]
  BY DEF Promise!vars, Promise!Init, Queued, Ranks, Copies, Phase, Rank
<1>2. \A d \in Undisturbed : Promise!Siblings(d) = Siblings(d) /\ Siblings(d) \subseteq Undisturbed
  BY SiblingsAlike DEF Promise!Siblings, Siblings
<1>3. ASSUME NEW d \in Undisturbed
      PROVE  Promise!AtHead(d) <=>
                /\ Queued[d] = "queued"
                /\ \A e \in Siblings(d) : Ranks[e] < Ranks[d] => Queued[e] # "queued"
  BY <1>2 DEF Promise!AtHead, Queued, Ranks, Phase, Rank
<1>4. \A d \in Undisturbed : Queued[d] = Phase(d) /\ Ranks[d] = Rank(d)
  BY DEF Queued, Ranks
<1> QED
  BY <1>1, <1>2, <1>3, <1>4

\* Steps in which no row changes its phase or its place and nothing is copied.
LEMMA PromiseStutters ==
  ASSUME \A d \in Undisturbed :
            /\ sends'[d] = sends[d]
            /\ \/ /\ created'[d] = created[d]
                  /\ \/ status'[d] = status[d]
                     \/ status[d] \in Unfinished /\ status'[d] \in Unfinished
               \/ {status[d], status'[d]} \subseteq {"absent", "uncommitted"}
  PROVE  UNCHANGED Promise!vars
<1> USE UndisturbedRows
<1>1. \A d \in Undisturbed : Phase(d)' = Phase(d)
  BY DEF Phase, Unfinished
<1>2. \A d \in Undisturbed : Rank(d)' = Rank(d)
  BY DEF Rank, Unfinished
<1>3. Queued' = Queued /\ Ranks' = Ranks /\ Copies' = Copies
  BY <1>1, <1>2 DEF Queued, Ranks, Copies
<1> QED
  BY <1>3 DEF Promise!vars, Queued, Ranks, Copies, Phase, Rank

\* A job under way works on the head of its ticket's queue.
LEMMA JobAtHead ==
  ASSUME Order, NEW d \in Undisturbed, stage[d] # "idle"
  PROVE  Promise!AtHead(d)
<1>1. status[d] = "processing" /\ NoEarlierUnfinished(d)
  BY DEF Order, Owned, OwnsClaim, ClaimedAtHead
<1>2. \A e \in Siblings(d) : Rank(e) < Rank(d) => Phase(e) # "queued"
  BY <1>1, PhaseOfStatus, UndisturbedRows
     DEF NoEarlierUnfinished, Rank, Siblings, Order, Unfinished
<1>3. Phase(d) = "queued"
  BY <1>1, PhaseOfStatus, UndisturbedRows DEF Order, Unfinished
<1> QED
  BY <1>2, <1>3, PromiseMeans

\* What a step of the promise looks like from the table.
LEMMA PromiseSteps ==
  ASSUME NEW d \in Undisturbed,
         \A e \in Undisturbed \ {d} : Phase(e)' = Phase(e),
         \A e \in Undisturbed \ {d} : Rank(e)' = Rank(e),
         \A e \in Undisturbed \ {d} : sends'[e] = sends[e],
         \/ /\ Phase(d) = "none" /\ Phase(d)' = "queued" /\ sends'[d] = sends[d]
            /\ \A e \in Siblings(d) \ {d} : Rank(d)' > Rank(e)
         \/ /\ Promise!AtHead(d) /\ Rank(d)' = Rank(d)
            /\ \/ Phase(d)' = Phase(d) /\ sends'[d] = sends[d] + 1
               \/ Phase(d)' = "dropped" /\ sends'[d] = sends[d]
               \/ Phase(d)' = "delivered" /\ sends'[d] = sends[d] /\ sends[d] > 0
  PROVE  Promise!Next
<1> USE UndisturbedRows
<1>1. /\ \A e \in Undisturbed \ {d} : /\ Queued'[e] = Queued[e] /\ Ranks'[e] = Ranks[e]
                                      /\ Copies'[e] = Copies[e]
      /\ Queued[d] = Phase(d) /\ Queued'[d] = Phase(d)'
      /\ Ranks[d] = Rank(d) /\ Ranks'[d] = Rank(d)'
      /\ Copies[d] = sends[d] /\ Copies'[d] = sends'[d]
      /\ Queued = [e \in Undisturbed |-> Queued[e]] /\ Queued' = [e \in Undisturbed |-> Queued'[e]]
      /\ Ranks = [e \in Undisturbed |-> Ranks[e]] /\ Ranks' = [e \in Undisturbed |-> Ranks'[e]]
      /\ Copies = [e \in Undisturbed |-> Copies[e]] /\ Copies' = [e \in Undisturbed |-> Copies'[e]]
  BY DEF Queued, Ranks, Copies
<1>2. \A v : Queued' = [Queued EXCEPT ![d] = v] <=> Queued'[d] = v
  BY <1>1
<1>3. Ranks' = [Ranks EXCEPT ![d] = Ranks'[d]]
  BY <1>1
<1>4. \A v : Copies' = [Copies EXCEPT ![d] = v] <=> Copies'[d] = v
  BY <1>1
<1>5. CASE /\ Phase(d) = "none" /\ Phase(d)' = "queued" /\ sends'[d] = sends[d]
           /\ \A e \in Siblings(d) \ {d} : Rank(d)' > Rank(e)
  <2>1. /\ Queued[d] = "none" /\ Queued' = [Queued EXCEPT ![d] = "queued"]
        /\ Copies' = Copies
    BY <1>1, <1>2, <1>5
  <2>2. \A e \in Promise!Siblings(d) \ {d} : Ranks'[d] > Ranks[e]
    <3>1. \A e \in Promise!Siblings(d) : e \in Siblings(d) /\ e \in Undisturbed
      BY SiblingsAlike DEF Promise!Siblings, Siblings
    <3>2. \A e \in Undisturbed : Ranks[e] = Rank(e)
      BY DEF Ranks
    <3> QED
      BY <1>1, <1>5, <3>1, <3>2
  <2>3. Promise!Enqueue(d)
    BY <1>3, <2>1, <2>2 DEF Promise!Enqueue, Queued, Ranks, Copies, Phase, Rank
  <2> QED
    BY <2>3 DEF Promise!Next
<1>6. CASE Promise!AtHead(d) /\ Rank(d)' = Rank(d)
  <2>1. Ranks' = Ranks
    BY <1>1, <1>6
  <2>2. CASE Phase(d)' = Phase(d) /\ sends'[d] = sends[d] + 1
    <3>1. Queued' = Queued /\ Copies' = [Copies EXCEPT ![d] = Copies[d] + 1]
      BY <1>1, <1>4, <2>2
    <3>2. Promise!Copy(d)
      BY <1>6, <2>1, <3>1 DEF Promise!Copy, Queued, Ranks, Copies, Phase, Rank
    <3> QED
      BY <3>2 DEF Promise!Next
  <2>3. CASE Phase(d)' = "dropped" /\ sends'[d] = sends[d]
    <3>1. Queued' = [Queued EXCEPT ![d] = "dropped"] /\ Copies' = Copies
      BY <1>1, <1>2, <2>3
    <3>2. Promise!Drop(d)
      BY <1>6, <2>1, <3>1 DEF Promise!Drop, Queued, Ranks, Copies, Phase, Rank
    <3> QED
      BY <3>2 DEF Promise!Next
  <2>4. CASE Phase(d)' = "delivered" /\ sends'[d] = sends[d] /\ sends[d] > 0
    <3>1. /\ Queued' = [Queued EXCEPT ![d] = "delivered"] /\ Copies' = Copies
          /\ Copies[d] > 0
      BY <1>1, <1>2, <2>4
    <3>2. Promise!Deliver(d)
      BY <1>6, <2>1, <3>1 DEF Promise!Deliver, Queued, Ranks, Copies, Phase, Rank
    <3> QED
      BY <3>2 DEF Promise!Next
  <2> QED
    BY <1>5, <1>6, <2>2, <2>3, <2>4
<1> QED
  BY <1>5, <1>6

\* An outcome written by a job settles the head of the queue, or puts it back.
LEMMA OutcomeKeepsPromise ==
  ASSUME Kept, TypeOK', NEW d \in Deliveries, NEW s \in {"pending"} \union Terminal,
         stage[d] # "idle", s = "delivered" => sends[d] > 0, Transition(d, s)
  PROVE  [Promise!Next]_(Promise!vars)
<1> USE UndisturbedRows
<1>0. /\ status' \in {status, [status EXCEPT ![d] = s]} /\ UNCHANGED <<created, sends>>
      /\ d \in Undisturbed => Owns(d) /\ status' = [status EXCEPT ![d] = s]
  BY DEF Kept, Order, Owned, OwnsClaim, Transition, Owns
<1>1. CASE d \notin Undisturbed \/ s = "pending"
  BY <1>0, <1>1, PromiseStutters DEF Kept, Order, TypeOK, Owns, Unfinished
<1>2. CASE d \in Undisturbed /\ s # "pending"
  <2>1. /\ \A e \in Undisturbed \ {d} : Phase(e)' = Phase(e)
        /\ \A e \in Undisturbed : Rank(e)' = Rank(e)
    BY <1>0, <1>2 DEF Phase, Rank, Owns, Terminal, Kept, Order, TypeOK
  <2>2. Phase(d)' = IF s = "delivered" THEN "delivered" ELSE "dropped"
    BY <1>0, <1>2 DEF Phase, Unfinished, Terminal, Kept, Order, TypeOK
  <2>3. Promise!AtHead(d)
    BY <1>2, JobAtHead DEF Kept
  <2>4. Promise!Next
    BY <1>0, <1>2, <2>1, <2>2, <2>3, PromiseSteps
  <2> QED
    BY <2>4
<1> QED
  BY <1>1, <1>2

\* A copy is a copy, of the head; an outcome is an outcome; the rest of a job, a
\* redirection to a new topic included, is invisible.
LEMMA DeliverKeepsPromise ==
  ASSUME Kept, TypeOK', NEW d \in Deliveries, Deliver(d)
  PROVE  [Promise!Next]_(Promise!vars)
<1> USE UndisturbedRows
<1>1. CASE MarkCancelled(d) \/ MarkRetry(d) \/ MarkFailed(d)
  BY <1>1, OutcomeKeepsPromise DEF MarkCancelled, MarkRetry, MarkFailed, AfterRetry, Terminal
<1>2. CASE MarkDelivered(d)
  BY <1>2, OutcomeKeepsPromise DEF MarkDelivered, Terminal, Kept, Answered
<1>3. CASE Send(d)
  <2>1. /\ UNCHANGED <<status, created>> /\ sends' = [sends EXCEPT ![d] = sends[d] + 1]
        /\ stage[d] # "idle"
    BY <1>3 DEF Send, rowVars
  <2>2. CASE d \notin Undisturbed
    BY <2>1, <2>2, PromiseStutters DEF Kept, Order, TypeOK
  <2>3. CASE d \in Undisturbed
    <3>1. Promise!AtHead(d)
      BY <2>1, <2>3, JobAtHead DEF Kept
    <3>2. \A e \in Undisturbed : Phase(e)' = Phase(e) /\ Rank(e)' = Rank(e)
      BY <2>1 DEF Phase, Rank
    <3>3. /\ sends'[d] = sends[d] + 1
          /\ \A e \in Undisturbed \ {d} : sends'[e] = sends[e]
      BY <2>1, <2>3 DEF Kept, Order, TypeOK
    <3>4. Promise!Next
      BY <2>3, <3>1, <3>2, <3>3, PromiseSteps
    <3> QED
      BY <3>4
  <2> QED
    BY <2>2, <2>3
<1>4. CASE CheckRecipient(d) \/ SendFails(d) \/ SendRejected(d) \/ PrepareContext(d)
           \/ RecoverTopicFails(d)
  BY <1>4, PromiseStutters DEF CheckRecipient, SendFails, SendRejected, PrepareContext,
     RecoverTopicFails, rowVars, Kept, Order
<1>5. CASE RecoverTopic(d)
  BY <1>5, PromiseStutters DEF RecoverTopic, AttachAndRelease, Waiting, Unfinished, Kept,
     Order, TypeOK
<1>6. CASE Retarget(d)
  BY <1>6, PromiseStutters DEF Retarget, Stranded, Unfinished, Kept, Order, TypeOK
<1> QED
  BY <1>1, <1>2, <1>3, <1>4, <1>5, <1>6 DEF Deliver

\* A row enters the queue of its ticket when its insert is committed, behind every row.
LEMMA InsertKeepsPromise ==
  ASSUME Kept, TypeOK', NEW d \in Undisturbed, UNCHANGED sends,
         status[d] \in {"absent", "uncommitted"}, status'[d] \in {"waiting_topic", "pending"},
         \A e \in Deliveries \ {d} : status'[e] = status[e] /\ created'[e] = created[e],
         \A e \in Siblings(d) \ {d} : created[e] < created'[d]
  PROVE  Promise!Next
<1> USE UndisturbedRows
<1>1. /\ \A e \in Undisturbed \ {d} : Phase(e)' = Phase(e) /\ Rank(e)' = Rank(e)
      /\ Phase(d) = "none" /\ Phase(d)' = "queued"
  BY DEF Phase, Rank, Unfinished, Kept, Order, TypeOK
<1>2. \A e \in Siblings(d) \ {d} : Rank(d)' > Rank(e)
  <2>1. Rank(d)' = created'[d] /\ created'[d] \in Nat
    BY DEF Rank, TypeOK
  <2>2. \A e \in Siblings(d) : created[e] \in Nat
    BY DEF Siblings, Kept, Order, TypeOK
  <2> QED
    BY <2>1, <2>2 DEF Rank
<1> QED
  BY <1>1, <1>2, PromiseSteps

\* The promise is kept by the producers.
LEMMA AcceptKeepsPromise ==
  ASSUME Kept, TypeOK', NEW d \in Deliveries,
         Accept(d) \/ BeginInsert(d) \/ CommitInsert(d)
  PROVE  [Promise!Next]_(Promise!vars)
<1> USE UndisturbedRows
<1>1. /\ UNCHANGED sends
      /\ status[d] \in {"absent", "uncommitted"}
      /\ \A e \in Deliveries \ {d} : status'[e] = status[e] /\ created'[e] = created[e]
  BY DEF Accept, BeginInsert, CommitInsert, Stamp, Kept, Order, TypeOK
<1>2. CASE d \notin Undisturbed
  BY <1>1, <1>2, PromiseStutters
<1>3. CASE d \in Undisturbed /\ BeginInsert(d)
  <2>1. status[d] = "absent" /\ status'[d] = "uncommitted"
    BY <1>3 DEF BeginInsert, Kept, Order, TypeOK
  <2> QED
    BY <1>1, <2>1, PromiseStutters
<1>4. CASE d \in Undisturbed /\ Accept(d)
  <2>1. /\ status'[d] \in {"waiting_topic", "pending"}
        /\ created' = [created EXCEPT ![d] = clock[TicketOf[d]] + 1]
    BY <1>4 DEF Accept, Stamp, FirstStatus, Kept, Order, TypeOK
  <2>2. \A e \in Siblings(d) : created[e] <= clock[TicketOf[d]] /\ created[e] \in Nat
    BY <1>4, SiblingsAlike DEF Kept, Order, StampsOrdered, Siblings, TypeOK
  <2>3. clock[TicketOf[d]] \in Nat /\ created'[d] = clock[TicketOf[d]] + 1
    BY <2>1, TicketType DEF Kept, Order, TypeOK
  <2> QED
    BY <1>1, <1>4, <2>1, <2>2, <2>3, InsertKeepsPromise
<1>5. CASE d \in Undisturbed /\ CommitInsert(d)
  <2>1. status'[d] \in {"waiting_topic", "pending"} /\ status[d] = "uncommitted"
    BY <1>5 DEF CommitInsert, FirstStatus, Kept, Order, TypeOK
  <2>2. Siblings(d) = {d}
    BY <1>5, <2>1 DEF Kept, Order, StampsOrdered
  <2> QED
    BY <1>1, <1>5, <2>1, <2>2, InsertKeepsPromise
<1> QED
  BY <1>2, <1>3, <1>4, <1>5

\* The outbox, its claims, batches, retries, crashes and replaced topics implement
\* the queues of OrderedDelivery for every ticket whose inserts hold its row lock,
\* whatever is inserted into other tickets.
THEOREM OutboxKeepsPromise == Spec => KeepsPromise
<1> USE OutboxAssumption
<1>1. Init => Answered
  BY DEF Init, Answered
<1>2. TypeOK /\ TypeOK' /\ Answered /\ [Next]_vars => Answered'
  <2> SUFFICES ASSUME TypeOK, TypeOK', Answered, [Next]_vars
               PROVE  \A d \in Deliveries : /\ sends[d] <= sends'[d]
                                            /\ stage'[d] = "sent" =>
                                                 stage[d] = "sent" \/ sends'[d] > 0
    BY DEF Answered, TypeOK
  <2> USE DEF TypeOK, Goto, rowVars, workerVars
  <2>1. ASSUME NEW d \in Deliveries, Deliver(d)
        PROVE  /\ UNCHANGED sends \/ sends' = [sends EXCEPT ![d] = @ + 1]
               /\ \A e \in Deliveries :
                    stage'[e] = "sent" => stage[e] = "sent" \/ sends'[e] > 0
    <3>1. CASE Send(d)
      BY <3>1 DEF Send
    <3>2. CASE MarkCancelled(d) \/ MarkDelivered(d) \/ MarkRetry(d) \/ MarkFailed(d)
      BY <3>2 DEF MarkCancelled, MarkDelivered, MarkRetry, MarkFailed, Transition
    <3>3. CASE CheckRecipient(d) \/ SendFails(d) \/ SendRejected(d) \/ PrepareContext(d)
               \/ RecoverTopic(d) \/ RecoverTopicFails(d) \/ Retarget(d)
      BY <3>3 DEF CheckRecipient, SendFails, SendRejected, PrepareContext, RecoverTopic,
         RecoverTopicFails, Retarget
    <3> QED
      BY <2>1, <3>1, <3>2, <3>3 DEF Deliver
  <2>2. CASE ~ \E d \in Deliveries : Deliver(d)
    <3>1. /\ UNCHANGED sends
          /\ \A d \in Deliveries : stage'[d] \in {stage[d], "idle", "claimed", "started"}
      BY <2>2 DEF Next, vars, Accept, BeginInsert, CommitInsert, AttachTopic, TopicDeleted,
         InvalidateTopic, SetBlock, Claim, ClaimExpires, OutcomeLost, ReleaseStale,
         StartBatch, ReleaseUnstarted, Stop, Exit, Crash, Restart
    <3> QED
      BY <3>1
  <2> QED
    BY <2>1, <2>2
<1>3. Init => Promise!Init
  BY PromiseMeans, UndisturbedRows DEF Init, Queued, Ranks, Copies, Phase, Rank, Unfinished
<1>4. Kept /\ TypeOK' /\ [Next]_vars => [Promise!Next]_(Promise!vars)
  <2> SUFFICES ASSUME Kept, TypeOK', [Next]_vars
               PROVE  [Promise!Next]_(Promise!vars)
    OBVIOUS
  <2> USE UndisturbedRows
  <2>0. TypeOK
    BY DEF Kept, Order
  <2>1. ASSUME NEW d \in Deliveries, Accept(d) \/ BeginInsert(d) \/ CommitInsert(d)
        PROVE  [Promise!Next]_(Promise!vars)
    BY <2>1, AcceptKeepsPromise
  <2>2. ASSUME NEW d \in Deliveries, Deliver(d) PROVE [Promise!Next]_(Promise!vars)
    BY <2>2, DeliverKeepsPromise
  <2>3. ASSUME NEW t \in Tickets,
               AttachTopic(t) \/ TopicDeleted(t) \/ InvalidateTopic(t) \/ SetBlock(t)
        PROVE UNCHANGED Promise!vars
    BY <2>0, <2>3, PromiseStutters DEF AttachTopic, TopicDeleted, InvalidateTopic, SetBlock,
       AttachAndRelease, Waiting, Unfinished, rowVars, TypeOK
  <2>4. ASSUME NEW S \in SUBSET Deliveries, Claim(S) PROVE UNCHANGED Promise!vars
    BY <2>0, <2>4, PromiseStutters DEF Claim, Claimable, Unfinished, TypeOK
  <2>5. CASE ReleaseStale \/ ReleaseUnstarted
    BY <2>0, <2>5, PromiseStutters DEF ReleaseStale, ReleaseUnstarted, OverdueClaimed,
       Unfinished, Kept, Order, TypeOK
  <2>6. CASE \/ \E d \in Deliveries : ClaimExpires(d) \/ OutcomeLost(d)
             \/ StartBatch \/ Stop \/ Exit \/ Restart \/ UNCHANGED vars
    <3>1. UNCHANGED <<status, created, sends>>
      BY <2>0, <2>6 DEF ClaimExpires, OutcomeLost, StartBatch, Stop, Exit, Restart,
         vars, rowVars
    <3> QED
      BY <3>1, PromiseStutters
  <2>7. CASE Crash
    <3>1. /\ UNCHANGED sends
          /\ \A d \in Deliveries :
                \/ status'[d] = status[d] /\ created'[d] = created[d]
                \/ status[d] = "uncommitted" /\ status'[d] = "absent"
      BY <2>0, <2>7 DEF Crash, TypeOK
    <3> QED
      BY <3>1, PromiseStutters
  <2> QED
    BY <2>1, <2>2, <2>3, <2>4, <2>5, <2>6, <2>7 DEF Next
<1>5. Spec => []Order
  BY OrderInvariant
<1> QED
  BY <1>1, <1>2, <1>3, <1>4, <1>5, TypeCorrect, PTL DEF Spec, Kept, KeepsPromise, Promise!Spec
=============================================================================
