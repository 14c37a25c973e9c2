-------------------------- MODULE TicketOrderProofs --------------------------
(***************************************************************************)
(* Theorems about TicketCommands that speak of the order of updates, of      *)
(* ratings and of blocks.  They assume what the program gives its keys and   *)
(* channels; TicketCommandsProofs needs none of it.                          *)
(***************************************************************************)
EXTENDS TicketCommandsProofs

Before(u) == {w \in Updates : w < u /\ Chat(w) = Chat(u)}
Over(w) == inbound[w].status \in {"delivered", "failed"}

\* What the row of an update says of the earlier ones.
Turn(u) ==
    /\ stage[u] \in Working => inbound[u].status = "processing"
    /\ inbound[u].status # "none" => \A w \in Updates : w < u => inbound[w].status # "none"
    /\ inbound[u].status = "processing" => \A w \in Before(u) : Over(w)
    /\ Used(u) /\ Kind(u) # "rate" => \A w \in Before(u) : Over(w)

InTurn == \A u \in Updates : Turn(u)

-----------------------------------------------------------------------------
\* A key once used stays used; it is used by a commit under it.
LEMMA UsedStays ==
  ASSUME IInv, [Next]_vars
  PROVE  /\ plan' = plan
         /\ \A k \in Keys : done[k] # Unused => done'[k] # Unused
         /\ \A k \in Keys : done[k] = Unused /\ done'[k] # Unused =>
               \E c \in Commands : CommitStep(c) /\ stage[c] = "begun" /\ Key(c) = k
<1>1. CASE \E c \in Commands : CommitStep(c)
  <2>1. PICK c \in Commands : CommitStep(c)
    BY <1>1
  <2>2. Ends(c)
    BY <2>1, CommitStepEnds DEF IInv
  <2>3. CASE UNCHANGED tables
    BY <2>2, <2>3 DEF Ends, tables
  <2>4. CASE ~ Used(c) /\ Committed(c)
    <3>1. PICK reply \in Replies :
            done' = [done EXCEPT ![Key(c)] = [print |-> Fingerprint(c), reply |-> reply]]
      BY <2>4 DEF Committed, Apply
    <3>2. [print |-> Fingerprint(c), reply |-> reply] # Unused
      BY DEF Replies, Unused
    <3>3. Key(c) \in Keys /\ done[Key(c)] = Unused
      BY <2>4, PlanType DEF IInv, Types, Used
    <3>4. \A k \in Keys : done'[k] = IF k = Key(c) THEN [print |-> Fingerprint(c), reply |-> reply]
                                                   ELSE done[k]
      BY <3>1 DEF IInv, Types
    <3>5. plan' = plan /\ stage[c] = "begun"
      BY <2>2 DEF Ends
    <3> QED
      BY <2>1, <3>2, <3>3, <3>4, <3>5
  <2> QED
    BY <2>2, <2>3, <2>4 DEF Ends
<1>2. CASE ~ \E c \in Commands : CommitStep(c)
  <2>1. plan' = plan /\ done' = done
    BY <1>2 DEF Next, vars, Crash, Arrive, Claim, Finish, Fail, FinishFails, ReleaseStale, Look,
                Read, tables
  <2> QED
    BY <2>1
<1> QED
  BY <1>1, <1>2

\* What a step may do to the queue.
LEMMA TurnKept ==
  ASSUME IInv, InTurn, OwnKeys, [Next]_vars,
         \A u \in Updates : Over(u) => Over(u)',
         \A u \in Updates : inbound[u].status # "none" => inbound'[u].status # "none",
         \A u \in Updates :
            inbound'[u].status # "none" =>
                \/ inbound[u].status # "none"
                \/ \A w \in Updates : w < u => inbound[w].status # "none",
         \A u \in Updates :
            inbound'[u].status = "processing" =>
                \/ inbound[u].status = "processing"
                \/ \A w \in Before(u) : Over(w),
         \A u \in Updates : stage'[u] \in Working => inbound'[u].status = "processing"
  PROVE  InTurn'
<1>1. /\ plan' = plan
      /\ Updates' = Updates /\ Updates \subseteq Commands
      /\ \A u \in Updates : Before(u)' = Before(u) /\ Before(u) \subseteq Updates
      /\ \A u \in Updates : Key(u)' = Key(u) /\ Kind(u)' = Kind(u) /\ Key(u) \in Keys
  BY UsedStays, PlanType DEF Updates, Before, Chat, Key, Kind, IInv, Types
<1> SUFFICES ASSUME NEW u \in Updates PROVE Turn(u)'
  BY <1>1 DEF InTurn
<1>2. /\ stage'[u] \in Working => inbound'[u].status = "processing"
      /\ inbound'[u].status # "none" => \A w \in Updates : w < u => inbound'[w].status # "none"
  BY DEF InTurn, Turn
<1>3. inbound'[u].status = "processing" => \A w \in Before(u) : Over(w)'
  BY <1>1 DEF InTurn, Turn
<1>4. Used(u)' /\ Kind(u) # "rate" => \A w \in Before(u) : Over(w)'
  <2>1. CASE Used(u)
    BY <2>1, <1>1 DEF InTurn, Turn
  <2>2. CASE ~ Used(u) /\ Used(u)' /\ Kind(u) # "rate"
    <3>1. PICK c \in Commands : stage[c] = "begun" /\ Key(c) = Key(u)
      BY <2>2, <1>1, UsedStays DEF Used
    <3>2. c = u
      BY <2>2, <3>1, <1>1 DEF OwnKeys, Updates, Chat, Key, Kind, IInv, Types
    <3>3. \A w \in Before(u) : Over(w)
      BY <3>1, <3>2 DEF InTurn, Turn, Working
    <3> QED
      BY <3>3, <1>1
  <2> QED
    BY <2>1, <2>2
<1> QED
  BY <1>1, <1>2, <1>3, <1>4 DEF Turn, Over, Used

LEMMA TurnInvariant ==
  ASSUME OwnKeys
  PROVE  Spec => []InTurn
<1>1. Init => InTurn
  <2> SUFFICES ASSUME Init, NEW u \in Updates PROVE Turn(u)
    BY DEF InTurn
  <2>1. u \in Commands /\ Key(u) \in Keys
    BY PlanType DEF Init, Updates
  <2>2. stage[u] = "idle" /\ inbound[u].status = "none" /\ ~ Used(u)
    BY <2>1 DEF Init, Used
  <2> QED
    BY <2>2 DEF Turn, Working
<1>2. ASSUME IInv, InTurn, [Next]_vars PROVE InTurn'
  <2> USE DEF Over, Working
  <2>0. /\ Updates \subseteq Commands
        /\ \A u \in Updates : /\ stage[u] \in Stages
                              /\ inbound[u] \in [status : InboundStatuses, attempts : Nat]
                              /\ stage[u] \in Working => inbound[u].status = "processing"
    BY <1>2 DEF IInv, Types, Updates, InTurn, Turn
  <2>1. CASE UNCHANGED <<inbound, stage>>
    BY <2>0, <2>1, <1>2, TurnKept
  <2>2. CASE Crash
    <3>1. inbound' = inbound /\ \A u \in Updates : stage'[u] \in Working => stage[u] \in Working
      BY <2>0, <2>2 DEF Crash
    <3> QED
      BY <2>0, <3>1, <1>2, TurnKept
  <2> SUFFICES ASSUME NEW c \in Commands,
                      \/ Arrive(c) \/ Claim(c) \/ Finish(c) \/ Fail(c) \/ FinishFails(c)
                      \/ ReleaseStale(c) \/ Look(c) \/ Read(c) \/ CommitStep(c)
               PROVE  InTurn'
    BY <1>2, <2>1, <2>2 DEF Next, vars
  <2>3. \A u \in Commands : /\ stage[u] \in Stages
                            /\ inbound[u] \in [status : InboundStatuses, attempts : Nat]
    BY <1>2 DEF IInv, Types
  <2>4. stage \in [Commands -> Stages]
        /\ inbound \in [Commands -> [status : InboundStatuses, attempts : Nat]]
    BY <1>2 DEF IInv, Types
  <2>5. CASE Arrive(c)
    <3>1. /\ stage' = stage /\ inbound' = [inbound EXCEPT ![c].status = "pending"]
          /\ inbound[c].status = "none"
          /\ \A w \in Updates : w < c => inbound[w].status # "none"
      BY <2>5 DEF Arrive
    <3>2. /\ inbound'[c].status = "pending"
          /\ \A u \in Commands : u # c => inbound'[u] = inbound[u]
      BY <2>3, <2>4, <3>1
    <3> QED
      BY <2>0, <3>1, <3>2, <1>2, TurnKept
  <2>6. CASE Claim(c)
    <3>1. /\ stage' = [stage EXCEPT ![c] = "claimed"]
          /\ inbound' = [inbound EXCEPT ![c] = [status |-> "processing",
                                                attempts |-> inbound[c].attempts + 1]]
          /\ c \in Updates
          /\ inbound[c].status = "pending"
          /\ \A w \in Before(c) : inbound[w].status \notin Unfinished
      BY <2>6, <2>4 DEF Claim, MayClaim, EarlierUnfinished, Before
    <3>2. \A w \in Before(c) : Over(w)
      <4>1. \A w \in Before(c) : w \in Updates /\ inbound[w].status # "none"
        BY <3>1, <1>2 DEF InTurn, Turn, Before
      <4> QED
        BY <2>0, <3>1, <4>1 DEF Unfinished, InboundStatuses, AnyStatus
    <3>3. /\ inbound'[c].status = "processing" /\ stage'[c] = "claimed"
          /\ \A u \in Commands : u # c => inbound'[u] = inbound[u] /\ stage'[u] = stage[u]
      BY <2>3, <2>4, <3>1
    <3> QED
      BY <2>0, <3>1, <3>2, <3>3, <1>2, TurnKept
  <2>7. ASSUME NEW row \in {inbound[c], AfterRetry(inbound[c]),
                            [inbound[c] EXCEPT !.status = "delivered"]},
               NEW s \in Stages \ Working,
               c \in Updates => stage[c] \in Working,
               stage' = [stage EXCEPT ![c] = s], inbound' = [inbound EXCEPT ![c] = row]
        PROVE  InTurn'
    <3>1. /\ row.status \in {inbound[c].status, "pending", "failed", "delivered"}
          /\ inbound'[c] = row /\ stage'[c] = s
          /\ \A u \in Commands : u # c => inbound'[u] = inbound[u] /\ stage'[u] = stage[u]
      BY <2>3, <2>4, <2>7 DEF AfterRetry
    <3> QED
      BY <2>0, <3>1, <2>7, <1>2, TurnKept
  <2>8. CASE Finish(c) \/ Fail(c) \/ FinishFails(c)
    <3>1. /\ stage[c] \in Working
          /\ stage' = [stage EXCEPT ![c] = "idle"]
          /\ \/ inbound' = inbound
             \/ inbound' = [inbound EXCEPT ![c] = AfterRetry(inbound[c])]
             \/ inbound' = [inbound EXCEPT ![c] = [inbound[c] EXCEPT !.status = "delivered"]]
      BY <2>8, <2>4 DEF Finish, Fail, FinishFails
    <3>2. inbound = [inbound EXCEPT ![c] = inbound[c]] /\ "idle" \in Stages \ Working
      BY <2>4 DEF Stages
    <3> QED
      BY <3>1, <3>2, <2>7
  <2>9. CASE ReleaseStale(c)
    <3>1. /\ stage' = stage /\ inbound' = [inbound EXCEPT ![c].status = "pending"]
          /\ inbound[c].status = "processing" /\ WorkerFree
      BY <2>9, <2>4 DEF ReleaseStale, Released
    <3>2. /\ inbound'[c].status = "pending"
          /\ \A u \in Commands : u # c => inbound'[u] = inbound[u]
          /\ \A u \in Updates : stage'[u] \notin Working
      BY <2>3, <2>4, <3>1 DEF WorkerFree
    <3> QED
      BY <2>0, <3>1, <3>2, <1>2, TurnKept
  <2>10. ASSUME NEW s \in Stages, stage' = [stage EXCEPT ![c] = s], inbound' = inbound,
                stage[c] \in Working \/ c \in Requests
         PROVE  InTurn'
    <3>1. \A u \in Updates : stage'[u] \in Working => stage[u] \in Working
      BY <2>0, <2>4, <2>10 DEF Requests
    <3> QED
      BY <2>0, <3>1, <2>10, <1>2, TurnKept
  <2>11. CASE Look(c) \/ Read(c)
    <3>1. \E s \in Stages : stage' = [stage EXCEPT ![c] = s]
      BY <2>11 DEF Look, Read, Answer, Stages
    <3>2. inbound' = inbound /\ (stage[c] \in Working \/ c \in Requests)
      BY <2>11 DEF Look, Read, Requests
    <3> QED
      BY <3>1, <3>2, <2>10
  <2>12. CASE CommitStep(c)
    <3>1. Ends(c)
      BY <2>12, <1>2, CommitStepEnds DEF IInv
    <3>2. CASE inbound' = inbound
      BY <3>1, <3>2, <2>10 DEF Ends
    <3>3. CASE inbound' # inbound
      <4>1. /\ stage' = [stage EXCEPT ![c] = "idle"] /\ stage[c] = "begun"
            /\ inbound' = [inbound EXCEPT ![c] = AfterRetry(inbound[c])]
        BY <3>1, <3>3, <2>4 DEF Ends
      <4>2. "idle" \in Stages \ Working
        BY DEF Stages
      <4> QED
        BY <4>1, <4>2, <2>7
    <3> QED
      BY <3>2, <3>3
  <2> QED
    BY <2>5, <2>6, <2>8, <2>9, <2>11, <2>12
<1> QED
  BY <1>1, <1>2, Invariance, PTL DEF Spec

\* Whatever fails or is handled again, an update takes effect only when those sent
\* before it in its chat are over.
THEOREM ChatsKeepOrder ==
  ASSUME OwnKeys
  PROVE  Spec => []ChatOrder
<1>1. InTurn => ChatOrder
  BY DEF InTurn, Turn, ChatOrder, Before, Over
<1> QED
  BY <1>1, TurnInvariant, PTL

-----------------------------------------------------------------------------
\* Somebody has given a block.
BlockGiven == \E c \in Commands : Kind(c) = "block" /\ Used(c)

Carried(u) ==
    \/ Used(u)
    \/ Kind(u) \in {"stop", "hidestop", "rate"}
    \/ Kind(u) \in {"customer", "reply"} /\ BlockGiven

\* A worker that is about to record an update as delivered has carried it out.
CarriedOut ==
    /\ ticket.blocked => BlockGiven
    /\ \A c \in Commands : seen[c].ticket.blocked => BlockGiven
    /\ \A u \in Updates :
        inbound[u].status = "delivered" \/ stage[u] = "committed" => Carried(u)

LEMMA ApplyUses ==
  ASSUME Types, NEW c \in Commands, NEW reply \in Replies, NEW t, NEW es, NEW ms, NEW ds,
         Apply(c, reply, t, es, ms, ds)
  PROVE  Used(c)' /\ ticket' = t /\ inbound' = inbound /\ Kind(c)' = Kind(c)
<1>1. [print |-> Fingerprint(c), reply |-> reply] # Unused
  BY DEF Replies, Unused
<1>2. done'[Key(c)] = [print |-> Fingerprint(c), reply |-> reply]
  BY PlanType DEF Apply, Types
<1> QED
  BY <1>1, <1>2 DEF Apply, Used, Key, Kind, Unused

\* What becomes of the block, and why an update is dropped.
CommitShape(c) ==
    /\ ticket'.blocked => ticket.blocked \/ (Kind(c) = "block" /\ Used(c)')
    /\ c \in Updates /\ stage'[c] = "committed" =>
          \/ Used(c)'
          \/ Kind(c) \in {"stop", "hidestop", "rate"}
          \/ Kind(c) \in {"customer", "reply"} /\ (ticket.blocked \/ seen[c].ticket.blocked)

LEMMA CommitShapes ==
  ASSUME Types, NEW c \in Commands, CommitStep(c)
  PROVE  CommitShape(c)
<1>1. /\ ticket \in TicketRow
      /\ c \in Updates <=> c \notin Requests
      /\ c \in Updates => Kind(c) \in UpdateKinds
      /\ View(c).ticket.blocked => ticket.blocked \/ seen[c].ticket.blocked
      /\ stage \in [Commands -> Stages]
  BY CommandsAssumption, PlanType DEF Types, Kind, Chat, Updates, Requests, View, Current
<1>2. ASSUME NEW reply \in Replies, NEW t, NEW es, NEW ms, NEW ds,
             Apply(c, reply, t, es, ms, ds), t.blocked => ticket.blocked \/ Kind(c) = "block"
      PROVE  CommitShape(c)
  BY <1>2, ApplyUses DEF CommitShape
<1>3. ASSUME Skip(c), \/ Kind(c) \in {"stop", "hidestop", "rate"}
                      \/ /\ Kind(c) \in {"customer", "reply"}
                         /\ ticket.blocked \/ seen[c].ticket.blocked
      PROVE  CommitShape(c)
  BY <1>3 DEF CommitShape, Skip, tables
<1>4. Raise(c) => CommitShape(c)
  BY <1>1 DEF CommitShape, Raise, Answer, tables
<1>5. /\ Closed(ticket).blocked = ticket.blocked
      /\ Reopened(ticket).blocked = ticket.blocked
      /\ AfterContact(c).blocked = ticket.blocked
      /\ [ticket EXCEPT !.status = "open"].blocked = ticket.blocked
  BY <1>1 DEF TicketRow, Closed, Reopened, AfterContact
<1>6. "created" \in Replies /\ "reopened" \in Replies /\ "changed" \in Replies
      /\ "unchanged" \in Replies /\ HowOpened(c) \in Replies
  BY DEF Replies, HowOpened
<1>7. CASE Duplicate(c)
  BY <1>1, <1>7 DEF Duplicate, CommitShape, tables
<1>8. CASE CloseTicket(c)
  BY <1>8, <1>2, <1>5, <1>6 DEF CloseTicket
<1>9. CASE CloseClosed(c)
  BY <1>9, <1>1, <1>2, <1>3, <1>6 DEF CloseClosed, Ready, UpdateKinds
<1>10. CASE CloseAll(c)
  BY <1>10, <1>2, <1>5, <1>6 DEF CloseAll
<1>11. CASE ReopenTicket(c)
  BY <1>11, <1>2, <1>5, <1>6 DEF ReopenTicket
<1>12. CASE Block(c)
  <2>1. Kind(c) = "block"
    BY <1>12 DEF Block, Ready
  <2>2. Raise(c) \/ \E reply \in Replies : \E t : Apply(c, reply, t, <<>>, <<>>, {})
    BY <1>12, <1>6 DEF Block
  <2> QED
    BY <2>1, <2>2, <1>2, <1>4
<1>13. CASE Unblock(c)
  <2> DEFINE t == [ticket EXCEPT !.blocked = IF View(c).ticket.blocked THEN FALSE ELSE @]
  <2>1. t.blocked => ticket.blocked
    BY <1>1 DEF TicketRow
  <2>2. \E reply \in Replies : Apply(c, reply, t, <<>>, <<>>, {})
    BY <1>13, <1>6 DEF Unblock
  <2> QED
    BY <2>1, <2>2, <1>2
<1>14. CASE AddNote(c)
  BY <1>14, <1>2, <1>6 DEF AddNote
<1>15. CASE AcceptReply(c)
  <2>1. Kind(c) = "reply"
    BY <1>15 DEF AcceptReply, Ready
  <2> QED
    BY <1>15, <2>1, <1>1, <1>2, <1>3, <1>5, <1>6 DEF AcceptReply
<1>16. CASE SendMessage(c)
  <2>1. \E reply \in Replies : \E es, ms, ds :
           \/ Apply(c, reply, ticket, es, ms, ds)
           \/ Apply(c, reply, Reopened(ticket), es, ms, ds)
    BY <1>16, <1>6 DEF SendMessage
  <2> QED
    BY <2>1, <1>2, <1>5
<1>17. CASE AcceptCustomer(c)
  <2>1. Kind(c) = "customer"
    BY <1>17 DEF AcceptCustomer, Ready
  <2> QED
    BY <1>17, <2>1, <1>1, <1>2, <1>3, <1>5, <1>6 DEF AcceptCustomer, Create
<1>18. CASE AcceptWebMessage(c)
  <2>1. \/ \E reply \in Replies : \E es, ms, ds :
             \/ Apply(c, reply, ticket, es, ms, ds)
             \/ Apply(c, reply, AfterContact(c), es, ms, ds)
             \/ Apply(c, reply, [ticket EXCEPT !.status = "open"], es, ms, ds)
        \/ stage' = [stage EXCEPT ![c] = "idle"] /\ UNCHANGED tables
    BY <1>18, <1>6 DEF AcceptWebMessage, Hide, Create
  <2> QED
    BY <2>1, <1>1, <1>2, <1>5 DEF CommitShape, tables
<1>19. CASE Rate(c)
  <2>1. Kind(c) = "rate"
    BY <1>19 DEF Rate, Ready
  <2>2. Skip(c) \/ \E es, ms, ds : Apply(c, "changed", ticket, es, ms, ds)
    BY <1>19 DEF Rate
  <2> QED
    BY <2>1, <2>2, <1>2, <1>3, <1>6
<1>20. CASE WebRate(c)
  <2>1. Raise(c) \/ \E reply \in Replies : \E es, ms, ds : Apply(c, reply, ticket, es, ms, ds)
    BY <1>20, <1>6 DEF WebRate
  <2> QED
    BY <2>1, <1>2, <1>4
<1> QED
  BY <1>7, <1>8, <1>9, <1>10, <1>11, <1>12, <1>13, <1>14, <1>15, <1>16, <1>17, <1>18, <1>19,
     <1>20 DEF CommitStep

LEMMA CarriedInvariant == Spec => []CarriedOut
<1>1. Init => CarriedOut
  <2> SUFFICES ASSUME Init PROVE CarriedOut
    OBVIOUS
  <2>1. ticket.blocked = FALSE /\ \A c \in Commands : seen[c].ticket = ticket
    BY DEF Init, InitTicket
  <2>2. \A u \in Updates : inbound[u].status = "none" /\ stage[u] = "idle"
    BY DEF Init, Updates
  <2> QED
    BY <2>1, <2>2 DEF CarriedOut
<1>2. ASSUME IInv, CarriedOut, [Next]_vars PROVE CarriedOut'
  <2>1. /\ plan' = plan /\ Updates' = Updates /\ Updates \subseteq Commands
        /\ \A c \in Commands : Kind(c)' = Kind(c) /\ Key(c)' = Key(c) /\ Key(c) \in Keys
    BY <1>2, UsedStays, PlanType DEF Updates, Chat, Key, Kind, IInv, Types
  <2>2. \A c \in Commands : Used(c) => Used(c)'
    BY <1>2, <2>1, UsedStays DEF Used, Unused
  <2>3. /\ BlockGiven => BlockGiven'
        /\ \A u \in Updates : Carried(u) => Carried(u)'
    BY <2>1, <2>2 DEF BlockGiven, Carried
  <2>4. /\ stage \in [Commands -> Stages]
        /\ inbound \in [Commands -> [status : InboundStatuses, attempts : Nat]]
        /\ seen \in [Commands -> [ticket : TicketRow, rated : SUBSET Nat]]
        /\ Current.ticket = ticket
    BY <1>2 DEF IInv, Types, Current
  <2>5. ASSUME ticket' = ticket, seen' = seen,
               \A u \in Updates :
                  inbound'[u].status = "delivered" \/ stage'[u] = "committed" =>
                      \/ inbound[u].status = "delivered" \/ stage[u] = "committed"
                      \/ Carried(u)
        PROVE  CarriedOut'
    BY <1>2, <2>1, <2>3, <2>5 DEF CarriedOut
  <2>6. CASE UNCHANGED vars
    BY <2>5, <2>6 DEF vars, tables
  <2>7. CASE Crash
    <3>1. \A u \in Updates : stage'[u] = "committed" => stage[u] = "committed"
      BY <2>1, <2>7 DEF Crash
    <3> QED
      BY <2>5, <2>7, <3>1 DEF Crash, tables
  <2> SUFFICES ASSUME NEW c \in Commands,
                      \/ Arrive(c) \/ Claim(c) \/ Finish(c) \/ Fail(c) \/ FinishFails(c)
                      \/ ReleaseStale(c) \/ Look(c) \/ Read(c) \/ CommitStep(c)
               PROVE  CarriedOut'
    BY <1>2, <2>6, <2>7 DEF Next
  <2>8. CASE Arrive(c) \/ Claim(c) \/ Finish(c) \/ Fail(c) \/ FinishFails(c) \/ ReleaseStale(c)
    <3>1. /\ ticket' = ticket /\ seen' = seen
          /\ inbound'[c].status = "delivered" =>
                inbound[c].status = "delivered" \/ stage[c] = "committed"
          /\ stage'[c] = "committed" => stage[c] = "committed"
          /\ \A u \in Commands : u # c => inbound'[u] = inbound[u] /\ stage'[u] = stage[u]
      BY <2>8, <2>4 DEF Arrive, Claim, Finish, Fail, FinishFails, ReleaseStale, AfterRetry,
         Released, tables
    <3> QED
      BY <2>1, <2>5, <3>1
  <2>9. CASE Look(c)
    <3>1. /\ ticket' = ticket /\ seen' = seen /\ inbound' = inbound
          /\ \A u \in Commands : stage'[u] = "committed" => stage[u] = "committed"
      BY <2>9, <2>4 DEF Look, Answer, tables
    <3> QED
      BY <2>1, <2>5, <3>1
  <2>10. CASE Read(c)
    <3>1. /\ ticket' = ticket /\ inbound' = inbound
          /\ \A d \in Commands : seen'[d].ticket \in {seen[d].ticket, ticket}
          /\ \A u \in Commands : u # c => stage'[u] = stage[u]
          /\ c \in Updates /\ stage'[c] = "committed" => Settled(c) \/ stage[c] = "committed"
      BY <2>10, <2>4 DEF Read, Answer, tables, Requests
    <3>2. Settled(c) => Carried(c)
      BY DEF Settled, Carried
    <3> QED
      BY <1>2, <2>1, <2>3, <3>1, <3>2 DEF CarriedOut
  <2>11. CASE CommitStep(c)
    <3>1. CommitShape(c) /\ Ends(c)
      BY <1>2, <2>11, CommitShapes, CommitStepEnds DEF IInv
    <3>2. /\ seen' = seen
          /\ \A u \in Commands : u # c => inbound'[u] = inbound[u] /\ stage'[u] = stage[u]
          /\ inbound'[c].status = "delivered" => inbound[c].status = "delivered"
      BY <3>1, <2>4 DEF Ends, AfterRetry
    <3>3. ticket'.blocked => BlockGiven'
      BY <1>2, <2>1, <2>3, <3>1 DEF CarriedOut, CommitShape, BlockGiven
    <3>4. c \in Updates /\ stage'[c] = "committed" => Carried(c)'
      BY <1>2, <2>1, <2>3, <3>1 DEF CarriedOut, CommitShape, Carried
    <3> QED
      BY <1>2, <2>1, <2>3, <3>2, <3>3, <3>4 DEF CarriedOut
  <2> QED
    BY <2>8, <2>9, <2>10, <2>11
<1> QED
  BY <1>1, <1>2, Invariance, PTL DEF Spec

\* An update that counts as delivered was carried out, at the first attempt or at a
\* later one, or there was a reason to drop it.
THEOREM DeliveredWasDone == Spec => []DeliveredIsDone
<1>1. CarriedOut => DeliveredIsDone
  BY DEF CarriedOut, Carried, BlockGiven, DeliveredIsDone
<1> QED
  BY <1>1, CarriedInvariant, PTL

-----------------------------------------------------------------------------
IsRating(m) == m.sort = "rating"

\* The command that wrote a rating, and the close it is about.
RatingRow(m) ==
    IsRating(m) =>
        /\ 0 < m.cycle /\ m.cycle <= ticket.cycle
        /\ \/ Kind(m.by) = "web_rate"
           \/ Kind(m.by) = "rate" /\ m.key = Key(m.by) /\ m.cycle = plan.of[m.by].cycle

Written == {messages[i] : i \in DOMAIN messages}

\* The cycles of a ticket are counted, and each is rated once.
Ratings ==
    /\ ticket.status = "closed" => ticket.cycle > 0
    /\ \A c \in Commands :
        /\ seen[c].ticket.cycle <= ticket.cycle
        /\ seen[c].ticket.status = "closed" => seen[c].ticket.cycle > 0
    /\ \A m \in Written : RatingRow(m)
    /\ \A i, j \in DOMAIN messages :
        IsRating(messages[i]) /\ IsRating(messages[j]) /\ messages[i].cycle = messages[j].cycle
            => i = j

\* The message of a commit, if it is a rating.
Rates(c, m) ==
    /\ m.by = c /\ m.key = Key(c) /\ ~ Used(c)
    /\ \/ /\ Kind(c) = "rate"
          /\ m.cycle = plan.of[c].cycle
          /\ 0 < m.cycle /\ m.cycle <= View(c).ticket.cycle
       \/ /\ Kind(c) = "web_rate"
          /\ View(c).ticket.status = "closed"
          /\ m.cycle = View(c).ticket.cycle
          /\ m.cycle \notin RatedCycles

RatingShape(c) ==
    /\ ticket.cycle <= ticket'.cycle
    /\ ticket'.status = "closed" => ticket.status = "closed" \/ ticket'.cycle > 0
    /\ ticket.status # "none" => ticket'.status # "none"
    /\ \/ messages' = messages
       \/ \E m \in MessageRow :
            /\ messages' = messages \o <<m>>
            /\ IsRating(m) => Rates(c, m)

LEMMA RatingShapes ==
  ASSUME Types, NEW c \in Commands, CommitStep(c)
  PROVE  RatingShape(c)
<1> USE DEF Sorts
<1>1. /\ ticket \in TicketRow /\ ticket.cycle \in Nat
      /\ View(c).ticket.cycle \in Nat /\ View(c).ticket.blocked \in BOOLEAN
      /\ View(c).ticket.status \in {"none", "open", "closed"}
  BY TicketTypes, ViewType DEF Types, TicketRow
<1>2. /\ AfterContact(c) \in {ticket, Reopened(ticket)}
      /\ [ticket EXCEPT !.status = "open"] = Reopened(ticket)
      /\ Closed(ticket).cycle = ticket.cycle + 1 /\ Closed(ticket).status = "closed"
      /\ Reopened(ticket).cycle = ticket.cycle /\ Reopened(ticket).status = "open"
  BY <1>1 DEF TicketRow, Closed, Reopened, AfterContact
<1>2a. \A b : /\ [ticket EXCEPT !.blocked = b].status = ticket.status
              /\ [ticket EXCEPT !.blocked = b].cycle = ticket.cycle
  BY <1>1 DEF TicketRow
<1>3. ASSUME NEW reply, NEW t, NEW es, NEW ms, NEW ds, Apply(c, reply, t, es, ms, ds),
             \/ t \in {ticket, Closed(ticket), Reopened(ticket)}
             \/ t.status = ticket.status /\ t.cycle = ticket.cycle,
             \/ ms = <<>>
             \/ \E sort \in Sorts, cycle \in Nat, hidden \in BOOLEAN :
                  /\ ms = <<Message(c, sort, cycle, hidden)>>
                  /\ sort = "rating" => Rates(c, Message(c, sort, cycle, hidden))
      PROVE  RatingShape(c)
  <2>1. ticket' = t /\ messages' = messages \o ms
    BY <1>3 DEF Apply
  <2>2. /\ ticket.cycle <= t.cycle
        /\ t.status = "closed" => ticket.status = "closed" \/ t.cycle > 0
        /\ ticket.status # "none" => t.status # "none"
    <3>1. CASE t = ticket \/ (t.status = ticket.status /\ t.cycle = ticket.cycle)
      BY <1>1, <3>1
    <3>2. CASE t = Closed(ticket)
      BY <1>1, <1>2, <3>2
    <3>3. CASE t = Reopened(ticket)
      BY <1>1, <1>2, <3>3
    <3> QED
      BY <1>3, <3>1, <3>2, <3>3
  <2>3. CASE ms = <<>>
    BY <2>1, <2>2, <2>3 DEF RatingShape, Types
  <2>4. CASE ms # <<>>
    <3>1. PICK sort \in Sorts, cycle \in Nat, hidden \in BOOLEAN :
                  /\ ms = <<Message(c, sort, cycle, hidden)>>
                  /\ sort = "rating" => Rates(c, Message(c, sort, cycle, hidden))
      BY <1>3, <2>4
    <3> DEFINE m == Message(c, sort, cycle, hidden)
    <3>2. m \in MessageRow /\ m.sort = sort
      BY PlanType DEF Types, Message, MessageRow
    <3> HIDE DEF m
    <3> QED
      BY <2>1, <2>2, <3>1, <3>2 DEF RatingShape, IsRating, m
  <2> QED
    BY <2>3, <2>4
<1>4. UNCHANGED tables => RatingShape(c)
  BY <1>1 DEF RatingShape, tables
<1>5. CASE Duplicate(c)
  BY <1>5, <1>4 DEF Duplicate
<1>6. CASE CloseTicket(c)
  <2>1. \E reply, es, ds :
            \/ Apply(c, reply, Closed(ticket), es, <<Message(c, "notice", 0, FALSE)>>, ds)
            \/ Apply(c, reply, Closed(ticket), es, <<>>, ds)
    BY <1>6 DEF CloseTicket
  <2> QED
    BY <2>1, <1>3
<1>7. CASE CloseClosed(c)
  <2>1. UNCHANGED tables \/ Apply(c, "unchanged", ticket, <<>>, <<>>, {})
    BY <1>7 DEF CloseClosed, Skip
  <2> QED
    BY <2>1, <1>3, <1>4
<1>8. CASE CloseAll(c)
  <2>1. \E reply, es : \/ Apply(c, reply, Closed(ticket), es, <<>>, {})
                       \/ Apply(c, reply, ticket, es, <<>>, {})
    BY <1>8 DEF CloseAll
  <2> QED
    BY <2>1, <1>3
<1>9. CASE ReopenTicket(c)
  <2>1. \E reply, es : \/ Apply(c, reply, Reopened(ticket), es, <<>>, {})
                       \/ Apply(c, reply, ticket, es, <<>>, {})
    BY <1>9 DEF ReopenTicket
  <2> QED
    BY <2>1, <1>3
<1>10. CASE Block(c) \/ Unblock(c)
  <2>1. UNCHANGED tables \/ \E reply, b : Apply(c, reply, [ticket EXCEPT !.blocked = b],
                                                <<>>, <<>>, {})
    BY <1>10 DEF Block, Unblock, Raise
  <2>2. CASE UNCHANGED tables
    BY <2>2, <1>4
  <2>3. ASSUME NEW reply, NEW b, Apply(c, reply, [ticket EXCEPT !.blocked = b], <<>>, <<>>, {})
        PROVE  RatingShape(c)
    <3> DEFINE t == [ticket EXCEPT !.blocked = b]
    <3>1. t.status = ticket.status /\ t.cycle = ticket.cycle
      BY <1>2a
    <3> HIDE DEF t
    <3>2. Apply(c, reply, t, <<>>, <<>>, {})
      BY <2>3 DEF t
    <3> QED
      BY <3>1, <3>2, <1>3
  <2> QED
    BY <2>1, <2>2, <2>3
<1>11. CASE AddNote(c)
  <2>1. Apply(c, "changed", ticket, <<>>, <<Message(c, "note", 0, FALSE)>>, {})
    BY <1>11 DEF AddNote
  <2> QED
    BY <2>1, <1>3
<1>12. CASE AcceptReply(c)
  <2>1. UNCHANGED tables \/ \E reply, es, ds :
            Apply(c, reply, AfterContact(c), es, <<Message(c, "reply", 0, FALSE)>>, ds)
    BY <1>12 DEF AcceptReply, Skip
  <2> QED
    BY <2>1, <1>2, <1>3, <1>4
<1>13. CASE SendMessage(c)
  <2>1. \/ Apply(c, "unchanged", ticket, <<>>, <<>>, {})
        \/ \E reply, es, ds :
              \/ Apply(c, reply, ticket, es, <<Message(c, "reply", 0, FALSE)>>, ds)
              \/ Apply(c, reply, Reopened(ticket), es, <<Message(c, "reply", 0, FALSE)>>, ds)
    BY <1>13 DEF SendMessage
  <2> QED
    BY <2>1, <1>3
<1>14. CASE AcceptCustomer(c) \/ AcceptWebMessage(c)
  <2>1. \/ UNCHANGED tables
        \/ Apply(c, "changed", ticket, <<>>, <<Message(c, "customer", 0, TRUE)>>, {})
        \/ \E reply, es, ds :
              \/ Apply(c, reply, AfterContact(c), es, <<Message(c, "customer", 0, FALSE)>>, ds)
              \/ Apply(c, reply, [ticket EXCEPT !.status = "open"], es,
                       <<Message(c, "customer", 0, FALSE)>>, ds)
    BY <1>14 DEF AcceptCustomer, AcceptWebMessage, Hide, Create, Skip
  <2> QED
    BY <2>1, <1>2, <1>3, <1>4
<1>15. CASE Rate(c)
  <2> DEFINE n == plan.of[c].cycle
             m == Message(c, "rating", n, FALSE)
  <2>1. Kind(c) = "rate" /\ ~ Used(c) /\ n \in Nat
    BY <1>15, ReadyMeans, PlanType DEF Rate, Ready, Types
  <2>2. \/ UNCHANGED tables
        \/ /\ n # 0 /\ ~ (n > View(c).ticket.cycle)
           /\ \E es, ds : Apply(c, "changed", ticket, es, <<m>>, ds)
    BY <1>15 DEF Rate, Skip
  <2>3. n # 0 /\ ~ (n > View(c).ticket.cycle) => Rates(c, m)
    BY <1>1, <2>1 DEF Rates, Message
  <2> QED
    BY <2>1, <2>2, <2>3, <1>3, <1>4
<1>16. CASE WebRate(c)
  <2> DEFINE n == View(c).ticket.cycle
             m == Message(c, "rating", n, View(c).ticket.blocked)
  <2>1. Kind(c) = "web_rate" /\ (~ Refused(c) => ~ Used(c) /\ View(c).ticket.status = "closed")
    BY <1>16 DEF WebRate, Ready, Collides, Refused
  <2>2. \/ UNCHANGED tables
        \/ Apply(c, "unchanged", ticket, <<>>, <<>>, {})
        \/ /\ ~ Refused(c) /\ n \notin RatedCycles
           /\ \E es, ds : Apply(c, "changed", ticket, es, <<m>>, ds)
    BY <1>16 DEF WebRate, Raise, RatingTaken
  <2>3. ~ Refused(c) /\ n \notin RatedCycles => Rates(c, m)
    BY <2>1 DEF Rates, Message
  <2> QED
    BY <1>1, <2>2, <2>3, <1>3, <1>4
<1> QED
  BY <1>5, <1>6, <1>7, <1>8, <1>9, <1>10, <1>11, <1>12, <1>13, <1>14, <1>15, <1>16
     DEF CommitStep

\* A new rating is the first of its cycle.
LEMMA FirstOfCycle ==
  ASSUME IInv, Ratings, RatingKeys, NEW c \in Commands, NEW m \in MessageRow, Rates(c, m)
  PROVE  /\ 0 < m.cycle /\ m.cycle <= ticket.cycle
         /\ \A i \in DOMAIN messages : IsRating(messages[i]) => messages[i].cycle # m.cycle
<1>1. /\ View(c).ticket.cycle <= ticket.cycle
      /\ View(c).ticket.status = "closed" => View(c).ticket.cycle > 0
      /\ View(c).ticket \in TicketRow /\ ticket \in TicketRow
  BY ViewType DEF Ratings, View, Current, IInv, Types, TicketRow
<1>2. 0 < m.cycle /\ m.cycle <= ticket.cycle
  BY <1>1 DEF Rates, TicketRow, MessageRow
<1>3. ASSUME NEW i \in DOMAIN messages, IsRating(messages[i]), messages[i].cycle = m.cycle
      PROVE  FALSE
  <2>1. messages[i] \in MessageRow
    BY <1>3 DEF IInv, Types
  <2>2. CASE Kind(c) = "web_rate"
    <3>1. m.cycle \notin RatedCycles
      BY <2>2 DEF Rates
    <3> QED
      BY <1>3, <3>1 DEF RatedCycles, IsRating
  <2>3. CASE Kind(c) = "rate"
    <3> DEFINE d == messages[i].by
    <3>1. d \in Commands
      BY <2>1 DEF MessageRow
    <3>2. plan \in Scenarios /\ plan.of[c].kind = "rate"
      BY <2>3 DEF IInv, Types, Kind
    <3>3. /\ messages[i].key = Key(d) /\ Kind(d) = "rate"
          /\ messages[i].cycle = plan.of[d].cycle
      BY <1>3, <3>1, <3>2 DEF Ratings, Written, RatingRow, RatingKeys, Kind
    <3>4. m.cycle = plan.of[c].cycle
      BY <2>3 DEF Rates
    <3>5. Key(d) = Key(c)
      BY <1>3, <3>1, <3>2, <3>3, <3>4 DEF RatingKeys, Kind, Key
    <3> QED
      BY <1>3, <3>3, <3>5 DEF Rates, IInv, RowsHaveKeys, Used
  <2> QED
    BY <2>2, <2>3 DEF Rates
<1> QED
  BY <1>2, <1>3

LEMMA RatingsInvariant ==
  ASSUME RatingKeys
  PROVE  Spec => []Ratings
<1>1. Init => Ratings
  <2> SUFFICES ASSUME Init PROVE Ratings
    OBVIOUS
  <2>1. /\ ticket = InitTicket(plan.start) /\ messages = <<>>
        /\ \A c \in Commands : seen[c].ticket = ticket
    BY DEF Init
  <2>2. ticket.cycle \in Nat /\ (ticket.status = "closed" => ticket.cycle > 0)
    BY <2>1 DEF InitTicket
  <2> QED
    BY <2>1, <2>2 DEF Ratings, Written
<1>2. ASSUME IInv, Ratings, [Next]_vars PROVE Ratings'
  <2>1. /\ plan' = plan /\ ticket \in TicketRow /\ ticket' \in TicketRow
        /\ \A c \in Commands : Kind(c)' = Kind(c) /\ Key(c)' = Key(c)
        /\ \A i \in DOMAIN messages : messages[i] \in MessageRow
        /\ seen \in [Commands -> [ticket : TicketRow, rated : SUBSET Nat]]
    BY <1>2, UsedStays, NextInvariant DEF IInv, Types, Kind, Key
  <2>2. CASE \E c \in Commands : CommitStep(c)
    <3>1. PICK c \in Commands : CommitStep(c)
      BY <2>2
    <3>2. RatingShape(c) /\ seen' = seen
      BY <1>2, <3>1, RatingShapes, CommitStepEnds DEF IInv, Ends
    <3>3. /\ ticket'.status = "closed" => ticket'.cycle > 0
          /\ \A d \in Commands :
              /\ seen'[d].ticket.cycle <= ticket'.cycle
              /\ seen'[d].ticket.status = "closed" => seen'[d].ticket.cycle > 0
      BY <1>2, <2>1, <3>2 DEF Ratings, RatingShape, TicketRow
    <3>4. \A x \in MessageRow : RatingRow(x) => RatingRow(x)'
      <4> SUFFICES ASSUME NEW x \in MessageRow, RatingRow(x), IsRating(x) PROVE RatingRow(x)'
        BY DEF RatingRow, IsRating
      <4>1. x.cycle <= ticket.cycle => x.cycle <= ticket'.cycle
        BY <2>1, <3>2 DEF RatingShape, TicketRow, MessageRow
      <4>2. x.by \in Commands
        BY DEF MessageRow
      <4> QED
        BY <2>1, <4>1, <4>2 DEF RatingRow
    <3>5. CASE messages' = messages
      BY <1>2, <2>1, <3>3, <3>4, <3>5 DEF Ratings, Written
    <3>6. ASSUME NEW m \in MessageRow, messages' = messages \o <<m>>, IsRating(m) => Rates(c, m)
          PROVE  Ratings'
      <4>1. /\ DOMAIN messages' = DOMAIN messages \union {Len(messages) + 1}
            /\ \A i \in DOMAIN messages : messages'[i] = messages[i]
            /\ messages'[Len(messages) + 1] = m
        BY <1>2, <3>6, Grown DEF IInv, Types
      <4>2. IsRating(m) =>
              /\ 0 < m.cycle /\ m.cycle <= ticket.cycle
              /\ \A i \in DOMAIN messages : IsRating(messages[i]) => messages[i].cycle # m.cycle
        BY <1>2, <3>6, FirstOfCycle
      <4>3. RatingRow(m)
        BY <3>6, <4>2 DEF RatingRow, Rates
      <4>4. \A x \in Written' : RatingRow(x)'
        <5>1. Written' \subseteq Written \union {m}
          BY <4>1 DEF Written
        <5>2. \A x \in Written \union {m} : x \in MessageRow /\ RatingRow(x)
          BY <1>2, <2>1, <4>3 DEF Ratings, Written
        <5> QED
          BY <3>4, <5>1, <5>2
      <4>5. \A i, j \in DOMAIN messages' :
              IsRating(messages'[i]) /\ IsRating(messages'[j])
                /\ messages'[i].cycle = messages'[j].cycle => i = j
        BY <1>2, <4>1, <4>2 DEF Ratings
      <4> QED
        BY <3>3, <4>4, <4>5 DEF Ratings
    <3> QED
      BY <3>2, <3>5, <3>6 DEF RatingShape
  <2>3. CASE ~ \E c \in Commands : CommitStep(c)
    <3>1. ticket' = ticket /\ messages' = messages
      BY <1>2, <2>3 DEF Next, vars, Crash, Arrive, Claim, Finish, Fail, FinishFails,
                        ReleaseStale, Look, Read, tables
    <3>2. \A c \in Commands : seen'[c].ticket \in {seen[c].ticket, ticket}
      BY <1>2, <2>1, <2>3 DEF Next, vars, Crash, Arrive, Claim, Finish, Fail, FinishFails,
                              ReleaseStale, Look, Read, Current
    <3>3. \A x \in MessageRow : RatingRow(x) => RatingRow(x)'
      BY <2>1, <3>1 DEF RatingRow, IsRating, MessageRow
    <3>4. /\ ticket'.status = "closed" => ticket'.cycle > 0
          /\ \A d \in Commands :
              /\ seen'[d].ticket.cycle <= ticket'.cycle
              /\ seen'[d].ticket.status = "closed" => seen'[d].ticket.cycle > 0
      BY <1>2, <2>1, <3>1, <3>2 DEF Ratings, TicketRow
    <3> QED
      BY <1>2, <2>1, <3>1, <3>3, <3>4 DEF Ratings, Written
  <2> QED
    BY <2>2, <2>3
<1> QED
  BY <1>1, <1>2, Invariance, PTL DEF Spec

\* However many buttons are pressed and requests sent, on either database, a close
\* is rated once, and only one that happened.
THEOREM RatedOnce ==
  ASSUME RatingKeys
  PROVE  Spec => []RatedOncePerClose
<1>1. IInv /\ Ratings => RatedOncePerClose
  <2> SUFFICES ASSUME IInv, Ratings PROVE RatedOncePerClose
    OBVIOUS
  <2>1. /\ \A i \in DOMAIN messages : messages[i] \in MessageRow
        /\ ticket.cycle \in Nat
    BY DEF IInv, Types, TicketRow
  <2>2. RatedCycles \subseteq 1..ticket.cycle
    BY <2>1 DEF Ratings, Written, RatingRow, RatedCycles, IsRating, MessageRow
  <2> QED
    BY <2>2 DEF Ratings, RatedOncePerClose, IsRating
<1> QED
  BY <1>1, RatingsInvariant, Invariance, PTL

-----------------------------------------------------------------------------
UnderWay == Working \union {"looked"}

\* A block finds a ticket, and the message of a customer in hand was read with the
\* block that stands.
Blocks ==
    /\ ticket.blocked => ticket.status # "none"
    /\ \A c \in Commands : Kind(c) = "block" =>
        (stage[c] \in UnderWay => ticket.status # "none")
    /\ \A c \in Updates : Kind(c) = "block" =>
        (inbound[c].status # "none" => ticket.status # "none")
    /\ \A c \in Commands :
        Kind(c) = "customer" /\ stage[c] = "begun" /\ ticket.blocked => seen[c].ticket.blocked

SilentStep ==
    /\ outbox' = outbox
    /\ \A i \in NewMessages : messages'[i].hidden \/ messages'[i].sort = "note"
    /\ ticket'.status # ticket.status \/ events' # events =>
         /\ messages' = messages
         /\ \E c \in Commands : Kind(c) \in StatusKinds /\ CommitStep(c)

\* What a commit writes about a blocked customer.
LEMMA CommitIsSilent ==
  ASSUME Types, Blocks, plan.rowLocks, ticket.blocked, NEW c \in Commands, CommitStep(c),
         ~ Rate(c)
  PROVE  SilentStep
<1>1. /\ ticket.status # "none"
      /\ Kind(c) \in Locking => View(c).ticket = ticket
      /\ Kind(c) = "customer" /\ stage[c] = "begun" => seen[c].ticket.blocked
      /\ ticket.cycle \in Nat /\ View(c).ticket.cycle \in Nat
  BY TicketTypes DEF Blocks, View, Current
<1>2. UNCHANGED tables => SilentStep
  BY DEF SilentStep, tables, NewMessages
<1>3. ASSUME NEW reply, NEW t, NEW es, NEW ms, Apply(c, reply, t, es, ms, {}),
             \/ Kind(c) \in StatusKinds /\ ms = <<>>
             \/ es = <<>> /\ t.status = ticket.status,
             \/ ms = <<>>
             \/ \E sort \in Sorts, n \in Nat, hidden \in BOOLEAN :
                  ms = <<Message(c, sort, n, hidden)>> /\ (hidden \/ sort = "note")
      PROVE  SilentStep
  <2>1. ticket' = t /\ outbox' = outbox /\ messages' = messages \o ms /\ events' = events \o es
    BY <1>3 DEF Apply
  <2>2. \A i \in NewMessages : messages'[i].hidden \/ messages'[i].sort = "note"
    <3>1. CASE ms = <<>>
      BY <2>1, <3>1 DEF Types, NewMessages
    <3>2. CASE ms # <<>>
      <4>1. PICK m \in MessageRow : ms = <<m>> /\ (m.hidden \/ m.sort = "note")
        BY <1>3, <3>2, PlanType DEF Message, MessageRow, Types
      <4> QED
        BY <2>1, <4>1, Grown DEF Types, NewMessages
    <3> QED
      BY <3>1, <3>2
  <2>3. CASE Kind(c) \in StatusKinds /\ ms = <<>>
    <3>1. messages' = messages
      BY <2>1, <2>3 DEF Types
    <3> QED
      BY <2>1, <2>2, <2>3, <3>1 DEF SilentStep
  <2>4. CASE es = <<>> /\ t.status = ticket.status
    <3>1. events' = events
      BY <2>1, <2>4 DEF Types
    <3> QED
      BY <2>1, <2>2, <2>4, <3>1 DEF SilentStep
  <2> QED
    BY <1>3, <2>3, <2>4
<1>4. CASE Duplicate(c)
  BY <1>4, <1>2 DEF Duplicate
<1>5. CASE CloseTicket(c)
  <2>1. Apply(c, "changed", Closed(ticket), <<Event("closed", ticket.cycle + 1, Key(c))>>, <<>>, {})
    BY <1>5 DEF CloseTicket
  <2>2. Kind(c) \in StatusKinds
    BY <1>5 DEF CloseTicket, Ready, StatusKinds
  <2> QED
    BY <2>1, <2>2, <1>3
<1>6. CASE CloseClosed(c)
  <2>1. UNCHANGED tables \/ Apply(c, "unchanged", ticket, <<>>, <<>>, {})
    BY <1>6 DEF CloseClosed, Skip
  <2> QED
    BY <2>1, <1>2, <1>3
<1>7. CASE CloseAll(c)
  <2>1. \/ Apply(c, "changed", Closed(ticket), <<Event("closed", ticket.cycle + 1, Key(c))>>,
                 <<>>, {})
        \/ Apply(c, "unchanged", ticket, <<>>, <<>>, {})
    BY <1>7 DEF CloseAll
  <2>2. Kind(c) \in StatusKinds
    BY <1>7 DEF CloseAll, Ready, StatusKinds
  <2> QED
    BY <2>1, <2>2, <1>3
<1>8. CASE ReopenTicket(c)
  <2>1. \/ Apply(c, "changed", Reopened(ticket),
                 <<Event("reopened", View(c).ticket.cycle, Key(c))>>, <<>>, {})
        \/ Apply(c, "unchanged", ticket, <<>>, <<>>, {})
    BY <1>8 DEF ReopenTicket
  <2>2. Kind(c) \in StatusKinds
    BY <1>8 DEF ReopenTicket, Ready, StatusKinds
  <2> QED
    BY <2>1, <2>2, <1>3
<1>9. CASE Block(c) \/ Unblock(c)
  <2>1. \/ UNCHANGED tables
        \/ \E reply : Apply(c, reply, [ticket EXCEPT !.blocked = @ \/ ~ View(c).ticket.blocked],
                           <<>>, <<>>, {})
        \/ \E reply : Apply(c, reply, [ticket EXCEPT !.blocked =
                                           IF View(c).ticket.blocked THEN FALSE ELSE @],
                           <<>>, <<>>, {})
    BY <1>9 DEF Block, Unblock, Raise
  <2>2. /\ [ticket EXCEPT !.blocked = @ \/ ~ View(c).ticket.blocked].status = ticket.status
        /\ [ticket EXCEPT !.blocked = IF View(c).ticket.blocked THEN FALSE ELSE @].status
             = ticket.status
    BY TicketTypes DEF TicketRow
  <2> QED
    BY <2>1, <2>2, <1>2, <1>3
<1>10. CASE AddNote(c)
  <2>1. Apply(c, "changed", ticket, <<>>, <<Message(c, "note", 0, FALSE)>>, {})
    BY <1>10 DEF AddNote
  <2> QED
    BY <2>1, <1>3 DEF Sorts
<1>11. CASE AcceptReply(c)
  <2>1. View(c).ticket.blocked
    BY <1>11, <1>1 DEF AcceptReply, Ready, Locking
  <2> QED
    BY <1>11, <2>1, <1>2 DEF AcceptReply, Skip
<1>12. CASE SendMessage(c)
  <2>1. View(c).ticket.blocked
    BY <1>12, <1>1 DEF SendMessage, Ready, Locking
  <2>2. Apply(c, "unchanged", ticket, <<>>, <<>>, {})
    BY <1>12, <2>1 DEF SendMessage
  <2> QED
    BY <2>2, <1>3
<1>13. CASE AcceptCustomer(c)
  <2>1. View(c).ticket.status # "none" /\ seen[c].ticket.blocked
    BY <1>13, <1>1 DEF AcceptCustomer, Ready, Locking
  <2>2. Skip(c)
    BY <1>13, <2>1 DEF AcceptCustomer, Create
  <2> QED
    BY <2>2, <1>2 DEF Skip
<1>14. CASE AcceptWebMessage(c)
  <2>1. View(c).ticket.status # "none" /\ View(c).ticket.blocked
    BY <1>14, <1>1 DEF AcceptWebMessage, Ready, Locking
  <2>2. Apply(c, "changed", ticket, <<>>, <<Message(c, "customer", 0, TRUE)>>, {})
    BY <1>1, <1>14, <2>1 DEF AcceptWebMessage, Hide
  <2> QED
    BY <2>2, <1>3 DEF Sorts
<1>15. CASE WebRate(c)
  <2>1. View(c).ticket.blocked
    BY <1>15, <1>1 DEF WebRate, Ready, Locking
  <2>2. \/ UNCHANGED tables
        \/ Apply(c, "unchanged", ticket, <<>>, <<>>, {})
        \/ Apply(c, "changed", ticket, <<>>,
                 <<Message(c, "rating", View(c).ticket.cycle, View(c).ticket.blocked)>>, {})
    BY <1>15, <2>1 DEF WebRate, Raise
  <2> QED
    BY <1>1, <2>1, <2>2, <1>2, <1>3 DEF Sorts
<1> QED
  BY <1>4, <1>5, <1>6, <1>7, <1>8, <1>9, <1>10, <1>11, <1>12, <1>13, <1>14, <1>15
     DEF CommitStep

LEMMA BlocksInvariant ==
  ASSUME BlockedByUpdate
  PROVE  Spec => []Blocks
<1>1. Init => Blocks
  <2> SUFFICES ASSUME Init PROVE Blocks
    OBVIOUS
  <2>1. ticket.blocked = FALSE
    BY DEF Init, InitTicket
  <2>2. \A c \in Commands : stage[c] = "idle" /\ inbound[c].status = "none"
    BY DEF Init
  <2> QED
    BY <2>1, <2>2 DEF Blocks, UnderWay, Working, Updates
<1>2. ASSUME IInv, Blocks, [Next]_vars PROVE Blocks'
  <2>1. /\ plan' = plan /\ Updates' = Updates /\ Updates \subseteq Commands
        /\ \A c \in Commands : Kind(c)' = Kind(c)
        /\ stage \in [Commands -> Stages]
        /\ inbound \in [Commands -> [status : InboundStatuses, attempts : Nat]]
        /\ seen \in [Commands -> [ticket : TicketRow, rated : SUBSET Nat]]
        /\ Current.ticket = ticket
        /\ \A u \in Commands : Kind(u) = "customer" => u \in Updates
    BY <1>2, UsedStays, CommandsAssumption
       DEF Updates, Chat, Kind, IInv, Types, Current, RequestKinds
  <2>2. ASSUME ticket' = ticket, seen' = seen,
               \A c \in Commands : Kind(c) = "block" =>
                  (stage'[c] \in UnderWay => ticket.status # "none"),
               \A c \in Updates : Kind(c) = "block" =>
                  (inbound'[c].status # "none" => ticket.status # "none"),
               \A c \in Commands : Kind(c) = "customer" =>
                  (stage'[c] = "begun" => stage[c] = "begun")
        PROVE  Blocks'
    BY <1>2, <2>1, <2>2 DEF Blocks, UnderWay, Working
  <2>3. CASE UNCHANGED vars
    BY <1>2, <2>2, <2>3 DEF vars, tables, Blocks, UnderWay, Working
  <2>4. CASE Crash
    <3>1. \A c \in Commands : stage'[c] \in UnderWay => stage'[c] = stage[c]
      BY <2>1, <2>4 DEF Crash, UnderWay, Working
    <3> QED
      BY <1>2, <2>1, <2>2, <2>4, <3>1 DEF Crash, tables, Blocks, UnderWay, Working
  <2> SUFFICES ASSUME NEW c \in Commands,
                      \/ Arrive(c) \/ Claim(c) \/ Finish(c) \/ Fail(c) \/ FinishFails(c)
                      \/ ReleaseStale(c) \/ Look(c) \/ Read(c) \/ CommitStep(c)
               PROVE  Blocks'
    BY <1>2, <2>3, <2>4 DEF Next
  <2>5. CASE Arrive(c)
    <3>1. /\ ticket' = ticket /\ seen' = seen /\ stage' = stage /\ c \in Updates
          /\ \A u \in Commands : u # c => inbound'[u] = inbound[u]
      BY <2>5, <2>1 DEF Arrive, tables
    <3>2. Kind(c) = "block" => ticket.status # "none"
      BY <2>5 DEF Arrive, Possible
    <3> QED
      BY <1>2, <2>1, <2>2, <3>1, <3>2 DEF Blocks, UnderWay, Working
  <2>6. CASE Claim(c) \/ Finish(c) \/ Fail(c) \/ FinishFails(c) \/ ReleaseStale(c)
    <3>1. /\ ticket' = ticket /\ seen' = seen /\ c \in Updates
          /\ \A u \in Commands : u # c => inbound'[u] = inbound[u] /\ stage'[u] = stage[u]
      BY <2>6, <2>1 DEF Claim, Finish, Fail, FinishFails, ReleaseStale, tables
    <3>2. /\ stage'[c] \in {stage[c], "claimed", "idle"}
          /\ stage'[c] = "claimed" => stage[c] = "claimed" \/ inbound[c].status # "none"
      BY <2>6, <2>1 DEF Claim, Finish, Fail, FinishFails, ReleaseStale
    <3>3. \/ inbound[c].status # "none"
          \/ inbound'[c].status = inbound[c].status
          \/ stage[c] \in Working
      BY <2>6, <2>1 DEF Claim, Finish, Fail, FinishFails, ReleaseStale, Working
    <3>4. Kind(c) = "block" => stage[c] \in UnderWay
                                \/ inbound[c].status # "none"
                                \/ inbound'[c].status = inbound[c].status
      BY <3>3 DEF UnderWay, Working
    <3> QED
      BY <1>2, <2>1, <2>2, <3>1, <3>2, <3>4 DEF Blocks, UnderWay, Working
  <2>7. CASE Look(c)
    <3>1. /\ ticket' = ticket /\ seen' = seen /\ inbound' = inbound /\ c \in Requests
          /\ \A u \in Commands : u # c => stage'[u] = stage[u]
          /\ stage'[c] \in {"looked", "ended"}
      BY <2>7, <2>1 DEF Look, Answer, tables
    <3>2. Kind(c) = "block" => ticket.status # "none"
      BY <2>7 DEF Look
    <3> QED
      BY <1>2, <2>1, <2>2, <3>1, <3>2 DEF Blocks, UnderWay, Working
  <2>8. CASE Read(c)
    <3>1. /\ ticket' = ticket /\ inbound' = inbound
          /\ \A u \in Commands : u # c => stage'[u] = stage[u] /\ seen'[u] = seen[u]
          /\ stage[c] \in {"claimed", "looked"}
          /\ stage'[c] = "begun" => seen'[c].ticket = ticket
      BY <2>8, <2>1 DEF Read, Answer, tables
    <3> QED
      BY <1>2, <2>1, <3>1 DEF Blocks, UnderWay, Working
  <2>9. CASE CommitStep(c)
    <3>1. Ends(c) /\ CommitShape(c) /\ RatingShape(c)
      BY <1>2, <2>9, CommitStepEnds, CommitShapes, RatingShapes DEF IInv
    <3>2. /\ ticket.status # "none" => ticket'.status # "none"
          /\ ticket'.blocked => ticket.blocked \/ Kind(c) = "block"
          /\ stage[c] = "begun" /\ seen' = seen
      BY <3>1 DEF Ends, CommitShape, RatingShape
    <3>3. /\ \A u \in Commands : u # c => inbound'[u] = inbound[u] /\ stage'[u] = stage[u]
      BY <2>1, <3>1 DEF Ends
    <3>4. Kind(c) = "block" => ticket.status # "none"
      BY <1>2, <3>2 DEF Blocks, UnderWay, Working
    <3>5. ASSUME NEW u \in Commands, Kind(u) = "customer", stage[u] = "begun"
          PROVE  Kind(c) # "block"
      <4>1. SUFFICES ASSUME Kind(c) = "block" PROVE FALSE
        OBVIOUS
      <4>2. c \in Updates /\ u \in Updates
        BY <1>2, <2>1, <3>5, <4>1 DEF BlockedByUpdate, Updates, Chat, Kind, IInv, Types
      <4> QED
        BY <1>2, <3>2, <3>5, <4>1, <4>2 DEF IInv, OneWorking, Working
    <3> QED
      BY <1>2, <2>1, <3>2, <3>3, <3>4, <3>5 DEF Blocks, UnderWay, Working
  <2> QED
    BY <2>5, <2>6, <2>7, <2>8, <2>9
<1> QED
  BY <1>1, <1>2, Invariance, PTL DEF Spec

\* While the customer is blocked and rows are locked, no command but the rating by
\* the buttons of Telegram queues anything, nothing is written that anybody would be
\* shown, and only a command that asks for a close or a reopening moves the status or
\* continues the history: also when the block came while the command was under way.
THEOREM BlockedStaysSilent ==
  ASSUME BlockedByUpdate
  PROVE  Spec => BlockedIsSilent
<1>1. IInv /\ Blocks /\ [Next]_vars =>
        [plan.rowLocks /\ ticket.blocked =>
            (\E c \in Commands : Kind(c) = "rate" /\ Rate(c) /\ ticket' = ticket)
            \/ SilentStep]_vars
  <2> SUFFICES ASSUME IInv, Blocks, Next, plan.rowLocks, ticket.blocked,
                      ~ \E c \in Commands : Kind(c) = "rate" /\ Rate(c) /\ ticket' = ticket
               PROVE  SilentStep
    OBVIOUS
  <2>1. CASE \E c \in Commands : CommitStep(c)
    <3>1. \A c \in Commands : Rate(c) => Kind(c) = "rate" /\ ticket' = ticket
      BY DEF Rate, Ready, Apply, Skip, tables
    <3>2. \A c \in Commands : ~ Rate(c)
      BY <3>1
    <3> QED
      BY <2>1, <3>2, CommitIsSilent DEF IInv
  <2>2. CASE ~ \E c \in Commands : CommitStep(c)
    <3>1. ticket' = ticket /\ outbox' = outbox /\ messages' = messages /\ events' = events
      BY <2>2 DEF Next, Crash, Arrive, Claim, Finish, Fail, FinishFails, ReleaseStale, Look,
                  Read, tables
    <3> QED
      BY <3>1 DEF SilentStep, NewMessages
  <2> QED
    BY <2>1, <2>2
<1> QED
  BY <1>1, BlocksInvariant, Invariance, PTL DEF Spec, BlockedIsSilent, SilentStep

-----------------------------------------------------------------------------
\* A command that is no first message finds a ticket, and a first message in hand that
\* found none is the first.
Contact ==
    /\ \A c \in Commands : Kind(c) \notin {"customer", "web_message", "rate"} =>
        (stage[c] \in UnderWay => ticket.status # "none")
    /\ \A u \in Updates : Kind(u) \notin {"customer", "rate"} =>
        (inbound[u].status # "none" => ticket.status # "none")
    /\ \A c \in Commands : Kind(c) = "customer" /\ stage[c] = "begun" =>
        (seen[c].ticket.status = "none" => ticket.status = "none")

\* What the event of a commit says of the ticket.
SameStatus == ticket'.status = ticket.status /\ ticket'.cycle = ticket.cycle
Opens == ticket'.status = "open" /\ ticket'.cycle = ticket.cycle

Tells(c, e) ==
    \/ e.type = "rated" /\ SameStatus
    \/ /\ e.type = "closed"
       /\ ticket.status # "closed" /\ ticket'.status = "closed"
       /\ ticket'.cycle = ticket.cycle + 1
    \/ e.type = "reopened" /\ Opens /\ (plan.rowLocks => ticket.status = "closed")
    \/ /\ e.type = "created" /\ Opens
       /\ View(c).ticket.status = "none"
       /\ Kind(c) = "customer" \/ ticket.status = "none"

HistoryShape(c) ==
    /\ Kind(c) = "rate" => ticket' = ticket
    /\ \/ events' = events /\ SameStatus
       \/ \E e \in EventRow : events' = events \o <<e>> /\ Tells(c, e)

\* What each command adds to the history.
LEMMA HistoryShapes ==
  ASSUME Types, NEW c \in Commands, CommitStep(c)
  PROVE  HistoryShape(c)
<1>1. /\ ticket \in TicketRow /\ ticket.cycle \in Nat
      /\ View(c).ticket.cycle \in Nat /\ View(c).ticket.blocked \in BOOLEAN
      /\ events \in Seq(EventRow)
  BY TicketTypes DEF Types
<1>2. /\ [ticket EXCEPT !.status = "open"] = Reopened(ticket)
      /\ Closed(ticket).cycle = ticket.cycle + 1 /\ Closed(ticket).status = "closed"
      /\ Reopened(ticket).cycle = ticket.cycle /\ Reopened(ticket).status = "open"
      /\ \A b \in BOOLEAN : /\ [ticket EXCEPT !.blocked = b].status = ticket.status
                            /\ [ticket EXCEPT !.blocked = b].cycle = ticket.cycle
  BY <1>1 DEF TicketRow, Closed, Reopened
<1>3. ASSUME NEW type \in EventTypes, NEW n \in Nat
      PROVE  Event(type, n, Key(c)) \in EventRow /\ Event(type, n, Key(c)).type = type
  BY PlanType DEF Types, Event, EventRow
<1>4. ASSUME ticket' = ticket, events' = events PROVE HistoryShape(c)
  BY <1>4 DEF HistoryShape, SameStatus
<1>5. ASSUME NEW reply, NEW t, NEW es, NEW ms, NEW ds, Apply(c, reply, t, es, ms, ds)
      PROVE  ticket' = t /\ events' = events \o es
  BY <1>5 DEF Apply
<1>6. ASSUME NEW reply, NEW t, NEW ms, NEW ds, Apply(c, reply, t, <<>>, ms, ds),
             t.status = ticket.status, t.cycle = ticket.cycle, Kind(c) # "rate" \/ t = ticket
      PROVE  HistoryShape(c)
  <2>1. events' = events /\ ticket' = t
    BY <1>1, <1>5, <1>6
  <2> QED
    BY <1>6, <2>1 DEF HistoryShape, SameStatus
<1>7. ASSUME NEW reply, NEW t, NEW type \in EventTypes, NEW n \in Nat, NEW ms, NEW ds,
             Apply(c, reply, t, <<Event(type, n, Key(c))>>, ms, ds),
             ticket' = t => Tells(c, Event(type, n, Key(c))),
             Kind(c) # "rate" \/ t = ticket
      PROVE  HistoryShape(c)
  <2>1. events' = events \o <<Event(type, n, Key(c))>> /\ ticket' = t
    BY <1>5, <1>7
  <2> QED
    BY <1>3, <1>7, <2>1 DEF HistoryShape
<1>8. ASSUME NEW reply, NEW ms, NEW ds, ticket.status # "closed", Kind(c) # "rate",
             Apply(c, reply, Closed(ticket), <<Event("closed", ticket.cycle + 1, Key(c))>>, ms, ds)
      PROVE  HistoryShape(c)
  <2> DEFINE e == Event("closed", ticket.cycle + 1, Key(c))
  <2>1. "closed" \in EventTypes /\ ticket.cycle + 1 \in Nat
    BY <1>1 DEF EventTypes
  <2>2. e.type = "closed"
    BY <1>3, <2>1
  <2>3. ticket' = Closed(ticket) => Tells(c, e)
    <3> HIDE DEF e
    <3> QED
      BY <1>2, <1>8, <2>2 DEF Tells
  <2> QED
    BY <1>7, <1>8, <2>1, <2>3
<1>9. ASSUME NEW reply, NEW ms, NEW ds, plan.rowLocks => ticket.status = "closed",
             Kind(c) # "rate",
             Apply(c, reply, Reopened(ticket),
                   <<Event("reopened", View(c).ticket.cycle, Key(c))>>, ms, ds)
      PROVE  HistoryShape(c)
  BY <1>1, <1>2, <1>3, <1>7, <1>9 DEF Tells, Opens, EventTypes
<1>10. ASSUME NEW reply, NEW ms, NEW ds, Kind(c) \in Locking, Kind(c) # "rate",
              Apply(c, reply, AfterContact(c), ReopenEvent(c), ms, ds)
       PROVE  HistoryShape(c)
  <2>1. CASE Reopens(c)
    <3>1. /\ AfterContact(c) = Reopened(ticket)
          /\ ReopenEvent(c) = <<Event("reopened", View(c).ticket.cycle, Key(c))>>
      BY <2>1 DEF AfterContact, ReopenEvent
    <3>2. plan.rowLocks => ticket.status = "closed"
      BY <1>10, <2>1, ContactOpens DEF Reopens
    <3> QED
      BY <1>9, <1>10, <3>1, <3>2
  <2>2. CASE ~ Reopens(c)
    <3>1. AfterContact(c) = ticket /\ ReopenEvent(c) = <<>>
      BY <2>2 DEF AfterContact, ReopenEvent
    <3> QED
      BY <1>6, <1>10, <3>1
  <2> QED
    BY <2>1, <2>2
<1>11. ASSUME Create(c, "customer"), Kind(c) = "customer" \/ ticket.status = "none",
              Kind(c) # "rate"
       PROVE  HistoryShape(c)
  <2> DEFINE e == Event("created", 0, Key(c))
  <2>1. "created" \in EventTypes /\ 0 \in Nat
    BY DEF EventTypes
  <2>2. e.type = "created"
    BY <1>3, <2>1
  <2>3. ticket' = Reopened(ticket) => Tells(c, e)
    <3> HIDE DEF e
    <3> QED
      BY <1>2, <1>11, <2>2 DEF Tells, Opens, Create
  <2>4. Apply(c, "created", Reopened(ticket), <<Event("created", 0, Key(c))>>,
              <<Message(c, "customer", 0, FALSE)>>, ToOperators(c))
    BY <1>2, <1>11 DEF Create
  <2> QED
    BY <1>7, <1>11, <2>1, <2>3, <2>4
<1>12. CASE Duplicate(c)
  BY <1>4, <1>12 DEF Duplicate, tables
<1>13. CASE CloseTicket(c)
  <2>1. Kind(c) # "rate" /\ ticket.status # "closed"
    BY <1>13 DEF CloseTicket, Ready, StillOpen
  <2>2. \E ms, ds : Apply(c, "changed", Closed(ticket),
                          <<Event("closed", ticket.cycle + 1, Key(c))>>, ms, ds)
    BY <1>13 DEF CloseTicket
  <2> QED
    BY <2>1, <2>2, <1>8
<1>14. CASE CloseClosed(c)
  <2>1. Skip(c) \/ Apply(c, "unchanged", ticket, <<>>, <<>>, {})
    BY <1>14 DEF CloseClosed
  <2> QED
    BY <2>1, <1>4, <1>6 DEF Skip, tables
<1>15. CASE CloseAll(c)
  <2>1. Kind(c) # "rate"
    BY <1>15 DEF CloseAll, Ready
  <2>2. CASE StillOpen(c)
    BY <1>8, <1>15, <2>1, <2>2 DEF CloseAll, StillOpen
  <2>3. CASE ~ StillOpen(c)
    BY <1>6, <1>15, <2>3 DEF CloseAll
  <2> QED
    BY <2>2, <2>3
<1>16. CASE ReopenTicket(c)
  <2>1. Kind(c) # "rate"
    BY <1>16 DEF ReopenTicket, Ready
  <2>2. CASE ticket.status = "closed"
    BY <1>9, <1>16, <2>1, <2>2 DEF ReopenTicket
  <2>3. CASE ticket.status # "closed"
    BY <1>6, <1>16, <2>3 DEF ReopenTicket
  <2> QED
    BY <2>2, <2>3
<1>17. CASE Block(c)
  <2>1. \/ Raise(c)
        \/ \E reply : Apply(c, reply, [ticket EXCEPT !.blocked = @ \/ ~ View(c).ticket.blocked],
                           <<>>, <<>>, {})
    BY <1>17 DEF Block
  <2>2. Kind(c) # "rate"
    BY <1>17 DEF Block, Ready
  <2> QED
    BY <2>1, <2>2, <1>2, <1>4, <1>6 DEF Raise, tables
<1>18. CASE Unblock(c)
  <2>1. \E reply, b : Apply(c, reply, [ticket EXCEPT !.blocked = b], <<>>, <<>>, {})
                      /\ b \in BOOLEAN
    BY <1>18, <1>1 DEF Unblock, TicketRow
  <2>2. Kind(c) # "rate"
    BY <1>18 DEF Unblock, Ready
  <2> QED
    BY <2>1, <2>2, <1>2, <1>6
<1>19. CASE AddNote(c)
  BY <1>19, <1>6 DEF AddNote
<1>20. CASE AcceptReply(c)
  <2>1. Kind(c) \in Locking /\ Kind(c) # "rate"
    BY <1>20 DEF AcceptReply, Ready, Locking
  <2>2. \/ Skip(c)
        \/ Apply(c, HowOpened(c), AfterContact(c), ReopenEvent(c),
                 <<Message(c, "reply", 0, FALSE)>>, ToCustomer(c))
    BY <1>20 DEF AcceptReply
  <2> QED
    BY <2>1, <2>2, <1>4, <1>10 DEF Skip, tables
<1>21. CASE SendMessage(c)
  <2> DEFINE reopened == Reopens(c) /\ ticket.status = "closed"
             ms == <<Message(c, "reply", 0, FALSE)>>
  <2>1. Kind(c) # "rate"
    BY <1>21 DEF SendMessage, Ready
  <2>2. CASE View(c).ticket.blocked
    BY <1>6, <1>21, <2>2 DEF SendMessage
  <2>3. CASE ~ View(c).ticket.blocked /\ reopened
    <3>1. Apply(c, "reopened", Reopened(ticket),
                <<Event("reopened", View(c).ticket.cycle, Key(c))>>, ms, ToCustomer(c))
      BY <1>21, <2>3 DEF SendMessage, ReopenEvent
    <3> QED
      BY <1>9, <2>1, <2>3, <3>1
  <2>4. CASE ~ View(c).ticket.blocked /\ ~ reopened
    <3>1. Apply(c, "changed", ticket, <<>>, ms, ToCustomer(c))
      BY <1>21, <2>4 DEF SendMessage
    <3> QED
      BY <1>6, <3>1
  <2> QED
    BY <2>2, <2>3, <2>4
<1>22. CASE AcceptCustomer(c)
  <2>1. Kind(c) = "customer" /\ Kind(c) \in Locking
    BY <1>22 DEF AcceptCustomer, Ready, Locking
  <2>2. \/ Create(c, "customer")
        \/ Skip(c)
        \/ Apply(c, HowOpened(c), AfterContact(c), ReopenEvent(c),
                 <<Message(c, "customer", 0, FALSE)>>, ToOperators(c))
    BY <1>22 DEF AcceptCustomer
  <2> QED
    BY <2>1, <2>2, <1>4, <1>10, <1>11 DEF Skip, tables
<1>23. CASE AcceptWebMessage(c)
  <2>1. Kind(c) # "rate" /\ Kind(c) \in Locking
    BY <1>23 DEF AcceptWebMessage, Ready, Locking
  <2>2. \/ ticket.status = "none" /\ Create(c, "customer")
        \/ UNCHANGED tables
        \/ Apply(c, "changed", ticket, <<>>, <<Message(c, "customer", 0, TRUE)>>, {})
        \/ Apply(c, HowOpened(c), AfterContact(c), ReopenEvent(c),
                 <<Message(c, "customer", 0, FALSE)>>, ToOperators(c))
    BY <1>23 DEF AcceptWebMessage, Hide
  <2> QED
    BY <2>1, <2>2, <1>4, <1>6, <1>10, <1>11 DEF tables
<1>24. ASSUME NEW reply, NEW n \in Nat, NEW ms, NEW ds,
              Apply(c, reply, ticket, <<Event("rated", n, Key(c))>>, ms, ds)
       PROVE  HistoryShape(c)
  BY <1>3, <1>7, <1>24 DEF Tells, SameStatus, EventTypes
<1>25. CASE Rate(c)
  <2>1. plan.of[c].cycle \in Nat
    BY <1>25, ReadyMeans, PlanType DEF Rate, Types
  <2>2. Skip(c) \/ \E ms, ds :
            Apply(c, "changed", ticket, <<Event("rated", plan.of[c].cycle, Key(c))>>, ms, ds)
    BY <1>25 DEF Rate
  <2> QED
    BY <2>1, <2>2, <1>4, <1>24 DEF Skip, tables
<1>26. CASE WebRate(c)
  <2>1. \/ Raise(c)
        \/ \E reply, ms, ds : Apply(c, reply, ticket, <<>>, ms, ds)
        \/ \E ms, ds :
            Apply(c, "changed", ticket, <<Event("rated", View(c).ticket.cycle, Key(c))>>, ms, ds)
    BY <1>26 DEF WebRate
  <2> QED
    BY <1>1, <2>1, <1>4, <1>6, <1>24 DEF Raise, tables
<1> QED
  BY <1>12, <1>13, <1>14, <1>15, <1>16, <1>17, <1>18, <1>19, <1>20, <1>21, <1>22, <1>23, <1>25,
     <1>26 DEF CommitStep

\* The history after one more event.
LEMMA TurnsGrow ==
  ASSUME Types, NEW e \in EventRow, events' = events \o <<e>>, NEW n, n = Len(events) + 1
  PROVE  /\ n \in Nat /\ n \notin DOMAIN events
         /\ \A i \in Turns : i \in Nat /\ i < n /\ events'[i] = events[i]
         /\ events'[n] = e
         /\ e.type = "rated" => Turns' = Turns /\ Closings' = Closings
         /\ e.type # "rated" => Turns' = Turns \union {n}
         /\ e.type \notin {"rated", "closed"} => Closings' = Closings
         /\ e.type = "closed" => Closings' = Closings \union {n}
<1>1. /\ DOMAIN events' = DOMAIN events \union {n}
      /\ n \in Nat /\ n \notin DOMAIN events
      /\ \A i \in DOMAIN events : events'[i] = events[i] /\ i \in Nat /\ i < n
      /\ events'[n] = e
  BY Grown DEF Types
<1> QED
  BY <1>1 DEF Turns, Closings

\* An event that is no turn, or none at all, and a ticket as before.
LEMMA HistoryStays ==
  ASSUME HistoryMatchesTicket, plan' = plan, Turns' = Turns, Closings' = Closings,
         \A i \in Turns : events'[i] = events[i], SameStatus
  PROVE  HistoryMatchesTicket'
  BY DEF HistoryMatchesTicket, SameStatus, Last, Follows

\* One more turn, that fits the ticket before it and after it.
LEMMA HistoryGrows ==
  ASSUME Types, HistoryMatchesTicket, plan' = plan, ticket'.status # "none",
         NEW e \in EventRow, events' = events \o <<e>>, e.type # "rated",
         \/ /\ e.type = "closed"
            /\ ticket.status # "closed" /\ ticket'.status = "closed"
            /\ ticket'.cycle = ticket.cycle + 1
         \/ e.type = "reopened" /\ Opens /\ (plan.rowLocks => ticket.status = "closed")
         \/ e.type = "created" /\ Opens /\ ticket.status = "none"
  PROVE  HistoryMatchesTicket'
<1>0. PICK n \in Nat : n = Len(events) + 1
  BY DEF Types
<1>1. /\ n \notin DOMAIN events
      /\ \A i \in Turns : i \in Nat /\ i < n /\ events'[i] = events[i]
      /\ events'[n] = e
      /\ Turns' = Turns \union {n}
      /\ e.type # "closed" => Closings' = Closings
      /\ e.type = "closed" => Closings' = Closings \union {n}
  BY <1>0, TurnsGrow
<1>2. Closings \subseteq Turns /\ n \notin Closings
  BY <1>1 DEF Closings, Turns
<1>3. /\ Last(n)'
      /\ \A i \in Turns : ~ Last(i)'
  BY <1>1 DEF Last
<1>4. ticket'.status = "closed" <=> \E i \in Closings' : Last(i)'
  BY <1>1, <1>2, <1>3 DEF Opens
<1>5. ticket'.cycle = Cardinality(Closings')
  <2>1. IsFiniteSet(Closings)
    <3>1. IsFiniteSet(DOMAIN events)
      <4>1. DOMAIN events = 1..Len(events) /\ Len(events) \in Nat
        BY DEF Types
      <4> QED
        BY <4>1, FS_Interval
    <3> QED
      BY <3>1, FS_Subset DEF Closings, Turns
  <2>2. Cardinality(Closings \union {n}) = Cardinality(Closings) + 1
    BY <1>2, <2>1, FS_AddElement
  <2> QED
    BY <1>1, <2>2 DEF HistoryMatchesTicket, Opens
<1>6. ASSUME NEW i \in Turns, Last(i)
      PROVE  /\ ticket.status # "none"
             /\ ticket.status = "closed" <=> i \in Closings
  <2>1. \A j \in Closings : Last(j) => j = i
    BY <1>1, <1>2, <1>6 DEF Last
  <2> QED
    BY <1>6, <2>1 DEF HistoryMatchesTicket
<1>7. ASSUME NEW i \in Turns', NEW j \in Turns', Follows(j, i)'
      PROVE  /\ i \in Closings' => events'[j].type = "reopened"
             /\ plan'.rowLocks /\ i \notin Closings' => j \in Closings'
  <2>1. i < j /\ \A m \in Turns \union {n} : m <= i \/ j <= m
    BY <1>1, <1>7 DEF Follows
  <2>2. i \in Turns
    BY <1>1, <1>7, <2>1
  <2>3. i \in Closings' <=> i \in Closings
    BY <1>1, <2>2
  <2>4. CASE j = n
    <3>1. Last(i)
      BY <1>1, <2>1, <2>2, <2>4 DEF Last
    <3>2. events'[j] = e /\ (e.type = "closed" => j \in Closings')
      BY <1>1, <2>4
    <3> QED
      BY <1>6, <2>2, <2>3, <3>1, <3>2
  <2>5. CASE j \in Turns
    <3>1. Follows(j, i) /\ events'[j] = events[j] /\ (j \in Closings => j \in Closings')
      BY <1>1, <2>1, <2>5 DEF Follows
    <3> QED
      BY <2>2, <2>3, <2>5, <3>1 DEF HistoryMatchesTicket
  <2> QED
    BY <1>1, <1>7, <2>4, <2>5
<1> QED
  BY <1>1, <1>4, <1>5, <1>7 DEF HistoryMatchesTicket

LEMMA ContactInvariant ==
  ASSUME OneChannel
  PROVE  Spec => []Contact
<1>1. Init => Contact
  <2> SUFFICES ASSUME Init PROVE Contact
    OBVIOUS
  <2>1. \A c \in Commands : stage[c] = "idle" /\ inbound[c].status = "none"
    BY DEF Init
  <2> QED
    BY <2>1 DEF Contact, UnderWay, Working, Updates
<1>2. ASSUME IInv, Contact, [Next]_vars PROVE Contact'
  <2> USE DEF UnderWay, Working
  <2>1. /\ plan' = plan /\ Updates' = Updates /\ Updates \subseteq Commands
        /\ \A c \in Commands : Kind(c)' = Kind(c)
        /\ stage \in [Commands -> Stages]
        /\ inbound \in [Commands -> [status : InboundStatuses, attempts : Nat]]
        /\ seen \in [Commands -> [ticket : TicketRow, rated : SUBSET Nat]]
        /\ Current.ticket = ticket
        /\ \A u \in Commands : Kind(u) = "customer" => u \in Updates
    BY <1>2, UsedStays, CommandsAssumption
       DEF Updates, Chat, Kind, IInv, Types, Current, RequestKinds
  <2>2. ASSUME ticket' = ticket, seen' = seen,
               \A c \in Commands : Kind(c) \notin {"customer", "web_message", "rate"} =>
                  (stage'[c] \in UnderWay => ticket.status # "none"),
               \A u \in Updates : Kind(u) \notin {"customer", "rate"} =>
                  (inbound'[u].status # "none" => ticket.status # "none"),
               \A c \in Commands : Kind(c) = "customer" =>
                  (stage'[c] = "begun" => stage[c] = "begun")
        PROVE  Contact'
    BY <1>2, <2>1, <2>2 DEF Contact
  <2>3. CASE UNCHANGED vars
    BY <1>2, <2>2, <2>3 DEF vars, tables, Contact
  <2>4. CASE Crash
    <3>1. \A c \in Commands : stage'[c] \in UnderWay => stage'[c] = stage[c]
      BY <2>1, <2>4 DEF Crash
    <3> QED
      BY <1>2, <2>1, <2>2, <2>4, <3>1 DEF Crash, tables, Contact
  <2> SUFFICES ASSUME NEW c \in Commands,
                      \/ Arrive(c) \/ Claim(c) \/ Finish(c) \/ Fail(c) \/ FinishFails(c)
                      \/ ReleaseStale(c) \/ Look(c) \/ Read(c) \/ CommitStep(c)
               PROVE  Contact'
    BY <1>2, <2>3, <2>4 DEF Next
  <2>5. CASE Arrive(c)
    <3>1. /\ ticket' = ticket /\ seen' = seen /\ stage' = stage /\ c \in Updates
          /\ \A u \in Commands : u # c => inbound'[u] = inbound[u]
      BY <2>5, <2>1 DEF Arrive, tables
    <3>2. Kind(c) \notin {"customer", "rate"} => ticket.status # "none"
      BY <2>5 DEF Arrive, Possible
    <3> QED
      BY <1>2, <2>1, <2>2, <3>1, <3>2 DEF Contact
  <2>6. CASE Claim(c) \/ Finish(c) \/ Fail(c) \/ FinishFails(c) \/ ReleaseStale(c)
    <3>1. /\ ticket' = ticket /\ seen' = seen /\ c \in Updates
          /\ \A u \in Commands : u # c => inbound'[u] = inbound[u] /\ stage'[u] = stage[u]
      BY <2>6, <2>1 DEF Claim, Finish, Fail, FinishFails, ReleaseStale, tables
    <3>2. /\ stage'[c] \in {stage[c], "claimed", "idle"}
          /\ stage'[c] = "claimed" => stage[c] = "claimed" \/ inbound[c].status # "none"
      BY <2>6, <2>1 DEF Claim, Finish, Fail, FinishFails, ReleaseStale
    <3>3. \/ inbound[c].status # "none"
          \/ inbound'[c].status = inbound[c].status
          \/ stage[c] \in Working
      BY <2>6, <2>1 DEF Claim, Finish, Fail, FinishFails, ReleaseStale
    <3>4. Kind(c) # "web_message"
      BY <3>1, <1>2, CommandsAssumption DEF Updates, Chat, Kind, UpdateKinds, IInv, Types
    <3>5. Kind(c) \notin {"customer", "rate"} /\ ticket.status = "none" =>
            stage[c] \notin UnderWay /\ inbound[c].status = "none"
      BY <1>2, <2>1, <3>1, <3>4 DEF Contact
    <3> QED
      BY <1>2, <2>1, <2>2, <3>1, <3>2, <3>3, <3>4, <3>5 DEF Contact
  <2>7. CASE Look(c)
    <3>1. /\ ticket' = ticket /\ seen' = seen /\ inbound' = inbound /\ c \in Requests
          /\ \A u \in Commands : u # c => stage'[u] = stage[u]
          /\ stage'[c] \in {"looked", "ended"}
      BY <2>7, <2>1 DEF Look, Answer, tables
    <3>2. Kind(c) # "web_message" => ticket.status # "none"
      BY <2>7 DEF Look
    <3> QED
      BY <1>2, <2>1, <2>2, <3>1, <3>2 DEF Contact
  <2>8. CASE Read(c)
    <3>1. /\ ticket' = ticket /\ inbound' = inbound
          /\ \A u \in Commands : u # c => stage'[u] = stage[u] /\ seen'[u] = seen[u]
          /\ stage[c] \in {"claimed", "looked"}
          /\ stage'[c] = "begun" => seen'[c].ticket = ticket
      BY <2>8, <2>1 DEF Read, Answer, tables
    <3> QED
      BY <1>2, <2>1, <3>1 DEF Contact
  <2>9. CASE CommitStep(c)
    <3>1. Ends(c) /\ HistoryShape(c) /\ RatingShape(c)
      BY <1>2, <2>9, CommitStepEnds, HistoryShapes, RatingShapes DEF IInv
    <3>2. /\ ticket.status # "none" => ticket'.status # "none"
          /\ Kind(c) = "rate" => ticket' = ticket
          /\ stage[c] = "begun" /\ seen' = seen
      BY <3>1 DEF Ends, HistoryShape, RatingShape
    <3>3. \A u \in Commands : u # c => inbound'[u] = inbound[u] /\ stage'[u] = stage[u]
      BY <2>1, <3>1 DEF Ends
    <3>4. stage'[c] # "begun"
      BY <2>9, <2>1, <3>2 DEF CommitStep, Duplicate, CloseTicket, CloseClosed, CloseAll,
         ReopenTicket, Block, Unblock, AddNote, AcceptReply, SendMessage, AcceptCustomer,
         AcceptWebMessage, Hide, Rate, WebRate, Apply, Skip, Raise, Answer, Create
    <3>5. ASSUME NEW u \in Commands, u # c, Kind(u) = "customer", stage[u] = "begun",
                 ticket.status = "none"
          PROVE  ticket'.status = "none"
      <4>1. u \in Updates
        BY <2>1, <3>5
      <4>2. c \notin Updates
        BY <1>2, <3>2, <3>5, <4>1 DEF IInv, OneWorking
      <4>3. Kind(c) # "customer" /\ Kind(c) # "web_message"
        BY <1>2, <2>1, <3>5, <4>2 DEF OneChannel, Kind, IInv, Types
      <4> QED
        BY <1>2, <3>2, <3>5, <4>3 DEF Contact
    <3>6. CASE ticket.status = "none"
      <4>1. Kind(c) \in {"customer", "web_message", "rate"}
        BY <1>2, <3>2, <3>6 DEF Contact
      <4> QED
        <5>1. CASE ticket'.status = "none"
          <6>1. \A u \in Updates : u # c \/ Kind(u) \in {"customer", "rate"}
            BY <4>1, <1>2, CommandsAssumption DEF Updates, Chat, Kind, UpdateKinds, IInv, Types
          <6>2. seen' = seen
            BY <3>2
          <6> QED
            BY <1>2, <2>1, <3>3, <3>4, <3>6, <4>1, <5>1, <6>1, <6>2 DEF Contact
        <5>2. CASE ticket'.status # "none"
          <6>1. \A u \in Commands : ~ (Kind(u) = "customer" /\ stage'[u] = "begun")
            BY <3>3, <3>4, <3>5, <3>6, <5>2
          <6> QED
            BY <2>1, <5>2, <6>1 DEF Contact
        <5> QED
          BY <5>1, <5>2
    <3>7. CASE ticket.status # "none"
      BY <1>2, <2>1, <3>2, <3>3, <3>4, <3>7 DEF Contact
    <3> QED
      BY <3>6, <3>7
  <2> QED
    BY <2>5, <2>6, <2>7, <2>8, <2>9
<1> QED
  BY <1>1, <1>2, Invariance, PTL DEF Spec

\* On either database the history of a ticket tells the same as the ticket: as many
\* closes as cycles, the last one standing exactly when the ticket is closed, a
\* reopening after every close and, where rows are locked, after nothing else.
THEOREM HistoryTold ==
  ASSUME OneChannel
  PROVE  Spec => []HistoryMatchesTicket
<1>1. Init => HistoryMatchesTicket
  <2> SUFFICES ASSUME Init PROVE HistoryMatchesTicket
    OBVIOUS
  <2>1. plan.start \in {"none", "open", "closed"}
    BY CommandsAssumption DEF Init
  <2>2. CASE plan.start = "none"
    <3>1. events = <<>> /\ ticket.status = "none" /\ ticket.cycle = 0
      BY <2>2 DEF Init, InitEvents, InitTicket
    <3>2. Turns = {} /\ Closings = {}
      BY <3>1 DEF Turns, Closings
    <3> QED
      BY <3>1, <3>2, FS_EmptySet DEF HistoryMatchesTicket
  <2>3. CASE plan.start = "open"
    <3>1. /\ events = <<Event("created", 0, "past")>>
          /\ ticket.status = "open" /\ ticket.cycle = 0
      BY <2>3 DEF Init, InitEvents, InitTicket
    <3>2. Turns = {1} /\ Closings = {}
      BY <3>1 DEF Turns, Closings, Event
    <3> QED
      BY <3>1, <3>2, FS_EmptySet DEF HistoryMatchesTicket, Follows
  <2>4. CASE plan.start = "closed"
    <3>1. /\ events = <<Event("created", 0, "past"), Event("closed", 1, "past")>>
          /\ ticket.status = "closed" /\ ticket.cycle = 1
      BY <2>4 DEF Init, InitEvents, InitTicket
    <3>2. DOMAIN events = {1, 2} /\ events[1].type = "created" /\ events[2].type = "closed"
      BY <3>1 DEF Event
    <3>3. Turns = {1, 2} /\ Closings = {2}
      BY <3>2 DEF Turns, Closings
    <3> QED
      <4>1. Cardinality(Closings) = 1
        BY <3>3, FS_Singleton
      <4>2. Last(2) /\ ~ Follows(1, 2) /\ ~ Follows(1, 1) /\ ~ Follows(2, 2)
        BY <3>3 DEF Last, Follows
      <4> QED
        BY <3>1, <3>2, <3>3, <4>1, <4>2 DEF HistoryMatchesTicket
  <2> QED
    BY <2>1, <2>2, <2>3, <2>4
<1>2. ASSUME IInv, Contact, HistoryMatchesTicket, [Next]_vars PROVE HistoryMatchesTicket'
  <2>1. plan' = plan
    BY <1>2, UsedStays
  <2>2. ASSUME events' = events, SameStatus PROVE HistoryMatchesTicket'
    BY <1>2, <2>1, <2>2, HistoryStays DEF Turns, Closings
  <2>3. CASE \E c \in Commands : CommitStep(c)
    <3>1. PICK c \in Commands : CommitStep(c)
      BY <2>3
    <3>2. HistoryShape(c) /\ Ends(c)
      BY <1>2, <3>1, HistoryShapes, CommitStepEnds DEF IInv
    <3>3. CASE events' = events /\ SameStatus
      BY <2>2, <3>3
    <3>4. ASSUME NEW e \in EventRow, events' = events \o <<e>>, Tells(c, e)
          PROVE  HistoryMatchesTicket'
      <4>1. CASE e.type = "rated"
        <5>1. /\ SameStatus /\ Turns' = Turns /\ Closings' = Closings
              /\ \A i \in Turns : events'[i] = events[i]
          BY <1>2, <3>4, <4>1, TurnsGrow DEF IInv, Tells
        <5> QED
          BY <1>2, <2>1, <5>1, HistoryStays
      <4>2. CASE e.type = "created"
        <5>1. Opens /\ ticket.status = "none"
          BY <1>2, <3>2, <3>4, <4>2 DEF Tells, Contact, View, Current, Ends
        <5> QED
          BY <1>2, <2>1, <3>4, <4>2, <5>1, HistoryGrows DEF IInv, Opens
      <4>3. CASE e.type \in {"closed", "reopened"}
        <5>1. \/ /\ e.type = "closed"
                 /\ ticket.status # "closed" /\ ticket'.status = "closed"
                 /\ ticket'.cycle = ticket.cycle + 1
              \/ e.type = "reopened" /\ Opens /\ (plan.rowLocks => ticket.status = "closed")
          BY <3>4, <4>3 DEF Tells
        <5> QED
          BY <1>2, <2>1, <3>4, <4>3, <5>1, HistoryGrows DEF IInv, Opens
      <4> QED
        BY <3>4, <4>1, <4>2, <4>3 DEF Tells
    <3> QED
      BY <3>2, <3>3, <3>4 DEF HistoryShape
  <2>4. CASE ~ \E c \in Commands : CommitStep(c)
    <3>1. events' = events /\ ticket' = ticket
      BY <1>2, <2>4 DEF Next, vars, Crash, Arrive, Claim, Finish, Fail, FinishFails,
                        ReleaseStale, Look, Read, tables
    <3> QED
      BY <2>2, <3>1 DEF SameStatus
  <2> QED
    BY <2>3, <2>4
<1> QED
  BY <1>1, <1>2, ContactInvariant, Invariance, PTL DEF Spec

=============================================================================
