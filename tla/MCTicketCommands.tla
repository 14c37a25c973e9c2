--------------------------- MODULE MCTicketCommands ---------------------------
(* Instances of TicketCommands for TLC: who meets whom on one ticket. *)
EXTENDS TicketCommands

Update(kind, key, chat) ==
    [kind |-> kind, key |-> key, print |-> "update", chat |-> chat, cycle |-> 1]
Request(kind, key, print) ==
    [kind |-> kind, key |-> key, print |-> print, chat |-> "api", cycle |-> 0]

Scenario(channel, start, locks, faultBound, of) ==
    [channel |-> channel, start |-> start, rowLocks |-> locks,
     faults |-> faultBound, of |-> of]

\* The customer writes, is answered with a close, writes again and rates twice.
Conversation ==
    <<Update("customer", "m1", "private"), Update("stop", "m2", "topic"),
      Update("customer", "m3", "private"), Update("rate", "rating", "private")>>

\* Two buttons of one notice, while the ticket is being reopened.
TwoButtons ==
    <<Update("rate", "rating", "private"), Update("rate", "rating", "private"),
      Update("note", "m3", "topic"), Request("reopen", "k1", "none")>>

\* One topic, in which a failed reply must not come after the close.
Topic ==
    <<Update("reply", "m1", "topic"), Update("hidestop", "m2", "topic"),
      Update("customer", "m3", "private"), Update("closeall", "m4", "general")>>

\* A reply in the topic beside messages through the API.
Replies2 ==
    <<Update("reply", "m1", "topic"), Request("message", "k1", "a"),
      Request("message", "k1", "b"), Request("message", "k1", "a")>>

\* Closes that notify, repeated, beside a block and a message.
Closes ==
    <<Update("block", "m1", "topic"), Request("close", "k1", "notify"),
      Request("close", "k1", "notify"), Request("message", "k2", "a")>>

\* A close and a reopening beside what the customer does.
Crossing ==
    <<Update("customer", "m1", "private"), Request("close", "k1", "silent"),
      Request("reopen", "k2", "none"), Request("close", "k3", "notify")>>

\* Web: the first messages of a customer at once, one of them repeated.
WebStart ==
    <<Request("web_message", "k1", "a"), Request("web_message", "k1", "a"),
      Request("web_message", "k2", "a"), Request("close", "k3", "silent")>>

\* Web: ratings of a closed ticket beside a message that reopens it.
WebRatings ==
    <<Request("web_rate", "k1", "5"), Request("web_rate", "k1", "5"),
      Request("web_rate", "k2", "1"), Request("web_message", "k3", "a")>>

\* Web: block, unblock and what a blocked customer does.
WebBlock ==
    <<Request("block", "k1", "none"), Request("web_message", "k2", "a"),
      Request("web_rate", "k3", "5"), Request("unblock", "k4", "none")>>

\* Web: block from both sides, and a reply.
WebReply ==
    <<Update("unblock", "m1", "topic"), Update("reply", "m2", "topic"),
      Request("block", "k1", "none"), Request("message", "k2", "a")>>

\* A block beside the rating of the last close and a message.
BlockedRating ==
    <<Update("block", "m1", "topic"), Update("rate", "rating", "private"),
      Update("customer", "m3", "private"), Request("message", "k1", "a")>>

MCCommands == 1..4
MCKeys == {"m1", "m2", "m3", "m4", "rating", "k1", "k2", "k3", "k4"}
MCScenarios ==
    UNION {{Scenario("telegram", "none", locks, 2, Conversation),
            Scenario("telegram", "closed", locks, 1, TwoButtons),
            Scenario("telegram", "open", locks, 2, Topic),
            Scenario("telegram", "closed", locks, 1, Replies2),
            Scenario("telegram", "open", locks, 1, Closes),
            Scenario("telegram", "open", locks, 1, Crossing),
            Scenario("telegram", "closed", locks, 1, BlockedRating),
            Scenario("web", "none", locks, 1, WebStart),
            Scenario("web", "closed", locks, 1, WebRatings),
            Scenario("web", "closed", locks, 1, WebBlock),
            Scenario("web", "open", locks, 1, WebReply),
            Scenario("web", "closed", locks, 1, Replies2)} : locks \in BOOLEAN}

\* The scenarios are of the kind the proofs are about.
ASSUME ScenariosAssumption == OwnKeys /\ RatingKeys /\ BlockedByUpdate /\ OneChannel
=============================================================================
