--------------------------- MODULE MCQuickResponses ---------------------------
(* Instances of QuickResponses for TLC: what operators do, and what goes wrong. *)
EXTENDS QuickResponses

Do(r, kind) == [r |-> r, kind |-> kind]
Scenario(ups, f, c, t, h) ==
    [updates |-> ups, failures |-> f, crashes |-> c, topics |-> t, hands |-> h]

\* One response is corrected, spoilt, corrected again and deleted.
Life == <<Do(1, "invalid"), Do(1, "valid"), Do(1, "delete")>>
Edits == <<Do(1, "valid"), Do(1, "invalid"), Do(1, "invalid"), Do(1, "valid")>>
Two == <<Do(1, "valid"), Do(2, "valid"), Do(1, "delete")>>

Late == <<Do(1, "valid"), Do(1, "delete"), Do(1, "valid")>>

MCResponses == {1, 2}
MCScenarios ==
    {Scenario(Life, 1, 1, 0, 0), Scenario(Life, 0, 1, 1, 0), Scenario(Life, 0, 0, 0, 1),
     Scenario(Edits, 1, 0, 0, 0), Scenario(Edits, 0, 1, 0, 0), Scenario(Edits, 0, 0, 1, 0),
     Scenario(Two, 1, 0, 0, 0), Scenario(Two, 0, 1, 1, 0), Scenario(Two, 1, 0, 1, 0),
     Scenario(Late, 1, 0, 0, 0), Scenario(Late, 0, 1, 0, 0)}
=============================================================================
