---------------------------- MODULE MCPanelAction ----------------------------
(* Two panel commands for one ticket: two of a kind with one disturbance, and  *)
(* two different ones with a failure of the program and one in the panel.      *)
EXTENDS PanelAction

CONSTANTS t1, a1, a2

MCActions == {a1, a2}
MCTicketOf == [a \in MCActions |-> t1]
Given(x, y, f, o) ==
    [kind |-> [a \in MCActions |-> IF a = a1 THEN x ELSE y], faults |-> f, others |-> o]
MCScenarios ==
    {Given("gift", "gift", 1, 0), Given("gift", "gift", 0, 1),
     Given("link", "link", 1, 0), Given("link", "link", 0, 1),
     Given("key", "devices", 1, 1)}
MCPurged == {Given("link", "key", 0, 1)}
=============================================================================
