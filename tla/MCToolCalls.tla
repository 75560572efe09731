---------------------------- MODULE MCToolCalls ----------------------------
(***************************************************************************)
(* Small instances of ToolCalls for TLC: calls of alice, of the team eng,  *)
(* to one tool of one server.                                              *)
(***************************************************************************)
EXTENDS ToolCalls

CONSTANTS s1, t1, alice, same, other

User == [kind |-> "user", key |-> "alice"]
Team == [kind |-> "team", key |-> "eng"]

AliceCalls(args) ==
  [caller |-> alice, scopes |-> <<User, Team>>, server |-> s1, tool |-> t1,
   args |-> args]

SameCalls == [a \in Attempts |-> AliceCalls(same)]
LastDiffers ==
  [a \in Attempts |-> AliceCalls(IF a = N THEN other ELSE same)]

OneTool == {<<s1, t1>>}

UserWide == [scope |-> User, server |-> Wild, tool |-> Wild]
TeamTool == [scope |-> Team, server |-> s1, tool |-> t1]
ForTeam  == [scope |-> Team, server |-> s1, tool |-> Wild]

TwoPolicies == {UserWide, TeamTool}
TeamAllows == {<<TeamTool, "allow">>, <<UserWide, "deny">>, <<UserWide, "approval">>}
OneBudget   == {UserWide}
UpToOne     == {[limit |-> 1, window |-> 0]}
=============================================================================
