-------------------------- MODULE MCBudgetEnforcer --------------------------
(***************************************************************************)
(* Small instances of BudgetEnforcer for TLC.  The limits are a unit or    *)
(* two above the smallest amount, so that two requests compete for the     *)
(* last of the headroom, and the window and the TTL are short enough for   *)
(* both to run out within MaxClock.                                        *)
(***************************************************************************)
EXTENDS BudgetEnforcer

CONSTANTS w1, w2, key, team, global

OneProcess   == [r \in 1..N |-> w1]
TwoProcesses == [r \in 1..N |-> IF r = 1 THEN w1 ELSE w2]

KeyAndGlobal == [r \in 1..N |-> <<key, global>>]
SharedTeam   == [r \in 1..N |-> <<key, team, global>>]

CapKeyAndGlobal == [s \in {key, global} |-> IF s = key THEN 2 ELSE 3]
CapKey          == [s \in {key} |-> 2]
CapTeam         == [s \in {team} |-> 2]

WindowOfTwo     == [s \in {key, global} |-> 2]
LongWindow      == [s \in {key, team, global} |-> 9]
LongKeyWindow   == [s \in {key} |-> 9]
LongTeamWindow  == [s \in {team} |-> 9]
=============================================================================
