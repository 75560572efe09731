---------------------------- MODULE MCRouteChain ----------------------------
(***************************************************************************)
(* Small instances of RouteChain for TLC.  Times are in units of the short *)
(* park; the ladder and the cooldowns keep their order.                    *)
(***************************************************************************)
EXTENDS RouteChain

CONSTANTS r1, r2, m1, m2, s1

TwoModels  == [r \in Requests |-> <<m1, m2>>]
OneSession == [r \in Requests |-> s1]

OneRetry   == [m \in Models |-> IF m = m1 THEN 1 ELSE 0]
M1Twice    == [m \in Models |-> IF m = m1 THEN 2 ELSE 0]
NoRetry    == [m \in Models |-> 0]

BaseOfThree == [m \in Models |-> 3]
AllDynamic  == [m \in Models |-> TRUE]

Rungs == <<1, 2, 4>>
=============================================================================
