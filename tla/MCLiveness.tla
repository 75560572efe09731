----------------------------- MODULE MCLiveness -----------------------------
(***************************************************************************)
(* The two queues behind an asyncio lock, of requests that reserve and of  *)
(* alerts that are dispatched, in one run of what must happen in the end:  *)
(* the initial state says which of them moves.                             *)
(***************************************************************************)
EXTENDS MCBudgetEnforcer, AlertDispatch

VARIABLE queue

OneEach == [r \in Rules |-> 1]

QueuesInit == queue \in {"requests", "alerts"} /\ Init /\ AlertInit

QueuesNext ==
  \/ queue = "requests" /\ Next /\ UNCHANGED <<queue, alertVars>>
  \/ queue = "alerts" /\ AlertNext /\ UNCHANGED <<queue, vars>>

QueuesSpec ==
  QueuesInit /\ [][QueuesNext]_<<queue, vars, alertVars>> /\ Fairness /\ AlertFairness
=============================================================================
