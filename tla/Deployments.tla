---------------------------- MODULE Deployments ----------------------------
(***************************************************************************)
(* Routes of the control plane over interchangeable deployments, with a    *)
(* circuit breaker each.  A caller picks a deployment (choose_deployment), *)
(* calls it, and reports how it went (record_deployment_result); other     *)
(* callers take their steps in between.                                    *)
(***************************************************************************)
EXTENDS Integers, FiniteSets

CONSTANTS
  Deployed,    \* deployments of the route
  Callers,     \* bound: calls through the route
  Trip,        \* failures that open a circuit (3)
  OpenFor,     \* how long it stays open (60 seconds)
  MaxFails,    \* bound: failures counted
  DepClockMax, \* bound: the last instant
  Idle

ASSUME BreakerAssumption ==
  /\ Trip \in Nat \ {0} /\ OpenFor \in Nat
  /\ MaxFails \in Nat /\ DepClockMax \in Nat
  /\ Idle \notin Deployed

VARIABLES
  depClock,
  serving,    \* the deployments put_route listed
  failures, openUntil,   \* rows of health
  calling,    \* the deployment a caller is calling
  early       \* history: callers that were calling when the circuit was tripped

depVars == <<depClock, serving, failures, openUntil, calling, early>>

IsOpen(d) == openUntil[d] > depClock
Available == {d \in serving : ~ IsOpen(d)}

DepInit ==
  /\ depClock = 1
  /\ serving = Deployed
  /\ failures = [d \in Deployed |-> 0]
  /\ openUntil = [d \in Deployed |-> 0]
  /\ calling = [c \in Callers |-> Idle]
  /\ early = [d \in Deployed |-> {}]

\* put_route: the health of the deployments is not touched.
PutRoute(list) ==
  /\ serving' = list
  /\ UNCHANGED <<depClock, failures, openUntil, calling, early>>

\* Mutant: open circuits are chosen from as well.
ChoosableAll(d) == d \in serving

Choosable(d) == d \in Available

\* The hash of the request id picks any available deployment; without one the
\* caller gets a RuntimeError and nothing changes.
ChooseDeployment(c, d) ==
  /\ calling[c] = Idle
  /\ Choosable(d)
  /\ calling' = [calling EXCEPT ![c] = d]
  /\ UNCHANGED <<depClock, serving, failures, openUntil, early>>

Succeeded(c) ==
  LET d == calling[c] IN
  /\ d # Idle
  /\ calling' = [calling EXCEPT ![c] = Idle]
  /\ failures' = [failures EXCEPT ![d] = 0]
  /\ openUntil' = [openUntil EXCEPT ![d] = 0]
  /\ UNCHANGED <<depClock, serving, early>>

Trips(n) == n + 1 >= Trip

Failed(c) ==
  LET d == calling[c] IN
  /\ d # Idle /\ failures[d] < MaxFails
  /\ calling' = [calling EXCEPT ![c] = Idle]
  /\ failures' = [failures EXCEPT ![d] = @ + 1]
  /\ openUntil' = [openUntil EXCEPT ![d] =
                     IF Trips(failures[d]) THEN depClock + OpenFor ELSE @]
  /\ early' = [early EXCEPT ![d] =
                 IF Trips(failures[d]) THEN {b \in Callers \ {c} : calling[b] = d}
                 ELSE @]
  /\ UNCHANGED <<depClock, serving>>

DepTick ==
  /\ depClock < DepClockMax
  /\ depClock' = depClock + 1
  /\ UNCHANGED <<serving, failures, openUntil, calling, early>>

DepNext ==
  \/ \E list \in SUBSET Deployed : PutRoute(list)
  \/ \E c \in Callers, d \in Deployed : ChooseDeployment(c, d)
  \/ \E c \in Callers : Succeeded(c) \/ Failed(c)
  \/ DepTick

DepSpec == DepInit /\ [][DepNext]_depVars

-----------------------------------------------------------------------------
(* Properties *)

\* Type invariant.
DepTypeOK ==
  /\ depClock \in Nat /\ serving \subseteq Deployed
  /\ failures \in [Deployed -> Nat] /\ openUntil \in [Deployed -> Nat]
  /\ calling \in [Callers -> Deployed \cup {Idle}]
  /\ early \in [Deployed -> SUBSET Callers]

\* While a circuit is open, the only calls its deployment is in are calls that
\* began before it opened: their late answers alone can close it early, or keep
\* it open, and a deployment that is down gets no new call (choose_deployment).
OpenIsSpared ==
  \A d \in Deployed, c \in Callers :
    IsOpen(d) /\ calling[c] = d => c \in early[d]
=============================================================================
