--------------------------- MODULE AlertDispatch ---------------------------
(***************************************************************************)
(* Budget alerts: an evaluation starts a task for every alert whose        *)
(* threshold is reached and returns; AlertDispatcher.dispatch, in each     *)
(* task, holds the lock of its dispatcher from the look at the cooldown to *)
(* the last retry.  The tasks of later evaluations wait behind it.         *)
(***************************************************************************)
EXTENDS Integers, FiniteSets

CONSTANTS
  Rules,         \* alert rules of the control plane that is evaluated
  Threshold,     \* of a rule, in units of exposure
  MaxExposure,   \* bound: spend plus reservations of the budget
  Evals,         \* bound: evaluations
  Shared,        \* whether all evaluations hand their tasks to one dispatcher,
                 \* or each builds its own, as the console does
  Retries,       \* retries= of the dispatcher
  Cooldown,      \* cooldown_seconds= of the dispatcher
  AlertClockMax, \* bound: the last instant
  Nobody, Never

ASSUME AlertAssumption ==
  /\ Threshold \in [Rules -> Nat] /\ MaxExposure \in Nat /\ Evals \in Nat
  /\ Shared \in BOOLEAN
  /\ Retries \in Nat /\ Cooldown \in Nat /\ AlertClockMax \in Nat
  /\ Never \notin Nat

Tasks == (1..Evals) \X Rules
RuleOf(d) == d[2]
Home(d) == IF Shared THEN 1 ELSE d[1]
ASSUME NobodyAssumption == Nobody \notin Tasks

VARIABLES
  alertClock,
  exposure,    \* what budget_status answers, spent plus reserved
  evals,       \* evaluations so far
  busyWith,    \* the task that holds the lock of a dispatcher
  lastFired,   \* _last_fired of a dispatcher
  stage,       \* where a task is
  passed,      \* its local now
  tries        \* calls of its adapter

alertVars == <<alertClock, exposure, evals, busyWith, lastFired, stage,
               passed, tries>>
taskVars == <<busyWith, lastFired, stage, passed, tries>>

Ended == {"suppressed", "delivered", "given up"}

AlertInit ==
  /\ alertClock = Cooldown       \* time.time() is far past any cooldown
  /\ exposure = 0 /\ evals = 0
  /\ busyWith = [h \in 1..Evals |-> Nobody]
  /\ lastFired = [h \in 1..Evals |-> [r \in Rules |-> Never]]
  /\ stage = [d \in Tasks |-> "none"]
  /\ passed = [d \in Tasks |-> 0]
  /\ tries = [d \in Tasks |-> 0]

\* Requests reserve and reconcile; the ratio moves either way.
Spend(e) ==
  /\ exposure' = e
  /\ UNCHANGED <<alertClock, evals, taskVars>>

Triggered(r) == exposure >= Threshold[r]

\* evaluate_alerts: fire and forget, again at every evaluation over the threshold
Evaluate ==
  /\ evals < Evals
  /\ evals' = evals + 1
  /\ stage' = [d \in Tasks |->
                 IF d[1] = evals' /\ Triggered(RuleOf(d)) THEN "waiting" ELSE stage[d]]
  /\ UNCHANGED <<alertClock, exposure, busyWith, lastFired, passed, tries>>

DispatcherFree(d) == busyWith[Home(d)] = Nobody

InCooldown(d) ==
  LET last == lastFired[Home(d)][RuleOf(d)]
  IN  Cooldown > 0 /\ last # Never /\ alertClock - last < Cooldown

Suppress(d) ==
  /\ stage[d] = "waiting" /\ DispatcherFree(d)
  /\ InCooldown(d)
  /\ stage' = [stage EXCEPT ![d] = "suppressed"]
  /\ UNCHANGED <<alertClock, exposure, evals, busyWith, lastFired, passed, tries>>

Enter(d) ==
  /\ stage[d] = "waiting" /\ DispatcherFree(d)
  /\ ~ InCooldown(d)
  /\ busyWith' = [busyWith EXCEPT ![Home(d)] = d]
  /\ passed' = [passed EXCEPT ![d] = alertClock]
  /\ tries' = [tries EXCEPT ![d] = 1]
  /\ stage' = [stage EXCEPT ![d] = "calling"]
  /\ UNCHANGED <<alertClock, exposure, evals, lastFired>>

\* The first success of a rule is stamped with a fresh reading of the clock,
\* a later one with the instant the task passed the cooldown.
Stamp(d) ==
  IF Cooldown = 0 THEN lastFired
  ELSE [lastFired EXCEPT ![Home(d)][RuleOf(d)] =
          IF @ = Never THEN alertClock ELSE passed[d]]

\* Mutant: the success of a retry is not recorded.
StampFirstTry(d) == IF tries[d] = 1 THEN Stamp(d) ELSE lastFired

Fired(d) == Stamp(d)

Deliver(d) ==
  /\ stage[d] = "calling"
  /\ lastFired' = Fired(d)
  /\ stage' = [stage EXCEPT ![d] = "delivered"]
  /\ busyWith' = [busyWith EXCEPT ![Home(d)] = Nobody]
  /\ UNCHANGED <<alertClock, exposure, evals, passed, tries>>

\* retries = 0 is the initial call alone; otherwise at least one retry follows.
MostCalls == IF Retries = 0 THEN 1 ELSE IF Retries = 1 THEN 2 ELSE Retries

\* The adapter answers False, be it that the message has arrived all the same (a
\* lost answer, an SMTP session that breaks at quit).
FailAndRetry(d) ==
  /\ stage[d] = "calling" /\ tries[d] < MostCalls
  /\ stage' = [stage EXCEPT ![d] = "backing off"]
  /\ UNCHANGED <<alertClock, exposure, evals, busyWith, lastFired, passed, tries>>

\* Mutant: the retry does not count.
SameTry(d) == tries[d]

Counted(d) == tries[d] + 1

WakeUp(d) ==
  /\ stage[d] = "backing off"
  /\ stage' = [stage EXCEPT ![d] = "calling"]
  /\ tries' = [tries EXCEPT ![d] = Counted(d)]
  /\ UNCHANGED <<alertClock, exposure, evals, busyWith, lastFired, passed>>

GiveUp(d) ==
  /\ stage[d] = "calling" /\ tries[d] = MostCalls
  /\ stage' = [stage EXCEPT ![d] = "given up"]
  /\ busyWith' = [busyWith EXCEPT ![Home(d)] = Nobody]
  /\ UNCHANGED <<alertClock, exposure, evals, lastFired, passed, tries>>

AlertTick ==
  /\ alertClock < AlertClockMax
  /\ alertClock' = alertClock + 1
  /\ UNCHANGED <<exposure, evals, taskVars>>

TaskStep(d) ==
  \/ Suppress(d) \/ Enter(d)
  \/ Deliver(d) \/ FailAndRetry(d) \/ WakeUp(d) \/ GiveUp(d)

AlertNext ==
  \/ \E e \in 0..MaxExposure : Spend(e)
  \/ Evaluate
  \/ \E d \in Tasks : TaskStep(d)
  \/ AlertTick

\* The event loop goes on with some task that can go on: every adapter answers (an
\* HTTP client and SMTP time out), a sleep ends, a free lock is taken.
AlertFairness == WF_alertVars(\E d \in Tasks : TaskStep(d))

AlertSpec == AlertInit /\ [][AlertNext]_alertVars /\ AlertFairness

-----------------------------------------------------------------------------
(* Properties *)

\* Type invariant; one task at most is inside each dispatcher.
AlertTypeOK ==
  /\ alertClock \in Nat /\ exposure \in Nat
  /\ evals \in 0..Evals
  /\ busyWith \in [1..Evals -> Tasks \cup {Nobody}]
  /\ lastFired \in [1..Evals -> [Rules -> Nat \cup {Never}]]
  /\ stage \in [Tasks -> {"none", "waiting", "calling", "backing off"} \cup Ended]
  /\ passed \in [Tasks -> Nat] /\ tries \in [Tasks -> Nat]

\* Two deliveries of one rule by one dispatcher passed the cooldown at least a
\* cooldown apart, whatever calls, retries and other evaluations overlapped.
CooldownKept ==
  LET delivered == {d \in Tasks : stage[d] = "delivered"} IN
  \A d, e \in delivered :
    d # e /\ Home(d) = Home(e) /\ RuleOf(d) = RuleOf(e)
    => \/ passed[e] - passed[d] >= Cooldown
       \/ passed[d] - passed[e] >= Cooldown

\* Every started dispatch ends: again and again nobody waits any more behind the
\* retries of other rules, which hold the same lock (dispatch).
EveryAlertEnds ==
  []<>(\A d \in Tasks : stage[d] \in {"none"} \cup Ended)
=============================================================================
