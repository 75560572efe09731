--------------------------- MODULE BudgetEnforcer ---------------------------
(***************************************************************************)
(* Dollar budgets with pre-dispatch holds: BudgetEnforcer.check_hard,      *)
(* reserve and release, the cost ledger they read, and the life of the     *)
(* requests the proxy runs through them, on the legacy path                *)
(* (GatewayProxy._handle_inner) and on the managed one                     *)
(* (_handle_logical_route, _hand_over_hold).                               *)
(*                                                                         *)
(* Every request is a coroutine on the event loop of one worker process.   *)
(* An action is what it does from one await to the next: everything        *)
(* between two awaits is atomic on the loop, everything else interleaves.  *)
(* Reads and inserts of the ledger run in a worker thread, so the read of  *)
(* a scope's spend and the decision taken on it are two actions.           *)
(***************************************************************************)
EXTENDS Integers, Sequences, NatSums

CONSTANTS
  N,            \* number of requests; a request is a member of 1..N
  Workers,      \* gateway processes (GATEWAY_WORKERS)
  WorkerOf,     \* the process that serves a request
  Managed,      \* requests on a managed route; the others take the legacy path
  Scopes,       \* budget scopes: keys, users, teams, projects and Global
  Global,       \* the scope "global:default"
  ScopesOf,     \* the scopes of a request, in the order _scopes_for lists them
  Capped,       \* scopes whose BudgetConfig has a hard_limit
  HardLimit,    \* their hard limits
  Window,       \* and their windows in seconds
  TTL,          \* hold_ttl_seconds
  Amounts,      \* cost estimates a request may be held for; one above every
                \* limit stands for inf, the estimate that failed
  Costs,        \* costs a response may turn out to have; 0 is a failed call
  MaxClock,     \* bound: the last instant of the clock
  MaxRestarts   \* bound: the number of process restarts

Requests == 1..N

ASSUME NAssumption == N \in Nat
ASSUME WorkerAssumption == WorkerOf \in [Requests -> Workers]
ASSUME ScopeAssumption ==
  /\ Capped \subseteq Scopes
  /\ \A r \in Requests :
       /\ ScopesOf[r] \in Seq(Scopes)
       /\ Len(ScopesOf[r]) >= 1
       /\ \E k \in 1..Len(ScopesOf[r]) : ScopesOf[r][k] = Global
ASSUME LimitAssumption ==
  /\ HardLimit \in [Capped -> Nat]
  /\ Window \in [Capped -> Nat]
ASSUME DataAssumption ==
  /\ Managed \subseteq Requests
  /\ TTL \in Nat
  /\ Amounts \subseteq Nat
  /\ Costs \subseteq Nat
  /\ MaxClock \in Nat
  /\ MaxRestarts \in Nat

VARIABLES
  clock,     \* int(time.time())
  pc,        \* where the coroutine of a request is
  ix,        \* its position in the loop over its scopes
  now,       \* its local "now", read once per check_hard and once per reserve
  snap,      \* the ledger rows its last spend query saw
  amount,    \* the amount it asks to hold
  cost,      \* what its response costs
  ledger,    \* requests that have a row in cost_records
  stamp,     \* the timestamp of that row
  held,      \* _holds: the scopes a request has a hold on
  expires,   \* expires_at of those holds
  lock,      \* _reserve_lock of a worker: the request inside, or Free
  restarts,  \* process restarts so far
  escaped    \* history: requests whose cost no cap can account for

vars == <<clock, pc, ix, now, snap, amount, cost, ledger, stamp, held,
          expires, lock, restarts, escaped>>

Free == 0

Reserving == {"reading", "deciding"}
Finished  == {"refused", "cancelled", "done", "lost"}
Stages    == {"idle", "checking", "waiting", "forwarding", "streaming",
              "settling", "settled", "detached", "leaked"}
             \cup Reserving \cup Finished
-----------------------------------------------------------------------------
(***************************************************************************)
(* Scopes, the ledger and the table of holds.                              *)
(***************************************************************************)

\* Positions after k of the scopes the enforcer looks at: config_for finds a
\* config and it has a hard limit.
CappedAfter(r, k) == {j \in (k + 1)..Len(ScopesOf[r]) : ScopesOf[r][j] \in Capped}

\* k is the position the loop over r's scopes turns to after j.
NextCapped(r, j, k) == k \in CappedAfter(r, j) /\ \A l \in CappedAfter(r, j) : k <= l

CappedScopes(r) == {ScopesOf[r][j] : j \in CappedAfter(r, 0)}

\* The scopes a row of r counts for.  The proxy records with its first scope
\* only, and build_record fills the one column of that scope's kind; the
\* global scope sums every row.
Charged(r) == {ScopesOf[r][1], Global}

\* What spend_since(s, since) answers when it sees the given rows.
SpendSince(rows, s, since) ==
  Sum([i \in Requests |->
         IF i \in rows /\ s \in Charged(i) /\ stamp[i] >= since THEN cost[i] ELSE 0], N)

\* _held_for(s, t) in process w: the holds on s that are unexpired at t.
Counts(w, i, s, t) == WorkerOf[i] = w /\ s \in held[i] /\ expires[i] > t

HeldFor(w, s, t) ==
  Sum([i \in Requests |-> IF Counts(w, i, s, t) THEN amount[i] ELSE 0], N)

\* The holds of r still stand for the cost it is about to record.
Covered(r) ==
  \A s \in CappedScopes(r) :
    s \in held[r] /\ expires[r] > clock /\ cost[r] <= amount[r]

Drop(r) == held' = [held EXCEPT ![r] = {}]
Goto(r, stage) == pc' = [pc EXCEPT ![r] = stage]
Unlock(r) == lock' = [lock EXCEPT ![WorkerOf[r]] = Free]
-----------------------------------------------------------------------------
Init ==
  /\ clock = 0
  /\ pc = [r \in Requests |-> "idle"]
  /\ ix = [r \in Requests |-> 0]
  /\ now = [r \in Requests |-> 0]
  /\ snap = [r \in Requests |-> {}]
  /\ amount = [r \in Requests |-> 0]
  /\ cost = [r \in Requests |-> 0]
  /\ ledger = {}
  /\ stamp = [r \in Requests |-> 0]
  /\ held = [r \in Requests |-> {}]
  /\ expires = [r \in Requests |-> 0]
  /\ lock = [w \in Workers |-> Free]
  /\ restarts = 0
  /\ escaped = {}

(***************************************************************************)
(* The request comes in.  The legacy path runs check_hard first; a managed *)
(* route goes straight to reserve.                                         *)
(***************************************************************************)
Arrive(r) ==
  /\ pc[r] = "idle"
  /\ \E a \in Amounts : amount' = [amount EXCEPT ![r] = a]
  /\ \/ /\ r \in Managed \/ CappedAfter(r, 0) = {}
        /\ Goto(r, "waiting")
        /\ UNCHANGED <<ix, now>>
     \/ /\ r \notin Managed
        /\ \E k \in CappedAfter(r, 0) :
             NextCapped(r, 0, k) /\ ix' = [ix EXCEPT ![r] = k]
        /\ now' = [now EXCEPT ![r] = clock]
        /\ Goto(r, "checking")
  /\ UNCHANGED <<clock, snap, cost, ledger, stamp, held, expires, lock,
                 restarts, escaped>>

\* One round of check_hard: refuse a scope that has spent its limit.
CheckHard(r) ==
  LET s == ScopesOf[r][ix[r]]
      spend == SpendSince(ledger, s, now[r] - Window[s])
  IN  /\ pc[r] = "checking"
      /\ \/ /\ spend >= HardLimit[s]
            /\ Goto(r, "refused")
            /\ UNCHANGED ix
         \/ /\ spend < HardLimit[s]
            /\ \E k \in CappedAfter(r, ix[r]) :
                 NextCapped(r, ix[r], k) /\ ix' = [ix EXCEPT ![r] = k]
            /\ UNCHANGED pc
         \/ /\ spend < HardLimit[s]
            /\ CappedAfter(r, ix[r]) = {}
            /\ Goto(r, "waiting")
            /\ UNCHANGED ix
      /\ UNCHANGED <<clock, now, snap, amount, cost, ledger, stamp, held,
                     expires, lock, restarts, escaped>>

(***************************************************************************)
(* reserve.  Inside the lock: read the clock, expire holds, then for each  *)
(* capped scope query the spend in a worker thread and decide.  The holds  *)
(* are placed together once every scope has passed.                        *)
(***************************************************************************)
LockFree(r) == lock[WorkerOf[r]] = Free

Acquire(r) ==
  /\ pc[r] = "waiting"
  /\ LockFree(r)
  /\ now' = [now EXCEPT ![r] = clock]
  /\ held' = [i \in Requests |->
                IF WorkerOf[i] = WorkerOf[r] /\ expires[i] <= clock THEN {} ELSE held[i]]
  /\ \/ /\ \E k \in CappedAfter(r, 0) :
             NextCapped(r, 0, k) /\ ix' = [ix EXCEPT ![r] = k]
        /\ lock' = [lock EXCEPT ![WorkerOf[r]] = r]
        /\ Goto(r, "reading")
     \/ /\ CappedAfter(r, 0) = {}
        /\ Goto(r, "forwarding")
        /\ UNCHANGED <<ix, lock>>
  /\ UNCHANGED <<clock, snap, amount, cost, ledger, stamp, expires, restarts,
                 escaped>>

\* The worker thread runs spend_since for the scope at hand.
ReadSpend(r) ==
  /\ pc[r] = "reading"
  /\ snap' = [snap EXCEPT ![r] = ledger]
  /\ Goto(r, "deciding")
  /\ UNCHANGED <<clock, ix, now, amount, cost, ledger, stamp, held, expires,
                 lock, restarts, escaped>>

\* Mutant: the in-flight holds are forgotten.
UsedSpendOnly(r, s) == SpendSince(snap[r], s, now[r] - Window[s])

\* "used" in the code: the spend the query saw and the holds there are now.
Used(r, s) ==
  SpendSince(snap[r], s, now[r] - Window[s]) + HeldFor(WorkerOf[r], s, now[r])

Fits(r, s) == Used(r, s) < HardLimit[s] /\ Used(r, s) + amount[r] <= HardLimit[s]

\* Requests that settled after r's query and released before its decision:
\* neither the spend nor the holds r adds up contain them.
Missed(r, s) ==
  {i \in ledger \ snap[r] : s \in CappedScopes(i) /\ ~Counts(WorkerOf[r], i, s, now[r])}

\* Mutant: the hold is placed on the scope the loop has come to.
PlaceLast(r) ==
  /\ held' = [held EXCEPT ![r] = {ScopesOf[r][ix[r]]}]
  /\ expires' = [expires EXCEPT ![r] = now[r] + TTL]

\* All scopes are held, or none.
Place(r) ==
  /\ held' = [held EXCEPT ![r] = CappedScopes(r)]
  /\ expires' = [expires EXCEPT ![r] = now[r] + TTL]

\* The coroutine resumes with the spend of the scope at hand.
Decide(r) ==
  LET s == ScopesOf[r][ix[r]]
  IN  /\ pc[r] = "deciding"
      /\ \/ /\ ~Fits(r, s)
            /\ Goto(r, "refused")
            /\ Unlock(r)
            /\ UNCHANGED <<ix, held, expires, escaped>>
         \/ /\ Fits(r, s)
            /\ \E k \in CappedAfter(r, ix[r]) :
                 NextCapped(r, ix[r], k) /\ ix' = [ix EXCEPT ![r] = k]
            /\ Goto(r, "reading")
            /\ escaped' = escaped \cup Missed(r, s)
            /\ UNCHANGED <<held, expires, lock>>
         \/ /\ Fits(r, s)
            /\ CappedAfter(r, ix[r]) = {}
            /\ Place(r)
            /\ Unlock(r)
            /\ Goto(r, "forwarding")
            /\ escaped' = escaped \cup Missed(r, s)
            /\ UNCHANGED ix
      /\ UNCHANGED <<clock, now, snap, amount, cost, ledger, stamp, restarts>>

(***************************************************************************)
(* The provider answers, and the answer is paid for.                       *)
(***************************************************************************)

\* A complete response, or, on a managed route, a live stream.  A legacy call
\* that fails is recorded like one that costs nothing.
Respond(r) ==
  /\ pc[r] = "forwarding"
  /\ \E c \in Costs : cost' = [cost EXCEPT ![r] = c]
  /\ \/ Goto(r, "settling")
     \/ r \in Managed /\ Goto(r, "streaming")
  /\ UNCHANGED <<clock, ix, now, snap, amount, ledger, stamp, held, expires,
                 lock, restarts, escaped>>

\* A managed chain raises: the hold goes at once, the row of the failure that
\* follows has no cost.
Fail(r) ==
  /\ pc[r] = "forwarding"
  /\ r \in Managed
  /\ Drop(r)
  /\ Goto(r, "done")
  /\ UNCHANGED <<clock, ix, now, snap, amount, cost, ledger, stamp, expires,
                 lock, restarts, escaped>>

\* The client has read the stream to its end; its wrapper records the cost.
StreamEnd(r) ==
  /\ pc[r] = "streaming"
  /\ Goto(r, "settling")
  /\ UNCHANGED <<clock, ix, now, snap, amount, cost, ledger, stamp, held,
                 expires, lock, restarts, escaped>>

\* The stream is closed half way.  The generator that holds the reservation is
\* the outer one: its finally releases before the inner one gets to record.
Abandon(r) ==
  /\ pc[r] = "streaming"
  /\ Drop(r)
  /\ Goto(r, "detached")
  /\ UNCHANGED <<clock, ix, now, snap, amount, cost, ledger, stamp, expires,
                 lock, restarts, escaped>>

\* The stream is never iterated: no finally runs, the hold is left to its TTL.
StreamLeaks(r) ==
  /\ pc[r] = "streaming"
  /\ Goto(r, "leaked")
  /\ escaped' = escaped \cup {r}
  /\ UNCHANGED <<clock, ix, now, snap, amount, cost, ledger, stamp, held,
                 expires, lock, restarts>>

\* The cost record is inserted.
Settle(r) ==
  /\ pc[r] = "settling"
  /\ ledger' = ledger \cup {r}
  /\ stamp' = [stamp EXCEPT ![r] = clock]
  /\ escaped' = IF Covered(r) THEN escaped ELSE escaped \cup {r}
  /\ Goto(r, "settled")
  /\ UNCHANGED <<clock, ix, now, snap, amount, cost, held, expires, lock,
                 restarts>>

\* Recording is best effort: a failed insert is logged and swallowed.
SettleFails(r) ==
  /\ pc[r] = "settling"
  /\ escaped' = escaped \cup {r}
  /\ Goto(r, "settled")
  /\ UNCHANGED <<clock, ix, now, snap, amount, cost, ledger, stamp, held,
                 expires, lock, restarts>>

\* Mutant: a request that ends well keeps its hold.
ReleaseForgets(r) ==
  /\ pc[r] = "settled"
  /\ Goto(r, "done")
  /\ UNCHANGED <<clock, ix, now, snap, amount, cost, ledger, stamp, held,
                 expires, lock, restarts, escaped>>

Release(r) ==
  /\ pc[r] = "settled"
  /\ Drop(r)
  /\ Goto(r, "done")
  /\ UNCHANGED <<clock, ix, now, snap, amount, cost, ledger, stamp, expires,
                 lock, restarts, escaped>>

(***************************************************************************)
(* The task of the request is cancelled at an await.                       *)
(***************************************************************************)

\* Mutant: the lock is not left on the way out.
CancelKeepsLock(r) ==
  /\ pc[r] \in {"checking", "waiting"} \cup Reserving
  /\ Goto(r, "cancelled")
  /\ UNCHANGED <<clock, ix, now, snap, amount, cost, ledger, stamp, held,
                 expires, lock, restarts, escaped>>

CancelEarly(r) ==
  /\ pc[r] \in {"checking", "waiting"} \cup Reserving
  /\ IF pc[r] \in Reserving THEN Unlock(r) ELSE UNCHANGED lock
  /\ Goto(r, "cancelled")
  /\ UNCHANGED <<clock, ix, now, snap, amount, cost, ledger, stamp, held,
                 expires, restarts, escaped>>

\* The upstream call is cut: whatever it cost is never recorded.
CancelForwarding(r) ==
  /\ pc[r] = "forwarding"
  /\ Drop(r)
  /\ Goto(r, "done")
  /\ escaped' = escaped \cup {r}
  /\ UNCHANGED <<clock, ix, now, snap, amount, cost, ledger, stamp, expires,
                 lock, restarts>>

\* The wait for the insert is cut, not the thread that runs it.
CancelSettling(r) ==
  /\ pc[r] = "settling"
  /\ Drop(r)
  /\ Goto(r, "detached")
  /\ UNCHANGED <<clock, ix, now, snap, amount, cost, ledger, stamp, expires,
                 lock, restarts, escaped>>

\* A record whose hold has gone arrives late, or never.
LateSettle(r) ==
  /\ pc[r] = "detached"
  /\ \/ /\ ledger' = ledger \cup {r}
        /\ stamp' = [stamp EXCEPT ![r] = clock]
        /\ escaped' = IF Covered(r) THEN escaped ELSE escaped \cup {r}
     \/ /\ escaped' = escaped \cup {r}
        /\ UNCHANGED <<ledger, stamp>>
  /\ Goto(r, "done")
  /\ UNCHANGED <<clock, ix, now, snap, amount, cost, held, expires, lock,
                 restarts>>

(***************************************************************************)
(* A worker process is restarted: its holds, its lock and its coroutines   *)
(* are gone, the ledger is a file.                                         *)
(***************************************************************************)
Restart(w) ==
  LET live == {r \in Requests : WorkerOf[r] = w /\ pc[r] \notin Finished \cup {"idle"}}
  IN  /\ restarts < MaxRestarts
      /\ live # {}
      /\ pc' = [r \in Requests |-> IF r \in live THEN "lost" ELSE pc[r]]
      /\ held' = [r \in Requests |-> IF r \in live THEN {} ELSE held[r]]
      /\ lock' = [lock EXCEPT ![w] = Free]
      /\ escaped' = escaped \cup
           {r \in live : pc[r] \in {"forwarding", "streaming", "settling", "detached"}}
      /\ restarts' = restarts + 1
      /\ UNCHANGED <<clock, ix, now, snap, amount, cost, ledger, stamp, expires>>

Tick ==
  /\ clock < MaxClock
  /\ clock' = clock + 1
  /\ UNCHANGED <<pc, ix, now, snap, amount, cost, ledger, stamp, held, expires,
                 lock, restarts, escaped>>

\* The requests of this instance are all over.
AllOver ==
  /\ \A r \in Requests : pc[r] \in Finished \cup {"leaked"}
  /\ UNCHANGED vars

Step(r) ==
  \/ Arrive(r) \/ CheckHard(r) \/ Acquire(r) \/ ReadSpend(r) \/ Decide(r)
  \/ Respond(r) \/ Fail(r) \/ StreamEnd(r) \/ Abandon(r) \/ StreamLeaks(r)
  \/ Settle(r) \/ SettleFails(r) \/ Release(r)
  \/ CancelEarly(r) \/ CancelForwarding(r) \/ CancelSettling(r) \/ LateSettle(r)

Next ==
  \/ \E r \in Requests : Step(r)
  \/ \E w \in Workers : Restart(w)
  \/ Tick
  \/ AllOver

Spec == Init /\ [][Next]_vars

(***************************************************************************)
(* The event loop runs whatever is ready, worker threads finish, a call to *)
(* a provider ends (provider_timeout bounds it), and a client reads its    *)
(* stream or goes away.  Nothing is assumed of arrivals, cancellations,    *)
(* restarts or the clock.                                                  *)
(***************************************************************************)
Fairness ==
  \A r \in Requests :
    /\ WF_vars(CheckHard(r))
    /\ WF_vars(Acquire(r))
    /\ WF_vars(ReadSpend(r))
    /\ WF_vars(Decide(r))
    /\ WF_vars(Respond(r) \/ Fail(r))
    /\ WF_vars(StreamEnd(r) \/ Abandon(r) \/ StreamLeaks(r))
    /\ WF_vars(Settle(r) \/ SettleFails(r))
    /\ WF_vars(Release(r))
    /\ WF_vars(LateSettle(r))

FairSpec == Spec /\ Fairness
-----------------------------------------------------------------------------
(***************************************************************************)
(* What the reader of a budget relies on.                                  *)
(***************************************************************************)
TypeOK ==
  /\ clock \in Nat
  /\ pc \in [Requests -> Stages]
  /\ ix \in [Requests -> Nat]
  /\ now \in [Requests -> Nat]
  /\ snap \in [Requests -> SUBSET Requests]
  /\ amount \in [Requests -> Nat]
  /\ cost \in [Requests -> Nat]
  /\ ledger \in SUBSET Requests
  /\ stamp \in [Requests -> Nat]
  /\ held \in [Requests -> SUBSET Scopes]
  /\ expires \in [Requests -> Nat]
  /\ lock \in [Workers -> Requests \cup {Free}]
  /\ restarts \in Nat
  /\ escaped \in SUBSET Requests

\* All requests run in one process, the deployment the enforcer is written for.
OneWorker == \A i, j \in Requests : WorkerOf[i] = WorkerOf[j]

\* Capped scopes whose every request is recorded under them.
Attributed ==
  {s \in Capped : \A i \in Requests : s \in CappedScopes(i) => s \in Charged(i)}

\* What request i takes out of the cap of s: its cost once it is recorded and as
\* long as it is in the window, before that the hold that stands for it.
Exposure(i, s) ==
  IF i \in escaped \/ s \notin CappedScopes(i) THEN 0
  ELSE IF i \in ledger
       THEN IF stamp[i] >= clock - Window[s] THEN cost[i] ELSE 0
       ELSE IF s \in held[i] /\ expires[i] > clock THEN amount[i] ELSE 0

Exposed(s) == Sum([i \in Requests |-> Exposure(i, s)], N)

\* The cap holds (reserve, release, _handle_inner, _hand_over_hold): however the
\* requests of a process interleave, are cancelled or lost, what the recorded
\* ones cost and the running ones may cost stays within the hard limit.  The
\* requests left out are the escaped ones, and there are four ways to escape:
\* a cost that is never recorded (failed insert, cut call, leaked stream,
\* restart); one recorded when its hold was gone (TTL, abandoned stream,
\* cancelled insert); one above the estimate it was held for; and one that
\* settled between another request's spend query and that request's decision.
CapHolds == OneWorker => \A s \in Attributed : Exposed(s) <= HardLimit[s]

\* Holds live and die with their request (reserve, release): whoever holds
\* anything holds all its capped scopes, and has been admitted and not ended.
NoStrayHold ==
  \A r \in Requests :
    held[r] # {} =>
      /\ held[r] = CappedScopes(r)
      /\ pc[r] \in {"forwarding", "streaming", "settling", "settled", "leaked"}

\* The lock of a worker is held by the one of its requests that is between the
\* check and the hold, and by nobody when there is none (async with).
LockHeld ==
  \A r \in Requests : pc[r] \in Reserving <=> lock[WorkerOf[r]] = r

\* What reserve has found to fit still fits when it comes to place the holds:
\* the scopes behind the loop's position keep room for the amount, though the
\* other requests settle, release and expire between the queries.
PassedStillFits ==
  OneWorker =>
    \A r \in Requests : pc[r] \in Reserving =>
      \A j \in CappedAfter(r, 0) :
        j < ix[r] /\ ScopesOf[r][j] \in Attributed =>
          /\ Exposed(ScopesOf[r][j]) < HardLimit[ScopesOf[r][j]]
          /\ Exposed(ScopesOf[r][j]) + amount[r] <= HardLimit[ScopesOf[r][j]]

Admitted(r) == pc[r] \in {"waiting"} \cup Reserving /\ pc'[r] = "forwarding"

\* A scope at its cap refuses even a request that costs nothing (the comment in
\* reserve): nobody is admitted to a scope others have used up.
AtCapRefuses ==
  [][\A r \in Requests :
       Admitted(r) /\ OneWorker =>
         \A s \in CappedScopes(r) \cap Attributed :
           amount[r] > 0 \/ Exposed(s)' < HardLimit[s]]_vars

\* Nothing has been held for them yet.
Undecided == {r \in Requests : pc[r] \in {"idle", "checking", "waiting"} \cup Reserving}

\* What is written of a request, or held for it, is a claim as SpendCap has them: made
\* once, on all scopes of the request at the same instant and where it fits, and
\* falling ever after, through settling, release, expiry, cancellation and restart
\* (reserve: all scopes succeed or none is held).
Caps == INSTANCE SpendCap WITH
  Scopes <- Attributed, Limit <- HardLimit,
  On <- [r \in Requests |-> CappedScopes(r) \cap Attributed],
  claim <- [r \in Requests |-> [s \in Attributed |-> Exposure(r, s)]],
  waiting <- Undecided
SpendIsCapped == Caps!Spec

\* A request in line for the lock gets its answer, whatever happens to the
\* requests before it (asyncio.Lock, async with).
WaitersAnswered ==
  \A r \in Requests :
    pc[r] = "waiting" ~> pc[r] \notin {"waiting"} \cup Reserving

\* A hold comes to an end without the help of its TTL, but for a stream nobody
\* ever iterates (_hand_over_hold).
HoldsEnd ==
  \A r \in Requests : held[r] # {} ~> held[r] = {} \/ pc[r] = "leaked"
-----------------------------------------------------------------------------
(***************************************************************************)
(* What the repository says of holds and caps, and the code does not do.   *)
(***************************************************************************)

\* reserve's docstring: committed spend plus the in-flight holds stay within the
\* hard limit after the new hold.  Here with the ledger as it is at that
\* moment, the holds of all workers, and each request counted once.
HeadroomIsReal ==
  [][\A r \in Requests :
       Admitted(r) =>
         \A s \in CappedScopes(r) :
           SpendSince(ledger, s, now[r] - Window[s])
             + Sum([i \in Requests |->
                      IF i \notin ledger /\ s \in held'[i] /\ expires'[i] > clock
                      THEN amount[i] ELSE 0], N)
             <= HardLimit[s]]_vars

\* docs/budget-configuration.md: one key blowing the team budget blocks the
\* whole team.  Spend is counted over the requests that name the scope.
SharedCapBlocks ==
  [][\A r \in Requests :
       Admitted(r) =>
         \A s \in CappedScopes(r) :
           Sum([i \in Requests |->
                  IF i \in ledger /\ s \in CappedScopes(i)
                       /\ stamp[i] >= now'[r] - Window[s]
                  THEN cost[i] ELSE 0], N) < HardLimit[s]]_vars
=============================================================================
