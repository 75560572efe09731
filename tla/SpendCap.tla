------------------------------ MODULE SpendCap ------------------------------
(***************************************************************************)
(* What a budget promises.  Requests claim parts of limited scopes, each   *)
(* request at most once: a claim is made on all the scopes of the request  *)
(* at the same instant, and only where it fits with what the others have   *)
(* claimed.  From then on it only falls: what the request has cost is not  *)
(* more than was claimed, the rest is given back, and what is older than   *)
(* the window counts no more.  BudgetEnforcer is shown to implement this.  *)
(***************************************************************************)
EXTENDS Naturals, NatSums

CONSTANTS
  N,          \* number of requests; a request is a member of 1..N
  Scopes,     \* the limited scopes
  Limit,      \* how much of a scope may be claimed at a time
  On          \* On[r]: the scopes request r counts for

VARIABLES
  claim,      \* what each request has of each scope
  waiting     \* the requests that may still claim

vars == <<claim, waiting>>

Taken(s) == Sum([r \in 1..N |-> claim[r][s]], N)

Init ==
  /\ claim = [r \in 1..N |-> [s \in Scopes |-> 0]]
  /\ waiting = 1..N

Fall(r) == \A s \in Scopes : claim'[r][s] <= claim[r][s]

\* The amount is the same on all scopes.  What claims nothing of a scope needs room in
\* it all the same.
Admit(r) ==
  /\ r \in waiting /\ waiting' = waiting \ {r}
  /\ claim' \in [1..N -> [Scopes -> Nat]]
  /\ \A s, t \in On[r] : claim'[r][s] = claim'[r][t]
  /\ \A s \in Scopes \ On[r] : claim'[r][s] = 0
  /\ \A s \in On[r] : Taken(s)' <= Limit[s] /\ (claim'[r][s] = 0 => Taken(s)' < Limit[s])
  /\ \A q \in (1..N) \ {r} : Fall(q)

\* Claims fall, and who waits may be refused or give up.
Recede ==
  /\ waiting' \subseteq waiting
  /\ claim' \in [1..N -> [Scopes -> Nat]]
  /\ \A r \in 1..N : Fall(r)

Next == Recede \/ \E r \in 1..N : Admit(r)

Spec == Init /\ [][Next]_vars
=============================================================================
