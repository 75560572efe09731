------------------------ MODULE BudgetEnforcerProofs ------------------------
(***************************************************************************)
(* Proofs that the budget enforcer keeps its caps, for every number of     *)
(* requests, every set of scopes and limits, every TTL and window.         *)
(***************************************************************************)
EXTENDS BudgetEnforcer, NatSumLemmas

-----------------------------------------------------------------------------
(***************************************************************************)
(* Types.                                                                  *)
(***************************************************************************)

\* The positions of the loop over the scopes are natural numbers.
LEMMA CappedPositions ==
  ASSUME NEW r \in Requests, NEW k \in Nat
  PROVE  /\ CappedAfter(r, k) \subseteq Nat
         /\ CappedScopes(r) \subseteq Capped
         /\ \A j \in CappedAfter(r, 0) : ScopesOf[r][j] \in CappedScopes(r)
         /\ CappedScopes(r) \subseteq Scopes
  BY ScopeAssumption DEF CappedAfter, CappedScopes

LEMMA NextIsNat ==
  ASSUME NEW r \in Requests, NEW j \in Nat, NEW k, NextCapped(r, j, k)
  PROVE  k \in Nat
  BY CappedPositions DEF NextCapped

\* Every step keeps the types.
LEMMA TypeStep ==
  ASSUME TypeOK, [Next]_vars
  PROVE  TypeOK'
<1> USE DEF TypeOK, Stages, Reserving, Finished, Goto, Drop, Unlock, Free
<1>1. ASSUME NEW r \in Requests, Arrive(r) PROVE TypeOK'
  <2>1. ix' \in [Requests -> Nat]
    BY <1>1, NextIsNat DEF Arrive
  <2>2. amount' \in [Requests -> Nat]
    BY <1>1, DataAssumption DEF Arrive
  <2>3. pc' \in [Requests -> Stages] /\ now' \in [Requests -> Nat]
    BY <1>1 DEF Arrive
  <2> QED
    BY <1>1, <2>1, <2>2, <2>3 DEF Arrive
<1>2. ASSUME NEW r \in Requests, CheckHard(r) PROVE TypeOK'
  <2>1. ix' \in [Requests -> Nat]
    BY <1>2, NextIsNat DEF CheckHard
  <2>2. pc' \in [Requests -> Stages]
    BY <1>2 DEF CheckHard
  <2> QED
    BY <1>2, <2>1, <2>2 DEF CheckHard
<1>3. ASSUME NEW r \in Requests, Acquire(r) PROVE TypeOK'
  <2>1. ix' \in [Requests -> Nat]
    BY <1>3, NextIsNat DEF Acquire, LockFree
  <2>2. pc' \in [Requests -> Stages] /\ now' \in [Requests -> Nat]
    BY <1>3 DEF Acquire, LockFree
  <2>3. lock' \in [Workers -> Requests \cup {Free}]
    BY <1>3, WorkerAssumption DEF Acquire, LockFree
  <2>4. held' \in [Requests -> SUBSET Scopes]
    BY <1>3 DEF Acquire, LockFree
  <2> QED
    BY <1>3, <2>1, <2>2, <2>3, <2>4 DEF Acquire, LockFree
<1>4. ASSUME NEW r \in Requests, ReadSpend(r) PROVE TypeOK'
  BY <1>4 DEF ReadSpend
<1>5. ASSUME NEW r \in Requests, Decide(r) PROVE TypeOK'
  <2>1. ix' \in [Requests -> Nat]
    BY <1>5, NextIsNat DEF Decide, Place
  <2>2. pc' \in [Requests -> Stages]
    BY <1>5 DEF Decide, Place
  <2>3. lock' \in [Workers -> Requests \cup {Free}]
    BY <1>5, WorkerAssumption DEF Decide, Place
  <2>4. held' \in [Requests -> SUBSET Scopes]
    BY <1>5, CappedPositions DEF Decide, Place
  <2>5. expires' \in [Requests -> Nat]
    BY <1>5, DataAssumption DEF Decide, Place
  <2>6. escaped' \in SUBSET Requests
    BY <1>5 DEF Decide, Place, Missed
  <2> QED
    BY <1>5, <2>1, <2>2, <2>3, <2>4, <2>5, <2>6 DEF Decide, Place
<1>6. ASSUME NEW r \in Requests, Respond(r) PROVE TypeOK'
  BY <1>6, DataAssumption DEF Respond
<1>7. ASSUME NEW r \in Requests,
             Fail(r) \/ StreamEnd(r) \/ Abandon(r) \/ StreamLeaks(r)
      PROVE  TypeOK'
  BY <1>7 DEF Fail, StreamEnd, Abandon, StreamLeaks
<1>8. ASSUME NEW r \in Requests,
             Settle(r) \/ SettleFails(r) \/ Release(r) \/ LateSettle(r)
      PROVE  TypeOK'
  BY <1>8 DEF Settle, SettleFails, Release, LateSettle
<1>9. ASSUME NEW r \in Requests,
             CancelEarly(r) \/ CancelForwarding(r) \/ CancelSettling(r)
      PROVE  TypeOK'
  BY <1>9, WorkerAssumption DEF CancelEarly, CancelForwarding, CancelSettling
<1>10. ASSUME NEW w \in Workers, Restart(w) PROVE TypeOK'
  BY <1>10 DEF Restart
<1>11. ASSUME Tick PROVE TypeOK'
  BY <1>11 DEF Tick
<1>12. CASE UNCHANGED vars
  BY <1>12 DEF vars
<1> QED
  BY <1>1, <1>2, <1>3, <1>4, <1>5, <1>6, <1>7, <1>8, <1>9, <1>10, <1>11, <1>12
  DEF Next, Step, AllOver

\* Every variable keeps its type, whatever the requests do.
THEOREM TypeCorrect == Spec => []TypeOK
<1>1. Init => TypeOK
  BY DEF Init, TypeOK, Stages, Free
<1>2. TypeOK /\ [Next]_vars => TypeOK'
  BY TypeStep
<1> QED
  BY <1>1, <1>2, PTL DEF Spec

-----------------------------------------------------------------------------
(***************************************************************************)
(* The life of a request: what its stage says of its holds and its row.    *)
(***************************************************************************)

\* Only a request that has settled has a row.
RowAfterSettling == \A r \in ledger : pc[r] \in {"settled", "done", "lost"}

\* The clock a request works with was read before.
NowIsPast == \A r \in Requests : now[r] <= clock

\* The loops over the scopes stand at a capped scope.
AtCappedScope ==
  \A r \in Requests :
    pc[r] \in {"checking"} \cup Reserving => ix[r] \in CappedAfter(r, 0)

\* A recorded cost that has not escaped was held for.
CostWithinHold ==
  \A i \in ledger \ escaped : CappedScopes(i) # {} => cost[i] <= amount[i]

Life ==
  /\ TypeOK
  /\ NoStrayHold
  /\ LockHeld
  /\ RowAfterSettling
  /\ NowIsPast
  /\ AtCappedScope
  /\ CostWithinHold

LEMMA NextIsCapped ==
  ASSUME NEW r \in Requests, NEW j \in Nat, NEW k, NextCapped(r, j, k)
  PROVE  k \in CappedAfter(r, 0)
  BY DEF NextCapped, CappedAfter

\* Holds stay with requests that are running.
LEMMA StrayStep ==
  ASSUME Life, [Next]_vars
  PROVE  NoStrayHold'
<1> USE DEF Life, TypeOK, NoStrayHold, Goto, Drop, Reserving, Finished
<1>1. ASSUME NEW r \in Requests, Arrive(r) PROVE NoStrayHold'
  BY <1>1 DEF Arrive
<1>2. ASSUME NEW r \in Requests, CheckHard(r) PROVE NoStrayHold'
  BY <1>2 DEF CheckHard
<1>3. ASSUME NEW r \in Requests, Acquire(r) PROVE NoStrayHold'
  BY <1>3 DEF Acquire, LockFree
<1>4. ASSUME NEW r \in Requests, ReadSpend(r) PROVE NoStrayHold'
  BY <1>4 DEF ReadSpend
<1>5. ASSUME NEW r \in Requests, Decide(r) PROVE NoStrayHold'
  BY <1>5 DEF Decide, Place
<1>6. ASSUME NEW r \in Requests, Respond(r) \/ Fail(r) \/ StreamEnd(r)
      PROVE  NoStrayHold'
  BY <1>6 DEF Respond, Fail, StreamEnd
<1>7. ASSUME NEW r \in Requests, Abandon(r) \/ StreamLeaks(r) \/ Release(r)
      PROVE  NoStrayHold'
  BY <1>7 DEF Abandon, StreamLeaks, Release
<1>8. ASSUME NEW r \in Requests, Settle(r) \/ SettleFails(r) \/ LateSettle(r)
      PROVE  NoStrayHold'
  BY <1>8 DEF Settle, SettleFails, LateSettle
<1>9. ASSUME NEW r \in Requests, CancelEarly(r) PROVE NoStrayHold'
  BY <1>9 DEF CancelEarly
<1>10. ASSUME NEW r \in Requests, CancelForwarding(r) \/ CancelSettling(r)
      PROVE  NoStrayHold'
  BY <1>10 DEF CancelForwarding, CancelSettling
<1>11. ASSUME NEW w \in Workers, Restart(w) PROVE NoStrayHold'
  BY <1>11 DEF Restart
<1>12. ASSUME Tick PROVE NoStrayHold'
  BY <1>12 DEF Tick
<1>13. CASE UNCHANGED vars
  BY <1>13 DEF vars
<1> QED
  BY <1>1, <1>2, <1>3, <1>4, <1>5, <1>6, <1>7, <1>8, <1>9,
     <1>10, <1>11, <1>12, <1>13 DEF Next, Step, AllOver

\* The lock stays with the request between check and hold.
LEMMA LockStep ==
  ASSUME Life, [Next]_vars
  PROVE  LockHeld'
<1> USE DEF Life, TypeOK, LockHeld, Goto, Unlock, Reserving, Finished, Free, Requests
<1>1. ASSUME NEW r \in Requests, Arrive(r) PROVE LockHeld'
  BY <1>1, WorkerAssumption DEF Arrive
<1>2. ASSUME NEW r \in Requests, CheckHard(r) PROVE LockHeld'
  BY <1>2, WorkerAssumption DEF CheckHard
<1>3. ASSUME NEW r \in Requests, Acquire(r) PROVE LockHeld'
  <2> DEFINE w == WorkerOf[r]
  <2>1. /\ lock[w] = Free /\ w \in Workers /\ r # Free
        /\ \A i \in Requests : WorkerOf[i] = w => pc[i] \notin Reserving
    BY <1>3, WorkerAssumption DEF Acquire, LockFree
  <2>2. CASE pc'[r] = "reading" /\ lock' = [lock EXCEPT ![w] = r]
    <3>1. \A i \in Requests : i # r => pc'[i] = pc[i]
      BY <1>3 DEF Acquire, LockFree
    <3>2. \A i \in Requests : lock'[WorkerOf[i]] = IF WorkerOf[i] = w THEN r ELSE lock[WorkerOf[i]]
      BY <2>1, <2>2, WorkerAssumption
    <3> QED
      BY <2>1, <2>2, <3>1, <3>2
  <2>3. CASE pc'[r] = "forwarding" /\ lock' = lock
    BY <1>3, <2>1, <2>3 DEF Acquire, LockFree
  <2>4. \/ pc' = [pc EXCEPT ![r] = "reading"] /\ lock' = [lock EXCEPT ![w] = r]
        \/ pc' = [pc EXCEPT ![r] = "forwarding"] /\ lock' = lock
    BY <1>3 DEF Acquire
  <2>5. pc' = [pc EXCEPT ![r] = "reading"] => pc'[r] = "reading"
    OBVIOUS
  <2>6. pc' = [pc EXCEPT ![r] = "forwarding"] => pc'[r] = "forwarding"
    OBVIOUS
  <2> QED
    BY <2>2, <2>3, <2>4, <2>5, <2>6
<1>4. ASSUME NEW r \in Requests, ReadSpend(r) PROVE LockHeld'
  BY <1>4, WorkerAssumption DEF ReadSpend
<1>5. ASSUME NEW r \in Requests, Decide(r) PROVE LockHeld'
  <2> DEFINE w == WorkerOf[r]
  <2>1. lock[w] = r /\ w \in Workers /\ r # Free
    BY <1>5, WorkerAssumption DEF Decide, Place
  <2>2. CASE pc'[r] = "reading" /\ lock' = lock
    BY <1>5, <2>1, <2>2 DEF Decide, Place
  <2>3. CASE pc'[r] \in {"refused", "forwarding"} /\ Unlock(r)
    <3>1. \A i \in Requests : WorkerOf[i] = w => lock[w] # i \/ i = r
      BY <2>1
    <3>2. \A i \in Requests : i # r => pc'[i] = pc[i]
      BY <1>5 DEF Decide, Place
    <3>3. \A i \in Requests : lock'[WorkerOf[i]] = IF WorkerOf[i] = w THEN Free ELSE lock[WorkerOf[i]]
      BY <2>1, <2>3, WorkerAssumption
    <3>4. pc'[r] \notin Reserving
      BY <2>3
    <3> QED
      BY <2>1, <3>1, <3>2, <3>3, <3>4, SMTT(20)
  <2> QED
    BY <1>5, <2>2, <2>3 DEF Decide, Place
<1>6. ASSUME NEW r \in Requests, Respond(r) \/ Fail(r) \/ StreamEnd(r)
      PROVE  LockHeld'
  BY <1>6, WorkerAssumption DEF Respond, Fail, StreamEnd
<1>7. ASSUME NEW r \in Requests, Abandon(r) \/ StreamLeaks(r) \/ Release(r)
      PROVE  LockHeld'
  BY <1>7, WorkerAssumption DEF Abandon, StreamLeaks, Release
<1>8. ASSUME NEW r \in Requests, Settle(r) \/ SettleFails(r) \/ LateSettle(r)
      PROVE  LockHeld'
  BY <1>8, WorkerAssumption DEF Settle, SettleFails, LateSettle
<1>9. ASSUME NEW r \in Requests, CancelEarly(r) PROVE LockHeld'
  BY <1>9, WorkerAssumption DEF CancelEarly
<1>10. ASSUME NEW r \in Requests, CancelForwarding(r) \/ CancelSettling(r)
      PROVE  LockHeld'
  BY <1>10, WorkerAssumption DEF CancelForwarding, CancelSettling
<1>11. ASSUME NEW w \in Workers, Restart(w) PROVE LockHeld'
  BY <1>11, WorkerAssumption DEF Restart
<1>12. ASSUME Tick PROVE LockHeld'
  BY <1>12, WorkerAssumption DEF Tick
<1>13. CASE UNCHANGED vars
  BY <1>13, WorkerAssumption DEF vars
<1> QED
  BY <1>1, <1>2, <1>3, <1>4, <1>5, <1>6, <1>7, <1>8, <1>9,
     <1>10, <1>11, <1>12, <1>13 DEF Next, Step, AllOver

\* Rows come from settling.
LEMMA RowStep ==
  ASSUME Life, [Next]_vars
  PROVE  RowAfterSettling'
<1> USE DEF Life, TypeOK, RowAfterSettling, Goto, Reserving, Finished
<1>1. ASSUME NEW r \in Requests, Arrive(r) PROVE RowAfterSettling'
  BY <1>1 DEF Arrive
<1>2. ASSUME NEW r \in Requests, CheckHard(r) PROVE RowAfterSettling'
  BY <1>2 DEF CheckHard
<1>3. ASSUME NEW r \in Requests, Acquire(r) PROVE RowAfterSettling'
  BY <1>3 DEF Acquire, LockFree
<1>4. ASSUME NEW r \in Requests, ReadSpend(r) PROVE RowAfterSettling'
  BY <1>4 DEF ReadSpend
<1>5. ASSUME NEW r \in Requests, Decide(r) PROVE RowAfterSettling'
  BY <1>5 DEF Decide, Place
<1>6. ASSUME NEW r \in Requests, Respond(r) \/ Fail(r) \/ StreamEnd(r)
      PROVE  RowAfterSettling'
  BY <1>6 DEF Respond, Fail, StreamEnd
<1>7. ASSUME NEW r \in Requests, Abandon(r) \/ StreamLeaks(r) \/ Release(r)
      PROVE  RowAfterSettling'
  BY <1>7 DEF Abandon, StreamLeaks, Release
<1>8. ASSUME NEW r \in Requests, Settle(r) \/ SettleFails(r) \/ LateSettle(r)
      PROVE  RowAfterSettling'
  BY <1>8 DEF Settle, SettleFails, LateSettle
<1>9. ASSUME NEW r \in Requests, CancelEarly(r) PROVE RowAfterSettling'
  BY <1>9 DEF CancelEarly
<1>10. ASSUME NEW r \in Requests, CancelForwarding(r) \/ CancelSettling(r)
      PROVE  RowAfterSettling'
  BY <1>10 DEF CancelForwarding, CancelSettling
<1>11. ASSUME NEW w \in Workers, Restart(w) PROVE RowAfterSettling'
  BY <1>11 DEF Restart
<1>12. ASSUME Tick PROVE RowAfterSettling'
  BY <1>12 DEF Tick
<1>13. CASE UNCHANGED vars
  BY <1>13 DEF vars
<1> QED
  BY <1>1, <1>2, <1>3, <1>4, <1>5, <1>6, <1>7, <1>8, <1>9,
     <1>10, <1>11, <1>12, <1>13 DEF Next, Step, AllOver

\* The clock only goes forward.
LEMMA NowStep ==
  ASSUME Life, [Next]_vars
  PROVE  NowIsPast'
<1> USE DEF Life, TypeOK, NowIsPast
<1>1. ASSUME NEW r \in Requests, Arrive(r) PROVE NowIsPast'
  BY <1>1 DEF Arrive
<1>2. ASSUME NEW r \in Requests, CheckHard(r) PROVE NowIsPast'
  BY <1>2 DEF CheckHard
<1>3. ASSUME NEW r \in Requests, Acquire(r) PROVE NowIsPast'
  BY <1>3 DEF Acquire, LockFree
<1>4. ASSUME NEW r \in Requests, ReadSpend(r) PROVE NowIsPast'
  BY <1>4 DEF ReadSpend
<1>5. ASSUME NEW r \in Requests, Decide(r) PROVE NowIsPast'
  BY <1>5 DEF Decide, Place
<1>6. ASSUME NEW r \in Requests, Respond(r) \/ Fail(r) \/ StreamEnd(r)
      PROVE  NowIsPast'
  BY <1>6 DEF Respond, Fail, StreamEnd
<1>7. ASSUME NEW r \in Requests, Abandon(r) \/ StreamLeaks(r) \/ Release(r)
      PROVE  NowIsPast'
  BY <1>7 DEF Abandon, StreamLeaks, Release
<1>8. ASSUME NEW r \in Requests, Settle(r) \/ SettleFails(r) \/ LateSettle(r)
      PROVE  NowIsPast'
  BY <1>8 DEF Settle, SettleFails, LateSettle
<1>9. ASSUME NEW r \in Requests, CancelEarly(r) PROVE NowIsPast'
  BY <1>9 DEF CancelEarly
<1>10. ASSUME NEW r \in Requests, CancelForwarding(r) \/ CancelSettling(r)
      PROVE  NowIsPast'
  BY <1>10 DEF CancelForwarding, CancelSettling
<1>11. ASSUME NEW w \in Workers, Restart(w) PROVE NowIsPast'
  BY <1>11 DEF Restart
<1>12. ASSUME Tick PROVE NowIsPast'
  BY <1>12 DEF Tick
<1>13. CASE UNCHANGED vars
  BY <1>13 DEF vars
<1> QED
  BY <1>1, <1>2, <1>3, <1>4, <1>5, <1>6, <1>7, <1>8, <1>9,
     <1>10, <1>11, <1>12, <1>13 DEF Next, Step, AllOver

\* The loops turn to capped scopes only.
LEMMA CappedStep ==
  ASSUME Life, [Next]_vars
  PROVE  AtCappedScope'
<1> USE DEF Life, TypeOK, AtCappedScope, Goto, Reserving, Finished
<1>1. ASSUME NEW r \in Requests, Arrive(r) PROVE AtCappedScope'
  BY <1>1, NextIsCapped, CappedPositions DEF Arrive
<1>2. ASSUME NEW r \in Requests, CheckHard(r) PROVE AtCappedScope'
  BY <1>2, NextIsCapped, CappedPositions DEF CheckHard
<1>3. ASSUME NEW r \in Requests, Acquire(r) PROVE AtCappedScope'
  BY <1>3, NextIsCapped, CappedPositions DEF Acquire, LockFree
<1>4. ASSUME NEW r \in Requests, ReadSpend(r) PROVE AtCappedScope'
  BY <1>4, NextIsCapped, CappedPositions DEF ReadSpend
<1>5. ASSUME NEW r \in Requests, Decide(r) PROVE AtCappedScope'
  BY <1>5, NextIsCapped, CappedPositions DEF Decide, Place
<1>6. ASSUME NEW r \in Requests, Respond(r) \/ Fail(r) \/ StreamEnd(r)
      PROVE  AtCappedScope'
  BY <1>6, NextIsCapped, CappedPositions DEF Respond, Fail, StreamEnd
<1>7. ASSUME NEW r \in Requests, Abandon(r) \/ StreamLeaks(r) \/ Release(r)
      PROVE  AtCappedScope'
  BY <1>7, NextIsCapped, CappedPositions DEF Abandon, StreamLeaks, Release
<1>8. ASSUME NEW r \in Requests, Settle(r) \/ SettleFails(r) \/ LateSettle(r)
      PROVE  AtCappedScope'
  BY <1>8, NextIsCapped, CappedPositions DEF Settle, SettleFails, LateSettle
<1>9. ASSUME NEW r \in Requests, CancelEarly(r) PROVE AtCappedScope'
  BY <1>9, NextIsCapped, CappedPositions DEF CancelEarly
<1>10. ASSUME NEW r \in Requests, CancelForwarding(r) \/ CancelSettling(r)
      PROVE  AtCappedScope'
  BY <1>10, NextIsCapped, CappedPositions DEF CancelForwarding, CancelSettling
<1>11. ASSUME NEW w \in Workers, Restart(w) PROVE AtCappedScope'
  BY <1>11, NextIsCapped, CappedPositions DEF Restart
<1>12. ASSUME Tick PROVE AtCappedScope'
  BY <1>12, NextIsCapped, CappedPositions DEF Tick
<1>13. CASE UNCHANGED vars
  BY <1>13, NextIsCapped, CappedPositions DEF vars
<1> QED
  BY <1>1, <1>2, <1>3, <1>4, <1>5, <1>6, <1>7, <1>8, <1>9,
     <1>10, <1>11, <1>12, <1>13 DEF Next, Step, AllOver

\* A cost that settles under its hold is within it.
LEMMA PriceStep ==
  ASSUME Life, [Next]_vars
  PROVE  CostWithinHold'
<1> USE DEF Life, TypeOK, CostWithinHold, RowAfterSettling, Covered
<1>1. ASSUME NEW r \in Requests, Arrive(r) PROVE CostWithinHold'
  BY <1>1 DEF Arrive
<1>2. ASSUME NEW r \in Requests, CheckHard(r) PROVE CostWithinHold'
  BY <1>2 DEF CheckHard
<1>3. ASSUME NEW r \in Requests, Acquire(r) PROVE CostWithinHold'
  BY <1>3 DEF Acquire, LockFree
<1>4. ASSUME NEW r \in Requests, ReadSpend(r) PROVE CostWithinHold'
  BY <1>4 DEF ReadSpend
<1>5. ASSUME NEW r \in Requests, Decide(r) PROVE CostWithinHold'
  BY <1>5 DEF Decide, Place
<1>6. ASSUME NEW r \in Requests, Respond(r) \/ Fail(r) \/ StreamEnd(r)
      PROVE  CostWithinHold'
  BY <1>6 DEF Respond, Fail, StreamEnd
<1>7. ASSUME NEW r \in Requests, Abandon(r) \/ StreamLeaks(r) \/ Release(r)
      PROVE  CostWithinHold'
  BY <1>7 DEF Abandon, StreamLeaks, Release
<1>8. ASSUME NEW r \in Requests, Settle(r) \/ SettleFails(r) \/ LateSettle(r)
      PROVE  CostWithinHold'
  <2>1. ASSUME NEW i \in ledger' \ escaped', CappedScopes(i) # {}
        PROVE  cost[i] <= amount[i]
    BY <1>8, <2>1 DEF Settle, SettleFails, LateSettle
  <2> QED
    BY <1>8, <2>1 DEF Settle, SettleFails, LateSettle
<1>9. ASSUME NEW r \in Requests, CancelEarly(r) PROVE CostWithinHold'
  BY <1>9 DEF CancelEarly
<1>10. ASSUME NEW r \in Requests, CancelForwarding(r) \/ CancelSettling(r)
      PROVE  CostWithinHold'
  BY <1>10 DEF CancelForwarding, CancelSettling
<1>11. ASSUME NEW w \in Workers, Restart(w) PROVE CostWithinHold'
  BY <1>11 DEF Restart
<1>12. ASSUME Tick PROVE CostWithinHold'
  BY <1>12 DEF Tick
<1>13. CASE UNCHANGED vars
  BY <1>13 DEF vars
<1> QED
  BY <1>1, <1>2, <1>3, <1>4, <1>5, <1>6, <1>7, <1>8, <1>9,
     <1>10, <1>11, <1>12, <1>13 DEF Next, Step, AllOver

-----------------------------------------------------------------------------
(***************************************************************************)
(* The cap.  Every step but a successful Decide leaves each exposure where *)
(* it was or lowers it; a successful Decide raises one by the amount it    *)
(* found room for.                                                         *)
(***************************************************************************)

\* Exposures and what a decision adds up are natural numbers.
LEMMA Numbers ==
  ASSUME TypeOK, NEW s \in Capped
  PROVE  /\ HardLimit[s] \in Nat /\ Window[s] \in Nat
         /\ \A i \in Requests : Exposure(i, s) \in Nat /\ amount[i] \in Nat
         /\ Exposed(s) \in Nat
<1>1. HardLimit[s] \in Nat /\ Window[s] \in Nat
  BY LimitAssumption
<1>2. \A i \in Requests : Exposure(i, s) \in Nat /\ amount[i] \in Nat
  BY DEF TypeOK, Exposure
<1> DEFINE f == [i \in Requests |-> Exposure(i, s)]
<1>3. \A i \in 1..N : f[i] \in Nat
  BY <1>2 DEF Requests
<1>4. Exposed(s) = Sum(f, N)
  BY DEF Exposed
<1> HIDE DEF f
<1>5. Exposed(s) \in Nat
  BY <1>3, <1>4, NAssumption, SumFacts
<1> QED
  BY <1>1, <1>2, <1>5

LEMMA NextNumbers ==
  ASSUME TypeOK', NEW s \in Capped
  PROVE  /\ \A i \in Requests : Exposure(i, s)' \in Nat
         /\ Exposed(s)' \in Nat
<1>1. \A i \in Requests : Exposure(i, s)' \in Nat
  BY LimitAssumption DEF TypeOK, Exposure
<1> DEFINE h == [i \in Requests |-> Exposure(i, s)']
<1>2. \A i \in 1..N : h[i] \in Nat
  BY <1>1 DEF Requests
<1>3. Exposed(s)' = Sum(h, N)
  BY DEF Exposed
<1> HIDE DEF h
<1>4. Exposed(s)' \in Nat
  BY <1>2, <1>3, NAssumption, SumFacts
<1> QED
  BY <1>1, <1>4

LEMMA UsedIsNat ==
  ASSUME TypeOK, NEW r \in Requests, NEW s \in Capped
  PROVE  Used(r, s) \in Nat
<1> DEFINE f == [i \in Requests |->
                   IF i \in snap[r] /\ s \in Charged(i) /\ stamp[i] >= now[r] - Window[s]
                   THEN cost[i] ELSE 0]
           g == [i \in Requests |->
                   IF Counts(WorkerOf[r], i, s, now[r]) THEN amount[i] ELSE 0]
<1>1. (\A i \in 1..N : f[i] \in Nat) /\ (\A i \in 1..N : g[i] \in Nat)
  BY DEF TypeOK, Requests
<1>2. Used(r, s) = Sum(f, N) + Sum(g, N)
  BY DEF Used, SpendSince, HeldFor
<1> HIDE DEF f, g
<1>3. Sum(f, N) \in Nat
  BY <1>1, NAssumption, SumFacts
<1>4. Sum(g, N) \in Nat
  BY <1>1, NAssumption, SumFacts
<1> QED
  BY <1>2, <1>3, <1>4

\* Request i takes no more of any cap than before, and is in the loop of
\* reserve only if it was there or has just begun it.
Calm(i) ==
  /\ \A s \in Capped : Exposure(i, s)' <= Exposure(i, s)
  /\ pc'[i] \in Reserving =>
       \/ pc[i] \in Reserving /\ ix'[i] = ix[i] /\ amount'[i] = amount[i]
       \/ NextCapped(i, 0, ix'[i])

\* Every step is calm, unless it is a decision in favour.
LEMMA CalmStep ==
  ASSUME Life, [Next]_vars,
         ~ \E r \in Requests : Decide(r) /\ Fits(r, ScopesOf[r][ix[r]])
  PROVE  \A i \in Requests : Calm(i)
<1> SUFFICES ASSUME NEW i \in Requests PROVE Calm(i)
  OBVIOUS
<1>0. \A s \in Capped : Window[s] \in Nat
  BY LimitAssumption
<1> USE <1>0 DEF Life, TypeOK, Calm, Exposure, Reserving, Finished, Goto, Drop
<1>1. ASSUME NEW r \in Requests, Arrive(r) PROVE Calm(i)
  BY <1>1 DEF Arrive, NoStrayHold, RowAfterSettling
<1>2. ASSUME NEW r \in Requests, CheckHard(r) PROVE Calm(i)
  BY <1>2 DEF CheckHard
<1>3. ASSUME NEW r \in Requests, Acquire(r) PROVE Calm(i)
  BY <1>3 DEF Acquire, LockFree
<1>4. ASSUME NEW r \in Requests, ReadSpend(r) PROVE Calm(i)
  BY <1>4 DEF ReadSpend
<1>5. ASSUME NEW r \in Requests, Decide(r), ~Fits(r, ScopesOf[r][ix[r]])
      PROVE  Calm(i)
  BY <1>5 DEF Decide, Place
<1>6. ASSUME NEW r \in Requests, Respond(r) PROVE Calm(i)
  BY <1>6 DEF Respond, RowAfterSettling
<1>7. ASSUME NEW r \in Requests, Fail(r) \/ StreamEnd(r) PROVE Calm(i)
  BY <1>7 DEF Fail, StreamEnd
<1>8. ASSUME NEW r \in Requests, Abandon(r) \/ StreamLeaks(r) \/ Release(r)
      PROVE  Calm(i)
  BY <1>8 DEF Abandon, StreamLeaks, Release
<1>9. ASSUME NEW r \in Requests, Settle(r) \/ SettleFails(r) \/ LateSettle(r)
      PROVE  Calm(i)
  BY <1>9 DEF Settle, SettleFails, LateSettle, Covered, RowAfterSettling
<1>10. ASSUME NEW r \in Requests, CancelEarly(r) PROVE Calm(i)
  BY <1>10 DEF CancelEarly
<1>11. ASSUME NEW r \in Requests, CancelForwarding(r) \/ CancelSettling(r)
       PROVE  Calm(i)
  BY <1>11 DEF CancelForwarding, CancelSettling
<1>12. ASSUME NEW w \in Workers, Restart(w) PROVE Calm(i)
  BY <1>12 DEF Restart
<1>13. ASSUME Tick PROVE Calm(i)
  BY <1>13 DEF Tick
<1>14. CASE UNCHANGED vars
  BY <1>14 DEF vars
<1> QED
  BY <1>1, <1>2, <1>3, <1>4, <1>5, <1>6, <1>7, <1>8, <1>9, <1>10, <1>11, <1>12,
     <1>13, <1>14 DEF Next, Step, AllOver

\* Calm exposures leave the sum where it was or lower it.
LEMMA CalmSum ==
  ASSUME TypeOK, TypeOK', NEW s \in Capped,
         \A i \in Requests : Exposure(i, s)' <= Exposure(i, s)
  PROVE  Exposed(s)' <= Exposed(s)
<1> DEFINE f == [i \in Requests |-> Exposure(i, s)]
           h == [i \in Requests |-> Exposure(i, s)']
<1>1. \A i \in 1..N : f[i] \in Nat /\ h[i] \in Nat /\ h[i] <= f[i]
  <2>1. \A i \in Requests : Exposure(i, s) \in Nat
    BY Numbers
  <2>2. \A i \in Requests : Exposure(i, s)' \in Nat
    BY LimitAssumption DEF TypeOK, Exposure
  <2> QED
    BY <2>1, <2>2 DEF Requests
<1>2. Exposed(s) = Sum(f, N) /\ Exposed(s)' = Sum(h, N)
  BY DEF Exposed
<1> HIDE DEF f, h
<1> QED
  BY <1>1, <1>2, NAssumption, SumMonotone

\* A decision in favour leaves every other request alone, and itself takes the
\* amount when it is the last one and nothing before.
LEMMA FavourPoints ==
  ASSUME Life, NEW r \in Requests, Decide(r), Fits(r, ScopesOf[r][ix[r]]),
         NEW s \in Capped
  PROVE  /\ \A i \in Requests : i # r => Exposure(i, s)' <= Exposure(i, s)
         /\ Exposure(r, s) = 0
         /\ Exposure(r, s)' <= (IF s \in CappedScopes(r) /\ pc'[r] = "forwarding"
                                THEN amount[r] ELSE 0)
<1>1. Window[s] \in Nat
  BY LimitAssumption
<1> USE <1>1 DEF Life, TypeOK, Exposure, Reserving, Finished, Goto
<1>2. \A i \in Requests : i # r => Exposure(i, s)' <= Exposure(i, s)
  BY DEF Decide, Place
<1>3. held[r] = {} /\ r \notin ledger
  BY DEF Decide, Place, NoStrayHold, RowAfterSettling
<1>4. CASE pc'[r] = "forwarding"
  BY <1>2, <1>3, <1>4 DEF Decide, Place
<1>5. CASE pc'[r] # "forwarding"
  <2>1. held' = held /\ ledger' = ledger
    BY <1>5 DEF Decide, Place
  <2> QED
    BY <1>2, <1>3, <1>5, <2>1
<1> QED
  BY <1>4, <1>5

\* What the decision on the scope at hand adds up bounds what the others take out
\* of it: whoever is in neither sum has escaped.
LEMMA FavourBound ==
  ASSUME Life, TypeOK', OneWorker, NEW r \in Requests, Decide(r),
         NEW s \in Attributed, s = ScopesOf[r][ix[r]], Fits(r, s),
         NEW a \in Nat, Exposure(r, s)' <= a
  PROVE  Exposed(s)' <= Used(r, s) + a
<1> DEFINE f == [i \in Requests |->
                   IF i \in snap[r] /\ s \in Charged(i) /\ stamp[i] >= now[r] - Window[s]
                   THEN cost[i] ELSE 0]
           g == [i \in Requests |->
                   IF Counts(WorkerOf[r], i, s, now[r]) THEN amount[i] ELSE 0]
           h == [i \in Requests |-> Exposure(i, s)']
<1>1. s \in Capped /\ Window[s] \in Nat
  BY LimitAssumption DEF Attributed
<1>2. \A i \in 1..N : f[i] \in Nat /\ g[i] \in Nat /\ h[i] \in Nat
  BY <1>1 DEF Life, TypeOK, Exposure, Requests
<1>3. ASSUME NEW i \in Requests, i # r PROVE h[i] <= f[i] + g[i]
  <2> USE <1>1 DEF Life, TypeOK
  <2>1. /\ UNCHANGED <<clock, cost, stamp, amount, ledger>>
        /\ held'[i] = held[i] /\ expires'[i] = expires[i]
        /\ escaped' = escaped \cup Missed(r, s)
    BY <1>3 DEF Decide, Place
  <2>2. f[i] \in Nat /\ g[i] \in Nat /\ cost[i] \in Nat /\ amount[i] \in Nat
    BY <1>2 DEF Requests
  <2>3. CASE i \in escaped' \/ s \notin CappedScopes(i)
    BY <2>2, <2>3 DEF Exposure
  <2>4. CASE i \notin escaped' /\ s \in CappedScopes(i) /\ i \in ledger /\ i \in snap[r]
    <3>1. s \in Charged(i)
      BY <2>4 DEF Attributed
    <3>2. now[r] <= clock /\ clock \in Int /\ now[r] \in Int /\ stamp[i] \in Int
      BY DEF NowIsPast
    <3>3. h[i] = IF stamp[i] >= clock - Window[s] THEN cost[i] ELSE 0
      BY <2>1, <2>4 DEF Exposure
    <3>4. stamp[i] >= clock - Window[s] => f[i] = cost[i]
      BY <2>4, <3>1, <3>2
    <3> QED
      BY <2>2, <3>3, <3>4
  <2>5. CASE i \notin escaped' /\ s \in CappedScopes(i) /\ i \in ledger /\ i \notin snap[r]
    <3>1. Counts(WorkerOf[r], i, s, now[r])
      BY <2>1, <2>5 DEF Missed
    <3>2. cost[i] <= amount[i]
      BY <2>1, <2>5 DEF CostWithinHold
    <3>3. h[i] = cost[i] \/ h[i] = 0
      BY <2>1, <2>5 DEF Exposure
    <3> QED
      BY <2>2, <3>1, <3>2, <3>3
  <2>6. CASE i \notin escaped' /\ s \in CappedScopes(i) /\ i \notin ledger
    <3>1. h[i] = IF s \in held[i] /\ expires[i] > clock THEN amount[i] ELSE 0
      BY <2>1, <2>6 DEF Exposure
    <3>2. s \in held[i] /\ expires[i] > clock => Counts(WorkerOf[r], i, s, now[r])
      BY DEF NowIsPast, Counts, OneWorker
    <3> QED
      BY <2>2, <3>1, <3>2
  <2> QED
    BY <2>3, <2>4, <2>5, <2>6
<1>4. h[r] <= f[r] + g[r] + a
  BY <1>2 DEF Requests
<1>5. /\ Exposed(s)' = Sum(h, N)
      /\ Used(r, s) = Sum(f, N) + Sum(g, N)
  BY DEF Exposed, Used, SpendSince, HeldFor
<1> HIDE DEF f, g, h
<1>6. Sum(h, N) <= Sum(f, N) + Sum(g, N) + a
  BY <1>2, <1>3, <1>4, NAssumption, SumBound DEF Requests
<1> QED
  BY <1>5, <1>6

Cap == Life /\ CapHolds /\ PassedStillFits

\* A calm step keeps the caps, and what has passed.
LEMMA CapCalm ==
  ASSUME Cap, TypeOK', \A i \in Requests : Calm(i)
  PROVE  CapHolds' /\ PassedStillFits'
<1> SUFFICES ASSUME OneWorker PROVE CapHolds' /\ PassedStillFits'
  BY DEF CapHolds, PassedStillFits
<1>1. ASSUME NEW s \in Attributed
      PROVE  /\ Exposed(s)' <= Exposed(s) /\ Exposed(s)' \in Nat
             /\ Exposed(s) \in Nat /\ HardLimit[s] \in Nat
  <2>1. s \in Capped
    BY DEF Attributed
  <2>2. Exposed(s) \in Nat /\ HardLimit[s] \in Nat
    BY <2>1, Numbers DEF Cap, Life
  <2>3. Exposed(s)' \in Nat
    BY <2>1, NextNumbers
  <2> QED
    BY <2>1, <2>2, <2>3, CalmSum DEF Cap, Life, Calm
<1>2. CapHolds'
  BY <1>1 DEF Cap, CapHolds
<1>3. ASSUME NEW i \in Requests, pc'[i] \in Reserving,
             NEW j \in CappedAfter(i, 0), j < ix'[i], ScopesOf[i][j] \in Attributed
      PROVE  /\ Exposed(ScopesOf[i][j])' < HardLimit[ScopesOf[i][j]]
             /\ Exposed(ScopesOf[i][j])' + amount'[i] <= HardLimit[ScopesOf[i][j]]
  <2>1. ~NextCapped(i, 0, ix'[i])
    BY <1>3, CappedPositions DEF NextCapped
  <2>2. pc[i] \in Reserving /\ ix'[i] = ix[i] /\ amount'[i] = amount[i]
    BY <1>3, <2>1 DEF Calm
  <2>3. /\ Exposed(ScopesOf[i][j]) < HardLimit[ScopesOf[i][j]]
        /\ Exposed(ScopesOf[i][j]) + amount[i] <= HardLimit[ScopesOf[i][j]]
    BY <1>3, <2>2 DEF Cap, PassedStillFits
  <2>4. amount[i] \in Nat
    BY DEF Cap, Life, TypeOK
  <2> QED
    BY <1>1, <1>3, <2>2, <2>3, <2>4
<1> QED
  BY <1>2, <1>3 DEF PassedStillFits

\* A decision in favour keeps them too: it found room for the amount, in the
\* scope at hand now and in the ones before when their turn was.
LEMMA CapFavour ==
  ASSUME Cap, TypeOK', LockHeld', NEW r \in Requests, Decide(r),
         Fits(r, ScopesOf[r][ix[r]])
  PROVE  CapHolds' /\ PassedStillFits'
<1> SUFFICES ASSUME OneWorker PROVE CapHolds' /\ PassedStillFits'
  BY DEF CapHolds, PassedStillFits
<1> DEFINE here == ScopesOf[r][ix[r]]
<1>1. /\ ix[r] \in CappedAfter(r, 0) /\ ix[r] \in Nat /\ amount[r] \in Nat
      /\ pc[r] = "deciding"
      /\ CappedScopes(r) = {ScopesOf[r][j] : j \in CappedAfter(r, 0)}
  BY DEF Cap, Life, TypeOK, AtCappedScope, Reserving, CappedScopes, Decide, Place
<1>2. ASSUME NEW s \in Attributed
      PROVE  /\ s \in Capped /\ HardLimit[s] \in Nat
             /\ Exposed(s) \in Nat /\ Exposed(s)' \in Nat
             /\ Exposed(s) <= HardLimit[s]
  <2>1. s \in Capped
    BY DEF Attributed
  <2> QED
    BY <2>1, Numbers, NextNumbers DEF Cap, Life, CapHolds
<1>3. ASSUME NEW s \in Attributed, s = here,
             NEW a \in Nat, Exposure(r, s)' <= a
      PROVE  Exposed(s)' <= Used(r, s) + a
  BY <1>3, FavourBound DEF Cap
<1>7. ASSUME NEW s \in Attributed
      PROVE  /\ Exposure(r, s)' \in Nat
             /\ Exposure(r, s)' <= (IF s \in CappedScopes(r) /\ pc'[r] = "forwarding"
                                   THEN amount[r] ELSE 0)
  <2>1. Exposure(r, s)' \in Nat
    BY <1>2, NextNumbers
  <2> QED
    BY <1>2, <2>1, FavourPoints DEF Cap
<1>4. ASSUME NEW s \in Attributed
      PROVE  Exposed(s)' <= Exposed(s) + (IF s \in CappedScopes(r) /\ pc'[r] = "forwarding"
                                          THEN amount[r] ELSE 0)
  <2> DEFINE a == IF s \in CappedScopes(r) /\ pc'[r] = "forwarding" THEN amount[r] ELSE 0
             f == [i \in Requests |-> Exposure(i, s)]
             h == [i \in Requests |-> Exposure(i, s)']
  <2>1. a \in Nat
    BY <1>1
  <2>2. \A i \in 1..N : f[i] \in Nat /\ h[i] \in Nat
    BY <1>2, Numbers, NextNumbers DEF Requests, Cap, Life
  <2>3. (\A i \in Requests : i # r => h[i] <= f[i]) /\ h[r] <= f[r] + a
    BY <1>2, <2>2, <2>1, FavourPoints DEF Cap, Requests
  <2>4. Exposed(s) = Sum(f, N) /\ Exposed(s)' = Sum(h, N)
    BY DEF Exposed
  <2> HIDE DEF a, f, h
  <2>5. Sum(h, N) <= Sum(f, N) + a
    BY <2>1, <2>2, <2>3, NAssumption, SumGrowth DEF Requests
  <2> QED
    BY <2>4, <2>5 DEF a
<1>5. CASE pc'[r] = "forwarding"
  <2>1. CappedAfter(r, ix[r]) = {}
    BY <1>5 DEF Decide, Place, Goto, Cap, Life, TypeOK
  <2>2. \A i \in Requests : pc'[i] \notin Reserving
    <3>1. lock'[WorkerOf[r]] = Free
      BY <1>5, <1>1, WorkerAssumption DEF Decide, Place, Goto, Unlock, Cap, Life, TypeOK
    <3> QED
      BY <3>1 DEF LockHeld, OneWorker, Free, Requests
  <2>3. PassedStillFits'
    BY <2>2 DEF PassedStillFits
  <2>4. ASSUME NEW s \in Attributed PROVE Exposed(s)' <= HardLimit[s]
    <3>1. CASE s \notin CappedScopes(r)
      BY <1>2, <1>4, <3>1
    <3>2. CASE s = here
      <4>1. Exposure(r, s)' <= amount[r]
        BY <1>1, <1>7
      <4>2. Exposed(s)' <= Used(r, s) + amount[r]
        BY <1>1, <1>3, <3>2, <4>1
      <4>3. Used(r, s) + amount[r] <= HardLimit[s]
        BY <3>2 DEF Fits
      <4>4. Used(r, s) \in Nat
        BY <1>2, UsedIsNat DEF Cap, Life
      <4> QED
        BY <1>1, <1>2, <4>2, <4>3, <4>4
    <3>3. CASE s \in CappedScopes(r) /\ s # here
      <4>1. PICK j \in CappedAfter(r, 0) : s = ScopesOf[r][j]
        BY <1>1, <3>3
      <4>2. j \in Nat /\ j < ix[r]
        BY <1>1, <2>1, <3>3, <4>1 DEF CappedAfter
      <4>3. Exposed(s) + amount[r] <= HardLimit[s]
        BY <1>1, <4>1, <4>2 DEF Cap, PassedStillFits, Reserving
      <4> QED
        BY <1>1, <1>2, <1>4, <1>5, <3>3, <4>3
    <3> QED
      BY <3>1, <3>2, <3>3
  <2> QED
    BY <2>3, <2>4 DEF CapHolds
<1>6. CASE pc'[r] # "forwarding"
  <2>1. NextCapped(r, ix[r], ix'[r]) /\ amount' = amount
    BY <1>6, <1>1 DEF Decide, Place, Goto, Cap, Life, TypeOK
  <2>2. ASSUME NEW s \in Attributed PROVE Exposed(s)' <= Exposed(s)
    BY <1>2, <1>4, <1>6
  <2>3. CapHolds'
    BY <1>2, <2>2 DEF CapHolds
  <2>4. ASSUME NEW i \in Requests, pc'[i] \in Reserving,
               NEW j \in CappedAfter(i, 0), j < ix'[i], ScopesOf[i][j] \in Attributed
        PROVE  /\ Exposed(ScopesOf[i][j])' < HardLimit[ScopesOf[i][j]]
               /\ Exposed(ScopesOf[i][j])' + amount'[i] <= HardLimit[ScopesOf[i][j]]
    <3>1. i = r
      <4>1. lock[WorkerOf[r]] = r /\ WorkerOf[i] = WorkerOf[r]
        BY <1>1 DEF Cap, Life, LockHeld, Reserving, OneWorker
      <4>2. i # r => pc'[i] = pc[i]
        BY DEF Decide, Place, Goto, Cap, Life, TypeOK
      <4> QED
        BY <2>4, <4>1, <4>2 DEF Cap, Life, LockHeld
    <3>2. j \in Nat /\ (j < ix[r] \/ j = ix[r])
      BY <1>1, <2>1, <2>4, <3>1 DEF NextCapped, CappedAfter
    <3>3. CASE j < ix[r]
      <4>1. /\ Exposed(ScopesOf[r][j]) < HardLimit[ScopesOf[r][j]]
            /\ Exposed(ScopesOf[r][j]) + amount[r] <= HardLimit[ScopesOf[r][j]]
        BY <1>1, <2>4, <3>1, <3>3 DEF Cap, PassedStillFits, Reserving
      <4> QED
        BY <1>1, <1>2, <2>1, <2>2, <2>4, <3>1, <4>1
    <3>4. CASE j = ix[r]
      <4>1. PICK s \in Attributed : s = here /\ s = ScopesOf[i][j]
        BY <2>4, <3>1, <3>4
      <4>2. Exposure(r, s)' <= 0
        BY <1>6, <1>7
      <4>3. Exposed(s)' <= Used(r, s) + 0
        BY <1>3, <4>1, <4>2
      <4>4. Used(r, s) < HardLimit[s] /\ Used(r, s) + amount[r] <= HardLimit[s]
        BY <4>1 DEF Fits
      <4>5. Used(r, s) \in Nat
        BY <1>2, UsedIsNat DEF Cap, Life
      <4>6. Exposed(s)' \in Nat /\ HardLimit[s] \in Nat /\ amount'[i] = amount[r]
        BY <1>2, <2>1, <3>1
      <4>7. Exposed(s)' < HardLimit[s] /\ Exposed(s)' + amount'[i] <= HardLimit[s]
        BY <1>1, <4>3, <4>4, <4>5, <4>6
      <4> QED
        BY <4>1, <4>7
    <3> QED
      BY <3>2, <3>3, <3>4
  <2> QED
    BY <2>3, <2>4 DEF PassedStillFits
<1> QED
  BY <1>5, <1>6

\* Every step keeps the invariant.
LEMMA CapStep ==
  ASSUME Cap, [Next]_vars
  PROVE  Cap'
<1>1. Life'
  BY TypeStep, StrayStep, LockStep, RowStep, NowStep, CappedStep, PriceStep DEF Cap, Life
<1>2. CapHolds' /\ PassedStillFits'
  BY <1>1, CalmStep, CapCalm, CapFavour DEF Cap, Life
<1> QED
  BY <1>1, <1>2 DEF Cap

\* Nothing is exposed at the beginning.
LEMMA CapInit ==
  ASSUME Init
  PROVE  Cap
<1>1. Life
  <2> USE DEF Init
  <2>1. TypeOK
    BY DEF TypeOK, Stages, Free
  <2>2. NoStrayHold /\ RowAfterSettling /\ NowIsPast /\ CostWithinHold
    BY DEF NoStrayHold, RowAfterSettling, NowIsPast, CostWithinHold
  <2>3. LockHeld /\ AtCappedScope
    BY WorkerAssumption DEF LockHeld, AtCappedScope, Reserving, Requests, Free
  <2> QED
    BY <2>1, <2>2, <2>3 DEF Life
<1>2. ASSUME NEW s \in Attributed PROVE Exposed(s) <= HardLimit[s]
  <2> DEFINE f == [i \in Requests |-> Exposure(i, s)]
  <2>1. \A i \in 1..N : f[i] = 0
    BY DEF Init, Exposure, Requests
  <2>2. Exposed(s) = Sum(f, N)
    BY DEF Exposed
  <2> HIDE DEF f
  <2>3. Exposed(s) = 0
    BY <2>1, <2>2, NAssumption, SumOfZeros
  <2> QED
    BY <2>3, LimitAssumption DEF Attributed
<1>3. PassedStillFits
  BY DEF Init, PassedStillFits, Reserving
<1> QED
  BY <1>1, <1>2, <1>3 DEF Cap, CapHolds

LEMMA CapInvariance == Spec => []Cap
<1>1. Init => Cap
  BY CapInit
<1>2. Cap /\ [Next]_vars => Cap'
  BY CapStep
<1> QED
  BY <1>1, <1>2, PTL DEF Spec

\* The caps hold for every number of requests, every scope list, limit, window
\* and TTL: in one worker process, what the requests that have not escaped cost
\* or may cost never exceeds the hard limit of a scope they are recorded under.
THEOREM CapCorrect == Spec => []CapHolds
<1>1. Cap => CapHolds
  BY DEF Cap
<1> QED
  BY <1>1, CapInvariance, PTL

\* The room that reserve found in a scope is still there when it has looked at
\* the last one, whatever settled, was released or ran out in between.
THEOREM PassedFitsCorrect == Spec => []PassedStillFits
<1>1. Cap => PassedStillFits
  BY DEF Cap
<1> QED
  BY <1>1, CapInvariance, PTL

\* Holds stay with the requests that were admitted and have not ended.
THEOREM HoldsCorrect == Spec => []NoStrayHold
<1>1. Cap => NoStrayHold
  BY DEF Cap, Life
<1> QED
  BY <1>1, CapInvariance, PTL

\* The lock of a worker is with the request that is deciding, and with nobody
\* when none is: cancelled and restarted requests do not take it along.
THEOREM LockCorrect == Spec => []LockHeld
<1>1. Cap => LockHeld
  BY DEF Cap, Life
<1> QED
  BY <1>1, CapInvariance, PTL

\* A decision that admits r leaves each of its scopes below the limit, unless r takes
\* something of it.
LEMMA AtCapFavour ==
  ASSUME Cap, TypeOK', OneWorker, NEW r \in Requests, Decide(r),
         Fits(r, ScopesOf[r][ix[r]]), pc'[r] = "forwarding",
         NEW s \in CappedScopes(r) \cap Attributed, Exposure(r, s)' = 0
  PROVE  Exposed(s)' < HardLimit[s]
<1>1. /\ ix[r] \in CappedAfter(r, 0) /\ ix[r] \in Nat
      /\ pc[r] = "deciding" /\ CappedAfter(r, ix[r]) = {}
      /\ CappedScopes(r) = {ScopesOf[r][j] : j \in CappedAfter(r, 0)}
  BY DEF Cap, Life, TypeOK, AtCappedScope, Reserving, CappedScopes, Decide, Place, Goto
<1>2. /\ s \in Capped /\ HardLimit[s] \in Nat
      /\ Exposed(s) \in Nat /\ Exposed(s)' \in Nat
  <2>1. s \in Capped
    BY DEF Attributed
  <2> QED
    BY <2>1, Numbers, NextNumbers DEF Cap, Life
<1>3. \A i \in Requests : Exposure(i, s)' <= Exposure(i, s)
  <2>1. Exposure(r, s) = 0
    BY <1>2, FavourPoints DEF Cap
  <2> QED
    BY <1>2, <2>1, FavourPoints DEF Cap
<1>4. CASE s = ScopesOf[r][ix[r]]
  <2>1. Exposed(s)' <= Used(r, s) + 0
    BY <1>4, FavourBound DEF Cap
  <2>2. Used(r, s) < HardLimit[s] /\ Used(r, s) \in Nat
    BY <1>2, <1>4, UsedIsNat DEF Fits, Cap, Life
  <2> QED
    BY <1>2, <2>1, <2>2
<1>5. CASE s # ScopesOf[r][ix[r]]
  <2>1. PICK j \in CappedAfter(r, 0) : s = ScopesOf[r][j]
    BY <1>1
  <2>2. j \in Nat /\ j < ix[r]
    BY <1>1, <1>5, <2>1 DEF CappedAfter
  <2>3. Exposed(s) < HardLimit[s]
    BY <1>1, <2>1, <2>2 DEF Cap, PassedStillFits, Reserving
  <2>4. Exposed(s)' <= Exposed(s)
    BY <1>2, <1>3, CalmSum DEF Cap, Life
  <2> QED
    BY <1>2, <2>3, <2>4
<1> QED
  BY <1>4, <1>5

\* A scope at its cap refuses even a request that costs nothing.
THEOREM AtCapCorrect == Spec => AtCapRefuses
<1> DEFINE Refuses ==
      \A r \in Requests :
        Admitted(r) /\ OneWorker =>
          \A s \in CappedScopes(r) \cap Attributed :
            amount[r] > 0 \/ Exposed(s)' < HardLimit[s]
<1>1. Init => Cap
  BY CapInit
<1>2. Cap /\ [Next]_vars => Cap'
  BY CapStep
<1>3. Cap /\ Cap' /\ [Next]_vars => Refuses
  <2> SUFFICES ASSUME Cap, Cap', [Next]_vars, NEW r \in Requests, Admitted(r),
                      OneWorker, NEW s \in CappedScopes(r) \cap Attributed,
                      amount[r] = 0
               PROVE  Exposed(s)' < HardLimit[s]
    BY DEF Cap, Life, TypeOK
  <2>1. CASE Decide(r)
    <3>1. Fits(r, ScopesOf[r][ix[r]]) /\ pc'[r] = "forwarding"
      BY <2>1 DEF Decide, Place, Admitted, Goto, Cap, Life, TypeOK
    <3>2. s \in Capped
      BY DEF Attributed
    <3>3. Exposure(r, s)' \in Nat /\ Exposure(r, s)' <= 0
      BY <2>1, <3>1, <3>2, FavourPoints, NextNumbers DEF Cap, Life
    <3> QED
      BY <2>1, <3>1, <3>3, AtCapFavour DEF Cap, Life
  <2>2. CASE ~Decide(r)
    <3>1. Acquire(r) /\ CappedAfter(r, 0) = {}
      <4> USE DEF Admitted, Goto, Cap, Life, TypeOK, Reserving, Finished
      <4>1. ASSUME NEW q \in Requests, q # r, Step(q) PROVE pc'[r] = pc[r]
        BY <4>1 DEF Step, Arrive, CheckHard, Acquire, ReadSpend, Decide, Place, Respond, Fail,
             StreamEnd, Abandon, StreamLeaks, Settle, SettleFails, Release,
             CancelEarly, CancelForwarding, CancelSettling, LateSettle
      <4>2. ASSUME Step(r) PROVE Acquire(r) /\ CappedAfter(r, 0) = {}
        BY <2>2, <4>2 DEF Step, Arrive, CheckHard, Acquire, ReadSpend, Respond, Fail,
             StreamEnd, Abandon, StreamLeaks, Settle, SettleFails, Release,
             CancelEarly, CancelForwarding, CancelSettling, LateSettle
      <4>3. ASSUME (\E w \in Workers : Restart(w)) \/ Tick \/ UNCHANGED vars
            PROVE  FALSE
        BY <4>3 DEF Restart, Tick, vars
      <4> QED
        BY <4>1, <4>2, <4>3 DEF Next, AllOver
    <3> QED
      BY <3>1 DEF CappedScopes
  <2> QED
    BY <2>1, <2>2
<1>4. Spec => [][Refuses]_vars
  BY <1>1, <1>2, <1>3, PTL DEF Spec
<1> QED
  BY <1>4 DEF AtCapRefuses

-----------------------------------------------------------------------------
(***************************************************************************)
(* The refinement.  A decision that admits is SpendCap's Admit, every      *)
(* other step one in which claims fall.                                    *)
(***************************************************************************)
LEMMA SumOfCaps == \A f, n : Caps!Sum(f, n) = Sum(f, n)
BY DEF Caps!Sum, Sum

\* Nobody goes back to where nothing has been held.
LEMMA UndecidedStep ==
  ASSUME TypeOK, [Next]_vars
  PROVE  Undecided' \subseteq Undecided
<1> SUFFICES ASSUME NEW i \in Requests,
                    pc'[i] \in {"idle", "checking", "waiting"} \cup Reserving
             PROVE  pc[i] \in {"idle", "checking", "waiting"} \cup Reserving
  BY DEF Undecided
<1> USE DEF TypeOK, Reserving, Goto
<1>1. ASSUME NEW r \in Requests, Step(r) PROVE pc[i] \in {"idle", "checking", "waiting"} \cup Reserving
  BY <1>1 DEF Step, Arrive, CheckHard, Acquire, ReadSpend, Decide, Respond, Fail,
     StreamEnd, Abandon, StreamLeaks, Settle, SettleFails, Release,
     CancelEarly, CancelForwarding, CancelSettling, LateSettle
<1>2. ASSUME (\E w \in Workers : Restart(w)) \/ Tick \/ AllOver \/ UNCHANGED vars
      PROVE  pc[i] \in {"idle", "checking", "waiting"} \cup Reserving
  BY <1>2 DEF Restart, Tick, AllOver, vars
<1> QED
  BY <1>1, <1>2 DEF Next

\* What a step has done to the claims, where no exposure has grown.
LEMMA CapsRecede ==
  ASSUME TypeOK, TypeOK', [Next]_vars,
         \A i \in Requests, s \in Attributed : Exposure(i, s)' <= Exposure(i, s)
  PROVE  Caps!Recede
<1>1. Undecided' \subseteq Undecided
  BY UndecidedStep
<1>2. \A i \in Requests, s \in Attributed : Exposure(i, s)' \in Nat
  BY NextNumbers DEF Attributed
<1> QED
  BY <1>1, <1>2 DEF Caps!Recede, Caps!Fall, Requests

LEMMA CapsAdmit ==
  ASSUME OneWorker, Cap, TypeOK', CapHolds', NEW r \in Requests, Decide(r),
         Fits(r, ScopesOf[r][ix[r]]), pc'[r] = "forwarding"
  PROVE  Caps!Admit(r)
<1>1. r \in Undecided /\ Undecided' = Undecided \ {r}
  BY DEF Undecided, Reserving, Decide, Goto, Cap, Life, TypeOK
<1>2. \A s \in Attributed : s \in Capped
  BY DEF Attributed
<1>3. \A i \in Requests, s \in Attributed : Exposure(i, s)' \in Nat
  BY <1>2, NextNumbers
<1>4. \A s, t \in CappedScopes(r) \cap Attributed : Exposure(r, s)' = Exposure(r, t)'
  <2>1. r \notin ledger /\ ledger' = ledger
    BY DEF Decide, Cap, Life, RowAfterSettling
  <2>2. held'[r] = CappedScopes(r)
    BY DEF Decide, Place, Goto, Cap, Life, TypeOK
  <2> QED
    BY <2>1, <2>2 DEF Exposure
<1>5. \A s \in Attributed \ CappedScopes(r) : Exposure(r, s)' = 0
  BY DEF Exposure
<1>6. \A s \in Attributed : Exposed(s)' <= HardLimit[s]
  BY DEF CapHolds, OneWorker
<1>7. \A s \in CappedScopes(r) \cap Attributed :
        Exposure(r, s)' = 0 => Exposed(s)' < HardLimit[s]
  BY AtCapFavour
<1>8. \A i \in Requests \ {r}, s \in Attributed : Exposure(i, s)' <= Exposure(i, s)
  BY <1>2, FavourPoints DEF Cap
<1>9. \A s \in Attributed : Caps!Taken(s)' = Exposed(s)'
  BY SumOfCaps DEF Caps!Taken, Exposed, Requests
<1> QED
  BY <1>1, <1>3, <1>4, <1>5, <1>6, <1>7, <1>8, <1>9 DEF Caps!Admit, Caps!Fall, Requests

\* SpendIsCapped: in one worker process, what is written and held for requests are the
\* claims of SpendCap, for any requests, scopes, limits, windows, TTL and costs.
THEOREM SpendIsCappedCorrect ==
  ASSUME OneWorker
  PROVE  Spec => SpendIsCapped
<1>1. Init => Caps!Init
  BY DEF Init, Caps!Init, Undecided, Exposure, Requests
<1>2. Cap /\ Cap' /\ [Next]_vars => [Caps!Next]_(Caps!vars)
  <2> SUFFICES ASSUME Cap, Cap', [Next]_vars PROVE Caps!Next
    OBVIOUS
  <2> USE DEF Cap, Life
  <2>1. CASE \E r \in Requests : Decide(r) /\ Fits(r, ScopesOf[r][ix[r]])
    <3>1. PICK r \in Requests : Decide(r) /\ Fits(r, ScopesOf[r][ix[r]])
      BY <2>1
    <3>2. CASE pc'[r] = "forwarding"
      BY <3>1, <3>2, CapsAdmit DEF Caps!Next, Requests
    <3>3. CASE pc'[r] # "forwarding"
      <4>1. ASSUME NEW i \in Requests, NEW s \in Attributed
            PROVE  Exposure(i, s)' <= Exposure(i, s)
        <5>1. s \in Capped
          BY DEF Attributed
        <5> QED
          BY <3>1, <3>3, <5>1, FavourPoints
      <4> QED
        BY <4>1, CapsRecede DEF Caps!Next
    <3> QED
      BY <3>2, <3>3
  <2>2. CASE ~ \E r \in Requests : Decide(r) /\ Fits(r, ScopesOf[r][ix[r]])
    <3>1. \A i \in Requests, s \in Attributed : Exposure(i, s)' <= Exposure(i, s)
      BY <2>2, CalmStep DEF Calm, Attributed
    <3> QED
      BY <3>1, CapsRecede DEF Caps!Next
  <2> QED
    BY <2>1, <2>2
<1> QED
  BY <1>1, <1>2, CapInvariance, PTL DEF Spec, SpendIsCapped, Caps!Spec

-----------------------------------------------------------------------------
(* What the waits and the holds of a request come to an end by. *)

\* How far a request has come.  The two stages of reserve's loop count as one.
Rank(s) ==
  IF s = "idle" THEN 0 ELSE IF s = "checking" THEN 1 ELSE IF s = "waiting" THEN 2
  ELSE IF s \in Reserving THEN 3 ELSE IF s = "forwarding" THEN 4
  ELSE IF s = "streaming" THEN 5 ELSE IF s = "settling" THEN 6
  ELSE IF s \in {"settled", "detached", "leaked"} THEN 7 ELSE 8

\* The same loop at a later one of the request's scopes, or its query answered.
Onward(r) ==
  \/ /\ pc'[r] = pc[r] \/ (pc[r] = "deciding" /\ pc'[r] = "reading")
     /\ ix'[r] > ix[r]
     /\ ix'[r] <= Len(ScopesOf[r])
  \/ pc[r] = "reading" /\ pc'[r] = "deciding" /\ ix'[r] = ix[r]

\* No request goes back (check_hard, reserve, _handle_inner, _hand_over_hold): a step that
\* touches one takes it to a later stage, or its loop over the scopes to a later one of
\* them.  A cancellation or a restart only shortens the way.
RequestsGoForward ==
  [][\A r \in Requests :
       \/ <<pc'[r], ix'[r]>> = <<pc[r], ix[r]>>
       \/ Rank(pc'[r]) > Rank(pc[r])
       \/ Onward(r)]_vars

\* Nobody waits for a lock that nobody will leave (_reserve_lock): in front of a request
\* in line its lock is free, or with a request of the same worker that can move.
LineMoves ==
  \A r \in Requests :
    pc[r] = "waiting" =>
      \/ LockFree(r)
      \/ \E q \in Requests : WorkerOf[q] = WorkerOf[r] /\ pc[q] \in Reserving

\* The one inside the lock of a worker is a request of that worker.
LockAtHome == \A w \in Workers : lock[w] # Free => WorkerOf[lock[w]] = w

LEMMA LaterScope ==
  ASSUME NEW r \in Requests, NEW j \in Nat, NEW k, NextCapped(r, j, k)
  PROVE  k \in Nat /\ k > j /\ k <= Len(ScopesOf[r])
<1>1. Len(ScopesOf[r]) \in Nat /\ k \in (j + 1)..Len(ScopesOf[r])
  BY ScopeAssumption DEF NextCapped, CappedAfter
<1> QED
  BY <1>1

\* What a step of a request does to itself and to the others.
LEMMA RequestStep ==
  ASSUME TypeOK, NEW r \in Requests, Step(r)
  PROVE  /\ Rank(pc'[r]) > Rank(pc[r]) \/ Onward(r)
         /\ \A q \in Requests : q # r => pc'[q] = pc[q] /\ ix'[q] = ix[q]
<1> DEFINE Apart == \A q \in Requests : q # r => pc'[q] = pc[q] /\ ix'[q] = ix[q]
<1>0. pc \in [Requests -> Stages] /\ ix \in [Requests -> Nat]
  BY DEF TypeOK
<1>1. CASE Arrive(r)
  <2>1. pc[r] = "idle" /\ pc'[r] \in {"waiting", "checking"} /\ Apart
    BY <1>0, <1>1 DEF Arrive, Goto
  <2> QED
    BY <2>1 DEF Rank, Reserving
<1>2. CASE CheckHard(r)
  <2>1. pc[r] = "checking" /\ Apart
    BY <1>0, <1>2 DEF CheckHard, Goto
  <2>2. \/ pc'[r] \in {"refused", "waiting"}
        \/ pc'[r] = pc[r] /\ \E k : NextCapped(r, ix[r], k) /\ ix'[r] = k
    BY <1>0, <1>2 DEF CheckHard, Goto
  <2>3. CASE pc'[r] \in {"refused", "waiting"}
    BY <2>1, <2>3 DEF Rank, Reserving
  <2>4. CASE pc'[r] = pc[r] /\ \E k : NextCapped(r, ix[r], k) /\ ix'[r] = k
    <3>1. ix'[r] > ix[r] /\ ix'[r] <= Len(ScopesOf[r])
      BY <1>0, <2>4, LaterScope
    <3> QED
      BY <2>1, <2>4, <3>1 DEF Onward
  <2> QED
    BY <2>2, <2>3, <2>4
<1>3. CASE Acquire(r)
  <2>1. pc[r] = "waiting" /\ pc'[r] \in {"reading", "forwarding"} /\ Apart
    BY <1>0, <1>3 DEF Acquire, Goto
  <2> QED
    BY <2>1 DEF Rank, Reserving
<1>4. CASE ReadSpend(r)
  <2>1. pc[r] = "reading" /\ pc'[r] = "deciding" /\ ix'[r] = ix[r] /\ Apart
    BY <1>0, <1>4 DEF ReadSpend, Goto
  <2> QED
    BY <2>1 DEF Onward
<1>5. CASE Decide(r)
  <2>1. pc[r] = "deciding" /\ Apart
    BY <1>0, <1>5 DEF Decide, Goto
  <2>2. \/ pc'[r] \in {"refused", "forwarding"}
        \/ pc'[r] = "reading" /\ \E k : NextCapped(r, ix[r], k) /\ ix'[r] = k
    BY <1>0, <1>5 DEF Decide, Goto
  <2>3. CASE pc'[r] \in {"refused", "forwarding"}
    BY <2>1, <2>3 DEF Rank, Reserving
  <2>4. CASE pc'[r] = "reading" /\ \E k : NextCapped(r, ix[r], k) /\ ix'[r] = k
    <3>1. ix'[r] > ix[r] /\ ix'[r] <= Len(ScopesOf[r])
      BY <1>0, <2>4, LaterScope
    <3> QED
      BY <2>1, <2>4, <3>1 DEF Onward
  <2> QED
    BY <2>2, <2>3, <2>4
<1>6. CASE Respond(r) \/ Fail(r) \/ CancelForwarding(r)
  <2>1. /\ pc[r] = "forwarding" /\ pc'[r] \in {"settling", "streaming", "done"}
        /\ Apart
    BY <1>0, <1>6 DEF Respond, Fail, CancelForwarding, Goto
  <2> QED
    BY <2>1 DEF Rank, Reserving
<1>7. CASE StreamEnd(r) \/ Abandon(r) \/ StreamLeaks(r)
  <2>1. /\ pc[r] = "streaming" /\ pc'[r] \in {"settling", "detached", "leaked"}
        /\ Apart
    BY <1>0, <1>7 DEF StreamEnd, Abandon, StreamLeaks, Goto
  <2> QED
    BY <2>1 DEF Rank, Reserving
<1>8. CASE Settle(r) \/ SettleFails(r) \/ CancelSettling(r)
  <2>1. /\ pc[r] = "settling" /\ pc'[r] \in {"settled", "detached"}
        /\ Apart
    BY <1>0, <1>8 DEF Settle, SettleFails, CancelSettling, Goto
  <2> QED
    BY <2>1 DEF Rank, Reserving
<1>9. CASE Release(r) \/ LateSettle(r)
  <2>1. /\ pc[r] \in {"settled", "detached"} /\ pc'[r] = "done"
        /\ Apart
    BY <1>0, <1>9 DEF Release, LateSettle, Goto
  <2> QED
    BY <2>1 DEF Rank, Reserving
<1>10. CASE CancelEarly(r)
  <2>1. /\ pc[r] \in {"checking", "waiting"} \cup Reserving /\ pc'[r] = "cancelled"
        /\ Apart
    BY <1>0, <1>10 DEF CancelEarly, Goto
  <2> QED
    BY <2>1 DEF Rank, Reserving
<1> QED
  BY <1>1, <1>2, <1>3, <1>4, <1>5, <1>6, <1>7, <1>8, <1>9, <1>10 DEF Step

LEMMA RestartEnds ==
  ASSUME TypeOK, NEW w \in Workers, Restart(w), NEW r \in Requests
  PROVE  ix'[r] = ix[r] /\ (pc'[r] = pc[r] \/ Rank(pc'[r]) > Rank(pc[r]))
<1>1. ix' = ix /\ (pc'[r] = pc[r] \/ (pc'[r] = "lost" /\ pc[r] \notin Finished))
  BY DEF Restart
<1>2. pc[r] \in Stages
  BY DEF TypeOK
<1>3. pc[r] \notin Finished => Rank(pc[r]) \in 0..7
  BY <1>2 DEF Stages, Rank, Reserving, Finished
<1>4. Rank("lost") = 8
  BY DEF Rank, Reserving
<1> QED
  BY <1>1, <1>3, <1>4

\* For every number of requests, workers and scopes, with cancellations and restarts at any
\* moment: a request has only so many steps before it.  With the fairness of its own steps,
\* which TLC checks, this is why a hold comes to an end.
THEOREM ForwardCorrect == Spec => RequestsGoForward
<1> DEFINE Goes(r) == \/ <<pc'[r], ix'[r]>> = <<pc[r], ix[r]>>
                      \/ Rank(pc'[r]) > Rank(pc[r])
                      \/ Onward(r)
<1>1. ASSUME TypeOK, [Next]_vars PROVE \A r \in Requests : Goes(r)
  <2> SUFFICES ASSUME NEW r \in Requests PROVE Goes(r)
    OBVIOUS
  <2>1. ASSUME NEW q \in Requests, Step(q) PROVE Goes(r)
    BY <1>1, <2>1, RequestStep
  <2>2. ASSUME NEW w \in Workers, Restart(w) PROVE Goes(r)
    BY <1>1, <2>2, RestartEnds
  <2>3. CASE Tick \/ UNCHANGED vars
    BY <2>3 DEF Tick, vars
  <2> HIDE DEF Goes
  <2> QED
    BY <1>1, <2>1, <2>2, <2>3 DEF Next, AllOver
<1> QED
  BY <1>1, TypeCorrect, PTL DEF Spec, RequestsGoForward

LEMMA LockHome == Spec => []LockAtHome
<1>1. Init => LockAtHome
  BY DEF Init, LockAtHome
<1>2. TypeOK /\ LockAtHome /\ [Next]_vars => LockAtHome'
  <2> SUFFICES ASSUME TypeOK, LockAtHome, [Next]_vars PROVE LockAtHome'
    OBVIOUS
  <2>0. lock \in [Workers -> Requests \cup {Free}]
    BY DEF TypeOK
  <2> DEFINE Kept == \A v \in Workers :
                       \/ lock'[v] \in {lock[v], Free}
                       \/ lock'[v] \in Requests /\ WorkerOf[lock'[v]] = v
  <2>1. ASSUME Kept PROVE LockAtHome'
    BY <2>1 DEF LockAtHome
  <2>2. ASSUME NEW r \in Requests, Step(r) PROVE Kept
    <3>1. \/ lock' = lock
          \/ lock' = [lock EXCEPT ![WorkerOf[r]] = Free]
          \/ lock' = [lock EXCEPT ![WorkerOf[r]] = r]
      BY <2>2 DEF Step, Arrive, CheckHard, Acquire, ReadSpend, Decide, Respond, Fail, StreamEnd,
                  Abandon, StreamLeaks, Settle, SettleFails, Release, CancelEarly,
                  CancelForwarding, CancelSettling, LateSettle, Unlock
    <3> QED
      BY <2>0, <3>1
  <2>3. ASSUME NEW w \in Workers, Restart(w) PROVE Kept
    <3>1. lock' = [lock EXCEPT ![w] = Free]
      BY <2>3 DEF Restart
    <3> QED
      BY <2>0, <3>1
  <2>4. ASSUME Tick \/ UNCHANGED vars PROVE Kept
    BY <2>4 DEF Tick, vars
  <2> HIDE DEF Kept
  <2> QED
    BY <2>1, <2>2, <2>3, <2>4 DEF Next, AllOver
<1> QED
  BY <1>1, <1>2, TypeCorrect, PTL DEF Spec

\* With any number of requests in line, some of them cancelled, and any restarts: whoever
\* waits is behind a free lock or behind a request that can move.
THEOREM LineCorrect == Spec => []LineMoves
<1>1. TypeOK /\ LockHeld /\ LockAtHome => LineMoves
  <2> SUFFICES ASSUME TypeOK, LockHeld, LockAtHome, NEW r \in Requests, ~LockFree(r)
               PROVE  \E q \in Requests : WorkerOf[q] = WorkerOf[r] /\ pc[q] \in Reserving
    BY DEF LineMoves
  <2>1. WorkerOf[r] \in Workers
    BY WorkerAssumption
  <2>2. lock[WorkerOf[r]] \in Requests /\ WorkerOf[lock[WorkerOf[r]]] = WorkerOf[r]
    BY <2>1 DEF TypeOK, LockAtHome, LockFree
  <2>3. pc[lock[WorkerOf[r]]] \in Reserving
    BY <2>2 DEF LockHeld
  <2> QED
    BY <2>2, <2>3
<1> QED
  BY <1>1, TypeCorrect, LockCorrect, LockHome, PTL
=============================================================================
