-------------------------- MODULE ToolCallsProofs --------------------------
(***************************************************************************)
(* Proofs about the tool-call pipeline, for every number of attempts, every *)
(* set of policies and ceilings, and every scopes of the callers.          *)
(***************************************************************************)
EXTENDS ToolCalls, NatSumLemmas

\* A call that has not arrived has no approval, asked for or used.
Fresh ==
  \A a \in Attempts :
    stage[a] = "new" => via[a] = NoApproval /\ approval[a].status = "none"

\* The outcome of a call is in its audit row before its cost is recorded, and a
\* call whose cost is recorded writes no other row.
Booked ==
  \A a \in Attempts :
    /\ a \in ledger => stage[a] = "over"
    /\ stage[a] \in {"recording", "late"} =>
         audit[a] # NoRow /\ audit[a].status = "completed"

\* The entry of a's list that holds it against the ceiling b.
Entry(a, b) ==
  \E c \in todo[a] :
    /\ c.limit = ceiling[b].limit /\ c.scope = SeenAs(b, a)
    /\ c.since <= clock - ceiling[b].window

\* A barred call has yet to be held against each ceiling that bars it.
HeldAt(a) ==
  /\ stage[a] \in {"screening", "checking"} => barred[a] \subseteq UsedUp(a)
  /\ stage[a] = "checking" => \A b \in barred[a] : Entry(a, b)
  /\ stage[a] \notin {"screening", "checking"} => barred[a] = {}

Held == \A a \in Attempts : HeldAt(a)

Basis == TypeOK /\ Fresh /\ Booked
IInv == Basis /\ Held

Step(a) ==
  \/ Bounce(a) \/ Deny(a) \/ Allow(a) \/ Consume(a) \/ Ask(a)
  \/ AskWithoutPolicy(a) \/ Locked(a)
  \/ ScreenBlocks(a) \/ Screen(a) \/ CheckCeiling(a)
  \/ \E status \in {"completed", "failed"}, cost \in Costs :
       Finish(a, status, cost)
  \/ Record(a) \/ RecordFails(a) \/ Cancel(a) \/ RecordLate(a)

Admin ==
  \/ \E a \in Attempts, verdict \in {"approved", "rejected"} : Answer(a, verdict)
  \/ ExpireStale
  \/ \E s \in Servers : Register(s) \/ RegisterAgain(s) \/ Retire(s)
  \/ \E p \in PolicySlots :
       DeletePolicy(p) \/ \E e \in Effects : CreatePolicy(p, e)
  \/ \E b \in BudgetSlots :
       DeleteCeiling(b) \/ \E c \in Ceilings : CreateCeiling(b, c)

\* Next, by who takes the step.
LEMMA NextCases ==
  Next <=> (\E a \in Attempts : Step(a)) \/ Admin \/ Tick \/ AllOver
BY DEF Next, Step, Admin

-----------------------------------------------------------------------------
LEMMA Bounds == MaxClock \in Nat /\ TTL \in Nat /\ N \in Nat /\ Costs \subseteq Nat
BY SlotAssumption, CallAssumption

\* Every entry of the list a call is held against is well formed.
LEMMA ChecksType ==
  ASSUME TypeOK, NEW a \in Attempts
  PROVE  Checks(a) \in SUBSET Checklist
<1> SUFFICES ASSUME NEW b \in Matched(a)
             PROVE  [slot |-> b, limit |-> ceiling[b].limit, scope |-> SeenAs(b, a),
                     since |-> clock - ceiling[b].window] \in Checklist
  BY DEF Checks
<1>1. b \in BudgetSlots /\ ceiling[b] \in [limit : Nat, window : Nat]
  BY SlotAssumption DEF Matched, TypeOK
<1> DEFINE S == Call[a].scopes
           K == [kind : Kinds, key : STRING]
<1>2. S # <<>> /\ S \in Seq(K)
  BY CallAssumption DEF Matched
<1> HIDE DEF K
<1>2a. Len(S) \in Nat \ {0} /\ \A i \in 1..Len(S) : S[i] \in K
  <2> HIDE DEF S
  <2> QED
    BY <1>2
<1>3. SeenAs(b, a) \in K
  <2>1. CASE b.scope.kind = "global"
    <3>1. 1 \in 1..Len(S)
      BY <1>2a
    <3> QED
      BY <1>2a, <2>1, <3>1 DEF SeenAs
  <2>2. CASE b.scope.kind # "global"
    BY <1>2a, <2>2 DEF SeenAs, Matched, InScopes
  <2> QED
    BY <2>1, <2>2
<1>4. clock - ceiling[b].window \in Int
  BY <1>1 DEF TypeOK
<1> QED
  BY <1>1, <1>3, <1>4 DEF Checklist, K

\* Setting the status of an approval keeps the type of the table.
LEMMA ApprovalType ==
  ASSUME TypeOK, NEW r \in Attempts, NEW s \in Answers
  PROVE  [approval EXCEPT ![r].status = s]
           \in [Attempts -> [status : Answers, asked : 0..MaxClock]]
<1> DEFINE T == [status : Answers, asked : 0..MaxClock]
<1>1. approval \in [Attempts -> T]
  BY DEF TypeOK
<1> DEFINE new == [approval EXCEPT ![r].status = s]
<1>2. ASSUME NEW q \in Attempts PROVE new[q] \in T
  <2>1. approval[q] \in T
    BY <1>1
  <2> QED
    BY <1>1, <2>1
<1> QED
  BY <1>1, <1>2

\* Type correctness and the order of the books, for the steps of a call.
LEMMA StepBasis ==
  ASSUME Basis, NEW a \in Attempts, Step(a)
  PROVE  Basis'
<1> USE NullAssumption DEF Basis, admin, Goes
<1>1. CASE Bounce(a)
  BY <1>1 DEF Bounce, TypeOK, Stages, Fresh, Booked, Arrives
<1>2. CASE Deny(a)
  BY <1>2 DEF Deny, WriteRow, Row, Rows, TypeOK, Stages, Fresh, Booked, Arrives
<1>3. CASE Allow(a)
  BY <1>3 DEF Allow, Enter, UsedUp, Matched, TypeOK, Stages, Fresh, Booked, Arrives
<1>4. CASE Consume(a)
  <2>1. PICK r \in Attempts :
          /\ approval' = [approval EXCEPT ![r].status = "consumed"]
          /\ via' = [via EXCEPT ![a] = r]
          /\ approval[r].status = "approved"
    BY <1>4 DEF Consume, Newest, Usable
  <2>2. approval' \in [Attempts -> [status : Answers, asked : 0..MaxClock]]
    BY <2>1, ApprovalType DEF Answers
  <2>3. TypeOK'
    BY <1>4, <2>1, <2>2 DEF Consume, Enter, UsedUp, Matched, TypeOK, Stages
  <2>4. Fresh'
    BY <1>4, <2>1 DEF Consume, Enter, TypeOK, Fresh
  <2>5. Booked'
    BY <1>4 DEF Consume, Enter, NeedsApproval, Arrives, TypeOK, Booked
  <2> QED
    BY <2>3, <2>4, <2>5
<1>5. CASE Ask(a)
  BY <1>5 DEF Ask, NeedsApproval, WriteRow, Row, Rows, TypeOK, Stages, Answers, Fresh, Booked, Arrives
<1>6. CASE AskWithoutPolicy(a)
  BY <1>6 DEF AskWithoutPolicy, NeedsApproval, TypeOK, Stages, Fresh, Booked, Arrives
<1>7. CASE Locked(a)
  BY <1>7 DEF Locked, NeedsApproval, TypeOK, Stages, Fresh, Booked, Arrives
<1>8. ASSUME Block(a), stage[a] \in {"screening", "checking"} PROVE Basis'
  BY <1>8 DEF Block, WriteRow, Row, Rows, TypeOK, Stages, Fresh, Booked
<1>9. ASSUME NEW checks \in SUBSET Checklist, Proceed(a, checks),
             stage[a] \in {"screening", "checking"}
      PROVE  Basis'
  BY <1>9 DEF Proceed, TypeOK, Stages, Fresh, Booked
<1>10. CASE ScreenBlocks(a)
  BY <1>8, <1>10 DEF ScreenBlocks
<1>11. CASE Screen(a)
  BY <1>9, <1>11, ChecksType DEF Screen
<1>12. CASE CheckCeiling(a)
  BY <1>8, <1>9, <1>12 DEF CheckCeiling, TypeOK
<1>13. ASSUME NEW status \in {"completed", "failed"}, NEW cost \in Costs,
              Finish(a, status, cost)
       PROVE  Basis'
  <2> DEFINE d == IF via[a] = NoApproval THEN "allowed" ELSE "approved"
  <2>1. Row(d, status, cost) \in Rows
    BY DEF Row, Rows, TypeOK
  <2>2. Row(d, status, cost) # NoRow
    BY <2>1 DEF Basis
  <2>2a. Row(d, status, cost).status = status
    BY DEF Row
  <2>3. audit' = [audit EXCEPT ![a] = Row(d, status, cost)]
    BY <1>13 DEF Finish, WriteRow
  <2>4. stage' = [stage EXCEPT ![a] = IF status = "completed" THEN "recording" ELSE "over"]
    BY <1>13 DEF Finish
  <2> HIDE DEF d
  <2> QED
    <3>1. /\ stage[a] = "running" /\ stage' \in [Attempts -> Stages]
          /\ audit' \in [Attempts -> Rows \cup {NoRow}]
          /\ open' \in BOOLEAN
          /\ UNCHANGED <<clock, server, policy, ceiling, approval, via, todo, ledger, barred>>
      <4>1. stage[a] = "running" /\ open' \in BOOLEAN
            /\ UNCHANGED <<clock, server, policy, ceiling, approval, via, todo, ledger, barred>>
        BY <1>13 DEF Finish, WriteRow
      <4>2. stage' \in [Attempts -> Stages]
        BY <2>4 DEF TypeOK, Stages
      <4>3. audit' \in [Attempts -> Rows \cup {NoRow}]
        BY <2>1, <2>3 DEF TypeOK
      <4> QED
        BY <4>1, <4>2, <4>3
    <3>2. a \notin ledger
      BY <3>1 DEF Booked
    <3>3. \A i \in ledger : audit'[i] = audit[i]
      BY <2>3, <3>2 DEF TypeOK
    <3>4. TypeOK'
      BY <3>1, <3>3 DEF TypeOK
    <3>5. Fresh'
      BY <2>4, <3>1 DEF Fresh, TypeOK
    <3>6. Booked'
      BY <2>2, <2>2a, <2>3, <2>4, <3>1, <3>2 DEF Booked, TypeOK
    <3> QED
      BY <3>4, <3>5, <3>6
<1>14. CASE Record(a)
  BY <1>14 DEF Record, TypeOK, Stages, Fresh, Booked
<1>15. CASE RecordFails(a)
  BY <1>15 DEF RecordFails, TypeOK, Stages, Fresh, Booked
<1>16. CASE Cancel(a)
  BY <1>16 DEF Cancel, TypeOK, Stages, Fresh, Booked
<1>17. CASE RecordLate(a)
  BY <1>17 DEF RecordLate, TypeOK, Stages, Fresh, Booked
<1> QED
  BY <1>1, <1>2, <1>3, <1>4, <1>5, <1>6, <1>7, <1>10, <1>11, <1>12, <1>13,
     <1>14, <1>15, <1>16, <1>17 DEF Step

\* The same for what administrators and the clock do.
LEMMA AdminBasis ==
  ASSUME Basis, Admin \/ Tick \/ AllOver \/ UNCHANGED vars
  PROVE  Basis'
<1> USE NullAssumption DEF Basis, admin, idle
<1>1. ASSUME NEW a \in Attempts, NEW verdict \in {"approved", "rejected"},
             Answer(a, verdict)
      PROVE  Basis'
  <2>1. approval' \in [Attempts -> [status : Answers, asked : 0..MaxClock]]
    BY <1>1, ApprovalType DEF Answer, Answers
  <2> QED
    BY <1>1, <2>1 DEF Answer, TypeOK, Fresh, Booked
<1>2. CASE ExpireStale
  <2>1. ASSUME NEW r \in Attempts
        PROVE  /\ approval'[r] \in [status : Answers, asked : 0..MaxClock]
               /\ approval[r].status = "none" => approval'[r].status = "none"
    BY <1>2, <2>1 DEF ExpireStale, TypeOK, Answers
  <2>2. approval' \in [Attempts -> [status : Answers, asked : 0..MaxClock]]
    BY <1>2, <2>1 DEF ExpireStale
  <2> QED
    BY <1>2, <2>1, <2>2 DEF ExpireStale, TypeOK, Fresh, Booked
<1>3. ASSUME NEW s \in Servers, Register(s) \/ RegisterAgain(s) \/ Retire(s)
      PROVE  Basis'
  BY <1>3 DEF Register, RegisterAgain, Retire, TypeOK, Fresh, Booked
<1>4. ASSUME NEW p \in PolicySlots,
             DeletePolicy(p) \/ \E e \in Effects : CreatePolicy(p, e)
      PROVE  Basis'
  <2>1. policy' \in [PolicySlots -> Effects \cup {NoPolicy}]
    BY <1>4 DEF DeletePolicy, CreatePolicy, TypeOK
  <2>2. UNCHANGED <<idle, server, ceiling, barred>> /\ open' \in BOOLEAN
    BY <1>4 DEF DeletePolicy, CreatePolicy
  <2> QED
    BY <2>1, <2>2 DEF TypeOK, Fresh, Booked
<1>5. ASSUME NEW b \in BudgetSlots,
             DeleteCeiling(b) \/ \E c \in Ceilings : CreateCeiling(b, c)
      PROVE  Basis'
  <2>1. ceiling' \in [BudgetSlots -> Ceilings \cup {NoCeiling}]
    BY <1>5 DEF DeleteCeiling, CreateCeiling, TypeOK
  <2>2. barred' \in [Attempts -> SUBSET BudgetSlots]
    BY <1>5 DEF DeleteCeiling, CreateCeiling, TypeOK
  <2>3. UNCHANGED <<idle, server, policy>> /\ open' \in BOOLEAN
    BY <1>5 DEF DeleteCeiling, CreateCeiling
  <2> QED
    BY <2>1, <2>2, <2>3 DEF TypeOK, Fresh, Booked
<1>6. CASE Tick
  BY <1>6, SlotAssumption DEF Tick, TypeOK, Fresh, Booked
<1>7. CASE UNCHANGED vars
  BY <1>7 DEF vars, TypeOK, Fresh, Booked
<1> QED
  BY <1>1, <1>2, <1>3, <1>4, <1>5, <1>6, <1>7 DEF Admin, AllOver

LEMMA InitBasis == Init => Basis
<1> SUFFICES ASSUME Init PROVE Basis
  OBVIOUS
<1>1. TypeOK
  <2>0. 0 \in 0..MaxClock
    BY Bounds
  <2>1. clock = 0 /\ open \in BOOLEAN /\ ledger = {}
    BY DEF Init
  <2>2. /\ server \in [Servers -> {"absent", "active", "retired"}]
        /\ policy \in [PolicySlots -> Effects \cup {NoPolicy}]
        /\ ceiling \in [BudgetSlots -> Ceilings \cup {NoCeiling}]
    BY DEF Init
  <2>3. /\ stage \in [Attempts -> Stages]
        /\ via \in [Attempts -> Attempts \cup {NoApproval}]
        /\ todo \in [Attempts -> SUBSET Checklist]
        /\ audit \in [Attempts -> Rows \cup {NoRow}]
        /\ barred \in [Attempts -> SUBSET BudgetSlots]
    BY DEF Init, Stages
  <2>4. approval \in [Attempts -> [status : Answers, asked : 0..MaxClock]]
    BY Bounds DEF Init, Answers
  <2> QED
    BY <2>0, <2>1, <2>2, <2>3, <2>4 DEF TypeOK
<1>2. Fresh /\ Booked
  BY DEF Init, Fresh, Booked
<1> QED
  BY <1>1, <1>2 DEF Basis

LEMMA BasisHolds == Spec => []Basis
<1>1. Basis /\ [Next]_vars => Basis'
  BY StepBasis, AdminBasis, NextCases
<1> QED
  BY <1>1, InitBasis, PTL DEF Spec

\* The shape of the state (TypeOK).
THEOREM TypeCorrect == Spec => []TypeOK
<1>1. Basis => TypeOK
  BY DEF Basis
<1> QED
  BY <1>1, BasisHolds, PTL

\* No cost without an outcome (CostsWereCompleted), for any calls, ceilings and policies.
THEOREM CostsCorrect == Spec => []CostsWereCompleted
<1>1. TypeOK => CostsWereCompleted
  BY DEF TypeOK, CostsWereCompleted
<1> QED
  BY <1>1, TypeCorrect, PTL

-----------------------------------------------------------------------------
(* Ceilings *)

\* Spend, of a ledger and an audit log.
Total(a, s, since, booked, rows) ==
  Sum([i \in Attempts |->
         IF /\ i \in booked /\ Charged(i, s)
            /\ ToolOf(i) = ToolOf(a) /\ rows[i].at >= since
         THEN rows[i].cost ELSE 0], N)

\* What a row costs and when it was written are natural numbers.
LEMMA RowNumbers ==
  ASSUME NEW r \in Rows
  PROVE  r.cost \in Nat /\ r.at \in Nat
<1>1. r.cost \in Costs \cup {0} /\ r.at \in 0..MaxClock
  BY DEF Rows
<1>2. Costs \cup {0} \subseteq Nat
  BY Bounds
<1>3. 0..MaxClock \subseteq Nat
  BY Bounds
<1> QED
  BY <1>1, <1>2, <1>3

\* Spend grows with the ledger, and the further back it reaches.
LEMMA TotalGrows ==
  ASSUME NEW a, NEW s, NEW t \in Int, NEW u \in Int, u <= t,
         NEW booked, NEW more, booked \subseteq more,
         NEW rows, NEW rows2, \A i \in booked : rows2[i] = rows[i],
         \A i \in more : rows2[i] \in Rows
  PROVE  /\ Total(a, s, t, booked, rows) \in Nat
         /\ Total(a, s, u, more, rows2) \in Nat
         /\ Total(a, s, t, booked, rows) <= Total(a, s, u, more, rows2)
<1> DEFINE Mine(i) == Charged(i, s) /\ ToolOf(i) = ToolOf(a)
           h == [i \in Attempts |->
                   IF i \in booked /\ Charged(i, s) /\ ToolOf(i) = ToolOf(a)
                      /\ rows[i].at >= t
                   THEN rows[i].cost ELSE 0]
           f == [i \in Attempts |->
                   IF i \in more /\ Charged(i, s) /\ ToolOf(i) = ToolOf(a)
                      /\ rows2[i].at >= u
                   THEN rows2[i].cost ELSE 0]
<1>1. \A i \in more : rows2[i].cost \in Nat /\ rows2[i].at \in Nat
  BY RowNumbers
<1>2. ASSUME NEW i \in 1..N PROVE f[i] \in Nat /\ h[i] \in Nat /\ h[i] <= f[i]
  <2>1. i \in Attempts
    BY DEF Attempts
  <2>2. /\ h[i] = IF i \in booked /\ Mine(i) /\ rows[i].at >= t THEN rows[i].cost ELSE 0
        /\ f[i] = IF i \in more /\ Mine(i) /\ rows2[i].at >= u THEN rows2[i].cost ELSE 0
    BY <2>1
  <2> HIDE DEF h, f, Mine
  <2>3. CASE i \in booked /\ Mine(i) /\ rows[i].at >= t
    <3>1. /\ i \in more /\ rows2[i].at >= u /\ rows2[i].cost \in Nat
          /\ rows[i].cost = rows2[i].cost
      BY <1>1, <2>3
    <3> QED
      BY <2>2, <2>3, <3>1
  <2>4. CASE ~(i \in booked /\ Mine(i) /\ rows[i].at >= t)
    <3>1. h[i] = 0
      BY <2>2, <2>4
    <3>2. f[i] \in Nat
      BY <1>1, <2>2
    <3> QED
      BY <3>1, <3>2
  <2> QED
    BY <2>3, <2>4
<1>3. Total(a, s, t, booked, rows) = Sum(h, N) /\ Total(a, s, u, more, rows2) = Sum(f, N)
  BY DEF Total
<1> HIDE DEF h, f
<1>4. Sum(h, N) \in Nat /\ Sum(f, N) \in Nat
  <2>1. \A m \in 0..N : Sum(h, m) \in Nat
    BY <1>2, Bounds, SumFacts
  <2>2. \A m \in 0..N : Sum(f, m) \in Nat
    BY <1>2, Bounds, SumFacts
  <2> QED
    BY <2>1, <2>2, Bounds
<1>5. Sum(h, N) <= Sum(f, N)
  BY <1>2, Bounds, SumMonotone
<1> QED
  BY <1>3, <1>4, <1>5

\* The limit and the window of a ceiling that is set.
LEMMA CeilingType ==
  ASSUME TypeOK, NEW a \in Attempts, NEW b \in Matched(a)
  PROVE  /\ b \in BudgetSlots
         /\ ceiling[b].limit \in Nat /\ ceiling[b].window \in Nat
         /\ clock - ceiling[b].window \in Int
<1>1. b \in BudgetSlots /\ ceiling[b] \in [limit : Nat, window : Nat]
  BY SlotAssumption DEF Matched, TypeOK
<1>2. clock \in Int
  BY Bounds DEF TypeOK
<1> QED
  BY <1>1, <1>2

\* A step that only adds to the books.
Adds == ledger \subseteq ledger' /\ \A i \in ledger : audit'[i] = audit[i]

\* A ceiling that is used up remains so while the books only grow.
LEMMA StaysUsedUp ==
  ASSUME TypeOK, TypeOK', Adds, clock' = clock,
         NEW a \in Attempts, NEW b \in UsedUp(a), ceiling'[b] = ceiling[b]
  PROVE  b \in UsedUp(a)'
<1>1. b \in Matched(a)
  BY DEF UsedUp
<1>2. b \in Matched(a)'
  BY <1>1 DEF Matched
<1> DEFINE t == clock - ceiling[b].window
           s == SeenAs(b, a)
<1>3. /\ ceiling[b].limit \in Nat /\ t \in Int
  BY <1>1, CeilingType
<1>4. /\ Total(a, s, t, ledger, audit) \in Nat
      /\ Total(a, s, t, ledger', audit') \in Nat
      /\ Total(a, s, t, ledger, audit) <= Total(a, s, t, ledger', audit')
  <2>1. \A i \in ledger' : audit'[i] \in Rows
    BY DEF TypeOK
  <2> HIDE DEF t, s
  <2> QED
    BY <1>3, <2>1, TotalGrows DEF Adds
<1>5. Total(a, s, t, ledger, audit) >= ceiling[b].limit
  BY DEF UsedUp, Spend, Total
<1>6. Total(a, s, t, ledger', audit') >= ceiling[b].limit
  <2> HIDE DEF t, s
  <2> QED
    BY <1>3, <1>4, <1>5
<1>7. (Spend(a, SeenAs(b, a), clock - ceiling[b].window) >= ceiling[b].limit)'
  BY <1>6 DEF Spend, Total, SeenAs
<1> QED
  BY <1>2, <1>7 DEF UsedUp

\* What a step leaves alone, it leaves held.
LEMMA Steady ==
  ASSUME TypeOK, TypeOK', Adds, clock' = clock,
         NEW a \in Attempts, HeldAt(a),
         barred'[a] \subseteq barred[a], todo'[a] = todo[a], stage'[a] = stage[a],
         \A b \in barred'[a] : ceiling'[b] = ceiling[b]
  PROVE  HeldAt(a)'
<1>1. stage[a] \in {"screening", "checking"} => barred'[a] \subseteq UsedUp(a)'
  BY StaysUsedUp DEF HeldAt
<1>2. ASSUME stage[a] = "checking", NEW b \in barred'[a] PROVE Entry(a, b)'
  <2>1. Entry(a, b) /\ ceiling'[b] = ceiling[b]
    BY <1>2 DEF HeldAt
  <2> QED
    BY <2>1 DEF Entry, SeenAs
<1> QED
  BY <1>1, <1>2 DEF HeldAt

\* A ceiling that is used up stops the check that looks at least as far back.
LEMMA ReachedSooner ==
  ASSUME TypeOK, NEW a \in Attempts, NEW b \in UsedUp(a), NEW c \in todo[a],
         c.limit = ceiling[b].limit, c.scope = SeenAs(b, a),
         c.since <= clock - ceiling[b].window
  PROVE  Reached(a, c)
<1> DEFINE t == clock - ceiling[b].window
           s == SeenAs(b, a)
           u == c.since
<1>1. b \in Matched(a) /\ c \in Checklist
  BY DEF UsedUp, TypeOK
<1>2. u \in Int /\ t \in Int /\ ceiling[b].limit \in Nat
  BY <1>1, CeilingType DEF Checklist
<1>3. u <= t
  OBVIOUS
<1>4. \A i \in ledger : audit[i] \in Rows
  BY DEF TypeOK
<1>5. /\ Total(a, s, t, ledger, audit) \in Nat
      /\ Total(a, s, u, ledger, audit) \in Nat
      /\ Total(a, s, t, ledger, audit) <= Total(a, s, u, ledger, audit)
  <2> HIDE DEF t, s, u
  <2> QED
    BY <1>2, <1>3, <1>4, TotalGrows
<1>6. Total(a, s, t, ledger, audit) >= ceiling[b].limit
  BY DEF UsedUp, Spend, Total
<1>7. Total(a, s, u, ledger, audit) >= c.limit
  <2> HIDE DEF t, s, u
  <2> QED
    BY <1>2, <1>5, <1>6
<1> QED
  BY <1>7 DEF Reached, Spend, Total

\* A step of a call leaves the other calls alone, and what is administered.
LEMMA StepFrame ==
  ASSUME TypeOK, NEW a \in Attempts, Step(a)
  PROVE  /\ clock' = clock /\ UNCHANGED admin
         /\ \A i \in Attempts : i # a => /\ stage'[i] = stage[i] /\ todo'[i] = todo[i]
                                        /\ barred'[i] = barred[i]
<1> USE DEF Goes
<1>1. CASE Bounce(a) \/ Deny(a)
  BY <1>1 DEF Bounce, Deny, TypeOK
<1>2. CASE Allow(a) \/ Consume(a)
  BY <1>2 DEF Allow, Consume, Enter, TypeOK
<1>3. CASE Ask(a) \/ AskWithoutPolicy(a) \/ Locked(a)
  BY <1>3 DEF Ask, AskWithoutPolicy, Locked, TypeOK
<1>4. CASE ScreenBlocks(a) \/ Screen(a) \/ CheckCeiling(a)
  BY <1>4 DEF ScreenBlocks, Screen, CheckCeiling, Block, Proceed, TypeOK
<1>5. CASE \E status \in {"completed", "failed"}, cost \in Costs :
             Finish(a, status, cost)
  BY <1>5 DEF Finish, TypeOK
<1>6. CASE Record(a) \/ RecordFails(a) \/ Cancel(a) \/ RecordLate(a)
  BY <1>6 DEF Record, RecordFails, Cancel, RecordLate, TypeOK
<1> QED
  BY <1>1, <1>2, <1>3, <1>4, <1>5, <1>6 DEF Step

\* The steps of a call.
LEMMA StepHeld ==
  ASSUME IInv, TypeOK', NEW a \in Attempts, Step(a)
  PROVE  Held'
<1> USE DEF IInv, Basis
<1>1. /\ clock' = clock /\ UNCHANGED admin
      /\ \A i \in Attempts : i # a => /\ stage'[i] = stage[i] /\ todo'[i] = todo[i]
                                     /\ barred'[i] = barred[i]
  BY StepFrame
<1>2. Adds
  <2>1. CASE audit' = audit /\ ledger \subseteq ledger'
    BY <2>1 DEF Adds
  <2>2. ASSUME NEW row, WriteRow(a, row), ledger' = ledger, stage[a] # "over"
        PROVE  Adds
    <3>1. a \notin ledger
      BY <2>2 DEF Booked
    <3> QED
      BY <2>2, <3>1 DEF WriteRow, Adds, TypeOK
  <2>3. CASE Deny(a) \/ Ask(a)
    BY <2>2, <2>3 DEF Deny, Ask, NeedsApproval, Arrives
  <2>4. CASE ScreenBlocks(a) \/ Screen(a) \/ CheckCeiling(a)
    BY <2>1, <2>2, <2>4 DEF ScreenBlocks, Screen, CheckCeiling, Block, Proceed
  <2>5. CASE \E status \in {"completed", "failed"}, cost \in Costs :
               Finish(a, status, cost)
    BY <2>2, <2>5 DEF Finish
  <2>6. CASE Bounce(a) \/ Allow(a) \/ Consume(a) \/ AskWithoutPolicy(a) \/ Locked(a)
    BY <2>1, <2>6 DEF Bounce, Allow, Consume, Enter, AskWithoutPolicy, Locked
  <2>7. CASE Record(a) \/ RecordFails(a) \/ Cancel(a) \/ RecordLate(a)
    BY <2>1, <2>7 DEF Record, RecordFails, Cancel, RecordLate
  <2> QED
    BY <2>3, <2>4, <2>5, <2>6, <2>7 DEF Step
<1>3. ASSUME NEW i \in Attempts, i # a PROVE HeldAt(i)'
  <2>1. HeldAt(i) /\ \A b \in barred'[i] : ceiling'[b] = ceiling[b]
    BY <1>1 DEF Held, admin
  <2> QED
    BY <1>1, <1>2, <1>3, <2>1, Steady
<1>4. HeldAt(a)'
  <2> USE DEF Goes
  <2>1. CASE stage'[a] \in {"over", "recording", "late"} /\ barred'[a] = {}
    BY <2>1 DEF HeldAt
  <2>2. CASE Allow(a) \/ Consume(a)
    <3>1. /\ stage'[a] = "screening" /\ barred'[a] = UsedUp(a)
      BY <2>2 DEF Allow, Consume, Enter, TypeOK
    <3>2. UsedUp(a) \subseteq UsedUp(a)'
      BY <1>1, <1>2, StaysUsedUp DEF admin
    <3> QED
      BY <3>1, <3>2 DEF HeldAt
  <2>3. ASSUME NEW checks, Proceed(a, checks), stage[a] \in {"screening", "checking"},
               \A b \in barred[a] : \E c \in checks :
                 /\ c.limit = ceiling[b].limit /\ c.scope = SeenAs(b, a)
                 /\ c.since <= clock - ceiling[b].window
        PROVE  HeldAt(a)'
    <3>1. /\ todo'[a] = checks /\ barred'[a] = barred[a]
          /\ stage'[a] = IF checks = {} THEN "running" ELSE "checking"
          /\ ceiling' = ceiling
      BY <2>3 DEF Proceed, TypeOK, admin
    <3>2. barred[a] \subseteq UsedUp(a)'
      BY <1>1, <1>2, <2>3, StaysUsedUp DEF Held, HeldAt, admin
    <3>3. \A b \in barred'[a] : Entry(a, b)'
      BY <1>1, <2>3, <3>1 DEF Entry, SeenAs
    <3> QED
      BY <2>3, <3>1, <3>2, <3>3 DEF HeldAt
  <2>4. CASE Screen(a)
    <3>1. ASSUME NEW b \in barred[a]
          PROVE  \E c \in Checks(a) :
                   /\ c.limit = ceiling[b].limit /\ c.scope = SeenAs(b, a)
                   /\ c.since <= clock - ceiling[b].window
      <4>1. b \in Matched(a)
        BY <2>4 DEF Screen, Held, HeldAt, UsedUp
      <4>2. clock - ceiling[b].window \in Int
        BY <4>1, CeilingType
      <4> DEFINE c == [slot |-> b, limit |-> ceiling[b].limit, scope |-> SeenAs(b, a),
                       since |-> clock - ceiling[b].window]
      <4>3. c \in Checks(a)
        BY <4>1 DEF Checks
      <4>4. c.limit = ceiling[b].limit /\ c.scope = SeenAs(b, a)
            /\ c.since <= clock - ceiling[b].window
        BY <4>2
      <4> QED
        BY <4>3, <4>4
    <3> QED
      BY <2>3, <2>4, <3>1 DEF Screen
  <2>5. CASE CheckCeiling(a)
    <3>1. PICK c \in todo[a] : IF Reached(a, c) THEN Block(a) ELSE Proceed(a, todo[a] \ {c})
      BY <2>5 DEF CheckCeiling
    <3>2. CASE Reached(a, c)
      BY <2>1, <3>1, <3>2 DEF Block, TypeOK
    <3>3. CASE ~Reached(a, c)
      <4>1. ASSUME NEW b \in barred[a]
            PROVE  \E d \in todo[a] \ {c} :
                     /\ d.limit = ceiling[b].limit /\ d.scope = SeenAs(b, a)
                     /\ d.since <= clock - ceiling[b].window
        <5>1. PICK d \in todo[a] :
                /\ d.limit = ceiling[b].limit /\ d.scope = SeenAs(b, a)
                /\ d.since <= clock - ceiling[b].window
          BY <2>5 DEF CheckCeiling, Held, HeldAt, Entry
        <5>2. b \in UsedUp(a)
          BY <2>5 DEF CheckCeiling, Held, HeldAt
        <5>3. Reached(a, d)
          BY <5>1, <5>2, ReachedSooner
        <5> QED
          BY <3>3, <5>1, <5>3
      <4> QED
        BY <2>3, <2>5, <3>1, <3>3, <4>1 DEF CheckCeiling
    <3> QED
      BY <3>2, <3>3
  <2>6. CASE Bounce(a) \/ Deny(a) \/ Ask(a) \/ AskWithoutPolicy(a) \/ Locked(a)
             \/ ScreenBlocks(a)
    BY <2>1, <2>6 DEF Bounce, Deny, Ask, AskWithoutPolicy, Locked, NeedsApproval,
                      Arrives, ScreenBlocks, Block, TypeOK, Held, HeldAt
  <2>7. CASE \/ \E status \in {"completed", "failed"}, cost \in Costs :
                  Finish(a, status, cost)
             \/ Record(a) \/ RecordFails(a) \/ Cancel(a) \/ RecordLate(a)
    BY <2>1, <2>7 DEF Finish, Record, RecordFails, Cancel, RecordLate, TypeOK,
                      Held, HeldAt
  <2> QED
    BY <2>2, <2>4, <2>5, <2>6, <2>7 DEF Step
<1> QED
  BY <1>3, <1>4 DEF Held

\* The steps of administrators and of the clock.
LEMMA AdminHeld ==
  ASSUME IInv, TypeOK', Admin \/ Tick \/ AllOver \/ UNCHANGED vars
  PROVE  Held'
<1> USE DEF IInv, Basis, Held
<1>1. CASE Admin
  <2>1. /\ UNCHANGED <<clock, stage, todo, audit, ledger>>
        /\ \A i \in Attempts :
             /\ barred'[i] \subseteq barred[i]
             /\ \A b \in barred'[i] : ceiling'[b] = ceiling[b]
    <3> USE DEF admin, idle
    <3>1. ASSUME NEW r \in Attempts, NEW v, Answer(r, v) PROVE <2>1!:
      BY <3>1 DEF Answer
    <3>2. CASE ExpireStale
      BY <3>2 DEF ExpireStale
    <3>3. ASSUME NEW s \in Servers, Register(s) \/ RegisterAgain(s) \/ Retire(s)
          PROVE  <2>1!:
      BY <3>3 DEF Register, RegisterAgain, Retire
    <3>4. ASSUME NEW p \in PolicySlots,
                 DeletePolicy(p) \/ \E e \in Effects : CreatePolicy(p, e)
          PROVE  <2>1!:
      BY <3>4 DEF DeletePolicy, CreatePolicy
    <3>5. ASSUME NEW b \in BudgetSlots, DeleteCeiling(b) PROVE <2>1!:
      BY <3>5 DEF DeleteCeiling, TypeOK
    <3>6. ASSUME NEW b \in BudgetSlots, NEW c \in Ceilings, CreateCeiling(b, c)
          PROVE  <2>1!:
      <4>1. ASSUME NEW i \in Attempts PROVE b \notin barred[i]
        BY <3>6 DEF CreateCeiling, HeldAt, UsedUp, Matched
      <4> QED
        BY <3>6, <4>1 DEF CreateCeiling, TypeOK
    <3> QED
      BY <1>1, <3>1, <3>2, <3>3, <3>4, <3>5, <3>6 DEF Admin
  <2> QED
    BY <2>1, Steady DEF Adds
<1>2. CASE Tick
  <2> SUFFICES ASSUME NEW a \in Attempts PROVE HeldAt(a)'
    OBVIOUS
  <2>1. /\ clock' = clock + 1 /\ clock \in Int
        /\ UNCHANGED <<ceiling, stage, todo>>
        /\ barred'[a] = barred[a] \cap UsedUp(a)'
    BY <1>2, Bounds DEF Tick, admin, TypeOK
  <2>2. ASSUME stage[a] = "checking", NEW b \in barred'[a] PROVE Entry(a, b)'
    <3>1. PICK c \in todo[a] :
            /\ c.limit = ceiling[b].limit /\ c.scope = SeenAs(b, a)
            /\ c.since <= clock - ceiling[b].window
      BY <2>1, <2>2 DEF HeldAt, Entry
    <3>2. b \in Matched(a) /\ c \in Checklist
      BY <2>1, <2>2 DEF HeldAt, UsedUp, TypeOK
    <3>3. c.since \in Int /\ ceiling[b].window \in Nat
      BY <3>2, CeilingType DEF Checklist
    <3>4. c.since <= clock' - ceiling[b].window
      BY <2>1, <3>1, <3>3
    <3> QED
      BY <2>1, <3>1, <3>4 DEF Entry, SeenAs
  <2> QED
    BY <2>1, <2>2 DEF HeldAt
<1>3. CASE AllOver \/ UNCHANGED vars
  BY <1>3, Steady DEF AllOver, vars, Adds
<1> QED
  BY <1>1, <1>2, <1>3

LEMMA IInvHolds == Spec => []IInv
<1>1. Init => IInv
  BY InitBasis DEF IInv, Init, Held, HeldAt
<1>2. IInv /\ [Next]_vars => IInv'
  <2> SUFFICES ASSUME IInv, [Next]_vars PROVE IInv'
    OBVIOUS
  <2>1. Basis'
    BY StepBasis, AdminBasis, NextCases DEF IInv
  <2>2. Held'
    BY <2>1, StepHeld, AdminHeld, NextCases DEF Basis
  <2> QED
    BY <2>1, <2>2 DEF IInv
<1> QED
  BY <1>1, <1>2, PTL DEF Spec

\* No call runs past a ceiling that was used up when it arrived and has been
\* since (ToolBudgetService.check).
THEOREM CeilingCorrect == Spec => []NoStartAtCeiling
<1>1. IInv => NoStartAtCeiling
  BY DEF IInv, Held, HeldAt, NoStartAtCeiling
<1> QED
  BY <1>1, IInvHolds, PTL

-----------------------------------------------------------------------------
(* Policies *)

\* Ranks are small, so that the score orders by the scope and then the selector.
LEMMA RankBounds ==
  ASSUME NEW p \in PolicySlots
  PROVE  /\ ScopeRank(p) \in 0..3 /\ ToolRank(p) \in 1..3
         /\ Score(p) = ScopeRank(p) * 10 + ToolRank(p)
<1>1. p.scope.kind \in Kinds
  BY SlotAssumption
<1>2. ScopeRank(p) \in 0..3
  BY <1>1 DEF ScopeRank, Kinds
<1>3. ToolRank(p) \in 1..3
  BY DEF ToolRank
<1> QED
  BY <1>2, <1>3 DEF Score

LEMMA ScoreOrder ==
  ASSUME NEW p \in PolicySlots, NEW q \in PolicySlots, Score(q) > Score(p)
  PROVE  Above(q, p)
<1> DEFINE sp == ScopeRank(p)
           sq == ScopeRank(q)
           tp == ToolRank(p)
           tq == ToolRank(q)
<1>1. /\ sp \in 0..3 /\ sq \in 0..3 /\ tp \in 1..3 /\ tq \in 1..3
      /\ sq * 10 + tq > sp * 10 + tp
  BY RankBounds
<1> HIDE DEF sp, sq, tp, tq
<1>2. sq > sp \/ (sq = sp /\ tq > tp)
  BY <1>1
<1> QED
  BY <1>2 DEF Above, sp, sq, tp, tq

\* The decision is the strictest effect among the winners, of which there are some.
LEMMA DecisionLeast ==
  ASSUME TypeOK, NEW a \in Attempts, Candidates(a) # {}
  PROVE  /\ Winners(a) # {}
         /\ Decision(a) \in {policy[p] : p \in Winners(a)}
         /\ \A p \in Winners(a) : Precedence(Decision(a)) <= Precedence(policy[p])
<1>1. \A p \in Candidates(a) : Score(p) \in 0..33
  <2> TAKE p \in Candidates(a)
  <2>1. ScopeRank(p) \in 0..3 /\ ToolRank(p) \in 1..3
        /\ Score(p) = ScopeRank(p) * 10 + ToolRank(p)
    BY RankBounds DEF Candidates
  <2> QED
    BY <2>1
<1>2. Winners(a) # {}
  <2> DEFINE Gaps == {33 - Score(p) : p \in Candidates(a)}
  <2>1. Gaps \in SUBSET Nat /\ Gaps # {}
    BY <1>1
  <2>2. PICK m \in Gaps : \A k \in Gaps : m <= k
    <3> HIDE DEF Gaps
    <3> QED
      BY <2>1, LeastNat
  <2>3. PICK p \in Candidates(a) : m = 33 - Score(p)
    BY <2>2
  <2>4. \A q \in Candidates(a) : 33 - Score(p) <= 33 - Score(q)
    BY <2>2, <2>3
  <2>5. \A q \in Candidates(a) : Score(q) <= Score(p)
    BY <1>1, <2>4
  <2> QED
    BY <2>3, <2>5 DEF Winners
<1>3. \A p \in Winners(a) : policy[p] \in Effects /\ Precedence(policy[p]) \in Nat
  BY DEF Winners, Candidates, TypeOK, Effects, Precedence
<1> DEFINE Won == {policy[p] : p \in Winners(a)}
<1>4. \E e \in Won : \A p \in Winners(a) : Precedence(e) <= Precedence(policy[p])
  <2> DEFINE Ranks == {Precedence(policy[p]) : p \in Winners(a)}
  <2>1. Ranks \in SUBSET Nat /\ Ranks # {}
    BY <1>2, <1>3
  <2>2. PICK m \in Ranks : \A k \in Ranks : m <= k
    <3> HIDE DEF Ranks
    <3> QED
      BY <2>1, LeastNat
  <2> QED
    BY <2>2
<1>5. Decision(a) = CHOOSE e \in Won :
        \A p \in Winners(a) : Precedence(e) <= Precedence(policy[p])
  BY DEF Decision
<1> QED
  BY <1>2, <1>4, <1>5

\* A policy stricter than the decision is overruled by one that is not.
LEMMA Overruled ==
  ASSUME TypeOK, NEW a \in Attempts, NEW p \in Candidates(a),
         Precedence(policy[p]) < Precedence(Decision(a))
  PROVE  \E q \in Candidates(a) :
           Precedence(Decision(a)) <= Precedence(policy[q]) /\ Above(q, p)
<1>1. PICK q \in Winners(a) : Precedence(Decision(a)) <= Precedence(policy[q])
  BY DecisionLeast
<1>2. /\ \A r \in Candidates(a) : Score(r) \in Int
      /\ \A r \in Candidates(a) : r \in PolicySlots
  <2> SUFFICES ASSUME NEW r \in Candidates(a) PROVE Score(r) \in Int /\ r \in PolicySlots
    OBVIOUS
  <2>1. r \in PolicySlots
    BY DEF Candidates
  <2>2. ScopeRank(r) \in 0..3 /\ ToolRank(r) \in 1..3
        /\ Score(r) = ScopeRank(r) * 10 + ToolRank(r)
    BY <2>1, RankBounds
  <2> QED
    BY <2>1, <2>2
<1>3. p \notin Winners(a)
  <2>1. policy[p] \in Effects
    BY DEF Candidates, TypeOK
  <2>2. Decision(a) \in Effects
    BY DecisionLeast DEF Winners, Candidates, TypeOK
  <2>3. Precedence(policy[p]) \in Int /\ Precedence(Decision(a)) \in Int
    BY <2>1, <2>2 DEF Effects, Precedence
  <2> QED
    BY <2>3, DecisionLeast
<1>4. PICK r \in Candidates(a) : ~(Score(r) <= Score(p))
  BY <1>3 DEF Winners
<1>5. q \in Candidates(a) /\ Score(r) <= Score(q)
  BY <1>4 DEF Winners
<1>6. Score(q) > Score(p)
  BY <1>2, <1>4, <1>5
<1> QED
  BY <1>1, <1>2, <1>5, <1>6, ScoreOrder

\* Who gets past the gate got there by Allow or by Consume.
LEMMA PastTheGate ==
  ASSUME Basis, [Next]_vars, NEW a \in Attempts,
         stage[a] = "new", stage'[a] = "screening"
  PROVE  Allow(a) \/ Consume(a)
<1> USE DEF Basis, Goes
<1>1. PICK b \in Attempts : Step(b)
  <2>1. CASE Admin
    BY <2>1 DEF Admin, Answer, ExpireStale, Register, RegisterAgain, Retire, idle,
                DeletePolicy, CreatePolicy, DeleteCeiling, CreateCeiling
  <2>2. CASE Tick \/ AllOver \/ UNCHANGED vars
    BY <2>2 DEF Tick, AllOver, vars
  <2> QED
    BY <2>1, <2>2, NextCases
<1>2. b = a
  BY <1>1, StepFrame
<1>3. ~(Bounce(a) \/ Deny(a) \/ Ask(a) \/ AskWithoutPolicy(a) \/ Locked(a))
  BY DEF Bounce, Deny, Ask, AskWithoutPolicy, Locked, TypeOK
<1>4. ~(ScreenBlocks(a) \/ Screen(a) \/ CheckCeiling(a))
  BY DEF ScreenBlocks, Screen, CheckCeiling
<1>5. ~ \E status \in {"completed", "failed"}, cost \in Costs : Finish(a, status, cost)
  BY DEF Finish
<1>6. ~(Record(a) \/ RecordFails(a) \/ Cancel(a) \/ RecordLate(a))
  BY DEF Record, RecordFails, Cancel, RecordLate
<1> QED
  BY <1>1, <1>2, <1>3, <1>4, <1>5, <1>6 DEF Step

\* A denial, or a demand for approval, is overruled only by a more specific
\* policy that is milder (PolicyEvaluator.decide).
THEOREM PolicyCorrect == Spec => PolicyHonoured
<1>1. ASSUME Basis, [Next]_vars, NEW a \in Attempts,
             stage[a] = "new", stage'[a] = "screening", NEW p \in Candidates(a)
      PROVE  /\ policy[p] = "deny" =>
                  \E q \in Candidates(a) : policy[q] # "deny" /\ Above(q, p)
             /\ policy[p] = "approval" /\ via'[a] = NoApproval =>
                  \E q \in Candidates(a) : policy[q] = "allow" /\ Above(q, p)
  <2>1. \A q \in Candidates(a) : policy[q] \in Effects
    BY <1>1 DEF Basis, TypeOK, Candidates
  <2>2. CASE Allow(a)
    <3>1. Decision(a) = "allow"
      BY <2>2 DEF Allow
    <3>2. ASSUME policy[p] # "allow"
          PROVE  \E q \in Candidates(a) : policy[q] = "allow" /\ Above(q, p)
      <4>1. Precedence(policy[p]) < Precedence(Decision(a))
        BY <2>1, <3>1, <3>2 DEF Effects, Precedence
      <4>2. PICK q \in Candidates(a) :
              Precedence(Decision(a)) <= Precedence(policy[q]) /\ Above(q, p)
        BY <1>1, <4>1, Overruled DEF Basis
      <4>3. policy[q] = "allow"
        BY <2>1, <3>1, <4>2 DEF Effects, Precedence
      <4> QED
        BY <4>2, <4>3
    <3> QED
      BY <3>2
  <2>3. CASE Consume(a)
    <3>1. Decision(a) = "approval"
      BY <2>3 DEF Consume, NeedsApproval
    <3>2. via'[a] # NoApproval
      BY <1>1, <2>3, NullAssumption DEF Consume, Newest, Usable, Basis, TypeOK
    <3>3. ASSUME policy[p] = "deny"
          PROVE  \E q \in Candidates(a) : policy[q] # "deny" /\ Above(q, p)
      <4>1. Precedence(policy[p]) < Precedence(Decision(a))
        BY <3>1, <3>3 DEF Precedence
      <4>2. PICK q \in Candidates(a) :
              Precedence(Decision(a)) <= Precedence(policy[q]) /\ Above(q, p)
        BY <1>1, <4>1, Overruled DEF Basis
      <4>3. policy[q] # "deny"
        BY <2>1, <3>1, <4>2 DEF Effects, Precedence
      <4> QED
        BY <4>2, <4>3
    <3> QED
      BY <3>2, <3>3
  <2> QED
    BY <1>1, <2>2, <2>3, PastTheGate
<1>2. Basis /\ [Next]_vars =>
        [\A a \in Attempts : stage[a] = "new" /\ stage'[a] = "screening" =>
           \A p \in Candidates(a) :
             /\ policy[p] = "deny" =>
                  \E q \in Candidates(a) : policy[q] # "deny" /\ Above(q, p)
             /\ policy[p] = "approval" /\ via'[a] = NoApproval =>
                  \E q \in Candidates(a) : policy[q] = "allow" /\ Above(q, p)]_vars
  BY <1>1
<1> QED
  BY <1>2, BasisHolds, PTL DEF Spec, PolicyHonoured

-----------------------------------------------------------------------------
(* Approvals *)

\* The pipeline implements the one-time permit: what an approval is good for.
THEOREM OneTimeCorrect == Spec => OneTime
<1>1. Init => Permit!Init
  BY DEF Init, Permit!Init
<1>2. Basis /\ [Next]_vars => [Permit!Next]_(Permit!vars)
  <2> SUFFICES ASSUME Basis, [Next]_vars PROVE [Permit!Next]_(Permit!vars)
    OBVIOUS
  <2> USE DEF Permit!vars, admin, idle
  <2>1. ASSUME NEW a \in Attempts, Consume(a) PROVE Permit!Next
    <3>1. PICK r \in Attempts :
            /\ SameCall(r, a) /\ approval[r].status = "approved"
            /\ clock <= approval[r].asked + TTL
            /\ approval' = [approval EXCEPT ![r].status = "consumed"]
            /\ via' = [via EXCEPT ![a] = r]
      BY <2>1 DEF Consume, Newest, Usable
    <3>2. via[a] = NoApproval /\ approval[a].status = "none" /\ clock' = clock
      BY <2>1 DEF Consume, NeedsApproval, Arrives, Enter, Basis, Fresh
    <3>3. Permit!Use(a, r)
      BY <3>1, <3>2 DEF Permit!Use, Permit!Becomes
    <3> QED
      BY <3>3 DEF Permit!Next
  <2>2. ASSUME NEW a \in Attempts, Ask(a) PROVE Permit!Next
    <3>1. via[a] = NoApproval /\ approval[a].status = "none"
      BY <2>2 DEF Ask, NeedsApproval, Arrives, Basis, Fresh
    <3>2. Permit!Ask(a)
      BY <2>2, <3>1 DEF Ask, Permit!Ask
    <3> QED
      BY <3>2 DEF Permit!Next
  <2>3. ASSUME NEW a \in Attempts, Step(a), ~Consume(a), ~Ask(a)
        PROVE  UNCHANGED Permit!vars
    <3>1. CASE Bounce(a) \/ Deny(a) \/ Allow(a) \/ AskWithoutPolicy(a) \/ Locked(a)
      BY <3>1 DEF Bounce, Deny, Allow, Enter, AskWithoutPolicy, Locked
    <3>2. CASE ScreenBlocks(a) \/ Screen(a) \/ CheckCeiling(a)
      BY <3>2 DEF ScreenBlocks, Screen, CheckCeiling, Block, Proceed
    <3>3. CASE \E status \in {"completed", "failed"}, cost \in Costs :
                 Finish(a, status, cost)
      BY <3>3 DEF Finish
    <3>4. CASE Record(a) \/ RecordFails(a) \/ Cancel(a) \/ RecordLate(a)
      BY <3>4 DEF Record, RecordFails, Cancel, RecordLate
    <3> QED
      BY <2>3, <3>1, <3>2, <3>3, <3>4 DEF Step
  <2>4. ASSUME NEW r \in Attempts, NEW v \in {"approved", "rejected"}, Answer(r, v)
        PROVE  Permit!Next
    <3>1. Permit!Answer(r)
      BY <2>4 DEF Answer, Permit!Answer, Permit!Becomes
    <3> QED
      BY <3>1 DEF Permit!Next
  <2>5. ASSUME ExpireStale PROVE Permit!Next
    BY <2>5 DEF ExpireStale, Permit!Lapse, Permit!Next
  <2>6. CASE Admin
    <3>1. ASSUME NEW s \in Servers, Register(s) \/ RegisterAgain(s) \/ Retire(s)
          PROVE  UNCHANGED Permit!vars
      BY <3>1 DEF Register, RegisterAgain, Retire
    <3>2. ASSUME NEW p, DeletePolicy(p) \/ \E e \in Effects : CreatePolicy(p, e)
          PROVE  UNCHANGED Permit!vars
      BY <3>2 DEF DeletePolicy, CreatePolicy
    <3>3. ASSUME NEW b, DeleteCeiling(b) \/ \E c \in Ceilings : CreateCeiling(b, c)
          PROVE  UNCHANGED Permit!vars
      BY <3>3 DEF DeleteCeiling, CreateCeiling
    <3> QED
      BY <2>4, <2>5, <2>6, <3>1, <3>2, <3>3 DEF Admin
  <2>7. CASE Tick
    BY <2>7 DEF Tick, Permit!Tick, Permit!Next
  <2>8. CASE AllOver \/ UNCHANGED vars
    BY <2>8 DEF AllOver, vars
  <2> QED
    BY <2>1, <2>2, <2>3, <2>6, <2>7, <2>8, NextCases
<1> QED
  BY <1>1, <1>2, BasisHolds, PTL DEF Spec, OneTime, Permit!Spec
=============================================================================
