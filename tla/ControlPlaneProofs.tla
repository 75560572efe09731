----------------------------- MODULE ControlPlaneProofs -----------------------------
(***************************************************************************)
(* Theorems about what the console administers: virtual keys, the          *)
(* reservations they spend, the deployments a key is sent to, and the      *)
(* rotations and budgets of the feature suites. The components share       *)
(* nothing: each part below has an inductive invariant and theorems of its *)
(* own.                                                                    *)
(***************************************************************************)
EXTENDS VirtualKeys, Reservations, Deployments, Extensions,
        NatSumLemmas, SequenceTheorems

-----------------------------------------------------------------------------
(* VirtualKeys. Theorems about the virtual keys, for any number of tenants, tokens
   and keys. One invariant carries them: the types, that tokens were answered with
   keys of their tenant, and that rotations stay within a tenant. *)

KeyInv == KeyTypeOK /\ AnsweredOnce /\ HeirsStayHome

-----------------------------------------------------------------------------
\* A row inserted after the others leaves theirs alone.
LEMMA InsertedRow ==
  ASSUME KeyTypeOK, NEW STATE table, table \in [KeyIds -> KeyRow \cup {NoKey}],
         \A j \in KeyIds : table[j] = NoKey <=> j > issued,
         NEW t \in Tenants, NEW e \in Nat, NEW i \in Tokens \cup {NoToken},
         NEW old \in 1..issued \cup {NoKey},
         InsertKey(table, t, e, i, old)
  PROVE  LET n == issued + 1 IN
         /\ n \in KeyIds /\ issued' = n /\ issued' \in 0..MaxKeys
         /\ key' \in [KeyIds -> KeyRow \cup {NoKey}]
         /\ key'[n] # NoKey /\ key'[n].tenant = t
         /\ \A j \in KeyIds : j # n => key'[j] = table[j]
         /\ \A j \in KeyIds : key'[j] = NoKey <=> j > issued'
         /\ origin' \in [KeyIds -> Tokens \cup {NoToken}]
         /\ origin'[n] = i /\ \A j \in KeyIds : j # n => origin'[j] = origin[j]
         /\ parent' \in [KeyIds -> 1..issued' \cup {NoKey}]
         /\ parent'[n] = old /\ \A j \in KeyIds : j # n => parent'[j] = parent[j]
<1> DEFINE n == issued + 1
           row == [tenant |-> t, status |-> "active", expires |-> e, overlap |-> 0]
<1>1. n \in KeyIds /\ issued' = n /\ issued' \in 0..MaxKeys
  BY KeyAssumption DEF InsertKey, KeyTypeOK, KeyIds
<1>2. row \in KeyRow /\ row # NoKey /\ row.tenant = t
  <2>1. row \in KeyRow
    BY DEF KeyRow
  <2> QED
    BY <2>1, RowAssumption
<1>3. key' = [table EXCEPT ![n] = row]
  BY DEF InsertKey
<1>4. key' \in [KeyIds -> KeyRow \cup {NoKey}]
  <2> HIDE DEF row
  <2> QED
    BY <1>1, <1>2, <1>3
<1>5. key'[n] = row /\ \A j \in KeyIds : j # n => key'[j] = table[j]
  <2> HIDE DEF row
  <2> QED
    BY <1>1, <1>3
<1>6. \A j \in KeyIds : key'[j] = NoKey <=> j > issued'
  <2> TAKE j \in KeyIds
  <2>1. j \in Nat /\ issued \in Nat
    BY KeyAssumption DEF KeyTypeOK, KeyIds
  <2>2. CASE j = n
    BY <2>1, <2>2, <1>1, <1>2, <1>5
  <2>3. CASE j # n
    <3>1. key'[j] = table[j] /\ (table[j] = NoKey <=> j > issued)
      BY <2>3, <1>5
    <3>2. j > issued <=> j > issued'
      BY <2>1, <2>3, <1>1
    <3> QED
      BY <3>1, <3>2
  <2> QED
    BY <2>2, <2>3
<1>7. origin' = [origin EXCEPT ![n] = i] /\ parent' = [parent EXCEPT ![n] = old]
  BY DEF InsertKey
<1>8. /\ origin' \in [KeyIds -> Tokens \cup {NoToken}]
      /\ origin'[n] = i /\ \A j \in KeyIds : j # n => origin'[j] = origin[j]
  BY <1>1, <1>7 DEF KeyTypeOK
<1>9. 1..issued \subseteq 1..issued'
  BY <1>1 DEF KeyTypeOK
<1>10. /\ parent' \in [KeyIds -> 1..issued' \cup {NoKey}]
       /\ parent'[n] = old /\ \A j \in KeyIds : j # n => parent'[j] = parent[j]
  BY <1>1, <1>7, <1>9 DEF KeyTypeOK
<1> HIDE DEF row
<1> QED
  BY <1>1, <1>2, <1>4, <1>5, <1>6, <1>8, <1>10

\* Rewriting the overlap or the status of a row keeps its tenant.
LEMMA RewrittenRow ==
  ASSUME KeyTypeOK, NEW k \in 1..issued, NEW row \in KeyRow,
         row.tenant = key[k].tenant
  PROVE  LET table == [key EXCEPT ![k] = row] IN
         /\ table \in [KeyIds -> KeyRow \cup {NoKey}]
         /\ \A j \in KeyIds : table[j] = NoKey <=> j > issued
         /\ \A j \in 1..issued : table[j].tenant = key[j].tenant
<1>1. k \in KeyIds /\ k <= issued /\ 1..issued \subseteq KeyIds
  BY KeyAssumption DEF KeyTypeOK, KeyIds
<1>2. row # NoKey
  BY RowAssumption
<1> QED
  BY <1>1, <1>2 DEF KeyTypeOK

LEMMA OverlappedRow ==
  ASSUME KeyTypeOK, NEW k \in 1..issued, NEW o \in Int
  PROVE  LET table == Overlapped(k, o) IN
         /\ table \in [KeyIds -> KeyRow \cup {NoKey}]
         /\ \A j \in KeyIds : table[j] = NoKey <=> j > issued
         /\ \A j \in 1..issued : table[j].tenant = key[j].tenant
<1> DEFINE row == [key[k] EXCEPT !.overlap = keyClock + Max0(o)]
<1>1. key[k] \in KeyRow
  BY KeyAssumption DEF KeyTypeOK, KeyIds
<1>2. keyClock + Max0(o) \in Nat
  BY DEF KeyTypeOK, Max0
<1>3. row \in KeyRow /\ row.tenant = key[k].tenant
  BY <1>1, <1>2 DEF KeyRow
<1>4. Overlapped(k, o) = [key EXCEPT ![k] = row]
  BY DEF Overlapped
<1> HIDE DEF row
<1> QED
  BY <1>3, <1>4, RewrittenRow

-----------------------------------------------------------------------------
LEMMA KeyInitOK == KeyInit => KeyInv
<1> SUFFICES ASSUME KeyInit PROVE KeyInv
  OBVIOUS
<1>1. KeyTypeOK
  BY KeyAssumption DEF KeyInit, KeyTypeOK, KeyIds
<1>2. AnsweredOnce /\ HeirsStayHome
  BY DEF KeyInit, AnsweredOnce, HeirsStayHome
<1> QED
  BY <1>1, <1>2 DEF KeyInv

\* Both ways an issue can end: answered, or cut.
LEMMA IssueStep ==
  ASSUME KeyInv, NEW t \in Tenants, NEW role \in Roles, NEW e \in Expiries,
         NEW i \in Tokens \cup {NoToken},
         IssueKey(t, role, e, i) \/ IssueCut(t, role, e, i)
  PROVE  KeyInv'
<1> DEFINE n == issued + 1
<1> USE DEF KeyInv
<1>0. InsertKey(key, t, e, i, NoKey) /\ Unanswered(t, i) /\ keyClock' = keyClock
  BY DEF IssueKey, IssueCut
<1>1. /\ key \in [KeyIds -> KeyRow \cup {NoKey}]
      /\ \A j \in KeyIds : key[j] = NoKey <=> j > issued
  BY DEF KeyTypeOK
<1>e. e \in Nat /\ NoKey \in 1..issued \cup {NoKey}
  BY KeyAssumption
<1>2. /\ n \in KeyIds /\ issued' = n /\ issued' \in 0..MaxKeys
      /\ key' \in [KeyIds -> KeyRow \cup {NoKey}]
      /\ key'[n] # NoKey /\ key'[n].tenant = t
      /\ \A j \in KeyIds : j # n => key'[j] = key[j]
      /\ \A j \in KeyIds : key'[j] = NoKey <=> j > issued'
      /\ origin' \in [KeyIds -> Tokens \cup {NoToken}]
      /\ origin'[n] = i /\ \A j \in KeyIds : j # n => origin'[j] = origin[j]
      /\ parent' \in [KeyIds -> 1..issued' \cup {NoKey}]
      /\ parent'[n] = NoKey /\ \A j \in KeyIds : j # n => parent'[j] = parent[j]
  <2> HIDE DEF KeyInv
  <2>1. KeyTypeOK
    BY DEF KeyInv
  <2> QED
    BY <1>0, <1>1, <1>e, <2>1, InsertedRow
<1>3. /\ 1..issued \subseteq KeyIds /\ n \notin 1..issued
      /\ 1..issued' = 1..issued \cup {n}
  BY <1>2, KeyAssumption DEF KeyTypeOK, KeyIds
<1>4. /\ idem' \in [Tenants -> [Tokens -> 1..issued' \cup {NoKey}]]
      /\ cut' \subseteq 1..issued'
  <2>1. CASE IssueKey(t, role, e, i)
    <3>1. idem \in [Tenants -> [Tokens -> 1..issued' \cup {NoKey}]]
      BY <1>3 DEF KeyTypeOK
    <3>2. cut' \subseteq 1..issued'
      BY <2>1, <1>3 DEF IssueKey, KeyTypeOK
    <3>3. CASE i = NoToken
      BY <2>1, <3>1, <3>2, <3>3 DEF IssueKey
    <3>4. CASE i # NoToken
      <4>1. idem' = [idem EXCEPT ![t] = [idem[t] EXCEPT ![i] = n]]
        BY <2>1, <3>4 DEF IssueKey
      <4>2. [idem[t] EXCEPT ![i] = n] \in [Tokens -> 1..issued' \cup {NoKey}]
        BY <3>1, <1>3
      <4> QED
        BY <4>1, <4>2, <3>1, <3>2
    <3> QED
      BY <3>3, <3>4
  <2>2. CASE IssueCut(t, role, e, i)
    <3>1. idem' = idem /\ cut' = cut \cup {n}
      BY <2>2 DEF IssueCut
    <3> QED
      BY <3>1, <1>3 DEF KeyTypeOK
  <2> QED
    BY <2>1, <2>2
<1>5. KeyTypeOK'
  BY <1>0, <1>2, <1>4 DEF KeyTypeOK
<1>6. AnsweredOnce'
  <2> SUFFICES ASSUME NEW k \in 1..issued', origin'[k] # NoToken, k \notin cut'
               PROVE  idem'[key'[k].tenant][origin'[k]] = k
    BY DEF AnsweredOnce
  <2>1. CASE k = n
    <3>1. IssueKey(t, role, e, i)
      BY <2>1 DEF IssueKey, IssueCut
    <3>2. i # NoToken /\ i \in Tokens
      BY <2>1, <1>2
    <3>3. idem' = [idem EXCEPT ![t] = [idem[t] EXCEPT ![i] = n]]
      BY <3>1, <3>2 DEF IssueKey
    <3> QED
      BY <2>1, <1>2, <3>2, <3>3 DEF KeyTypeOK
  <2>2. CASE k # n
    <3>1. k \in 1..issued /\ key'[k] = key[k] /\ origin'[k] = origin[k] /\ k \notin cut
      BY <2>2, <1>2, <1>3 DEF IssueKey, IssueCut
    <3>2. idem[key[k].tenant][origin[k]] = k
      BY <3>1 DEF AnsweredOnce
    <3>3. key[k].tenant \in Tenants /\ origin[k] \in Tokens /\ k # NoKey
      BY <3>1, <1>3, KeyAssumption DEF KeyTypeOK, KeyRow
    <3>4. CASE key[k].tenant = t /\ origin[k] = i
      BY <3>2, <3>3, <3>4, <1>0, KeyAssumption DEF Unanswered
    <3>5. CASE ~ (key[k].tenant = t /\ origin[k] = i)
      <4>1. CASE IssueKey(t, role, e, i) /\ i # NoToken
        <5>1. idem' = [idem EXCEPT ![t] = [idem[t] EXCEPT ![i] = n]]
          BY <4>1 DEF IssueKey
        <5> QED
          BY <3>1, <3>2, <3>3, <3>5, <5>1 DEF KeyTypeOK
      <4>2. CASE ~ (IssueKey(t, role, e, i) /\ i # NoToken)
        <5>1. idem' = idem
          BY <4>2 DEF IssueKey, IssueCut
        <5> QED
          BY <3>1, <3>2, <5>1
      <4> QED
        BY <4>1, <4>2
    <3> QED
      BY <3>4, <3>5
  <2> QED
    BY <2>1, <2>2
<1>7. HeirsStayHome'
  <2> SUFFICES ASSUME NEW k \in 1..issued', parent'[k] # NoKey
               PROVE  key'[parent'[k]].tenant = key'[k].tenant
    BY DEF HeirsStayHome
  <2>1. k # n /\ k \in 1..issued /\ k \in KeyIds
    BY <1>2, <1>3
  <2>2. parent'[k] = parent[k] /\ key'[k] = key[k]
    BY <2>1, <1>2
  <2>3. parent[k] \in 1..issued
    BY <2>1, <2>2 DEF KeyTypeOK
  <2>4. key'[parent[k]] = key[parent[k]]
    BY <2>3, <1>2, <1>3
  <2> QED
    BY <2>1, <2>2, <2>4 DEF HeirsStayHome
<1> QED
  BY <1>5, <1>6, <1>7

LEMMA RotateStep ==
  ASSUME KeyInv, NEW t \in Tenants, NEW role \in Roles, NEW k \in KeyIds,
         NEW o \in Overlaps, RotateKey(t, role, k, o)
  PROVE  KeyInv'
<1> DEFINE n == issued + 1
           table == Overlapped(k, o)
<1> USE DEF KeyInv
<1>0. /\ InsertKey(table, t, 0, NoToken, k) /\ k \in 1..issued
      /\ key[k].tenant = t /\ keyClock' = keyClock /\ idem' = idem /\ cut' = cut
  BY DEF RotateKey, Rotatable, KeysOf
<1>1. /\ table \in [KeyIds -> KeyRow \cup {NoKey}]
      /\ \A j \in KeyIds : table[j] = NoKey <=> j > issued
      /\ \A j \in 1..issued : table[j].tenant = key[j].tenant
  <2>1. o \in Int /\ KeyTypeOK /\ k \in 1..issued
    BY <1>0, KeyAssumption
  <2> QED
    BY <2>1, OverlappedRow
<1> HIDE DEF table
<1>2. /\ n \in KeyIds /\ issued' = n /\ issued' \in 0..MaxKeys
      /\ key' \in [KeyIds -> KeyRow \cup {NoKey}]
      /\ key'[n] # NoKey /\ key'[n].tenant = t
      /\ \A j \in KeyIds : j # n => key'[j] = table[j]
      /\ \A j \in KeyIds : key'[j] = NoKey <=> j > issued'
      /\ origin' \in [KeyIds -> Tokens \cup {NoToken}]
      /\ origin'[n] = NoToken /\ \A j \in KeyIds : j # n => origin'[j] = origin[j]
      /\ parent' \in [KeyIds -> 1..issued' \cup {NoKey}]
      /\ parent'[n] = k /\ \A j \in KeyIds : j # n => parent'[j] = parent[j]
  <2>1. 0 \in Nat /\ k \in 1..issued \cup {NoKey} /\ NoToken \in Tokens \cup {NoToken}
        /\ KeyTypeOK
    BY <1>0
  <2> HIDE DEF KeyInv
  <2> QED
    BY <1>0, <1>1, <2>1, InsertedRow
<1>3. /\ 1..issued \subseteq KeyIds /\ n \notin 1..issued
      /\ 1..issued' = 1..issued \cup {n}
  BY <1>2, KeyAssumption DEF KeyTypeOK, KeyIds
<1>4. KeyTypeOK'
  BY <1>0, <1>2, <1>3 DEF KeyTypeOK
<1>5. \A j \in 1..issued : key'[j].tenant = key[j].tenant
  BY <1>1, <1>2, <1>3
<1>6. AnsweredOnce'
  <2> SUFFICES ASSUME NEW j \in 1..issued', origin'[j] # NoToken, j \notin cut'
               PROVE  idem'[key'[j].tenant][origin'[j]] = j
    BY DEF AnsweredOnce
  <2>1. j \in 1..issued /\ j \in KeyIds /\ j # n
    BY <1>2, <1>3
  <2>2. origin'[j] = origin[j] /\ key'[j].tenant = key[j].tenant
    BY <2>1, <1>2, <1>5
  <2> QED
    BY <2>1, <2>2, <1>0 DEF AnsweredOnce
<1>7. HeirsStayHome'
  <2> SUFFICES ASSUME NEW j \in 1..issued', parent'[j] # NoKey
               PROVE  key'[parent'[j]].tenant = key'[j].tenant
    BY DEF HeirsStayHome
  <2>1. CASE j = n
    BY <2>1, <1>0, <1>2, <1>5
  <2>2. CASE j # n
    <3>1. j \in 1..issued /\ j \in KeyIds /\ parent'[j] = parent[j]
      BY <2>2, <1>2, <1>3
    <3>2. parent[j] \in 1..issued
      BY <3>1 DEF KeyTypeOK
    <3> QED
      BY <3>1, <3>2, <1>5 DEF HeirsStayHome
  <2> QED
    BY <2>1, <2>2
<1> QED
  BY <1>4, <1>6, <1>7

\* The steps that rewrite one row and issue nothing.
LEMMA RewriteStep ==
  ASSUME KeyInv, NEW t \in Tenants, NEW role \in Roles, NEW k \in KeyIds,
         RevokeKey(t, role, k) \/ \E o \in Overlaps : RotateCut(t, role, k, o)
  PROVE  KeyInv'
<1> USE DEF KeyInv
<1>0. k \in 1..issued /\ UNCHANGED <<keyClock, issued, idem, origin, parent, cut>>
  BY DEF RevokeKey, RotateCut, Rotatable, KeysOf
<1>1. /\ key' \in [KeyIds -> KeyRow \cup {NoKey}]
      /\ \A j \in KeyIds : key'[j] = NoKey <=> j > issued
      /\ \A j \in 1..issued : key'[j].tenant = key[j].tenant
  <2>1. CASE RevokeKey(t, role, k)
    <3> DEFINE row == [key[k] EXCEPT !.status = "revoked"]
    <3>1. key[k] \in KeyRow
      BY <1>0, KeyAssumption DEF KeyTypeOK, KeyIds
    <3>2. row \in KeyRow /\ row.tenant = key[k].tenant
      BY <3>1 DEF KeyRow
    <3>3. key' = [key EXCEPT ![k] = row]
      BY <2>1 DEF RevokeKey
    <3> HIDE DEF row
    <3> QED
      BY <3>2, <3>3, <1>0, RewrittenRow
  <2>2. CASE \E o \in Overlaps : RotateCut(t, role, k, o)
    <3>1. PICK o \in Overlaps : RotateCut(t, role, k, o)
      BY <2>2
    <3>2. key' = Overlapped(k, o) /\ o \in Int
      BY <3>1, KeyAssumption DEF RotateCut
    <3> QED
      BY <3>2, <1>0, OverlappedRow
  <2> QED
    BY <2>1, <2>2
<1>2. KeyTypeOK'
  BY <1>0, <1>1 DEF KeyTypeOK
<1>3. AnsweredOnce'
  BY <1>0, <1>1 DEF AnsweredOnce
<1>4. HeirsStayHome'
  <2> SUFFICES ASSUME NEW j \in 1..issued', parent'[j] # NoKey
               PROVE  key'[parent'[j]].tenant = key'[j].tenant
    BY DEF HeirsStayHome
  <2>1. j \in 1..issued /\ j \in KeyIds /\ parent'[j] = parent[j]
    BY <1>0, KeyAssumption DEF KeyTypeOK, KeyIds
  <2>2. parent[j] \in 1..issued
    BY <2>1 DEF KeyTypeOK
  <2> QED
    BY <2>1, <2>2, <1>1 DEF HeirsStayHome
<1> QED
  BY <1>2, <1>3, <1>4

LEMMA KeyStepOK == KeyInv /\ [KeyNext]_keyVars => KeyInv'
<1> SUFFICES ASSUME KeyInv, [KeyNext]_keyVars PROVE KeyInv'
  OBVIOUS
<1>1. CASE \E t \in Tenants, role \in Roles, e \in Expiries, i \in Tokens \cup {NoToken} :
             IssueKey(t, role, e, i) \/ IssueCut(t, role, e, i)
  BY <1>1, IssueStep
<1>2. CASE \E t \in Tenants, role \in Roles, k \in KeyIds, o \in Overlaps :
             RotateKey(t, role, k, o) \/ RotateCut(t, role, k, o)
  BY <1>2, RotateStep, RewriteStep
<1>3. CASE \E t \in Tenants, role \in Roles, k \in KeyIds : RevokeKey(t, role, k)
  BY <1>3, RewriteStep
<1>4. CASE KeyTick
  BY <1>4 DEF KeyTick, KeyInv, KeyTypeOK, AnsweredOnce, HeirsStayHome
<1>5. CASE UNCHANGED keyVars
  BY <1>5 DEF keyVars, KeyInv, KeyTypeOK, AnsweredOnce, HeirsStayHome
<1> QED
  BY <1>1, <1>2, <1>3, <1>4, <1>5 DEF KeyNext

LEMMA KeyInvariance == KeySpec => []KeyInv
BY KeyInitOK, KeyStepOK, PTL DEF KeySpec

-----------------------------------------------------------------------------
\* The types of the key table hold in every state, deaths inside a call included.
THEOREM KeyTypesCorrect == KeySpec => []KeyTypeOK
<1>1. KeyInv => KeyTypeOK
  BY DEF KeyInv
<1> QED
  BY <1>1, KeyInvariance, PTL

\* A client that repeats its request for a key never has two: all keys of one
\* Idempotency-Key but the one it was told are losses of processes that died
\* inside issue_key.
THEOREM AnswersCorrect == KeySpec => []AnsweredOnce
<1>1. KeyInv => AnsweredOnce
  BY DEF KeyInv
<1> QED
  BY <1>1, KeyInvariance, PTL

\* However often keys are rotated, a key descends from keys of its own tenant
\* only (rotate_key reads the old row by tenant).
THEOREM HeirsCorrect == KeySpec => []HeirsStayHome
<1>1. KeyInv => HeirsStayHome
  BY DEF KeyInv
<1> QED
  BY <1>1, KeyInvariance, PTL

-----------------------------------------------------------------------------
(* Reservations. Theorems about the budgets of the control plane, for any number of
   tenants, scopes and requests and any amounts. What makes them inductive is that
   a row that is still a hold has no cost, so reconciling it replaces one summand
   of each sum and leaves the others alone. *)

ReservedUnpaid ==
  \A q \in RequestIds :
    hold[q] # NoHold /\ hold[q].state = "reserved" => hold[q].actual = 0

ResInv == ResTypeOK /\ ReservedUnpaid /\ WithinPeak /\ SpentIsPaid

-----------------------------------------------------------------------------
LEMMA HoldFields ==
  ASSUME ResTypeOK, NEW q \in RequestIds, hold[q] # NoHold
  PROVE  /\ hold[q] \in Holds /\ hold[q].budget \in Budgets
         /\ hold[q].amount \in Nat /\ hold[q].actual \in Nat
<1>1. hold[q] \in Holds
  BY DEF ResTypeOK
<1>2. /\ hold[q].budget \in Budgets /\ hold[q].amount \in Amounts
      /\ hold[q].actual \in Actuals \cup {0}
  BY <1>1 DEF Holds
<1>3. Amounts \subseteq Nat /\ Actuals \subseteq Nat
  BY AmountAssumption
<1>4. hold[q].amount \in Nat
  BY <1>2, <1>3
<1>5. hold[q].actual \in Nat
  <2>1. CASE hold[q].actual \in Actuals
    BY <2>1, <1>3
  <2>2. CASE hold[q].actual = 0
    BY <2>2
  <2> QED
    BY <2>1, <2>2, <1>2
<1> QED
  BY <1>1, <1>2, <1>4, <1>5

\* A row counts a natural number in each sum, and so do the sums.
SummandsInNat ==
  \A b \in Budgets :
    /\ \A q \in RequestIds :
         HeldBy(b, q) \in Nat /\ PaidBy(b, q) \in Nat /\ ExcessOf(b, q) \in Nat
    /\ Held(b) \in Nat /\ Paid(b) \in Nat /\ Excess(b) \in Nat

LEMMA SummandsNat == ResTypeOK => SummandsInNat
<1> SUFFICES ASSUME ResTypeOK, NEW b \in Budgets
    PROVE  /\ \A q \in RequestIds :
                HeldBy(b, q) \in Nat /\ PaidBy(b, q) \in Nat /\ ExcessOf(b, q) \in Nat
           /\ Held(b) \in Nat /\ Paid(b) \in Nat /\ Excess(b) \in Nat
  BY DEF SummandsInNat
<1>1. ASSUME NEW q \in RequestIds
      PROVE  HeldBy(b, q) \in Nat /\ PaidBy(b, q) \in Nat /\ ExcessOf(b, q) \in Nat
  BY HoldFields DEF HeldBy, PaidBy, ExcessOf
<1>2. ASSUME NEW f, \A q \in 1..Q : f[q] \in Nat
      PROVE  Sum(f, Q) \in Nat
  <2>1. \A m \in 0..Q : Sum(f, m) \in Nat
    BY <1>2, AmountAssumption, SumFacts
  <2> QED
    BY <2>1, AmountAssumption
<1>3. Held(b) \in Nat
  <2> DEFINE f == [q \in RequestIds |-> HeldBy(b, q)]
  <2>1. \A q \in 1..Q : f[q] \in Nat
    BY <1>1 DEF RequestIds
  <2> HIDE DEF f
  <2>2. Sum(f, Q) \in Nat
    BY <1>2, <2>1
  <2> QED
    BY <2>2 DEF Held, f
<1>4. Paid(b) \in Nat
  <2> DEFINE f == [q \in RequestIds |-> PaidBy(b, q)]
  <2>1. \A q \in 1..Q : f[q] \in Nat
    BY <1>1 DEF RequestIds
  <2> HIDE DEF f
  <2>2. Sum(f, Q) \in Nat
    BY <1>2, <2>1
  <2> QED
    BY <2>2 DEF Paid, f
<1>5. Excess(b) \in Nat
  <2> DEFINE f == [q \in RequestIds |-> ExcessOf(b, q)]
  <2>1. \A q \in 1..Q : f[q] \in Nat
    BY <1>1 DEF RequestIds
  <2> HIDE DEF f
  <2>2. Sum(f, Q) \in Nat
    BY <1>2, <2>1
  <2> QED
    BY <2>2 DEF Excess, f
<1> QED
  BY <1>1, <1>3, <1>4, <1>5

\* A step that writes one row changes each sum by what that row counts in it.
LEMMA OneRowChange ==
  ASSUME ResTypeOK, ResTypeOK', NEW b \in Budgets, NEW q \in RequestIds,
         \A p \in RequestIds : p # q => hold'[p] = hold[p]
  PROVE  /\ Held(b)' + HeldBy(b, q) = Held(b) + HeldBy(b, q)'
         /\ Paid(b)' + PaidBy(b, q) = Paid(b) + PaidBy(b, q)'
         /\ Excess(b)' + ExcessOf(b, q) = Excess(b) + ExcessOf(b, q)'
<1>0. SummandsInNat /\ SummandsInNat'
  BY SummandsNat, PTL
<1>1. \A p \in RequestIds :
        HeldBy(b, p) \in Nat /\ PaidBy(b, p) \in Nat /\ ExcessOf(b, p) \in Nat
  BY <1>0 DEF SummandsInNat
<1>2. \A p \in RequestIds :
        HeldBy(b, p)' \in Nat /\ PaidBy(b, p)' \in Nat /\ ExcessOf(b, p)' \in Nat
  BY <1>0 DEF SummandsInNat
<1>3. \A p \in RequestIds : p # q =>
        /\ HeldBy(b, p)' = HeldBy(b, p) /\ PaidBy(b, p)' = PaidBy(b, p)
        /\ ExcessOf(b, p)' = ExcessOf(b, p)
  BY DEF HeldBy, PaidBy, ExcessOf
<1>4. Held(b)' + HeldBy(b, q) = Held(b) + HeldBy(b, q)'
  <2> DEFINE f == [p \in RequestIds |-> HeldBy(b, p)]
             h == [p \in RequestIds |-> HeldBy(b, p)']
  <2>1. f[q] = HeldBy(b, q) /\ h[q] = HeldBy(b, q)'
    OBVIOUS
  <2>2. Held(b) = Sum(f, Q) /\ Held(b)' = Sum(h, Q)
    BY DEF Held
  <2>3. \A p \in 1..Q : f[p] \in Nat /\ h[p] \in Nat
    BY <1>1, <1>2 DEF RequestIds
  <2>4. \A p \in 1..Q : p # q => h[p] = f[p]
    BY <1>3 DEF RequestIds
  <2> HIDE DEF f, h
  <2>5. Sum(h, Q) + f[q] = Sum(f, Q) + h[q]
    <3>1. Q \in Nat /\ q \in 1..Q
      BY AmountAssumption DEF RequestIds
    <3> QED
      BY ONLY <3>1, <2>3, <2>4, SumOneChange
  <2> QED
    BY <2>1, <2>2, <2>5
<1>5. Paid(b)' + PaidBy(b, q) = Paid(b) + PaidBy(b, q)'
  <2> DEFINE f == [p \in RequestIds |-> PaidBy(b, p)]
             h == [p \in RequestIds |-> PaidBy(b, p)']
  <2>1. f[q] = PaidBy(b, q) /\ h[q] = PaidBy(b, q)'
    OBVIOUS
  <2>2. Paid(b) = Sum(f, Q) /\ Paid(b)' = Sum(h, Q)
    BY DEF Paid
  <2>3. \A p \in 1..Q : f[p] \in Nat /\ h[p] \in Nat
    BY <1>1, <1>2 DEF RequestIds
  <2>4. \A p \in 1..Q : p # q => h[p] = f[p]
    BY <1>3 DEF RequestIds
  <2> HIDE DEF f, h
  <2>5. Sum(h, Q) + f[q] = Sum(f, Q) + h[q]
    <3>1. Q \in Nat /\ q \in 1..Q
      BY AmountAssumption DEF RequestIds
    <3> QED
      BY ONLY <3>1, <2>3, <2>4, SumOneChange
  <2> QED
    BY <2>1, <2>2, <2>5
<1>6. Excess(b)' + ExcessOf(b, q) = Excess(b) + ExcessOf(b, q)'
  <2> DEFINE f == [p \in RequestIds |-> ExcessOf(b, p)]
             h == [p \in RequestIds |-> ExcessOf(b, p)']
  <2>1. f[q] = ExcessOf(b, q) /\ h[q] = ExcessOf(b, q)'
    OBVIOUS
  <2>2. Excess(b) = Sum(f, Q) /\ Excess(b)' = Sum(h, Q)
    BY DEF Excess
  <2>3. \A p \in 1..Q : f[p] \in Nat /\ h[p] \in Nat
    BY <1>1, <1>2 DEF RequestIds
  <2>4. \A p \in 1..Q : p # q => h[p] = f[p]
    BY <1>3 DEF RequestIds
  <2> HIDE DEF f, h
  <2>5. Sum(h, Q) + f[q] = Sum(f, Q) + h[q]
    <3>1. Q \in Nat /\ q \in 1..Q
      BY AmountAssumption DEF RequestIds
    <3> QED
      BY ONLY <3>1, <2>3, <2>4, SumOneChange
  <2> QED
    BY <2>1, <2>2, <2>5
<1> QED
  BY <1>4, <1>5, <1>6

-----------------------------------------------------------------------------
LEMMA ResInitOK == ResInit => ResInv
<1> SUFFICES ASSUME ResInit PROVE ResInv
  OBVIOUS
<1>1. ResTypeOK
  BY DEF ResInit, ResTypeOK
<1>2. ReservedUnpaid
  BY DEF ResInit, ReservedUnpaid
<1>3. ASSUME NEW b \in Budgets
      PROVE  Held(b) = 0 /\ Paid(b) = 0 /\ Excess(b) \in Nat
  <2>1. \A q \in RequestIds : HeldBy(b, q) = 0 /\ PaidBy(b, q) = 0
    BY DEF ResInit, HeldBy, PaidBy
  <2> DEFINE f == [q \in RequestIds |-> HeldBy(b, q)]
             g == [q \in RequestIds |-> PaidBy(b, q)]
  <2>2. \A q \in 1..Q : f[q] = 0 /\ g[q] = 0
    BY <2>1 DEF RequestIds
  <2>3. Held(b) = Sum(f, Q) /\ Paid(b) = Sum(g, Q)
    BY DEF Held, Paid
  <2> HIDE DEF f, g
  <2>4. Sum(f, Q) = 0 /\ Sum(g, Q) = 0
    BY <2>2, AmountAssumption, SumOfZeros
  <2> QED
    BY <2>3, <2>4, <1>1, SummandsNat DEF SummandsInNat
<1>4. WithinPeak /\ SpentIsPaid
  BY <1>3 DEF ResInit, WithinPeak, SpentIsPaid
<1> QED
  BY <1>1, <1>2, <1>4 DEF ResInv

\* The highest limit only rises with it.
LEMMA SetBudgetStep ==
  ASSUME ResInv, NEW c \in Budgets, NEW v \in Limits, SetBudget(c, v)
  PROVE  ResInv'
<1> USE DEF ResInv
<1>0. v \in Nat /\ hold' = hold /\ spent' = spent
  BY AmountAssumption DEF SetBudget
<1>1. \A b \in Budgets : peak'[b] \in Nat /\ peak[b] \in Nat /\ peak'[b] >= peak[b]
  BY <1>0 DEF SetBudget, ResTypeOK
<1>2. ResTypeOK'
  BY <1>0, NoneAssumption DEF SetBudget, ResTypeOK
<1>3. \A b \in Budgets :
        Held(b)' = Held(b) /\ Paid(b)' = Paid(b) /\ Excess(b)' = Excess(b)
  BY <1>0 DEF Held, Paid, Excess, HeldBy, PaidBy, ExcessOf
<1>4. WithinPeak'
  <2> SUFFICES ASSUME NEW b \in Budgets
               PROVE  spent[b] + Held(b) <= peak'[b] + Excess(b)
    BY <1>0, <1>3 DEF WithinPeak
  <2>1. spent[b] \in Nat /\ Held(b) \in Nat /\ Excess(b) \in Nat
    BY SummandsNat DEF SummandsInNat, ResTypeOK
  <2>2. spent[b] + Held(b) <= peak[b] + Excess(b)
    BY DEF WithinPeak
  <2> QED
    BY <1>1, <2>1, <2>2
<1>5. ReservedUnpaid' /\ SpentIsPaid'
  BY <1>0, <1>3 DEF ReservedUnpaid, SpentIsPaid
<1> QED
  BY <1>2, <1>4, <1>5

\* A hold is placed within the limit of the moment.
LEMMA ReserveStep ==
  ASSUME ResInv, NEW c \in Budgets, NEW q \in RequestIds, NEW a \in Amounts,
         Reserve(c, q, a)
  PROVE  ResInv'
<1> DEFINE row == [budget |-> c, amount |-> a, actual |-> 0, state |-> "reserved"]
<1> USE DEF ResInv
<1>0. /\ a \in Nat /\ hold[q] = NoHold /\ limit[c] # NoLimit /\ Fits(c, a)
      /\ hold' = [hold EXCEPT ![q] = row]
      /\ UNCHANGED <<limit, spent, peak>>
  BY AmountAssumption DEF Reserve
<1>1. row \in Holds /\ row # NoHold
  <2>1. row \in Holds
    BY DEF Holds
  <2> QED
    BY <2>1, NoneAssumption
<1>2. /\ row.budget = c /\ row.amount = a /\ row.actual = 0 /\ row.state = "reserved"
  OBVIOUS
<1> HIDE DEF row
<1>3. /\ hold' \in [RequestIds -> Holds \cup {NoHold}]
      /\ hold'[q] = row /\ \A p \in RequestIds : p # q => hold'[p] = hold[p]
  BY <1>0, <1>1 DEF ResTypeOK
<1>4. ResTypeOK'
  BY <1>0, <1>3 DEF ResTypeOK
<1>5. ReservedUnpaid'
  BY <1>2, <1>3 DEF ReservedUnpaid
<1>6. \A b \in Budgets :
        /\ HeldBy(b, q) = 0 /\ PaidBy(b, q) = 0 /\ ExcessOf(b, q) = 0
        /\ HeldBy(b, q)' = IF b = c THEN a ELSE 0
        /\ PaidBy(b, q)' = 0 /\ ExcessOf(b, q)' = 0
  BY <1>0, <1>1, <1>2, <1>3 DEF HeldBy, PaidBy, ExcessOf
<1>7. \A b \in Budgets :
        /\ Held(b)' = Held(b) + (IF b = c THEN a ELSE 0)
        /\ Paid(b)' = Paid(b) /\ Excess(b)' = Excess(b)
  <2> TAKE b \in Budgets
  <2>1. /\ Held(b)' + HeldBy(b, q) = Held(b) + HeldBy(b, q)'
        /\ Paid(b)' + PaidBy(b, q) = Paid(b) + PaidBy(b, q)'
        /\ Excess(b)' + ExcessOf(b, q) = Excess(b) + ExcessOf(b, q)'
    BY <1>3, <1>4, OneRowChange
  <2>2. Held(b) \in Nat /\ Paid(b) \in Nat /\ Excess(b) \in Nat
    BY SummandsNat DEF SummandsInNat
  <2>3. Held(b)' \in Nat /\ Paid(b)' \in Nat /\ Excess(b)' \in Nat
    <3>1. SummandsInNat'
      BY <1>4, SummandsNat, PTL
    <3> QED
      BY <3>1 DEF SummandsInNat
  <2> QED
    BY <1>0, <1>6, <2>1, <2>2, <2>3
<1>8. WithinPeak'
  <2> SUFFICES ASSUME NEW b \in Budgets
               PROVE  spent[b] + Held(b)' <= peak[b] + Excess(b)
    BY <1>0, <1>7 DEF WithinPeak
  <2>1. spent[b] \in Nat /\ peak[b] \in Nat /\ Held(b) \in Nat /\ Excess(b) \in Nat
    BY SummandsNat DEF SummandsInNat, ResTypeOK
  <2>2. CASE b = c
    <3>1. limit[b] \in Nat /\ limit[b] <= peak[b]
      BY <2>2, <1>0 DEF ResTypeOK
    <3>2. spent[b] + Held(b) + a <= limit[b]
      BY <2>2, <1>0 DEF Fits
    <3> QED
      BY <2>1, <2>2, <3>1, <3>2, <1>0, <1>7
  <2>3. CASE b # c
    <3>1. Held(b)' = Held(b)
      BY <2>1, <2>3, <1>7
    <3> QED
      BY <3>1 DEF WithinPeak
  <2> QED
    BY <2>2, <2>3
<1>9. SpentIsPaid'
  BY <1>0, <1>7 DEF SpentIsPaid
<1> QED
  BY <1>4, <1>5, <1>8, <1>9

\* The hold goes, the cost comes, and what the cost is above the hold is excess.
LEMMA ReconcileStep ==
  ASSUME ResInv, NEW q \in RequestIds, NEW actual \in Actuals, Reconcile(q, actual)
  PROVE  ResInv'
<1> DEFINE c == hold[q].budget
           a == hold[q].amount
           row == [hold[q] EXCEPT !.actual = actual, !.state = "reconciled"]
<1> USE DEF ResInv
<1>0. /\ hold[q] # NoHold /\ hold[q].state = "reserved"
      /\ hold' = [hold EXCEPT ![q] = row]
      /\ spent' = [spent EXCEPT ![c] = @ + actual]
      /\ UNCHANGED <<limit, peak>>
  BY DEF Reconcile, Open
<1>1. /\ hold[q] \in Holds /\ c \in Budgets /\ a \in Nat
      /\ hold[q].actual = 0 /\ actual \in Nat
  BY <1>0, HoldFields, AmountAssumption DEF ReservedUnpaid
<1>2. /\ row \in Holds /\ row.budget = c /\ row.amount = a
      /\ row.actual = actual /\ row.state = "reconciled"
  BY <1>1 DEF Holds
<1>3. row # NoHold
  BY <1>2, NoneAssumption
<1>4. /\ HeldBy(c, q) = a /\ PaidBy(c, q) = 0 /\ ExcessOf(c, q) = 0
      /\ \A b \in Budgets : b # c =>
           HeldBy(b, q) = 0 /\ PaidBy(b, q) = 0 /\ ExcessOf(b, q) = 0
  BY <1>0, <1>1 DEF HeldBy, PaidBy, ExcessOf
<1> HIDE DEF row, c, a
<1>5. /\ hold' \in [RequestIds -> Holds \cup {NoHold}]
      /\ hold'[q] = row /\ \A p \in RequestIds : p # q => hold'[p] = hold[p]
  BY <1>0, <1>2 DEF ResTypeOK
<1>6. /\ spent' \in [Budgets -> Nat] /\ spent'[c] = spent[c] + actual
      /\ \A b \in Budgets : b # c => spent'[b] = spent[b]
  BY <1>0, <1>1 DEF ResTypeOK
<1>7. ResTypeOK'
  BY <1>0, <1>5, <1>6 DEF ResTypeOK
<1>8. ReservedUnpaid'
  BY <1>2, <1>5 DEF ReservedUnpaid
<1>9. \A b \in Budgets :
        /\ HeldBy(b, q)' = 0
        /\ PaidBy(b, q)' = IF b = c THEN actual ELSE 0
        /\ ExcessOf(b, q)' = IF b = c /\ actual > a THEN actual - a ELSE 0
  BY <1>2, <1>3, <1>5 DEF HeldBy, PaidBy, ExcessOf
<1>10. ASSUME NEW b \in Budgets
       PROVE  /\ Held(b)' + HeldBy(b, q) = Held(b)
              /\ Paid(b)' = Paid(b) + PaidBy(b, q)'
              /\ Excess(b)' = Excess(b) + ExcessOf(b, q)'
              /\ Held(b) \in Nat /\ Paid(b) \in Nat /\ Excess(b) \in Nat
              /\ Held(b)' \in Nat /\ Paid(b)' \in Nat /\ Excess(b)' \in Nat
  <2>1. /\ Held(b)' + HeldBy(b, q) = Held(b) + HeldBy(b, q)'
        /\ Paid(b)' + PaidBy(b, q) = Paid(b) + PaidBy(b, q)'
        /\ Excess(b)' + ExcessOf(b, q) = Excess(b) + ExcessOf(b, q)'
    BY <1>5, <1>7, OneRowChange
  <2>2. Held(b) \in Nat /\ Paid(b) \in Nat /\ Excess(b) \in Nat
    BY SummandsNat DEF SummandsInNat
  <2>3. Held(b)' \in Nat /\ Paid(b)' \in Nat /\ Excess(b)' \in Nat
    <3>1. SummandsInNat'
      BY <1>7, SummandsNat, PTL
    <3> QED
      BY <3>1 DEF SummandsInNat
  <2>4. HeldBy(b, q)' = 0 /\ PaidBy(b, q) = 0 /\ ExcessOf(b, q) = 0
    BY <1>1, <1>4, <1>9
  <2> QED
    BY <2>1, <2>2, <2>3, <2>4
<1>11. WithinPeak'
  <2> SUFFICES ASSUME NEW b \in Budgets
               PROVE  spent'[b] + Held(b)' <= peak[b] + Excess(b)'
    BY <1>0 DEF WithinPeak
  <2>1. spent[b] \in Nat /\ peak[b] \in Nat
    BY DEF ResTypeOK
  <2>2. spent[b] + Held(b) <= peak[b] + Excess(b)
    BY DEF WithinPeak
  <2>3. CASE b = c
    <3>1. /\ Held(b)' + a = Held(b)
          /\ Excess(b)' = Excess(b) + (IF actual > a THEN actual - a ELSE 0)
      BY <2>3, <1>4, <1>9, <1>10
    <3>2. spent'[b] = spent[b] + actual
      BY <2>3, <1>6
    <3> QED
      BY <3>1, <3>2, <2>1, <2>2, <1>1, <1>10
  <2>4. CASE b # c
    <3>1. Held(b)' = Held(b) /\ Excess(b)' = Excess(b) /\ spent'[b] = spent[b]
      BY <2>4, <1>4, <1>6, <1>9, <1>10
    <3> QED
      BY <3>1, <2>2
  <2> QED
    BY <2>3, <2>4
<1>12. SpentIsPaid'
  <2> SUFFICES ASSUME NEW b \in Budgets
               PROVE  spent'[b] = Paid(b)'
    BY DEF SpentIsPaid
  <2>1. spent[b] = Paid(b)
    BY DEF SpentIsPaid
  <2> QED
    BY <2>1, <1>1, <1>6, <1>9, <1>10
<1> QED
  BY <1>7, <1>8, <1>11, <1>12

LEMMA ResStepOK == ResInv /\ [ResNext]_resVars => ResInv'
<1> SUFFICES ASSUME ResInv, [ResNext]_resVars PROVE ResInv'
  OBVIOUS
<1>1. CASE \E b \in Budgets, v \in Limits : SetBudget(b, v)
  BY <1>1, SetBudgetStep
<1>2. CASE \E b \in Budgets, q \in RequestIds, a \in Amounts : Reserve(b, q, a)
  BY <1>2, ReserveStep
<1>3. CASE \E q \in RequestIds, actual \in Actuals : Reconcile(q, actual)
  BY <1>3, ReconcileStep
<1>4. CASE UNCHANGED resVars
  BY <1>4 DEF resVars, ResInv, ResTypeOK, ReservedUnpaid, WithinPeak, SpentIsPaid,
       Held, Paid, Excess, HeldBy, PaidBy, ExcessOf
<1> QED
  BY <1>1, <1>2, <1>3, <1>4 DEF ResNext

LEMMA ResInvariance == ResSpec => []ResInv
BY ResInitOK, ResStepOK, PTL DEF ResSpec

-----------------------------------------------------------------------------
\* The types of budgets and reservations hold in every state.
THEOREM ResTypesCorrect == ResSpec => []ResTypeOK
<1>1. ResInv => ResTypeOK
  BY DEF ResInv
<1> QED
  BY <1>1, ResInvariance, PTL

\* No order of reserves, reconciles and limits overbooks a budget by more than
\* requests cost above what they had reserved (reserve, reconcile).
THEOREM PeakCorrect == ResSpec => []WithinPeak
<1>1. ResInv => WithinPeak
  BY DEF ResInv
<1> QED
  BY <1>1, ResInvariance, PTL

\* The column spent counts the cost of each request once (reconcile).
THEOREM SpentCorrect == ResSpec => []SpentIsPaid
<1>1. ResInv => SpentIsPaid
  BY DEF ResInv
<1> QED
  BY <1>1, ResInvariance, PTL

-----------------------------------------------------------------------------
(* Deployments. Theorems about the circuit breakers, for any number of deployments
   and callers and any threshold. *)

DepInv == DepTypeOK /\ OpenIsSpared

LEMMA DepInitOK == DepInit => DepInv
BY BreakerAssumption DEF DepInit, DepInv, DepTypeOK, OpenIsSpared, IsOpen

\* A call begins only on a circuit that is not open.
LEMMA ChooseStep ==
  ASSUME DepInv, NEW c \in Callers, NEW d \in Deployed, ChooseDeployment(c, d)
  PROVE  DepInv'
<1> USE DEF DepInv
<1>1. DepTypeOK'
  BY DEF ChooseDeployment, DepTypeOK
<1>2. OpenIsSpared'
  <2> SUFFICES ASSUME NEW e \in Deployed, NEW b \in Callers, IsOpen(e)', calling'[b] = e
               PROVE  b \in early'[e]
    BY DEF OpenIsSpared
  <2>1. IsOpen(e) /\ early' = early
    BY DEF ChooseDeployment, IsOpen
  <2>2. b # c
    <3>1. ~ IsOpen(d)
      BY DEF ChooseDeployment, Choosable, Available
    <3> QED
      BY <2>1, <3>1 DEF ChooseDeployment, DepTypeOK
  <2>3. calling[b] = e
    BY <2>2 DEF ChooseDeployment, DepTypeOK
  <2> QED
    BY <2>1, <2>3 DEF OpenIsSpared
<1> QED
  BY <1>1, <1>2

\* A late success closes the circuit, for the callers that are still calling too.
LEMMA SucceededStep ==
  ASSUME DepInv, NEW c \in Callers, Succeeded(c)
  PROVE  DepInv'
<1> DEFINE d == calling[c]
<1> USE DEF DepInv
<1>0. d \in Deployed
  BY DEF Succeeded, DepTypeOK
<1>1. DepTypeOK'
  BY <1>0 DEF Succeeded, DepTypeOK
<1>2. OpenIsSpared'
  <2> SUFFICES ASSUME NEW e \in Deployed, NEW b \in Callers, IsOpen(e)', calling'[b] = e
               PROVE  b \in early'[e]
    BY DEF OpenIsSpared
  <2>1. early' = early /\ depClock' = depClock
    BY DEF Succeeded
  <2>2. b # c
    BY BreakerAssumption DEF Succeeded, DepTypeOK
  <2>3. calling[b] = e
    BY <2>2 DEF Succeeded, DepTypeOK
  <2>4. e # d
    BY <1>0, <2>1 DEF Succeeded, DepTypeOK, IsOpen
  <2>5. IsOpen(e)
    BY <1>0, <2>1, <2>4 DEF Succeeded, DepTypeOK, IsOpen
  <2> QED
    BY <2>1, <2>3, <2>5 DEF OpenIsSpared
<1> QED
  BY <1>1, <1>2

\* A failure that trips the circuit writes down who else is calling; one that
\* does not leaves the circuit as it is.
LEMMA FailedStep ==
  ASSUME DepInv, NEW c \in Callers, Failed(c)
  PROVE  DepInv'
<1> DEFINE d == calling[c]
<1> USE DEF DepInv
<1>0. d \in Deployed
  BY DEF Failed, DepTypeOK
<1>1. DepTypeOK'
  <2>1. depClock + OpenFor \in Nat /\ failures[d] + 1 \in Nat
    BY <1>0, BreakerAssumption DEF DepTypeOK
  <2>2. {b \in Callers \ {c} : calling[b] = d} \in SUBSET Callers
    OBVIOUS
  <2> QED
    BY <1>0, <2>1, <2>2 DEF Failed, DepTypeOK
<1>2. OpenIsSpared'
  <2> SUFFICES ASSUME NEW e \in Deployed, NEW b \in Callers, IsOpen(e)', calling'[b] = e
               PROVE  b \in early'[e]
    BY DEF OpenIsSpared
  <2>1. depClock' = depClock
    BY DEF Failed
  <2>2. b # c
    BY BreakerAssumption DEF Failed, DepTypeOK
  <2>3. calling[b] = e
    BY <2>2 DEF Failed, DepTypeOK
  <2>4. CASE e = d /\ Trips(failures[d])
    <3>1. early'[e] = {a \in Callers \ {c} : calling[a] = d}
      BY <1>0, <2>4 DEF Failed, DepTypeOK
    <3> QED
      BY <2>2, <2>3, <2>4, <3>1
  <2>5. CASE ~ (e = d /\ Trips(failures[d]))
    <3>1. early'[e] = early[e] /\ openUntil'[e] = openUntil[e]
      BY <1>0, <2>5 DEF Failed, DepTypeOK
    <3>2. IsOpen(e)
      BY <2>1, <3>1 DEF IsOpen
    <3> QED
      BY <2>3, <3>1, <3>2 DEF OpenIsSpared
  <2> QED
    BY <2>4, <2>5
<1> QED
  BY <1>1, <1>2

LEMMA DepStepOK == DepInv /\ [DepNext]_depVars => DepInv'
<1> SUFFICES ASSUME DepInv, [DepNext]_depVars PROVE DepInv'
  OBVIOUS
<1>1. CASE \E list \in SUBSET Deployed : PutRoute(list)
  BY <1>1 DEF PutRoute, DepInv, DepTypeOK, OpenIsSpared, IsOpen
<1>2. CASE \E c \in Callers, d \in Deployed : ChooseDeployment(c, d)
  BY <1>2, ChooseStep
<1>3. CASE \E c \in Callers : Succeeded(c) \/ Failed(c)
  BY <1>3, SucceededStep, FailedStep
<1>4. CASE DepTick
  BY <1>4 DEF DepTick, DepInv, DepTypeOK, OpenIsSpared, IsOpen
<1>5. CASE UNCHANGED depVars
  BY <1>5 DEF depVars, DepInv, DepTypeOK, OpenIsSpared, IsOpen
<1> QED
  BY <1>1, <1>2, <1>3, <1>4, <1>5 DEF DepNext

LEMMA DepInvariance == DepSpec => []DepInv
BY DepInitOK, DepStepOK, PTL DEF DepSpec

-----------------------------------------------------------------------------
\* The types of the breakers hold in every state.
THEOREM DepTypesCorrect == DepSpec => []DepTypeOK
<1>1. DepInv => DepTypeOK
  BY DEF DepInv
<1> QED
  BY <1>1, DepInvariance, PTL

\* No call begins on a deployment whose circuit is open: whoever is calling one
\* was calling it when the circuit was tripped, whatever late successes and
\* failures were reported in between (choose_deployment,
\* record_deployment_result).
THEOREM SparedCorrect == DepSpec => []OpenIsSpared
<1>1. DepInv => OpenIsSpared
  BY DEF DepInv
<1> QED
  BY <1>1, DepInvariance, PTL

-----------------------------------------------------------------------------
(* Extensions: statements that commit alone or not at all *)

OnKeys == {"revokeAll", "revoke", "key"}

\* What a statement is about is a row of its table.
WellFormed(s) ==
  /\ s.do = "revokeAll" => s.on \in Apps
  /\ s.do = "revoke" => s.on \in PxKeys
  /\ s.do = "key" => s.on \in PxKeys /\ s.of \in Apps
  /\ s.do = "budget" => s.on \in PxScopes /\ s.of \in PxLimits
  /\ s.do \in {"env", "default"} => s.on \in EnvNames
  /\ s.do = "sheet" => s.on \in Sheets

PxTypes ==
  /\ view \in Tables /\ disk \in Tables
  /\ unended \in BOOLEAN /\ nameTaken \in BOOLEAN
  /\ lastRotated \in [Apps -> PxKeys \cup {NoPx}]
  /\ bundle \in [alerts : 0..MaxAlerts, limits : [PxScopes -> PxLimits \cup {NoPx}]]
  /\ todo \in Seq(AllStatements)

\* An operation ends with its commit, adds an alert first of all and at most one, and
\* makes a default of an environment when there is none.
TodoOK ==
  /\ \A i \in 1..Len(todo) : WellFormed(todo[i])
  /\ todo # <<>> => todo[Len(todo)] = Commit
  /\ \A i \in 1..Len(todo) : todo[i].do = "alert" => i = 1 /\ view.alerts < MaxAlerts
  /\ \A i \in 1..Len(todo) :
       todo[i].do = "default" =>
         (i = 1 /\ view.defaults = {}) \/ (i = 2 /\ todo[1].do = "noDefault")

LastOnly(db) == \A a \in Apps : lastRotated[a] # NoPx => Active(db, a) = {lastRotated[a]}
Audited(db) == \A k \in PxKeys : db.keys[k] # NoPx => k \in db.audit
OneDefault(db) == \A m, n \in db.defaults : m = n
SameIssued == \A k \in PxKeys : view.keys[k] = NoPx <=> disk.keys[k] = NoPx

GoodView == LastOnly(view) /\ Audited(view) /\ SameIssued

NoMore(i) == \A j \in i..Len(todo) : todo[j].do \notin OnKeys

OffKeys == GoodView /\ NoMore(1)

Revoking(k) ==
  /\ GoodView /\ NoMore(2) /\ Len(todo) > 0 /\ todo[1] = Statement("revoke", k, NoPx)
  /\ \A a \in Apps : lastRotated[a] # k

\* A rotation, by the statement that is next: the last keys of the other applications
\* stand, and the key is on disk only with the commit.
OthersStand(app) ==
  \A a \in Apps \ {app} : lastRotated[a] # NoPx => Active(view, a) = {lastRotated[a]}

ToRevokeAll(app, k) ==
  /\ GoodView /\ view.keys[k] = NoPx /\ Len(todo) = 4
  /\ todo[1] = Statement("revokeAll", app, NoPx) /\ todo[2] = Statement("key", k, app)
  /\ todo[3] = Audit(k) /\ todo[4] = Commit

ToInsert(app, k) ==
  /\ OthersStand(app) /\ Audited(view) /\ SameIssued
  /\ view.keys[k] = NoPx /\ Active(view, app) = {} /\ Len(todo) = 3
  /\ todo[1] = Statement("key", k, app) /\ todo[2] = Audit(k) /\ todo[3] = Commit

Inserted(app, k) ==
  /\ OthersStand(app) /\ disk.keys[k] = NoPx
  /\ view.keys[k] = [app |-> app, active |-> TRUE] /\ Active(view, app) = {k}
  /\ \A j \in PxKeys \ {k} : /\ view.keys[j] # NoPx => j \in view.audit
                             /\ view.keys[j] = NoPx <=> disk.keys[j] = NoPx

ToAudit(app, k) == Inserted(app, k) /\ Len(todo) = 2 /\ todo[1] = Audit(k) /\ todo[2] = Commit

ToCommit(app, k) == Inserted(app, k) /\ k \in view.audit /\ Len(todo) = 1 /\ todo[1] = Commit

StageOK ==
  \/ OffKeys
  \/ \E k \in PxKeys : Revoking(k)
  \/ \E app \in Apps, k \in PxKeys :
       ToRevokeAll(app, k) \/ ToInsert(app, k) \/ ToAudit(app, k) \/ ToCommit(app, k)

PxInv ==
  /\ PxTypes /\ TodoOK
  /\ ~ unended => view = disk
  /\ todo = <<>> /\ unended => nameTaken
  /\ LastOnly(disk) /\ Audited(disk) /\ OneDefault(disk) /\ OneDefault(view)
  /\ StageOK

LEMMA RevokedOK ==
  ASSUME NEW db \in Tables, NEW K \in SUBSET PxKeys
  PROVE  /\ Revoked(db, K) \in Tables
         /\ Revoked(db, K).limits = db.limits /\ Revoked(db, K).alerts = db.alerts
         /\ Revoked(db, K).envs = db.envs /\ Revoked(db, K).defaults = db.defaults
         /\ Revoked(db, K).sheets = db.sheets /\ Revoked(db, K).audit = db.audit
         /\ \A k \in PxKeys : Revoked(db, K).keys[k] = NoPx <=> db.keys[k] = NoPx
         /\ \A a \in Apps : Active(Revoked(db, K), a) = Active(db, a) \ K
<1> DEFINE keys == [k \in PxKeys |-> IF k \in K /\ db.keys[k] # NoPx
                                     THEN [db.keys[k] EXCEPT !.active = FALSE] ELSE db.keys[k]]
           row == [app : Apps, active : BOOLEAN]
<1>1. Revoked(db, K) = [db EXCEPT !.keys = keys]
  BY DEF Revoked
<1>2. ASSUME NEW k \in PxKeys
      PROVE  /\ keys[k] \in row \cup {NoPx}
             /\ keys[k] = NoPx <=> db.keys[k] = NoPx
             /\ db.keys[k] # NoPx => /\ keys[k].app = db.keys[k].app
                                     /\ keys[k].active <=> (db.keys[k].active /\ k \notin K)
  <2>1. db.keys[k] \in row \cup {NoPx}
    BY DEF Tables
  <2>2. CASE k \in K /\ db.keys[k] # NoPx
    <3>1. keys[k] = [db.keys[k] EXCEPT !.active = FALSE]
      BY <2>2
    <3>2. db.keys[k] \in row
      BY <2>1, <2>2
    <3> HIDE DEF keys
    <3>3. keys[k] \in row /\ keys[k].app = db.keys[k].app /\ ~ keys[k].active
      BY <3>1, <3>2
    <3>4. NoPx \notin row
      BY ExtensionsAssumption
    <3> QED
      BY <2>2, <3>3, <3>4
  <2>3. CASE ~ (k \in K /\ db.keys[k] # NoPx)
    <3>1. keys[k] = db.keys[k]
      BY <2>3
    <3> HIDE DEF keys
    <3> QED
      BY <2>1, <2>3, <3>1
  <2> QED
    BY <2>2, <2>3
<1>3. keys \in [PxKeys -> row \cup {NoPx}]
  BY <1>2
<1> HIDE DEF keys
<1>4. Revoked(db, K) \in Tables
  BY <1>1, <1>3 DEF Tables
<1>5. /\ Revoked(db, K).keys = keys
      /\ Revoked(db, K).limits = db.limits /\ Revoked(db, K).alerts = db.alerts
      /\ Revoked(db, K).envs = db.envs /\ Revoked(db, K).defaults = db.defaults
      /\ Revoked(db, K).sheets = db.sheets /\ Revoked(db, K).audit = db.audit
  BY <1>1 DEF Tables
<1>6. \A a \in Apps : Active(Revoked(db, K), a) = Active(db, a) \ K
  BY <1>2, <1>5 DEF Active
<1> QED
  BY <1>2, <1>4, <1>5, <1>6

\* A statement that is not about keys
LEMMA QuietEffect ==
  ASSUME NEW db \in Tables, NEW s \in AllStatements, WellFormed(s),
         s.do \notin OnKeys, s.do # "commit", s.do = "alert" => db.alerts < MaxAlerts
  PROVE  /\ Effect(db, s) \in Tables
         /\ Effect(db, s).keys = db.keys /\ db.audit \subseteq Effect(db, s).audit
         /\ s.do # "alert" => Effect(db, s).alerts = db.alerts
         /\ s.do \notin {"default", "noDefault"} => Effect(db, s).defaults = db.defaults
         /\ s.do = "noDefault" => Effect(db, s).defaults = {}
         /\ s.do = "default" => Effect(db, s).defaults = db.defaults \cup {s.on}
         /\ s.do = "audit" /\ s.on \in PxKeys => s.on \in Effect(db, s).audit
<1>1. CASE s.do = "budget"
  <2>1. Effect(db, s) = [db EXCEPT !.limits = [db.limits EXCEPT ![s.on] = s.of]]
    BY <1>1 DEF Effect, Tables
  <2> QED
    BY <1>1, <2>1 DEF Tables, WellFormed
<1>2. CASE s.do = "alert"
  <2>1. Effect(db, s) = [db EXCEPT !.alerts = db.alerts + 1]
    BY <1>2 DEF Effect, Tables
  <2>2. db.alerts + 1 \in 0..MaxAlerts
    BY <1>2, ExtensionsAssumption DEF Tables
  <2> QED
    BY <1>2, <2>1, <2>2 DEF Tables
<1>3. CASE s.do = "noDefault"
  <2>1. Effect(db, s) = [db EXCEPT !.defaults = {}]
    BY <1>3 DEF Effect
  <2> QED
    BY <1>3, <2>1 DEF Tables
<1>4. CASE s.do = "env"
  <2>1. Effect(db, s) = [db EXCEPT !.envs = db.envs \cup {s.on}]
    BY <1>4 DEF Effect, Tables
  <2> QED
    BY <1>4, <2>1 DEF Tables, WellFormed
<1>5. CASE s.do = "default"
  <2>1. Effect(db, s) = [[db EXCEPT !.envs = db.envs \cup {s.on}] EXCEPT !.defaults = db.defaults \cup {s.on}]
    BY <1>5 DEF Effect, Tables
  <2> DEFINE e == [db EXCEPT !.envs = db.envs \cup {s.on}]
  <2>2. /\ e \in Tables /\ e.keys = db.keys /\ e.audit = db.audit /\ e.alerts = db.alerts
        /\ e.defaults = db.defaults
    BY <1>5 DEF Tables, WellFormed
  <2>3. Effect(db, s) = [e EXCEPT !.defaults = db.defaults \cup {s.on}]
    BY <2>1
  <2>4. db.defaults \cup {s.on} \in SUBSET EnvNames
    BY <1>5 DEF Tables, WellFormed
  <2> HIDE DEF e
  <2> QED
    BY <1>5, <2>2, <2>3, <2>4 DEF Tables
<1>6. CASE s.do = "sheet"
  <2>1. Effect(db, s) = [db EXCEPT !.sheets = db.sheets \cup {s.on}]
    BY <1>6 DEF Effect, Tables
  <2> QED
    BY <1>6, <2>1 DEF Tables, WellFormed
<1>7. CASE s.do = "audit"
  <2>1. Effect(db, s) = [db EXCEPT !.audit = db.audit \cup ({s.on} \cap PxKeys)]
    BY <1>7 DEF Effect, Tables
  <2> QED
    BY <1>7, <2>1 DEF Tables
<1> QED
  BY <1>1, <1>2, <1>3, <1>4, <1>5, <1>6, <1>7 DEF AllStatements, OnKeys

LEMMA OneLess ==
  /\ \A n \in Nat \ {0} : n - 1 \in Nat
  /\ \A m \in Nat \ {0}, n \in Nat : m = n - 1 => m \in 1..m /\ m + 1 = n
  /\ \A n \in Nat : \A i \in 1..n : i \in Nat /\ i + 1 # 1 /\ (i + 1 = 2 => i = 1)
<1>1. \A n \in Nat \ {0} : n - 1 \in Nat
  OBVIOUS
<1>2. \A m \in Nat \ {0}, n \in Nat : m = n - 1 => m \in 1..m /\ m + 1 = n
  OBVIOUS
<1>3. \A n \in Nat : \A i \in 1..n : i \in Nat /\ i + 1 # 1 /\ (i + 1 = 2 => i = 1)
  OBVIOUS
<1> QED
  BY <1>1, <1>2, <1>3

LEMMA Emptied == \A S : \A s \in Seq(S) : Len(s) \in Nat /\ (Len(s) = 0 <=> s = <<>>)
OBVIOUS

LEMMA Says ==
  ASSUME NEW do, NEW on, NEW of
  PROVE  /\ Statement(do, on, of).do = do /\ Statement(do, on, of).on = on
         /\ Statement(do, on, of).of = of
BY DEF Statement

LEMMA RotationBegins ==
  ASSUME NEW app, NEW k, ToRevokeAll(app, k)
  PROVE  todo[1].do = "revokeAll" /\ todo[1].on = app
<1>1. todo[1] = Statement("revokeAll", app, NoPx)
  BY DEF ToRevokeAll
<1> QED
  BY <1>1, Says

LEMMA HeadOK ==
  ASSUME PxTypes, todo # <<>>
  PROVE  /\ Head(todo) = todo[1] /\ todo[1] \in AllStatements
         /\ Tail(todo) \in Seq(AllStatements) /\ Len(todo) \in Nat \ {0}
         /\ Len(Tail(todo)) = Len(todo) - 1
         /\ \A i \in 1..Len(Tail(todo)) : i + 1 \in 1..Len(todo) /\ Tail(todo)[i] = todo[i + 1]
         /\ Tail(todo) = <<>> => Len(todo) = 1
         /\ Len(todo) = 4 => /\ Len(Tail(todo)) = 3 /\ Tail(todo)[1] = todo[2]
                             /\ Tail(todo)[2] = todo[3] /\ Tail(todo)[3] = todo[4]
         /\ Len(todo) = 3 => /\ Len(Tail(todo)) = 2 /\ Tail(todo)[1] = todo[2]
                             /\ Tail(todo)[2] = todo[3]
<1>1. todo \in Seq(AllStatements) /\ Len(todo) \in Nat
  BY DEF PxTypes
<1>2. Len(todo) # 0
  BY <1>1
<1>3. /\ Head(todo) \in AllStatements /\ Tail(todo) \in Seq(AllStatements)
      /\ Len(Tail(todo)) = Len(todo) - 1
      /\ \A i \in 1..Len(Tail(todo)) : Tail(todo)[i] = todo[i + 1]
  BY <1>1, HeadTailProperties
<1>4. \A i \in 1..Len(Tail(todo)) : i + 1 \in 1..Len(todo)
  BY <1>1, <1>2, <1>3
<1>5. Head(todo) = todo[1]
  BY <1>1
<1>6. Tail(todo) = <<>> => Len(todo) = 1
  <2>1. Tail(todo) = <<>> => Len(Tail(todo)) = 0
    BY <1>3, Emptied
  <2>2. \A m, n \in Nat : m = n - 1 /\ m = 0 => n = 1
    OBVIOUS
  <2>3. Len(Tail(todo)) \in Nat
    BY <1>3, Emptied
  <2> QED
    BY <2>1, <2>2, <2>3, <1>1, <1>3
<1>7. ASSUME Len(todo) = 4
      PROVE  /\ Len(Tail(todo)) = 3 /\ Tail(todo)[1] = todo[2]
             /\ Tail(todo)[2] = todo[3] /\ Tail(todo)[3] = todo[4]
  <2>1. Len(Tail(todo)) = 3
    BY <1>3, <1>7
  <2>2. 1 \in 1..3 /\ 2 \in 1..3 /\ 3 \in 1..3 /\ 1 + 1 = 2 /\ 2 + 1 = 3 /\ 3 + 1 = 4
    OBVIOUS
  <2> QED
    BY <1>3, <2>1, <2>2
<1>8. ASSUME Len(todo) = 3
      PROVE  /\ Len(Tail(todo)) = 2 /\ Tail(todo)[1] = todo[2] /\ Tail(todo)[2] = todo[3]
  <2>1. Len(Tail(todo)) = 2
    BY <1>3, <1>8
  <2>2. 1 \in 1..2 /\ 2 \in 1..2 /\ 1 + 1 = 2 /\ 2 + 1 = 3
    OBVIOUS
  <2> QED
    BY <1>3, <2>1, <2>2
<1> QED
  BY <1>1, <1>2, <1>3, <1>4, <1>5, <1>6, <1>7, <1>8

\* What is left of an operation is one.
LEMMA TodoAdvances ==
  ASSUME PxTypes, TodoOK, todo # <<>>, todo' = Tail(todo),
         todo[1].do = "noDefault" => view'.defaults = {}
  PROVE  TodoOK'
<1>1. Len(todo') \in Nat /\ Len(todo') = Len(todo) - 1 /\ Len(todo) \in Nat \ {0}
  <2>1. Len(todo') = Len(todo) - 1 /\ Len(todo) \in Nat \ {0}
    BY HeadOK
  <2> DEFINE n == Len(todo)
  <2> HIDE DEF n
  <2>2. n - 1 \in Nat /\ n = Len(todo)
    BY <2>1, OneLess DEF n
  <2> QED
    BY <2>1, <2>2
<1>2. \A i \in 1..Len(todo') : i + 1 \in 1..Len(todo) /\ todo'[i] = todo[i + 1]
  BY HeadOK
<1>3. \A i \in 1..Len(todo') : WellFormed(todo'[i])
  BY <1>2 DEF TodoOK
<1>4. todo' # <<>> => todo'[Len(todo')] = Commit
  <2> SUFFICES ASSUME todo' # <<>> PROVE todo'[Len(todo')] = Commit
    OBVIOUS
  <2>1. todo' \in Seq(AllStatements)
    BY HeadOK
  <2>2. Len(todo') # 0
    BY <2>1, Emptied
  <2>4. Len(todo') \in 1..Len(todo') /\ Len(todo') + 1 = Len(todo)
    BY <1>1, <2>2, OneLess
  <2> QED
    BY <1>2, <2>4 DEF TodoOK
<1>5. ASSUME NEW i \in 1..Len(todo'), todo'[i].do = "alert" PROVE FALSE
  <2>1. i + 1 = 1
    BY <1>2, <1>5 DEF TodoOK
  <2> QED
    BY <2>1, <1>1, OneLess
<1>6. ASSUME NEW i \in 1..Len(todo'), todo'[i].do = "default" PROVE i = 1 /\ view'.defaults = {}
  <2>1. \/ i + 1 = 1 
        \/ i + 1 = 2 /\ todo[1].do = "noDefault"
    BY <1>2, <1>6 DEF TodoOK
  <2>2. i = 1 /\ todo[1].do = "noDefault"
    BY <2>1, <1>1, OneLess
  <2> QED
    BY <2>2
<1> QED
  BY <1>3, <1>4, <1>5, <1>6 DEF TodoOK

\* One after another, and none about keys
LEMMA OffKeysStep ==
  ASSUME PxInv, OffKeys, Execute
  PROVE  PxInv'
<1> DEFINE s == todo[1]
<1>1. /\ s \in AllStatements /\ s.do # "commit" /\ todo # <<>> /\ todo' = Tail(todo)
      /\ view' = Effect(view, s) /\ unended' = TRUE
      /\ UNCHANGED <<disk, bundle, lastRotated, nameTaken>>
  BY HeadOK DEF Execute, PxInv
<1>2. Len(todo) \in Nat \ {0}
  BY <1>1, HeadOK DEF PxInv
<1>3. 1 \in 1..Len(todo)
  BY <1>2
<1>4. /\ WellFormed(s) /\ s.do \notin OnKeys
      /\ s.do = "alert" => view.alerts < MaxAlerts
      /\ s.do = "default" => view.defaults = {}
  BY <1>3 DEF PxInv, TodoOK, OffKeys, NoMore
<1> HIDE DEF s
<1>5. /\ view' \in Tables /\ view'.keys = view.keys /\ view.audit \subseteq view'.audit
      /\ s.do \notin {"default", "noDefault"} => view'.defaults = view.defaults
      /\ s.do = "noDefault" => view'.defaults = {}
      /\ s.do = "default" => view'.defaults = view.defaults \cup {s.on}
  <2>1. s.do = "alert" => view.alerts < MaxAlerts
    BY <1>4
  <2>2. view \in Tables
    BY DEF PxInv, PxTypes
  <2> QED
    BY <1>1, <1>4, <2>1, <2>2, QuietEffect
<1>6. PxTypes'
  BY <1>1, <1>5, HeadOK DEF PxInv, PxTypes
<1>7. TodoOK'
  BY <1>1, <1>5, TodoAdvances DEF PxInv, s
<1>8. OneDefault(view)'
  BY <1>4, <1>5 DEF PxInv, OneDefault
<1>9. (LastOnly(disk) /\ Audited(disk) /\ OneDefault(disk))'
  BY <1>1 DEF PxInv, LastOnly, Audited, OneDefault, Active
<1>10. todo' # <<>>
  <2> SUFFICES ASSUME Len(todo) = 1 PROVE FALSE
    BY <1>1, HeadOK DEF PxInv
  <2> QED
    BY <1>1 DEF PxInv, TodoOK, Commit, Statement, s
<1>11. OffKeys'
  <2>1. LastOnly(view)' /\ Audited(view)' /\ SameIssued'
    BY <1>1, <1>5 DEF OffKeys, GoodView, LastOnly, Audited, SameIssued, Active
  <2>2. NoMore(1)'
    BY <1>1, HeadOK DEF OffKeys, NoMore, PxInv
  <2> QED
    BY <2>1, <2>2 DEF OffKeys, GoodView
<1> QED
  BY <1>1, <1>6, <1>7, <1>8, <1>9, <1>10, <1>11 DEF PxInv, StageOK

\* The statements about keys: what they do to the types and to what is not about keys.
LEMMA KeyStep ==
  ASSUME PxInv, Execute, todo[1].do \in OnKeys,
         view' \in Tables, view'.defaults = view.defaults, StageOK'
  PROVE  PxInv'
<1>1. /\ todo[1].do # "commit" /\ todo # <<>> /\ todo' = Tail(todo) /\ unended' = TRUE
      /\ UNCHANGED <<disk, bundle, lastRotated, nameTaken>>
  BY HeadOK DEF Execute, PxInv
<1>2. Len(todo) \in Nat \ {0}
  BY <1>1, HeadOK DEF PxInv
<1>3. PxTypes'
  BY <1>1, HeadOK DEF PxInv, PxTypes
<1>4. TodoOK'
  BY <1>1, TodoAdvances DEF PxInv, OnKeys
<1>5. OneDefault(view)'
  BY DEF PxInv, OneDefault
<1>6. (LastOnly(disk) /\ Audited(disk) /\ OneDefault(disk))'
  BY <1>1 DEF PxInv, LastOnly, Audited, OneDefault, Active
<1>7. todo' # <<>>
  <2> SUFFICES ASSUME Len(todo) = 1 PROVE FALSE
    BY <1>1, HeadOK DEF PxInv
  <2> QED
    BY <1>1 DEF PxInv, TodoOK, Commit, Statement
<1> QED
  BY <1>1, <1>3, <1>4, <1>5, <1>6, <1>7 DEF PxInv

LEMMA RevokingStep ==
  ASSUME PxInv, NEW k \in PxKeys, Revoking(k), Execute
  PROVE  PxInv'
<1>1. /\ todo[1].do = "revoke" /\ todo[1].on = k
      /\ todo # <<>> /\ todo' = Tail(todo) /\ view' = Effect(view, todo[1])
      /\ UNCHANGED <<disk, lastRotated>>
  BY HeadOK DEF Execute, PxInv, Revoking, Statement
<1>2. view' = Revoked(view, {k})
  BY <1>1 DEF Effect
<1>3. /\ view' \in Tables /\ view'.defaults = view.defaults /\ view'.audit = view.audit
      /\ \A j \in PxKeys : view'.keys[j] = NoPx <=> view.keys[j] = NoPx
      /\ \A a \in Apps : Active(view', a) = Active(view, a) \ {k}
  <2>1. view \in Tables /\ {k} \in SUBSET PxKeys
    BY DEF PxInv, PxTypes
  <2> QED
    BY <1>2, <2>1, RevokedOK
<1>4. LastOnly(view)'
  BY <1>1, <1>3 DEF Revoking, GoodView, LastOnly
<1>5. Audited(view)' /\ SameIssued'
  BY <1>1, <1>3 DEF Revoking, GoodView, Audited, SameIssued
<1>6. NoMore(1)'
  BY <1>1, HeadOK DEF Revoking, NoMore, PxInv
<1>7. StageOK'
  BY <1>4, <1>5, <1>6 DEF StageOK, OffKeys, GoodView
<1> QED
  BY <1>1, <1>3, <1>7, KeyStep DEF OnKeys

LEMMA RevokeAllStep ==
  ASSUME PxInv, NEW app \in Apps, NEW k \in PxKeys, ToRevokeAll(app, k), Execute
  PROVE  PxInv'
<1>1. /\ todo[1].do = "revokeAll" /\ todo[1].on = app
      /\ todo # <<>> /\ todo' = Tail(todo) /\ view' = Effect(view, todo[1])
      /\ UNCHANGED <<disk, lastRotated>>
  <2>1. todo[1].do = "revokeAll" /\ todo[1].on = app
    BY RotationBegins
  <2> QED
    BY <2>1, HeadOK DEF Execute, PxInv
<1>2. view' = Revoked(view, Active(view, app))
  BY <1>1 DEF Effect
<1>3. /\ view' \in Tables /\ view'.defaults = view.defaults /\ view'.audit = view.audit
      /\ \A j \in PxKeys : view'.keys[j] = NoPx <=> view.keys[j] = NoPx
      /\ \A a \in Apps : Active(view', a) = Active(view, a) \ Active(view, app)
  <2>1. view \in Tables /\ Active(view, app) \in SUBSET PxKeys
    BY DEF PxInv, PxTypes, Active
  <2> QED
    BY <1>2, <2>1, RevokedOK
<1>4. \A a \in Apps \ {app} : Active(view, a) \cap Active(view, app) = {}
  BY DEF Active
<1>5. OthersStand(app)' /\ Active(view, app)' = {}
  BY <1>1, <1>3, <1>4 DEF ToRevokeAll, GoodView, LastOnly, OthersStand
<1>6. Audited(view)' /\ SameIssued' /\ view'.keys[k] = NoPx
  BY <1>1, <1>3 DEF ToRevokeAll, GoodView, Audited, SameIssued
<1>7. Len(todo') = 3 /\ todo'[1] = todo[2] /\ todo'[2] = todo[3] /\ todo'[3] = todo[4]
  <2>1. Len(todo) = 4
    BY DEF ToRevokeAll
  <2> QED
    BY <1>1, <2>1, HeadOK DEF PxInv
<1>8. StageOK'
  BY <1>5, <1>6, <1>7 DEF StageOK, ToInsert, ToRevokeAll
<1> QED
  BY <1>1, <1>3, <1>8, KeyStep DEF OnKeys

LEMMA InsertStep ==
  ASSUME PxInv, NEW app \in Apps, NEW k \in PxKeys, ToInsert(app, k), Execute
  PROVE  PxInv'
<1> DEFINE row == [app |-> app, active |-> TRUE]
<1>1. /\ todo[1].do = "key" /\ todo[1].on = k /\ todo[1].of = app
      /\ todo # <<>> /\ todo' = Tail(todo) /\ view' = Effect(view, todo[1])
      /\ UNCHANGED <<disk, lastRotated>>
  BY HeadOK DEF Execute, PxInv, ToInsert, Statement
<1>2. view' = [view EXCEPT !.keys = [view.keys EXCEPT ![k] = row]]
  BY <1>1 DEF Effect, PxInv, PxTypes, Tables
<1>3. row \in [app : Apps, active : BOOLEAN] /\ row.app = app /\ row.active /\ row # NoPx
  <2>1. row \in [app : Apps, active : BOOLEAN]
    OBVIOUS
  <2>2. row.app = app
    OBVIOUS
  <2>3. row.active = TRUE
    OBVIOUS
  <2> HIDE DEF row
  <2> QED
    BY <2>1, <2>2, <2>3, ExtensionsAssumption
<1> HIDE DEF row
<1>4. /\ view' \in Tables /\ view'.defaults = view.defaults /\ view'.audit = view.audit
      /\ view'.keys = [view.keys EXCEPT ![k] = row]
  BY <1>2, <1>3 DEF PxInv, PxTypes, Tables
<1>5. view'.keys[k] = row /\ \A j \in PxKeys \ {k} : view'.keys[j] = view.keys[j]
  BY <1>4 DEF PxInv, PxTypes, Tables
<1>6. /\ Active(view', app) = Active(view, app) \cup {k}
      /\ \A a \in Apps \ {app} : Active(view', a) = Active(view, a)
  BY <1>3, <1>5 DEF Active, ToInsert
<1>7. OthersStand(app)' /\ Active(view, app)' = {k}
  BY <1>1, <1>6 DEF ToInsert, OthersStand
<1>8. \A j \in PxKeys \ {k} : /\ view'.keys[j] # NoPx => j \in view'.audit
                              /\ view'.keys[j] = NoPx <=> disk'.keys[j] = NoPx
  BY <1>1, <1>4, <1>5 DEF ToInsert, Audited, SameIssued
<1>9. disk'.keys[k] = NoPx
  BY <1>1 DEF ToInsert, SameIssued
<1>10. Len(todo') = 2 /\ todo'[1] = todo[2] /\ todo'[2] = todo[3]
  <2>1. Len(todo) = 3
    BY DEF ToInsert
  <2> QED
    BY <1>1, <2>1, HeadOK DEF PxInv
<1>11. StageOK'
  BY <1>5, <1>7, <1>8, <1>9, <1>10 DEF StageOK, ToAudit, Inserted, ToInsert, row
<1> QED
  BY <1>1, <1>4, <1>11, KeyStep DEF OnKeys

LEMMA AuditStep ==
  ASSUME PxInv, NEW app \in Apps, NEW k \in PxKeys, ToAudit(app, k), Execute
  PROVE  PxInv'
<1>1. /\ todo[1] = Audit(k) /\ todo # <<>> /\ todo' = Tail(todo) /\ view' = Effect(view, todo[1])
      /\ unended' = TRUE /\ UNCHANGED <<disk, bundle, lastRotated, nameTaken>>
  BY HeadOK DEF Execute, PxInv, ToAudit
<1>2. todo[1] \in AllStatements /\ WellFormed(todo[1]) /\ todo[1].do = "audit" /\ todo[1].on = k
  BY <1>1, HeadOK DEF Audit, Statement, WellFormed, PxInv
<1>3. /\ view' \in Tables /\ view'.keys = view.keys /\ view.audit \subseteq view'.audit
      /\ view'.defaults = view.defaults /\ k \in view'.audit
  BY <1>1, <1>2, QuietEffect DEF PxInv, PxTypes, OnKeys
<1>4. Len(todo') = 1 /\ todo'[1] = todo[2]
  BY <1>1, HeadOK DEF ToAudit, PxInv
<1>5. PxTypes'
  BY <1>1, <1>3, HeadOK DEF PxInv, PxTypes
<1>6. TodoOK'
  BY <1>1, <1>2, TodoAdvances DEF PxInv
<1>7. OneDefault(view)'
  BY <1>3 DEF PxInv, OneDefault
<1>8. (LastOnly(disk) /\ Audited(disk) /\ OneDefault(disk))'
  BY <1>1 DEF PxInv, LastOnly, Audited, OneDefault, Active
<1>9. Inserted(app, k)'
  BY <1>1, <1>3 DEF ToAudit, Inserted, OthersStand, Active
<1>10. StageOK'
  BY <1>3, <1>4, <1>9 DEF StageOK, ToCommit, ToAudit
<1>11. todo' # <<>>
  BY <1>4
<1> QED
  BY <1>1, <1>5, <1>6, <1>7, <1>8, <1>10, <1>11 DEF PxInv

\* A commit of what is not a rotation
LEMMA PlainCommit ==
  ASSUME PxInv, GoodView, EndTransaction
  PROVE  /\ view' = view /\ disk' = view /\ lastRotated' = lastRotated /\ bundle' = bundle
         /\ (LastOnly(disk) /\ Audited(disk) /\ OneDefault(disk) /\ OneDefault(view) /\ GoodView)'
<1>1. \A a \in Apps : New(a) = {}
  BY DEF New, GoodView, SameIssued
<1>2. lastRotated' = lastRotated
  <2>1. lastRotated' = [a \in Apps |-> lastRotated[a]]
    BY <1>1 DEF EndTransaction
  <2> QED
    BY <2>1 DEF PxInv, PxTypes
<1>3. view' = view /\ disk' = view /\ bundle' = bundle
  BY DEF EndTransaction
<1>4. (LastOnly(disk) /\ LastOnly(view))'
  BY <1>2, <1>3 DEF LastOnly, GoodView, Active
<1>5. (Audited(disk) /\ Audited(view) /\ SameIssued /\ OneDefault(disk) /\ OneDefault(view))'
  BY <1>3 DEF Audited, GoodView, OneDefault, SameIssued, PxInv
<1> QED
  BY <1>2, <1>3, <1>4, <1>5 DEF GoodView

LEMMA QuietCommitStep ==
  ASSUME PxInv, OffKeys, CommitNext
  PROVE  PxInv'
<1>1. /\ todo # <<>> /\ todo[1] = Commit /\ todo' = Tail(todo) /\ EndTransaction
  BY HeadOK DEF CommitNext, PxInv
<1>2. todo[1].do = "commit"
  BY <1>1, Says DEF Commit
<1>3. unended' = FALSE /\ nameTaken' = FALSE
  BY <1>1 DEF EndTransaction
<1>4. /\ view' = view /\ disk' = view /\ lastRotated' = lastRotated /\ bundle' = bundle
      /\ (LastOnly(disk) /\ Audited(disk) /\ OneDefault(disk) /\ OneDefault(view) /\ GoodView)'
  BY <1>1, PlainCommit DEF OffKeys
<1>5. PxTypes'
  BY <1>1, <1>3, <1>4, HeadOK DEF PxInv, PxTypes
<1>6. TodoOK'
  BY <1>1, <1>2, TodoAdvances DEF PxInv
<1>7. NoMore(1)'
  BY <1>1, HeadOK DEF OffKeys, NoMore, PxInv
<1> QED
  BY <1>3, <1>4, <1>5, <1>6, <1>7 DEF PxInv, StageOK, OffKeys

LEMMA RotatedStep ==
  ASSUME PxInv, NEW app \in Apps, NEW k \in PxKeys, ToCommit(app, k), CommitNext
  PROVE  PxInv'
<1>1. /\ todo # <<>> /\ todo[1] = Commit /\ todo' = Tail(todo) /\ EndTransaction
  BY HeadOK DEF CommitNext, PxInv
<1>2. todo[1].do = "commit"
  BY <1>1, Says DEF Commit
<1>3. unended' = FALSE /\ nameTaken' = FALSE /\ view' = view /\ disk' = view /\ bundle' = bundle
  BY <1>1 DEF EndTransaction
<1>4. New(app) = {k} /\ \A a \in Apps \ {app} : New(a) = {}
  <2>1. view.keys[k] # NoPx /\ view.keys[k].app = app
    <3>1. [app |-> app, active |-> TRUE] \in [app : Apps, active : BOOLEAN]
      OBVIOUS
    <3>2. [app |-> app, active |-> TRUE].app = app
      OBVIOUS
    <3> QED
      BY <3>1, <3>2, ExtensionsAssumption DEF ToCommit, Inserted
  <2> QED
    BY <2>1 DEF New, ToCommit, Inserted
<1>5. /\ lastRotated' \in [Apps -> PxKeys \cup {NoPx}] /\ lastRotated'[app] = k
      /\ \A a \in Apps \ {app} : lastRotated'[a] = lastRotated[a]
  <2>1. lastRotated' = [a \in Apps |-> IF New(a) = {} THEN lastRotated[a] ELSE CHOOSE j \in New(a) : TRUE]
    BY <1>1 DEF EndTransaction
  <2>2. \A a \in Apps : lastRotated'[a] = IF a = app THEN k ELSE lastRotated[a]
    BY <1>4, <2>1
  <2>3. lastRotated' = [a \in Apps |-> lastRotated'[a]]
    BY <2>1
  <2> QED
    BY <2>2, <2>3 DEF PxInv, PxTypes
<1>6. PxTypes'
  BY <1>1, <1>3, <1>5, HeadOK DEF PxInv, PxTypes
<1>7. TodoOK'
  BY <1>1, <1>2, TodoAdvances DEF PxInv
<1>8. (LastOnly(view) /\ LastOnly(disk))'
  BY <1>3, <1>5 DEF LastOnly, Active, ToCommit, Inserted, OthersStand
<1>9. (Audited(view) /\ Audited(disk))'
  BY <1>3 DEF Audited, ToCommit, Inserted
<1>10. (SameIssued /\ OneDefault(view) /\ OneDefault(disk))'
  BY <1>3 DEF SameIssued, OneDefault, PxInv
<1>11. Len(todo') = 0
  <2>1. Len(todo) = 1 /\ Len(todo') = Len(todo) - 1
    BY <1>1, HeadOK DEF ToCommit, PxInv
  <2> QED
    BY <2>1
<1>12. NoMore(1)'
  BY <1>11 DEF NoMore
<1> QED
  BY <1>3, <1>6, <1>7, <1>8, <1>9, <1>10, <1>12 DEF PxInv, StageOK, OffKeys, GoodView

\* The other stages have another statement before them than a commit, or a commit.
LEMMA ExecuteStep ==
  ASSUME PxInv, Execute
  PROVE  PxInv'
<1>1. ASSUME NEW app \in Apps, NEW k \in PxKeys, ToCommit(app, k) PROVE FALSE
  <2>1. todo[1].do = "commit"
    BY <1>1, Says DEF ToCommit, Commit
  <2>2. todo[1].do # "commit"
    BY HeadOK DEF Execute, PxInv
  <2> QED
    BY <2>1, <2>2
<1> QED
  BY <1>1, OffKeysStep, RevokingStep, RevokeAllStep, InsertStep, AuditStep DEF PxInv, StageOK

LEMMA CommitStep ==
  ASSUME PxInv, CommitNext
  PROVE  PxInv'
<1>1. todo[1].do = "commit"
  <2>1. todo[1] = Commit
    BY HeadOK DEF CommitNext, PxInv
  <2> QED
    BY <2>1, Says DEF Commit
<1>2. ASSUME NEW k \in PxKeys, Revoking(k) PROVE FALSE
  BY <1>1, <1>2, Says DEF Revoking
<1>3. ASSUME NEW app \in Apps, NEW k \in PxKeys, ToRevokeAll(app, k) PROVE FALSE
  BY <1>1, <1>3, RotationBegins
<1>4. ASSUME NEW app \in Apps, NEW k \in PxKeys, ToInsert(app, k) PROVE FALSE
  BY <1>1, <1>4, Says DEF ToInsert
<1>5. ASSUME NEW app \in Apps, NEW k \in PxKeys, ToAudit(app, k) PROVE FALSE
  BY <1>1, <1>5, Says DEF ToAudit, Audit
<1> QED
  BY <1>2, <1>3, <1>4, <1>5, QuietCommitStep, RotatedStep DEF PxInv, StageOK

\* Between operations
LEMMA Between ==
  ASSUME PxInv, todo = <<>>
  PROVE  GoodView /\ OffKeys
<1>1. Len(todo) = 0
  BY Emptied DEF PxInv, PxTypes
<1>2. ASSUME NEW k \in PxKeys, Revoking(k) PROVE FALSE
  BY <1>1, <1>2 DEF Revoking
<1>3. ASSUME NEW app \in Apps, NEW k \in PxKeys,
             ToRevokeAll(app, k) \/ ToInsert(app, k) \/ ToAudit(app, k) \/ ToCommit(app, k)
      PROVE  FALSE
  BY <1>1, <1>3 DEF ToRevokeAll, ToInsert, ToAudit, ToCommit
<1>4. OffKeys
  BY <1>2, <1>3 DEF PxInv, StageOK
<1> QED
  BY <1>4 DEF OffKeys

LEMMA NothingTodo ==
  ASSUME todo' = <<>>
  PROVE  (TodoOK /\ NoMore(1) /\ NoMore(2))' /\ todo' \in Seq(AllStatements)
<1>1. todo' \in Seq(AllStatements) /\ Len(todo') = 0
  OBVIOUS
<1> QED
  BY <1>1 DEF TodoOK, NoMore

LEMMA StudioCommitsStep ==
  ASSUME PxInv, StudioCommits
  PROVE  PxInv'
<1>1. EndTransaction /\ todo = <<>> /\ todo' = <<>>
  BY DEF StudioCommits
<1>2. unended' = FALSE /\ nameTaken' = FALSE
  BY <1>1 DEF EndTransaction
<1>3. /\ view' = view /\ disk' = view /\ lastRotated' = lastRotated /\ bundle' = bundle
      /\ (LastOnly(disk) /\ Audited(disk) /\ OneDefault(disk) /\ OneDefault(view) /\ GoodView)'
  BY <1>1, Between, PlainCommit
<1>4. PxTypes'
  BY <1>1, <1>2, <1>3, NothingTodo DEF PxInv, PxTypes
<1> QED
  BY <1>1, <1>2, <1>3, <1>4, NothingTodo DEF PxInv, StageOK, OffKeys

LEMMA ConsoleDiesStep ==
  ASSUME PxInv, ConsoleDies
  PROVE  PxInv'
<1>1. /\ todo' = <<>> /\ view' = disk /\ disk' = disk /\ unended' = FALSE /\ nameTaken' = FALSE
      /\ UNCHANGED <<bundle, lastRotated>>
  BY DEF ConsoleDies
<1>2. PxTypes'
  BY <1>1, NothingTodo DEF PxInv, PxTypes
<1>3. (LastOnly(disk) /\ LastOnly(view))'
  BY <1>1 DEF PxInv, LastOnly, Active
<1>4. (Audited(disk) /\ Audited(view) /\ SameIssued /\ OneDefault(disk) /\ OneDefault(view))'
  BY <1>1 DEF PxInv, Audited, SameIssued, OneDefault
<1> QED
  BY <1>1, <1>2, <1>3, <1>4, NothingTodo DEF PxInv, StageOK, OffKeys, GoodView

\* A name that is taken is of the creation of an environment, which changes no key.
LEMMA RefusedStep ==
  ASSUME PxInv, EnvironmentRefused
  PROVE  PxInv'
<1>1. /\ todo' = <<>> /\ unended' = TRUE /\ nameTaken' = TRUE
      /\ UNCHANGED <<view, disk, bundle, lastRotated>>
  BY DEF EnvironmentRefused
<1>2. todo # <<>> /\ todo[1].do \in {"env", "default"}
  BY HeadOK DEF EnvironmentRefused, Taken, PxInv
<1>3. GoodView
  <2>1. ASSUME NEW k \in PxKeys, Revoking(k) PROVE FALSE
    BY <1>2, <2>1, Says DEF Revoking
  <2>2. ASSUME NEW app \in Apps, NEW k \in PxKeys, ToRevokeAll(app, k) PROVE FALSE
    BY <1>2, <2>2, RotationBegins
  <2>3. ASSUME NEW app \in Apps, NEW k \in PxKeys, ToInsert(app, k) PROVE FALSE
    BY <1>2, <2>3, Says DEF ToInsert
  <2>4. ASSUME NEW app \in Apps, NEW k \in PxKeys, ToAudit(app, k) PROVE FALSE
    BY <1>2, <2>4, Says DEF ToAudit, Audit
  <2>5. ASSUME NEW app \in Apps, NEW k \in PxKeys, ToCommit(app, k) PROVE FALSE
    BY <1>2, <2>5, Says DEF ToCommit, Commit
  <2> QED
    BY <2>1, <2>2, <2>3, <2>4, <2>5 DEF PxInv, StageOK, OffKeys
<1>4. PxTypes'
  BY <1>1, NothingTodo DEF PxInv, PxTypes
<1>5. (LastOnly(disk) /\ LastOnly(view))'
  BY <1>1, <1>3 DEF PxInv, GoodView, LastOnly, Active
<1>6. (Audited(disk) /\ Audited(view) /\ SameIssued /\ OneDefault(disk) /\ OneDefault(view))'
  BY <1>1, <1>3 DEF PxInv, GoodView, Audited, SameIssued, OneDefault
<1> QED
  BY <1>1, <1>4, <1>5, <1>6, NothingTodo DEF PxInv, StageOK, OffKeys, GoodView

-----------------------------------------------------------------------------
\* A sequence of statements that an operation may begin with: none is about keys.
Program(p) ==
  /\ p \in Seq(AllStatements)
  /\ p # <<>> => p[Len(p)] = Commit
  /\ \A i \in 1..Len(p) : WellFormed(p[i]) /\ p[i].do \notin OnKeys
  /\ \A i \in 1..Len(p) : p[i].do = "alert" => i = 1 /\ view.alerts < MaxAlerts
  /\ \A i \in 1..Len(p) :
       p[i].do = "default" =>
         (i = 1 /\ view.defaults = {}) \/ (i = 2 /\ p[1].do = "noDefault")

\* What may follow it
Rest(q) ==
  /\ q \in Seq(AllStatements)
  /\ q # <<>> => q[Len(q)] = Commit
  /\ \A i \in 1..Len(q) : WellFormed(q[i]) /\ q[i].do \notin OnKeys \cup {"alert", "default"}

LEMMA CommitOK == Commit \in AllStatements /\ Commit.do = "commit" /\ WellFormed(Commit)
<1>1. Commit.do = "commit"
  BY Says DEF Commit
<1>2. Commit \in AllStatements
  BY DEF Commit, Statement, AllStatements
<1> QED
  BY <1>1, <1>2 DEF WellFormed

LEMMA AuditOK ==
  ASSUME NEW x \in PxKeys \cup PxScopes \cup Sheets
  PROVE  Audit(x) \in AllStatements /\ Audit(x).do = "audit" /\ WellFormed(Audit(x))
<1>1. Audit(x).do = "audit"
  BY Says DEF Audit
<1>2. Audit(x) \in AllStatements
  BY DEF Audit, Statement, AllStatements
<1> QED
  BY <1>1, <1>2 DEF WellFormed

LEMMA OneThenCommit ==
  ASSUME NEW s \in AllStatements
  PROVE  /\ <<s, Commit>> \in Seq(AllStatements) /\ Len(<<s, Commit>>) = 2
         /\ <<s, Commit>>[1] = s /\ <<s, Commit>>[2] = Commit
         /\ \A i \in 1..2 : i = 1 \/ i = 2
BY CommitOK

LEMMA NothingIsRest == Rest(<<>>)
BY Emptied DEF Rest

LEMMA AuditIsRest ==
  ASSUME NEW x \in PxKeys \cup PxScopes \cup Sheets
  PROVE  Rest(<<Audit(x), Commit>>)
<1> DEFINE p == <<Audit(x), Commit>>
<1>1. /\ p \in Seq(AllStatements) /\ Len(p) = 2 /\ p[1] = Audit(x) /\ p[2] = Commit
      /\ \A i \in 1..2 : i = 1 \/ i = 2
  BY AuditOK, OneThenCommit
<1> HIDE DEF p
<1>2. \A i \in 1..Len(p) : WellFormed(p[i]) /\ p[i].do \in {"audit", "commit"}
  BY <1>1, AuditOK, CommitOK
<1>3. Rest(p)
  BY <1>1, <1>2 DEF Rest, OnKeys
<1> QED
  BY <1>3 DEF p

LEMMA LimitIsRest ==
  ASSUME NEW scope \in PxScopes, NEW usd \in PxLimits
  PROVE  Rest(Limit(scope, usd))
<1> DEFINE s == Statement("budget", scope, usd)
           p == Limit(scope, usd)
<1>1. s \in AllStatements /\ s.do = "budget" /\ s.on = scope /\ s.of = usd
  <2>1. s \in AllStatements
    BY DEF Statement, AllStatements
  <2> QED
    BY <2>1, Says
<1>2. WellFormed(s)
  BY <1>1 DEF WellFormed
<1> HIDE DEF s
<1>3. /\ p \in Seq(AllStatements) /\ Len(p) = 4 /\ p[1] = s /\ p[2] = Commit
      /\ p[3] = Audit(scope) /\ p[4] = Commit
  BY <1>1, CommitOK, AuditOK DEF Limit, s
<1> HIDE DEF p
<1>4. \A i \in 1..4 : i = 1 \/ i = 2 \/ i = 3 \/ i = 4
  OBVIOUS
<1>5. \A i \in 1..Len(p) : WellFormed(p[i]) /\ p[i].do \in {"budget", "audit", "commit"}
  BY <1>1, <1>2, <1>3, <1>4, AuditOK, CommitOK
<1>6. Rest(p)
  BY <1>3, <1>5 DEF Rest, OnKeys
<1> QED
  BY <1>6 DEF p

LEMMA RestIsProgram == \A q : Rest(q) => Program(q)
BY DEF Rest, Program

\* One statement and a commit
LEMMA ShortProgram ==
  ASSUME NEW s \in AllStatements, WellFormed(s), s.do \notin OnKeys, s.do # "default",
         s.do = "alert" => view.alerts < MaxAlerts
  PROVE  Program(<<s, Commit>>)
<1> DEFINE p == <<s, Commit>>
<1>1. /\ p \in Seq(AllStatements) /\ Len(p) = 2 /\ p[1] = s /\ p[2] = Commit
      /\ \A i \in 1..2 : i = 1 \/ i = 2
  BY OneThenCommit
<1> HIDE DEF p
<1>2. \A i \in 1..Len(p) : WellFormed(p[i]) /\ p[i].do \notin OnKeys
  BY <1>1, CommitOK DEF OnKeys
<1>3. \A i \in 1..Len(p) : p[i].do = "alert" => i = 1 /\ view.alerts < MaxAlerts
  BY <1>1, CommitOK
<1>4. \A i \in 1..Len(p) : p[i].do # "default"
  BY <1>1, CommitOK
<1>5. Program(p)
  BY <1>1, <1>2, <1>3, <1>4 DEF Program
<1> QED
  BY <1>5 DEF p

LEMMA Joined ==
  ASSUME NEW p, NEW q, Program(p), Rest(q)
  PROVE  Program(p \o q)
<1>1. /\ p \in Seq(AllStatements) /\ q \in Seq(AllStatements)
      /\ Len(p) \in Nat /\ Len(q) \in Nat
  BY Emptied DEF Program, Rest
<1>2. /\ p \o q \in Seq(AllStatements) /\ Len(p \o q) = Len(p) + Len(q)
      /\ \A i \in 1..(Len(p) + Len(q)) : (p \o q)[i] = IF i <= Len(p) THEN p[i] ELSE q[i - Len(p)]
  BY <1>1, ConcatProperties
<1>3. CASE q = <<>>
  BY <1>1, <1>3, ConcatEmptySeq
<1>4. CASE q # <<>>
  <2> DEFINE m == Len(p)
             n == Len(q)
             r == p \o q
  <2>1. n # 0
    BY <1>1, <1>4, Emptied
  <2> HIDE DEF m, n, r
  <2>2. /\ m \in Nat /\ n \in Nat \ {0} /\ r \in Seq(AllStatements) /\ Len(r) = m + n
        /\ \A i \in 1..(m + n) : r[i] = IF i <= m THEN p[i] ELSE q[i - m]
    BY <1>1, <1>2, <2>1 DEF m, n, r
  <2>3. \A i \in 1..(m + n) : IF i <= m THEN i \in 1..m ELSE i - m \in 1..n
    BY <2>2
  <2>4. r[Len(r)] = Commit
    <3>1. m + n \in 1..(m + n) /\ ~ (m + n <= m) /\ m + n - m = n
      BY <2>2
    <3>2. q[n] = Commit
      BY <1>4 DEF Rest, n
    <3> QED
      BY <2>2, <3>1, <3>2
  <2>5. ASSUME NEW i \in 1..Len(r)
        PROVE  \/ i \in 1..m /\ r[i] = p[i]
               \/ WellFormed(r[i]) /\ r[i].do \notin OnKeys \cup {"alert", "default"}
    <3>1. i \in 1..(m + n)
      BY <2>2
    <3>2. CASE i <= m
      BY <2>2, <2>3, <3>1, <3>2
    <3>3. CASE ~ (i <= m)
      <4>1. r[i] = q[i - m] /\ i - m \in 1..n
        BY <2>2, <2>3, <3>1, <3>3
      <4> QED
        BY <4>1 DEF Rest, n
    <3> QED
      BY <3>2, <3>3
  <2>6. \A i \in 1..Len(r) : WellFormed(r[i]) /\ r[i].do \notin OnKeys
    BY <2>5 DEF Program, m
  <2>7. \A i \in 1..Len(r) : r[i].do = "alert" => i = 1 /\ view.alerts < MaxAlerts
    BY <2>5 DEF Program, m
  <2>8. \A i \in 1..Len(r) :
          r[i].do = "default" =>
            (i = 1 /\ view.defaults = {}) \/ (i = 2 /\ r[1].do = "noDefault")
    <3> TAKE i \in 1..Len(r)
    <3> HAVE r[i].do = "default"
    <3>1. i \in 1..m /\ r[i] = p[i]
      BY <2>5
    <3>2. (i = 1 /\ view.defaults = {}) \/ (i = 2 /\ p[1].do = "noDefault")
      BY <3>1 DEF Program, m
    <3>3. i = 2 => 1 \in 1..(m + n) /\ 1 <= m
      BY <3>1, <2>2
    <3>4. i = 2 => r[1] = p[1]
      BY <3>3, <2>2
    <3> QED
      BY <3>2, <3>4
  <2>9. Program(r)
    BY <2>2, <2>4, <2>6, <2>7, <2>8 DEF Program
  <2> QED
    BY <2>9 DEF r
<1> QED
  BY <1>3, <1>4

LEMMA BeginProgram ==
  ASSUME PxInv, NEW p, Program(p), Begin(p), lastRotated' = lastRotated
  PROVE  PxInv'
<1>1. todo = <<>> /\ todo' = p /\ UNCHANGED <<view, disk, unended, bundle, nameTaken>>
  BY DEF Begin
<1>2. GoodView
  BY <1>1, Between
<1>3. PxTypes'
  BY <1>1 DEF PxInv, PxTypes, Program
<1>4. TodoOK' /\ NoMore(1)'
  BY <1>1 DEF Program, TodoOK, NoMore
<1>5. (LastOnly(disk) /\ LastOnly(view))'
  BY <1>1, <1>2 DEF PxInv, GoodView, LastOnly, Active
<1>6. (Audited(disk) /\ Audited(view) /\ SameIssued /\ OneDefault(disk) /\ OneDefault(view))'
  BY <1>1, <1>2 DEF PxInv, GoodView, Audited, SameIssued, OneDefault
<1> QED
  BY <1>1, <1>3, <1>4, <1>5, <1>6 DEF PxInv, StageOK, OffKeys, GoodView

LEMMA RotationStep ==
  ASSUME PxInv, NEW app \in Apps, NEW k \in PxKeys, RotatePx(app, k)
  PROVE  PxInv'
<1> DEFINE p == Rotation(app, k)
           s == Statement("revokeAll", app, NoPx)
           t == Statement("key", k, app)
<1>1. /\ todo = <<>> /\ todo' = p /\ UNCHANGED <<view, disk, unended, bundle, nameTaken, lastRotated>>
      /\ view.keys[k] = NoPx
  BY DEF RotatePx, Change, Begin
<1>2. s \in AllStatements /\ t \in AllStatements
  BY DEF Statement, AllStatements
<1>3. s.do = "revokeAll" /\ s.on = app /\ t.do = "key" /\ t.on = k /\ t.of = app
  BY Says
<1>4. WellFormed(s) /\ WellFormed(t)
  BY <1>3 DEF WellFormed
<1>5. p = <<s, t, Audit(k), Commit>>
  BY DEF Rotation
<1> HIDE DEF s, t, p
<1>6. /\ p \in Seq(AllStatements) /\ Len(p) = 4 /\ p[1] = s /\ p[2] = t
      /\ p[3] = Audit(k) /\ p[4] = Commit
  BY <1>2, <1>5, CommitOK, AuditOK
<1>7. \A i \in 1..4 : i = 1 \/ i = 2 \/ i = 3 \/ i = 4
  OBVIOUS
<1>8. \A i \in 1..Len(p) : WellFormed(p[i]) /\ p[i].do \in {"revokeAll", "key", "audit", "commit"}
  BY <1>3, <1>4, <1>6, <1>7, AuditOK, CommitOK
<1>9. GoodView
  BY <1>1, Between
<1>10. PxTypes'
  BY <1>1, <1>6 DEF PxInv, PxTypes
<1>11. TodoOK'
  BY <1>1, <1>6, <1>8 DEF TodoOK
<1>12. (LastOnly(disk) /\ LastOnly(view))'
  BY <1>1, <1>9 DEF PxInv, GoodView, LastOnly, Active
<1>13. (Audited(disk) /\ Audited(view) /\ SameIssued /\ OneDefault(disk) /\ OneDefault(view))'
  BY <1>1, <1>9 DEF PxInv, GoodView, Audited, SameIssued, OneDefault
<1>14. ToRevokeAll(app, k)'
  BY <1>1, <1>6, <1>12, <1>13 DEF ToRevokeAll, GoodView, s, t
<1>15. todo' # <<>>
  BY <1>1, <1>6, Emptied
<1> QED
  BY <1>1, <1>10, <1>11, <1>12, <1>13, <1>14, <1>15 DEF PxInv, StageOK

LEMMA AfterTwo ==
  \A n \in Nat : \A i \in 1..(2 + n) : i = 1 \/ i = 2 \/ (~ (i <= 2) /\ i - 2 \in 1..n)
OBVIOUS

LEMMA RevokeStep ==
  ASSUME PxInv, NEW k \in PxKeys, RevokePx(k)
  PROVE  PxInv'
<1> DEFINE s == Statement("revoke", k, NoPx)
           p == <<s, Commit>>
<1>1. PICK q : Rest(q) /\ Begin(p \o q)
  BY NothingIsRest, AuditIsRest DEF RevokePx
<1>2. /\ lastRotated' \in [Apps -> PxKeys \cup {NoPx}]
      /\ \A a \in Apps : lastRotated'[a] # k /\ lastRotated'[a] \in {lastRotated[a], NoPx}
  <2>1. lastRotated' = [a \in Apps |-> IF lastRotated[a] = k THEN NoPx ELSE lastRotated[a]]
    BY DEF RevokePx
  <2>2. k # NoPx
    BY ExtensionsAssumption
  <2> QED
    BY <2>1, <2>2 DEF PxInv, PxTypes
<1>3. todo = <<>> /\ todo' = p \o q /\ UNCHANGED <<view, disk, unended, bundle, nameTaken>>
  BY <1>1 DEF Begin
<1>4. s \in AllStatements /\ s.do = "revoke" /\ s.on = k
  <2>1. s \in AllStatements
    BY DEF Statement, AllStatements
  <2> QED
    BY <2>1, Says
<1>5. WellFormed(s)
  BY <1>4 DEF WellFormed
<1> HIDE DEF s
<1>6. /\ p \in Seq(AllStatements) /\ Len(p) = 2 /\ p[1] = s /\ p[2] = Commit
  BY <1>4, OneThenCommit
<1> HIDE DEF p
<1>7. q \in Seq(AllStatements) /\ Len(q) \in Nat
  BY <1>1, Emptied DEF Rest
<1>8. /\ p \o q \in Seq(AllStatements) /\ Len(p \o q) = 2 + Len(q)
      /\ \A i \in 1..(2 + Len(q)) : (p \o q)[i] = IF i <= 2 THEN p[i] ELSE q[i - 2]
  <2>1. /\ p \o q \in Seq(AllStatements) /\ Len(p \o q) = Len(p) + Len(q)
        /\ \A i \in 1..(Len(p) + Len(q)) : (p \o q)[i] = IF i <= Len(p) THEN p[i] ELSE q[i - Len(p)]
    BY <1>6, <1>7, ConcatProperties
  <2>2. Len(p) = 2
    BY <1>6
  <2> QED
    BY <2>1, <2>2
<1>9. \A n \in Nat : \A i \in 1..(2 + n) : i = 1 \/ i = 2 \/ (~ (i <= 2) /\ i - 2 \in 1..n)
  BY AfterTwo
<1>10. (p \o q)[1] = s /\ (p \o q)[2] = Commit
  <2>1. \A n \in Nat : 1 \in 1..(2 + n) /\ 2 \in 1..(2 + n) /\ 1 <= 2 /\ 2 <= 2
    OBVIOUS
  <2> QED
    BY <1>6, <1>7, <1>8, <2>1
<1>11. \A i \in 1..(2 + Len(q)) :
         \/ i = 1 \/ i = 2
         \/ (p \o q)[i] = q[i - 2] /\ i - 2 \in 1..Len(q)
  BY <1>7, <1>8, <1>9
<1>12. (p \o q)[2 + Len(q)] = Commit
  <2>1. CASE q = <<>>
    <3>1. Len(q) = 0 /\ 2 + 0 = 2
      BY <2>1
    <3> QED
      BY <1>10, <3>1
  <2>2. CASE q # <<>>
    <3>1. Len(q) # 0 /\ q[Len(q)] = Commit
      BY <1>1, <1>7, <2>2, Emptied DEF Rest
    <3>2. \A n \in Nat \ {0} : 2 + n \in 1..(2 + n) /\ ~ (2 + n <= 2) /\ 2 + n - 2 = n
      OBVIOUS
    <3> QED
      BY <1>7, <1>8, <3>1, <3>2
  <2> QED
    BY <2>1, <2>2
<1> DEFINE r == p \o q
<1>13. \A i \in 1..Len(r) : WellFormed(r[i]) /\ r[i].do \notin {"alert", "default"}
  BY <1>1, <1>4, <1>5, <1>8, <1>10, <1>11, CommitOK DEF Rest
<1>14. \A i \in 2..Len(r) : r[i].do \notin OnKeys
  <2>1. \A n \in Nat : \A i \in 2..(2 + n) : i \in 1..(2 + n) /\ i # 1
    OBVIOUS
  <2> QED
    BY <1>1, <1>7, <1>8, <1>10, <1>11, <2>1, CommitOK DEF Rest, OnKeys
<1>15. /\ r \in Seq(AllStatements) /\ r[Len(r)] = Commit /\ r[1] = s /\ Len(r) > 0 /\ r # <<>>
  <2>1. \A n \in Nat : 2 + n > 0 /\ 2 + n # 0
    OBVIOUS
  <2>2. Len(r) > 0 /\ Len(r) # 0
    BY <1>7, <1>8, <2>1
  <2> QED
    BY <1>8, <1>10, <1>12, <2>2, Emptied
<1>16. todo' = r
  BY <1>3
<1> HIDE DEF r
<1>17. PxTypes'
  BY <1>2, <1>3, <1>15, <1>16 DEF PxInv, PxTypes
<1>18. TodoOK'
  BY <1>13, <1>15, <1>16 DEF TodoOK
<1>19. GoodView
  BY <1>3, Between
<1>20. (LastOnly(disk) /\ LastOnly(view))'
  <2>1. LastOnly(disk) /\ LastOnly(view)
    BY <1>19 DEF PxInv, GoodView
  <2> QED
    BY <1>2, <1>3, <2>1 DEF LastOnly, Active
<1>21. (Audited(disk) /\ Audited(view) /\ SameIssued /\ OneDefault(disk) /\ OneDefault(view))'
  BY <1>3, <1>19 DEF PxInv, GoodView, Audited, SameIssued, OneDefault
<1>22. Revoking(k)'
  BY <1>2, <1>14, <1>15, <1>16, <1>20, <1>21 DEF Revoking, GoodView, NoMore, s
<1> QED
  BY <1>3, <1>15, <1>16, <1>17, <1>18, <1>20, <1>21, <1>22 DEF PxInv, StageOK

LEMMA AlertIsProgram == view.alerts < MaxAlerts => Program(Alert)
<1> DEFINE s == Statement("alert", NoPx, NoPx)
<1>1. s \in AllStatements
  BY DEF Statement, AllStatements
<1>2. s.do = "alert"
  BY Says
<1>3. Alert = <<s, Commit>>
  BY DEF Alert
<1> HIDE DEF s
<1>4. WellFormed(s) /\ s.do \notin OnKeys /\ s.do # "default"
  BY <1>2 DEF WellFormed, OnKeys
<1> QED
  BY <1>1, <1>3, <1>4, ShortProgram

LEMMA EnvironmentStep ==
  ASSUME PxInv, NEW n \in EnvNames, NEW default \in BOOLEAN, CreateEnvironment(n, default)
  PROVE  PxInv'
<1>1. CASE default
  <2> DEFINE s == Statement("noDefault", NoPx, NoPx)
             t == Statement("default", n, NoPx)
             p == <<s, t, Commit>>
  <2>1. Begin(p) /\ lastRotated' = lastRotated
    BY <1>1 DEF CreateEnvironment, Change
  <2>2. s \in AllStatements /\ t \in AllStatements
    BY DEF Statement, AllStatements
  <2>3. s.do = "noDefault" /\ t.do = "default" /\ t.on = n
    BY Says
  <2> HIDE DEF s, t
  <2>4. WellFormed(s) /\ WellFormed(t)
    BY <2>3 DEF WellFormed
  <2>5. p \in Seq(AllStatements) /\ Len(p) = 3 /\ p[1] = s /\ p[2] = t /\ p[3] = Commit
    BY <2>2, CommitOK
  <2> HIDE DEF p
  <2>6. \A i \in 1..3 : i = 1 \/ i = 2 \/ i = 3
    OBVIOUS
  <2>7. \A i \in 1..Len(p) : WellFormed(p[i]) /\ p[i].do \in {"noDefault", "default", "commit"}
    BY <2>3, <2>4, <2>5, <2>6, CommitOK
  <2>8. \A i \in 1..Len(p) : p[i].do = "default" => i = 2 /\ p[1].do = "noDefault"
    BY <2>3, <2>5, <2>6, CommitOK
  <2>9. Program(p)
    BY <2>5, <2>7, <2>8 DEF Program, OnKeys
  <2> QED
    BY <2>1, <2>9, BeginProgram
<1>2. CASE ~ default
  <2> DEFINE s == Statement("env", n, NoPx)
  <2>1. Begin(<<s, Commit>>) /\ lastRotated' = lastRotated
    BY <1>2 DEF CreateEnvironment, Change
  <2>2. s \in AllStatements
    BY DEF Statement, AllStatements
  <2>3. s.do = "env" /\ s.on = n
    BY Says
  <2> HIDE DEF s
  <2>4. WellFormed(s) /\ s.do \notin OnKeys /\ s.do # "default" /\ s.do # "alert"
    BY <2>3 DEF WellFormed, OnKeys
  <2>5. Program(<<s, Commit>>)
    BY <2>2, <2>4, ShortProgram
  <2> QED
    BY <2>1, <2>5, BeginProgram
<1> QED
  BY <1>1, <1>2

LEMMA SheetStep ==
  ASSUME PxInv, NEW x \in Sheets, NEW audited \in BOOLEAN, SaveSheet(x, audited)
  PROVE  PxInv'
<1> DEFINE s == Statement("sheet", x, NoPx)
<1>1. PICK q : Rest(q) /\ Begin(<<s, Commit>> \o q) /\ lastRotated' = lastRotated
  BY NothingIsRest, AuditIsRest DEF SaveSheet, Change
<1>2. s \in AllStatements
  BY DEF Statement, AllStatements
<1>3. s.do = "sheet" /\ s.on = x
  BY Says
<1> HIDE DEF s
<1>4. WellFormed(s) /\ s.do \notin OnKeys /\ s.do # "default" /\ s.do # "alert"
  BY <1>3 DEF WellFormed, OnKeys
<1>5. Program(<<s, Commit>> \o q)
  BY <1>1, <1>2, <1>4, ShortProgram, Joined
<1> QED
  BY <1>1, <1>5, BeginProgram

LEMMA ImportStep ==
  ASSUME PxInv, NEW scope \in PxScopes, NEW usable \in BOOLEAN, ImportBundle(scope, usable)
  PROVE  PxInv'
<1> DEFINE p == IF bundle.alerts > 0 THEN Alert ELSE <<>>
           q == IF usable /\ bundle.limits[scope] # NoPx THEN Limit(scope, bundle.limits[scope]) ELSE <<>>
<1>1. Begin(p \o q) /\ lastRotated' = lastRotated
  BY DEF ImportBundle, Change
<1>2. Program(p)
  <2>1. CASE bundle.alerts > 0
    <3>1. /\ view.alerts \in Int /\ bundle.alerts \in Int /\ MaxAlerts \in Int
          /\ view.alerts + bundle.alerts <= MaxAlerts
      BY ExtensionsAssumption DEF PxInv, PxTypes, Tables, ImportBundle
    <3>2. view.alerts < MaxAlerts
      BY <2>1, <3>1
    <3> QED
      BY <2>1, <3>2, AlertIsProgram
  <2>2. CASE ~ (bundle.alerts > 0)
    BY <2>2, NothingIsRest, RestIsProgram
  <2> QED
    BY <2>1, <2>2
<1>3. Rest(q)
  <2>1. CASE usable /\ bundle.limits[scope] # NoPx
    <3>1. bundle.limits[scope] \in PxLimits
      BY <2>1 DEF PxInv, PxTypes
    <3> QED
      BY <2>1, <3>1, LimitIsRest
  <2>2. CASE ~ (usable /\ bundle.limits[scope] # NoPx)
    BY <2>2, NothingIsRest
  <2> QED
    BY <2>1, <2>2
<1> HIDE DEF p, q
<1> QED
  BY <1>1, <1>2, <1>3, Joined, BeginProgram

LEMMA ExportStep ==
  ASSUME PxInv, ExportBundle
  PROVE  PxInv'
<1>1. /\ todo = <<>> /\ bundle' = [alerts |-> view.alerts, limits |-> view.limits]
      /\ UNCHANGED <<view, disk, unended, todo, lastRotated, nameTaken>>
  BY DEF ExportBundle
<1>2. bundle' \in [alerts : 0..MaxAlerts, limits : [PxScopes -> PxLimits \cup {NoPx}]]
  BY <1>1 DEF PxInv, PxTypes, Tables
<1>3. PxTypes'
  BY <1>1, <1>2 DEF PxInv, PxTypes
<1>4. GoodView
  BY <1>1, Between
<1>5. (LastOnly(disk) /\ LastOnly(view))'
  BY <1>1, <1>4 DEF PxInv, GoodView, LastOnly, Active
<1>6. (Audited(disk) /\ Audited(view) /\ SameIssued /\ OneDefault(disk) /\ OneDefault(view))'
  BY <1>1, <1>4 DEF PxInv, GoodView, Audited, SameIssued, OneDefault
<1> QED
  BY <1>1, <1>3, <1>5, <1>6, NothingTodo DEF PxInv, StageOK, OffKeys, GoodView

LEMMA StoodStill == PxInv /\ UNCHANGED pxVars => PxInv'
<1> SUFFICES ASSUME PxInv, UNCHANGED pxVars PROVE PxInv'
  OBVIOUS
<1> USE DEF pxVars
<1>1. PxTypes' /\ TodoOK'
  BY DEF PxInv, PxTypes, TodoOK
<1>2. (LastOnly(disk) /\ Audited(disk) /\ OneDefault(disk) /\ OneDefault(view))'
  BY DEF PxInv, LastOnly, Audited, OneDefault, Active
<1>3. GoodView => GoodView'
  BY DEF GoodView, LastOnly, Audited, SameIssued, Active
<1>4. OffKeys => OffKeys'
  BY <1>3 DEF OffKeys, NoMore
<1>5. \A k \in PxKeys : Revoking(k) => Revoking(k)'
  BY <1>3 DEF Revoking, NoMore
<1>6. ASSUME NEW app \in Apps, NEW k \in PxKeys, Inserted(app, k) PROVE Inserted(app, k)'
  BY <1>6 DEF Inserted, OthersStand, Active
<1>10. StageOK'
  <2>1. CASE OffKeys
    BY <1>4, <2>1 DEF StageOK
  <2>2. CASE \E k \in PxKeys : Revoking(k)
    BY <1>5, <2>2 DEF StageOK
  <2>3. ASSUME NEW app \in Apps, NEW k \in PxKeys,
               ToRevokeAll(app, k) \/ ToInsert(app, k) \/ ToAudit(app, k) \/ ToCommit(app, k)
        PROVE  StageOK'
    <3>1. CASE ToRevokeAll(app, k)
      <4>1. ToRevokeAll(app, k)'
        BY <1>3, <3>1 DEF ToRevokeAll
      <4> QED
        BY <4>1 DEF StageOK
    <3>2. CASE ToInsert(app, k)
      <4>1. ToInsert(app, k)'
        BY <3>2 DEF ToInsert, OthersStand, Active, Audited, SameIssued
      <4> QED
        BY <4>1 DEF StageOK
    <3>3. CASE ToAudit(app, k)
      <4>1. ToAudit(app, k)'
        BY <1>6, <3>3 DEF ToAudit
      <4> QED
        BY <4>1 DEF StageOK
    <3>4. CASE ToCommit(app, k)
      <4>1. ToCommit(app, k)'
        BY <1>6, <3>4 DEF ToCommit
      <4> QED
        BY <4>1 DEF StageOK
    <3> QED
      BY <2>3, <3>1, <3>2, <3>3, <3>4
  <2> QED
    BY <2>1, <2>2, <2>3 DEF PxInv, StageOK
<1> QED
  BY <1>1, <1>2, <1>10 DEF PxInv

LEMMA PxInitOK == PxInit => PxInv
<1> SUFFICES ASSUME PxInit PROVE PxInv
  OBVIOUS
<1>1. view \in Tables
  BY ExtensionsAssumption DEF PxInit, Tables
<1>2. /\ \A k \in PxKeys : view.keys[k] = NoPx
      /\ view.defaults = {} /\ disk = view /\ unended = FALSE
  BY DEF PxInit
<1>3. PxTypes
  <2>1. bundle \in [alerts : 0..MaxAlerts, limits : [PxScopes -> PxLimits \cup {NoPx}]]
    BY ExtensionsAssumption DEF PxInit
  <2>2. todo \in Seq(AllStatements)
    BY DEF PxInit
  <2>3. lastRotated \in [Apps -> PxKeys \cup {NoPx}]
    BY DEF PxInit
  <2> QED
    BY <1>1, <1>2, <2>1, <2>2, <2>3 DEF PxTypes, PxInit
<1>4. TodoOK /\ NoMore(1)
  BY DEF PxInit, TodoOK, NoMore
<1>5. \A a \in Apps : lastRotated[a] = NoPx
  BY DEF PxInit
<1>6. GoodView /\ LastOnly(disk) /\ Audited(disk) /\ OneDefault(disk) /\ OneDefault(view)
  BY <1>2, <1>5 DEF GoodView, LastOnly, Audited, OneDefault, SameIssued
<1> QED
  BY <1>2, <1>3, <1>4, <1>6 DEF PxInv, StageOK, OffKeys

LEMMA PxInvariance == PxSpec => []PxInv
<1>1. PxInv /\ [PxNext]_pxVars => PxInv'
  <2> SUFFICES ASSUME PxInv, PxNext PROVE PxInv'
    BY StoodStill
  <2>1. ASSUME NEW scope \in PxScopes, NEW usd \in PxLimits, SetLimit(scope, usd) PROVE PxInv'
    BY <2>1, LimitIsRest, RestIsProgram, BeginProgram DEF SetLimit, Change
  <2>2. ASSUME AddAlert PROVE PxInv'
    BY <2>2, AlertIsProgram, BeginProgram DEF AddAlert, Change
  <2>3. ASSUME NEW x \in Sheets, RollBackSheet(x) PROVE PxInv'
    BY <2>3, AuditIsRest, RestIsProgram, BeginProgram DEF RollBackSheet, Change
  <2>4. ASSUME NEW x \in Sheets, SaveSheet(x, TRUE) \/ SaveSheet(x, FALSE) PROVE PxInv'
    BY <2>4, SheetStep
  <2> QED
    BY <2>1, <2>2, <2>3, <2>4, ExecuteStep, CommitStep, RefusedStep, ConsoleDiesStep,
       StudioCommitsStep, RotationStep, RevokeStep, EnvironmentStep, ImportStep, ExportStep DEF PxNext
<1> QED
  BY PxInitOK, <1>1, PTL DEF PxSpec

\* The tables, the statements that are left and the history are of their types, and
\* what is not open is on disk.
THEOREM ExtensionTypesCorrect == PxSpec => []PxTypeOK
<1>1. PxInv => PxTypeOK
  BY DEF PxInv, PxTypes, PxTypeOK
<1> QED
  BY <1>1, PxInvariance, PTL

\* After a rotation the file has one active key of the application, the last one, until
\* somebody asks to revoke it, whenever the process dies and whoever commits; each key
\* has its audit record, one environment at most is the default, and no transaction
\* stays open between operations but after a name that was taken.
THEOREM RotationsLast == PxSpec => []KeyAfterRotation
<1>1. PxInv => KeyAfterRotation
  BY DEF PxInv, KeyAfterRotation, LastOnly, Audited, OneDefault
<1> QED
  BY <1>1, PxInvariance, PTL

=============================================================================
