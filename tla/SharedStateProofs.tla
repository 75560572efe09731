----------------------------- MODULE SharedStateProofs -----------------------------
(***************************************************************************)
(* Theorems about state that several processes, threads or people write:   *)
(* the snapshots and the budgets of the routing plane, the rows of the     *)
(* request window, approvals, the children of the service manager, the     *)
(* cooldown of alerts and the rules that raise them, the results of the    *)
(* compatibility lab, the incidents of the console, and the request log    *)
(* while its pages are turned. The components share nothing: each part     *)
(* below has an inductive invariant and theorems of its own.               *)
(***************************************************************************)
EXTENDS RoutePlane, SharedRows, Approvals, LocalServices, AlertDispatch, AlertRules, Compatibility, Evidence, CallPages,
        NatSumLemmas, FiniteSetTheorems, SequenceTheorems

-----------------------------------------------------------------------------
(* RoutePlane: snapshots, leases and budgets of a plane *)

\* What a route has published are versions it has.
PublishedBefore ==
  \A r \in PlaneIds :
    /\ r \notin Made => publications[r] = {}
    /\ r \in Made => publications[r] \subseteq 1..plane[r].draft

\* A provider reports the model under this name and no other model under it.
ItsOwnName(m) == \A o \in Models : m \in Reported[o] <=> o = m

Room(a, m, n) ==
  \E c \in Configs : modelSpend[a][m] + Cost * n < c.budget + Cost * Cardinality(Requests)

\* Whoever resolved an alias did so below the budget, and so did all who were charged:
\* what the others may still cost fits in.
OvershootBounded ==
  \A a \in Aliases, m \in Models :
    ItsOwnName(m) /\ (modelSpend[a][m] > 0 \/ Uncounted(a, m) # {})
      => Room(a, m, Cardinality(Uncounted(a, m)))

PlaneInv == PlaneTypeOK /\ PublishedBefore /\ ServedWasPublished /\ OvershootBounded

LEMMA PlaneInitOK == PlaneInit => PlaneInv
<1> SUFFICES ASSUME PlaneInit PROVE PlaneInv
  OBVIOUS
<1>1. Made = {}
  BY DEF PlaneInit, Made
<1>2. PlaneTypeOK /\ PublishedBefore /\ ServedWasPublished
  BY <1>1 DEF PlaneInit, PlaneTypeOK, PublishedBefore, ServedWasPublished
<1>3. OvershootBounded
  BY DEF PlaneInit, OvershootBounded, Uncounted
<1> QED
  BY <1>2, <1>3 DEF PlaneInv

\* Room shrinks with what is uncounted, and grows with what is not charged.
LEMMA CostMonotone ==
  ASSUME NEW n \in Nat, NEW k \in Nat, n <= k
  PROVE  /\ Cost * n \in Nat /\ Cost * k \in Nat /\ Cost * n <= Cost * k
         /\ n < k => Cost * n + Cost <= Cost * k
<1>1. Cost \in Nat
  BY PlaneAssumption
<1>2. k - n \in Nat /\ Cost * (k - n) \in Nat /\ Cost * n \in Nat /\ Cost * k \in Nat
  BY <1>1
<1>3. Cost * k = Cost * n + Cost * (k - n)
  BY <1>1
<1>4. n < k => Cost * (k - n) = Cost + Cost * (k - n - 1) /\ Cost * (k - n - 1) \in Nat
  BY <1>1
<1> QED
  BY <1>1, <1>2, <1>3, <1>4

LEMMA UncountedFinite ==
  ASSUME NEW a, NEW m
  PROVE  /\ IsFiniteSet(Uncounted(a, m)) /\ Cardinality(Uncounted(a, m)) \in Nat
         /\ Cardinality(Requests) \in Nat /\ Cardinality(Uncounted(a, m)) <= Cardinality(Requests)
<1>1. Uncounted(a, m) \in SUBSET Requests /\ IsFiniteSet(Requests)
  BY PlaneAssumption DEF Uncounted
<1> QED
  BY <1>1, FS_Subset, FS_CardinalityType

\* What a step does to the books of one alias and model: with no more spent and no more
\* uncounted the bound is kept.
LEMMA BoundKept ==
  ASSUME PlaneTypeOK, PlaneTypeOK', OvershootBounded,
         \A a \in Aliases, m \in Models :
           /\ modelSpend'[a][m] <= modelSpend[a][m]
           /\ Uncounted(a, m)' \subseteq Uncounted(a, m)
  PROVE  OvershootBounded'
<1> SUFFICES ASSUME NEW a \in Aliases, NEW m \in Models, ItsOwnName(m),
                    modelSpend'[a][m] > 0 \/ Uncounted(a, m)' # {}
             PROVE  Room(a, m, Cardinality(Uncounted(a, m)))'
  BY DEF OvershootBounded, ItsOwnName
<1> DEFINE U == Uncounted(a, m)
           n == Cardinality(U)
           k == Cardinality(U')
<1>1. /\ modelSpend[a][m] \in Nat /\ modelSpend'[a][m] \in Nat /\ modelSpend'[a][m] <= modelSpend[a][m]
      /\ U' \in SUBSET U
  BY DEF PlaneTypeOK
<1>2. IsFiniteSet(U) /\ n \in Nat
  BY UncountedFinite
<1>3. k \in Nat /\ k <= n
  BY <1>1, <1>2, FS_Subset, FS_CardinalityType
<1>4. Room(a, m, n)
  BY <1>1 DEF OvershootBounded
<1>5. PICK c \in Configs : modelSpend[a][m] + Cost * n < c.budget + Cost * Cardinality(Requests)
  BY <1>4 DEF Room
<1>6. c.budget \in Nat /\ Cardinality(Requests) \in Nat /\ Cost \in Nat
  BY PlaneAssumption, UncountedFinite DEF ConfigType
<1>7. /\ Cost * k \in Nat /\ Cost * n \in Nat /\ Cost * k <= Cost * n
      /\ Cost * Cardinality(Requests) \in Nat
  BY <1>2, <1>3, <1>6, CostMonotone
<1> HIDE DEF k, n
<1>8. modelSpend'[a][m] + Cost * k < c.budget + Cost * Cardinality(Requests)
  BY <1>1, <1>5, <1>6, <1>7
<1> QED
  BY <1>8 DEF Room, k

LEMMA CreateLogicalStep ==
  ASSUME PlaneInv, NEW r \in PlaneIds, NEW c \in Configs, CreateLogical(r, c)
  PROVE  PlaneInv'
<1> USE DEF PlaneInv
<1> DEFINE row == [alias |-> c.alias, draft |-> 1, published |-> 0]
<1>1. 1 \in Numbers /\ 0 \in 0..MaxPlaneVersions /\ c.alias \in Aliases /\ c # NoRow
  BY PlaneAssumption DEF Numbers, ConfigType
<1>2. row \in PlaneRow /\ row # NoRow
  BY <1>1, NoRowAssumption DEF PlaneRow
<1>3. /\ plane' = [plane EXCEPT ![r] = row] /\ config' = [config EXCEPT ![r][1] = c]
      /\ r \notin Made /\ UNCHANGED <<publications, modelSpend, request>>
  BY DEF CreateLogical
<1>4. row.draft = 1 /\ row.published = 0 /\ row.alias = c.alias
  OBVIOUS
<1> HIDE DEF row
<1>5. Made' = Made \cup {r}
  BY <1>2, <1>3 DEF Made, PlaneTypeOK
<1>6. PlaneTypeOK'
  <2>1. plane' \in [PlaneIds -> PlaneRow \cup {NoRow}]
    BY <1>2, <1>3 DEF PlaneTypeOK
  <2>2. /\ config' \in [PlaneIds -> [Numbers -> Configs \cup {NoRow}]] /\ config'[r][1] = c
        /\ \A q \in PlaneIds : q # r => config'[q] = config[q]
    BY <1>1, <1>3 DEF PlaneTypeOK
  <2>3. \A q \in Made' :
         /\ \A v \in 1..plane'[q].draft : config'[q][v] # NoRow
         /\ plane'[q].alias = config'[q][plane'[q].draft].alias
    BY <1>1, <1>3, <1>4, <1>5, <2>2 DEF PlaneTypeOK, Made
  <2> QED
    BY <1>3, <2>1, <2>2, <2>3 DEF PlaneTypeOK
<1>7. PublishedBefore'
  BY <1>3, <1>5 DEF PublishedBefore, PlaneTypeOK, Made
<1>8. ServedWasPublished'
  BY <1>3, <1>4, <1>5 DEF ServedWasPublished, PlaneTypeOK, Made
<1>9. OvershootBounded'
  BY <1>3 DEF OvershootBounded, Uncounted, Room, ItsOwnName
<1> QED
  BY <1>6, <1>7, <1>8, <1>9

LEMMA UpdateLogicalStep ==
  ASSUME PlaneInv, NEW r \in PlaneIds, NEW c \in Configs, UpdateLogical(r, c)
  PROVE  PlaneInv'
<1> USE DEF PlaneInv
<1>1. /\ r \in Made /\ plane[r] \in PlaneRow /\ plane[r] # NoRow /\ plane[r].draft \in Numbers
      /\ c.alias \in Aliases /\ c # NoRow
  BY PlaneAssumption DEF UpdateLogical, Made, PlaneTypeOK, PlaneRow, ConfigType
<1>2. PICK v \in Numbers : v = plane[r].draft + 1
  BY DEF UpdateLogical
<1> DEFINE row == [plane[r] EXCEPT !.alias = c.alias, !.draft = v]
<1>3. /\ row \in PlaneRow /\ row.draft = v /\ row.alias = c.alias /\ row.published = plane[r].published
  BY <1>1, <1>2 DEF PlaneRow
<1>4. row # NoRow
  BY <1>3, NoRowAssumption
<1>5. /\ plane' = [plane EXCEPT ![r] = row] /\ config' = [config EXCEPT ![r][v] = c]
      /\ UNCHANGED <<publications, modelSpend, request>>
  BY <1>1, <1>2 DEF UpdateLogical, PlaneTypeOK, PlaneRow
<1> HIDE DEF row
<1>6. Made' = Made
  BY <1>1, <1>4, <1>5 DEF Made, PlaneTypeOK
<1>7. 1..v = 1..plane[r].draft \cup {v}
  BY <1>1, <1>2, PlaneAssumption DEF Numbers
<1>8. PlaneTypeOK'
  <2>1. plane' \in [PlaneIds -> PlaneRow \cup {NoRow}] /\ plane'[r] = row
        /\ \A q \in PlaneIds : q # r => plane'[q] = plane[q]
    BY <1>3, <1>5 DEF PlaneTypeOK
  <2>2. /\ config' \in [PlaneIds -> [Numbers -> Configs \cup {NoRow}]] /\ config'[r][v] = c
        /\ \A q \in PlaneIds : q # r => config'[q] = config[q]
        /\ \A w \in Numbers : w # v => config'[r][w] = config[r][w]
    BY <1>1, <1>5 DEF PlaneTypeOK
  <2>3. \A q \in Made : q # r =>
         /\ \A w \in 1..plane'[q].draft : config'[q][w] # NoRow
         /\ plane'[q].alias = config'[q][plane'[q].draft].alias
    BY <2>1, <2>2 DEF PlaneTypeOK, Made
  <2>4. 1..plane[r].draft \subseteq Numbers /\ v \notin 1..plane[r].draft
    BY <1>1, <1>2, PlaneAssumption DEF Numbers
  <2>5. \A w \in 1..v : config'[r][w] # NoRow
    BY <1>1, <1>7, <2>2, <2>4 DEF PlaneTypeOK
  <2> QED
    BY <1>3, <1>5, <1>6, <2>1, <2>2, <2>3, <2>5 DEF PlaneTypeOK
<1>9. PublishedBefore'
  BY <1>1, <1>3, <1>5, <1>6, <1>7 DEF PublishedBefore, PlaneTypeOK, Made
<1>10. ServedWasPublished'
  BY <1>3, <1>5, <1>6 DEF ServedWasPublished, PlaneTypeOK, Made
<1>11. OvershootBounded'
  BY <1>5 DEF OvershootBounded, Uncounted, Room, ItsOwnName
<1> QED
  BY <1>8, <1>9, <1>10, <1>11

\* Publication and rollback serve another version of the same row.
LEMMA ServeOther ==
  ASSUME PlaneInv, NEW r \in Made, NEW v \in 1..plane[r].draft, v \in publications'[r],
         plane' = [plane EXCEPT ![r].published = v],
         publications' \in [PlaneIds -> SUBSET Numbers],
         publications'[r] \subseteq 1..plane[r].draft,
         \A q \in PlaneIds : q # r => publications'[q] = publications[q],
         UNCHANGED <<config, modelSpend, request>>
  PROVE  PlaneInv'
<1> USE DEF PlaneInv
<1>1. r \in PlaneIds /\ plane[r] \in PlaneRow /\ plane[r].draft \in Numbers
  BY DEF Made, PlaneTypeOK, PlaneRow
<1>2. v \in 0..MaxPlaneVersions
  BY <1>1, PlaneAssumption DEF Numbers
<1> DEFINE row == [plane[r] EXCEPT !.published = v]
<1>3. row \in PlaneRow /\ row.draft = plane[r].draft /\ row.alias = plane[r].alias /\ row.published = v
  BY <1>1, <1>2 DEF PlaneRow
<1>4. row # NoRow
  BY <1>3, NoRowAssumption
<1>5. plane' = [plane EXCEPT ![r] = row]
  BY <1>1 DEF PlaneTypeOK
<1> HIDE DEF row
<1>6. Made' = Made
  BY <1>1, <1>4, <1>5 DEF Made, PlaneTypeOK
<1>7. plane'[r] = row /\ \A q \in PlaneIds : q # r => plane'[q] = plane[q]
  BY <1>1, <1>5 DEF PlaneTypeOK
<1>8. PlaneTypeOK'
  <2>1. plane' \in [PlaneIds -> PlaneRow \cup {NoRow}]
    BY <1>3, <1>5 DEF PlaneTypeOK
  <2>2. \A q \in Made :
         /\ \A w \in 1..plane'[q].draft : config[q][w] # NoRow
         /\ plane'[q].alias = config[q][plane'[q].draft].alias
    BY <1>3, <1>7 DEF PlaneTypeOK, Made
  <2> QED
    BY <1>6, <2>1, <2>2 DEF PlaneTypeOK
<1>9. PublishedBefore'
  BY <1>1, <1>3, <1>6, <1>7 DEF PublishedBefore, Made
<1>10. ServedWasPublished'
  BY <1>3, <1>6, <1>7 DEF ServedWasPublished, Made
<1>11. OvershootBounded'
  BY DEF OvershootBounded, Uncounted, Room, ItsOwnName
<1> QED
  BY <1>8, <1>9, <1>10, <1>11

LEMMA PublishLogicalStep ==
  ASSUME PlaneInv, NEW r \in PlaneIds, PublishLogical(r)
  PROVE  PlaneInv'
<1>1. r \in Made /\ plane[r].draft \in Numbers
  BY DEF PublishLogical, Made, PlaneInv, PlaneTypeOK, PlaneRow
<1>2. PICK v \in Numbers : v = plane[r].draft
  BY <1>1
<1>3. v \in 1..plane[r].draft
  BY <1>2, PlaneAssumption DEF Numbers
<1>4. publications' = [publications EXCEPT ![r] = publications[r] \cup {v}]
  BY <1>2 DEF PublishLogical
<1>5. /\ publications' \in [PlaneIds -> SUBSET Numbers] /\ v \in publications'[r]
      /\ publications'[r] \subseteq 1..plane[r].draft
      /\ \A q \in PlaneIds : q # r => publications'[q] = publications[q]
  BY <1>1, <1>3, <1>4 DEF PlaneInv, PlaneTypeOK, PublishedBefore
<1>6. plane' = [plane EXCEPT ![r].published = v] /\ UNCHANGED <<config, modelSpend, request>>
  BY <1>2 DEF PublishLogical
<1> QED
  BY <1>1, <1>3, <1>5, <1>6, ServeOther

LEMMA RollbackStep ==
  ASSUME PlaneInv, NEW r \in PlaneIds, Rollback(r)
  PROVE  PlaneInv'
<1>1. PICK v \in publications[r] : plane' = [plane EXCEPT ![r].published = v]
  BY DEF Rollback, Earlier
<1>2. r \in Made /\ UNCHANGED <<config, publications, modelSpend, request>>
  BY DEF Rollback
<1>3. publications[r] \subseteq 1..plane[r].draft /\ publications \in [PlaneIds -> SUBSET Numbers]
  BY <1>2 DEF PlaneInv, PublishedBefore, PlaneTypeOK
<1> QED
  BY <1>1, <1>2, <1>3, ServeOther

LEMMA ResolveStep ==
  ASSUME PlaneInv, NEW q \in Requests, NEW r \in PlaneIds, Resolve(q, r)
  PROVE  PlaneInv'
<1> USE DEF PlaneInv
<1> DEFINE c == config[r][plane[r].published]
           a == plane[r].alias
<1>1. /\ r \in Made /\ plane[r].published # 0 /\ request[q] = NoRow
      /\ UNCHANGED <<plane, config, publications, modelSpend>>
  BY DEF Resolve
<1>2. plane[r].published \in 1..plane[r].draft
  BY <1>1 DEF ServedWasPublished, PublishedBefore
<1>3. PICK cc \in Configs, aa \in Aliases : cc = c /\ aa = a
  <2>1. plane[r].published \in Numbers /\ a \in Aliases
    BY <1>1, <1>2, PlaneAssumption DEF PlaneTypeOK, Made, PlaneRow, Numbers
  <2>2. c \in Configs
    BY <1>1, <1>2, <2>1 DEF PlaneTypeOK
  <2> QED
    BY <2>1, <2>2
<1>4. PICK good \in SUBSET Models :
        /\ \A m \in good : modelSpend[aa][m] < cc.budget
        /\ request' = [request EXCEPT ![q] = [alias |-> aa, candidates |-> good]]
  <2>1. PICK primary \in c.primaries, closed \in SUBSET c.windowed :
          LET chain == <<primary>> \o c.fallbacks
              all == {chain[i] : i \in 1..Len(chain)}
              good == {m \in all : Affordable(a, c, m)}
          IN  request' = [request EXCEPT ![q] = [alias |-> a, candidates |-> good]]
    BY DEF Resolve
  <2> DEFINE chain == <<primary>> \o c.fallbacks
             all == {chain[i] : i \in 1..Len(chain)}
             good == {m \in all : Affordable(a, c, m)}
  <2>2. primary \in Models /\ c.fallbacks \in Seq(Models)
    BY <1>3, PlaneAssumption DEF ConfigType
  <2>3. chain \in Seq(Models)
    <3>1. <<primary>> \in Seq(Models)
      BY <2>2
    <3> QED
      BY <2>2, <3>1, ConcatProperties
  <2> HIDE DEF chain
  <2>4. all \subseteq Models
    BY <2>3
  <2>5. good \in SUBSET Models /\ \A m \in good : modelSpend[a][m] < c.budget
    BY <2>4 DEF Affordable
  <2>6. request' = [request EXCEPT ![q] = [alias |-> a, candidates |-> good]]
    BY <2>1 DEF chain
  <2> HIDE DEF good
  <2> QED
    BY <1>3, <2>5, <2>6
<1> DEFINE asks == [alias |-> aa, candidates |-> good]
<1>5. asks \in Pending /\ asks # NoRow
  BY NoRowAssumption DEF Pending
<1>6. PlaneTypeOK'
  BY <1>1, <1>4, <1>5 DEF PlaneTypeOK, Made
<1>7. PublishedBefore' /\ ServedWasPublished'
  BY <1>1 DEF PublishedBefore, ServedWasPublished, Made
<1>8. OvershootBounded'
  <2> SUFFICES ASSUME NEW b \in Aliases, NEW m \in Models, ItsOwnName(m),
                      modelSpend[b][m] > 0 \/ Uncounted(b, m)' # {}
               PROVE  Room(b, m, Cardinality(Uncounted(b, m)))'
    BY <1>1 DEF OvershootBounded, ItsOwnName
  <2>1. CASE b = aa /\ m \in good
    <3> DEFINE k == Cardinality(Uncounted(b, m)')
    <3>1. k \in Nat /\ Cardinality(Requests) \in Nat /\ k <= Cardinality(Requests)
      BY UncountedFinite, PlaneAssumption, FS_Subset, FS_CardinalityType DEF Uncounted
    <3>2. Cost * k \in Nat /\ Cost * Cardinality(Requests) \in Nat /\ Cost * k <= Cost * Cardinality(Requests)
      BY <3>1, CostMonotone
    <3>3. modelSpend[b][m] \in Nat /\ cc.budget \in Nat /\ modelSpend[b][m] < cc.budget
      BY <1>4, <2>1, PlaneAssumption DEF PlaneTypeOK, ConfigType
    <3> HIDE DEF k
    <3>4. modelSpend[b][m] + Cost * k < cc.budget + Cost * Cardinality(Requests)
      BY <3>2, <3>3
    <3> QED
      BY <1>1, <3>4 DEF Room, k
  <2>2. CASE ~ (b = aa /\ m \in good)
    <3>1. request'[q] = asks /\ \A o \in Requests : o # q => request'[o] = request[o]
      BY <1>4 DEF PlaneTypeOK
    <3>2. Uncounted(b, m)' = Uncounted(b, m)
      BY <1>1, <2>2, <3>1 DEF Uncounted
    <3> QED
      BY <1>1, <3>2 DEF OvershootBounded, Room
  <2> QED
    BY <2>1, <2>2
<1> QED
  BY <1>6, <1>7, <1>8

LEMMA ChargeStep ==
  ASSUME PlaneInv, NEW q \in Requests, NEW m \in Models, NEW name \in Models, NEW cost \in 1..Cost,
         Charge(q, m, name, cost)
  PROVE  PlaneInv'
<1> USE DEF PlaneInv
<1>1. PICK a \in Aliases : a = request[q].alias
  BY DEF Charge, PlaneTypeOK, Pending
<1>2. /\ cost \in Nat /\ cost <= Cost /\ Cost \in Nat
      /\ modelSpend' = [modelSpend EXCEPT ![a][name] = modelSpend[a][name] + cost]
      /\ request' = [request EXCEPT ![q] = NoRow]
      /\ UNCHANGED <<plane, config, publications>>
      /\ request[q] # NoRow /\ m \in request[q].candidates /\ name \in Reported[m]
  BY <1>1, PlaneAssumption DEF Charge
<1>3. /\ modelSpend' \in [Aliases -> [Models -> Nat]]
      /\ modelSpend'[a][name] = modelSpend[a][name] + cost
      /\ \A b \in Aliases, o \in Models : b # a \/ o # name => modelSpend'[b][o] = modelSpend[b][o]
  <2>1. modelSpend[a][name] + cost \in Nat
    BY <1>2 DEF PlaneTypeOK
  <2> QED
    BY <1>2, <2>1 DEF PlaneTypeOK
<1>4. request'[q] = NoRow /\ \A o \in Requests : o # q => request'[o] = request[o]
  BY <1>2 DEF PlaneTypeOK
<1>5. PlaneTypeOK'
  BY <1>2, <1>3 DEF PlaneTypeOK, Made
<1>6. PublishedBefore' /\ ServedWasPublished'
  BY <1>2 DEF PublishedBefore, ServedWasPublished, Made
<1>7. OvershootBounded'
  <2> SUFFICES ASSUME NEW b \in Aliases, NEW o \in Models, ItsOwnName(o),
                      modelSpend'[b][o] > 0 \/ Uncounted(b, o)' # {}
               PROVE  Room(b, o, Cardinality(Uncounted(b, o)))'
    BY DEF OvershootBounded, ItsOwnName
  <2> DEFINE U == Uncounted(b, o)
             n == Cardinality(U)
             k == Cardinality(U')
  <2>1. U' = U \ {q}
    BY <1>4 DEF Uncounted
  <2>2. /\ IsFiniteSet(U) /\ n \in Nat /\ Cardinality(Requests) \in Nat
        /\ Cost * Cardinality(Requests) \in Nat
    BY UncountedFinite, CostMonotone
  <2>3. k \in Nat /\ k = IF q \in U THEN n - 1 ELSE n
    <3>1. IsFiniteSet(U \ {q}) /\ Cardinality(U \ {q}) = IF q \in U THEN n - 1 ELSE n
      BY <2>2, FS_RemoveElement
    <3>2. Cardinality(U \ {q}) \in Nat
      BY <3>1, FS_CardinalityType
    <3> QED
      BY <2>1, <3>1, <3>2
  <2>4. /\ Cost * n \in Nat /\ Cost * k \in Nat /\ Cost * k <= Cost * n
        /\ q \in U => Cost * k + Cost <= Cost * n
    BY <2>2, <2>3, CostMonotone
  <2>5. b = a /\ o = name => q \in U
    BY <1>1, <1>2 DEF ItsOwnName, Uncounted
  <2>6. modelSpend[b][o] > 0 \/ U # {}
    <3>1. CASE b = a /\ o = name
      BY <2>5, <3>1
    <3>2. CASE ~ (b = a /\ o = name)
      <4>1. modelSpend'[b][o] = modelSpend[b][o]
        BY <1>3, <3>2
      <4> QED
        BY <2>1, <4>1
    <3> QED
      BY <3>1, <3>2
  <2>7. PICK c \in Configs : modelSpend[b][o] + Cost * n < c.budget + Cost * Cardinality(Requests)
    BY <2>6 DEF OvershootBounded, Room
  <2>8. /\ c.budget \in Nat /\ modelSpend[b][o] \in Nat
        /\ modelSpend'[b][o] = IF b = a /\ o = name THEN modelSpend[b][o] + cost ELSE modelSpend[b][o]
    <3>1. c.budget \in Nat
      BY PlaneAssumption DEF ConfigType
    <3>2. modelSpend[b][o] \in Nat
      BY DEF PlaneTypeOK
    <3>3. CASE b = a /\ o = name
      BY <1>3, <3>1, <3>2, <3>3
    <3>4. CASE ~ (b = a /\ o = name)
      BY <1>3, <3>1, <3>2, <3>4
    <3> QED
      BY <3>3, <3>4
  <2> HIDE DEF k, n, U
  <2>9. modelSpend'[b][o] + Cost * k < c.budget + Cost * Cardinality(Requests)
    BY <1>2, <2>2, <2>4, <2>5, <2>7, <2>8
  <2> QED
    BY <2>9 DEF Room, k, U
<1> QED
  BY <1>5, <1>6, <1>7

LEMMA UnchargedStep ==
  ASSUME PlaneInv, NEW q \in Requests, Uncharged(q)
  PROVE  PlaneInv'
<1> USE DEF PlaneInv
<1>1. PlaneTypeOK'
  BY DEF Uncharged, PlaneTypeOK, Made
<1>2. PublishedBefore' /\ ServedWasPublished'
  BY DEF Uncharged, PublishedBefore, ServedWasPublished, Made
<1>3. request'[q] = NoRow /\ \A o \in Requests : o # q => request'[o] = request[o]
  BY DEF Uncharged, PlaneTypeOK
<1>4. \A a \in Aliases, m \in Models : /\ modelSpend'[a][m] <= modelSpend[a][m]
                                      /\ Uncounted(a, m)' \subseteq Uncounted(a, m)
  BY <1>3 DEF Uncharged, PlaneTypeOK, Uncounted
<1>5. OvershootBounded'
  BY <1>1, <1>4, BoundKept
<1> QED
  BY <1>1, <1>2, <1>5

LEMMA NewMonthStep ==
  ASSUME PlaneInv, NewMonth
  PROVE  PlaneInv'
<1> USE DEF PlaneInv
<1>1. PlaneTypeOK'
  BY DEF NewMonth, PlaneTypeOK, Made
<1>2. PublishedBefore' /\ ServedWasPublished'
  BY DEF NewMonth, PublishedBefore, ServedWasPublished, Made
<1>3. \A a \in Aliases, m \in Models : /\ modelSpend'[a][m] <= modelSpend[a][m]
                                      /\ Uncounted(a, m)' \subseteq Uncounted(a, m)
  BY DEF NewMonth, PlaneTypeOK, Uncounted
<1>4. OvershootBounded'
  BY <1>1, <1>3, BoundKept
<1> QED
  BY <1>1, <1>2, <1>4

LEMMA PlaneInvariance == PlaneSpec => []PlaneInv
<1>1. PlaneInv /\ [PlaneNext]_planeVars => PlaneInv'
  <2> SUFFICES ASSUME PlaneInv, [PlaneNext]_planeVars PROVE PlaneInv'
    OBVIOUS
  <2>1. CASE UNCHANGED planeVars
    <3>1. UNCHANGED <<plane, config, publications, modelSpend, request>>
      BY <2>1 DEF planeVars
    <3>2. PlaneTypeOK' /\ PublishedBefore' /\ ServedWasPublished'
      BY <3>1 DEF PlaneInv, PlaneTypeOK, PublishedBefore, ServedWasPublished, Made
    <3>3. OvershootBounded'
      BY <3>1 DEF PlaneInv, OvershootBounded, Uncounted, Room, ItsOwnName
    <3> QED
      BY <3>2, <3>3 DEF PlaneInv
  <2>2. CASE PlaneNext
    BY <2>2, CreateLogicalStep, UpdateLogicalStep, PublishLogicalStep, RollbackStep, ResolveStep, ChargeStep,
       UnchargedStep, NewMonthStep DEF PlaneNext
  <2> QED
    BY <2>1, <2>2
<1> QED
  BY PlaneInitOK, <1>1, PTL DEF PlaneSpec

\* Every route has the configurations of its versions, and its alias is that of its draft.
THEOREM PlaneTypesCorrect == PlaneSpec => []PlaneTypeOK
<1>1. PlaneInv => PlaneTypeOK
  BY DEF PlaneInv
<1> QED
  BY PlaneInvariance, <1>1, PTL

\* No order of edits, publications and rollbacks serves a version nobody published.
THEOREM PublishedIsServed == PlaneSpec => []ServedWasPublished
<1>1. PlaneInv => ServedWasPublished
  BY DEF PlaneInv
<1> QED
  BY PlaneInvariance, <1>1, PTL

\* For any number of routes, models and requests, a model passes the highest budget by
\* no more than the requests in flight when it was still below can cost.
THEOREM OvershootInFlight == PlaneSpec => []OvershootIsInFlight
<1>1. PlaneInv => OvershootIsInFlight
  BY DEF PlaneInv, OvershootBounded, OvershootIsInFlight, Room, ItsOwnName
<1> QED
  BY PlaneInvariance, <1>1, PTL

-----------------------------------------------------------------------------
(* SharedRows *)

\* The requests of a bucket
ReservedIn(b) == {k \in Keys : <<b, k>> \in reserved}

SumsRight == \A b \in Buckets : IsFiniteSet(ReservedIn(b)) /\ counted[b] = Cardinality(ReservedIn(b))

RowsInv == RowsTypeOK /\ SumsRight

LEMMA RowsInitOK == RowsInit => RowsInv
<1> SUFFICES ASSUME RowsInit PROVE RowsInv
  OBVIOUS
<1>1. RowsTypeOK
  <2>1. rowClock \in 0..RowClockMax
    BY RowsAssumption DEF RowsInit
  <2>2. /\ invited \in [Invitations -> Nat] /\ delivered \in [Deliveries -> Nat]
        /\ counted \in [Buckets -> Nat] /\ reading \in [Processes -> Read \cup {Nothing}]
    BY DEF RowsInit
  <2> QED
    BY <2>1, <2>2 DEF RowsInit, RowsTypeOK
<1>2. \A b \in Buckets : ReservedIn(b) = {} /\ counted[b] = 0
  BY DEF RowsInit, ReservedIn
<1> QED
  BY <1>1, <1>2, FS_EmptySet DEF RowsInit, RowsInv, SumsRight

LEMMA IssueInvitationStep ==
  ASSUME RowsInv, NEW i \in Invitations, IssueInvitation(i)
  PROVE  RowsInv'
<1>1. RowsTypeOK'
  BY RowsAssumption DEF IssueInvitation, RowsInv, RowsTypeOK
<1>2. SumsRight'
  BY DEF IssueInvitation, RowsInv, RowsTypeOK, SumsRight, ReservedIn
<1> QED
  BY <1>1, <1>2 DEF RowsInv

LEMMA ReadInvitationStep ==
  ASSUME RowsInv, NEW p \in Processes, NEW i \in Invitations, ReadInvitation(p, i)
  PROVE  RowsInv'
<1>1. RowsTypeOK'
  BY RowsAssumption DEF ReadInvitation, Reads, Read, RowsInv, RowsTypeOK
<1>2. SumsRight'
  BY DEF ReadInvitation, RowsInv, RowsTypeOK, SumsRight, ReservedIn
<1> QED
  BY <1>1, <1>2 DEF RowsInv

LEMMA AcceptInvitationStep ==
  ASSUME RowsInv, NEW p \in Processes, NEW i \in Invitations, AcceptInvitation(p, i)
  PROVE  RowsInv'
<1>1. RowsTypeOK'
  BY RowsAssumption DEF AcceptInvitation, ReadOver, RowsInv, RowsTypeOK
<1>2. SumsRight'
  BY DEF AcceptInvitation, RowsInv, RowsTypeOK, SumsRight, ReservedIn
<1> QED
  BY <1>1, <1>2 DEF RowsInv

LEMMA ReadLetterStep ==
  ASSUME RowsInv, NEW p \in Processes, NEW l \in Letters, ReadLetter(p, l)
  PROVE  RowsInv'
<1>1. RowsTypeOK'
  BY RowsAssumption DEF ReadLetter, Reads, Read, RowsInv, RowsTypeOK
<1>2. SumsRight'
  BY DEF ReadLetter, RowsInv, RowsTypeOK, SumsRight, ReservedIn
<1> QED
  BY <1>1, <1>2 DEF RowsInv

LEMMA ReplayLetterStep ==
  ASSUME RowsInv, NEW p \in Processes, NEW l \in Letters, ReplayLetter(p, l)
  PROVE  RowsInv'
<1>1. RowsTypeOK'
  BY RowsAssumption DEF ReplayLetter, ReadOver, RowsInv, RowsTypeOK
<1>2. SumsRight'
  BY DEF ReplayLetter, RowsInv, RowsTypeOK, SumsRight, ReservedIn
<1> QED
  BY <1>1, <1>2 DEF RowsInv

LEMMA ReadCounterStep ==
  ASSUME RowsInv, NEW p \in Processes, NEW k \in Keys, ReadCounter(p, k)
  PROVE  RowsInv'
<1>1. RowsTypeOK'
  BY RowsAssumption DEF ReadCounter, Reads, Read, Bucket, Buckets, RowsInv, RowsTypeOK
<1>2. SumsRight'
  BY DEF ReadCounter, RowsInv, RowsTypeOK, SumsRight, ReservedIn
<1> QED
  BY <1>1, <1>2 DEF RowsInv

LEMMA ProcessDiesStep ==
  ASSUME RowsInv, NEW p \in Processes, ProcessDies(p)
  PROVE  RowsInv'
<1>1. RowsTypeOK'
  BY RowsAssumption DEF ProcessDies, ReadOver, RowsInv, RowsTypeOK
<1>2. SumsRight'
  BY DEF ProcessDies, RowsInv, RowsTypeOK, SumsRight, ReservedIn
<1> QED
  BY <1>1, <1>2 DEF RowsInv

LEMMA RowTickStep ==
  ASSUME RowsInv, RowTick
  PROVE  RowsInv'
<1>1. RowsTypeOK'
  BY RowsAssumption DEF RowTick, RowsInv, RowsTypeOK
<1>2. SumsRight'
  BY DEF RowTick, RowsInv, RowsTypeOK, SumsRight, ReservedIn
<1> QED
  BY <1>1, <1>2 DEF RowsInv

LEMMA ReserveDeliveryStep ==
  ASSUME RowsInv, NEW d \in Deliveries, ReserveDelivery(d)
  PROVE  RowsInv'
<1>1. RowsTypeOK'
  BY RowsAssumption DEF ReserveDelivery, Purged, RowsInv, RowsTypeOK
<1>2. SumsRight'
  BY DEF ReserveDelivery, Purged, RowsInv, RowsTypeOK, SumsRight, ReservedIn
<1> QED
  BY <1>1, <1>2 DEF RowsInv

LEMMA WriteCounterStep ==
  ASSUME RowsInv, NEW p \in Processes, WriteCounter(p)
  PROVE  RowsInv'
<1> USE DEF RowsInv
<1>1. PICK b \in Buckets, k \in Keys : b = reading[p].bucket /\ k = reading[p].row
  BY DEF WriteCounter
<1>2. CASE <<b, k>> \in reserved
  BY <1>1, <1>2 DEF WriteCounter, ReadOver, RowsTypeOK, SumsRight, ReservedIn
<1>3. CASE <<b, k>> \notin reserved
  <2>1. /\ counted' = [counted EXCEPT ![b] = counted[b] + 1]
        /\ reserved' = reserved \cup {<<b, k>>}
    BY <1>1, <1>3 DEF WriteCounter, Added
  <2>2. ReservedIn(b)' = ReservedIn(b) \cup {k} /\ k \notin ReservedIn(b)
    BY <1>1, <1>3, <2>1 DEF ReservedIn
  <2>3. \A c \in Buckets \ {b} : ReservedIn(c)' = ReservedIn(c) /\ counted'[c] = counted[c]
    BY <2>1 DEF ReservedIn, RowsTypeOK
  <2>4. IsFiniteSet(ReservedIn(b)) /\ counted'[b] = Cardinality(ReservedIn(b)) + 1
    BY <1>1, <2>1 DEF SumsRight, RowsTypeOK
  <2>5. IsFiniteSet(ReservedIn(b)') /\ counted'[b] = Cardinality(ReservedIn(b)')
    <3> DEFINE S == ReservedIn(b)
    <3>1. IsFiniteSet(S) /\ k \notin S
      BY <2>2, <2>4
    <3> HIDE DEF S
    <3>2. IsFiniteSet(S \cup {k}) /\ Cardinality(S \cup {k}) = Cardinality(S) + 1
      BY <3>1, FS_AddElement
    <3>3. ReservedIn(b)' = S \cup {k}
      BY <2>2 DEF S
    <3>4. counted'[b] = Cardinality(S) + 1
      BY <2>4 DEF S
    <3> QED
      BY <3>2, <3>3, <3>4
  <2>6. SumsRight'
    BY <2>3, <2>5 DEF SumsRight
  <2>7. RowsTypeOK'
    <3>1. counted[b] + 1 \in Nat
      BY <1>1 DEF RowsTypeOK
    <3>2. counted' \in [Buckets -> Nat] /\ reserved' \subseteq Buckets \X Keys
      BY <1>1, <2>1, <3>1 DEF RowsTypeOK
    <3>3. reading' \in [Processes -> Read \cup {Nothing}]
      BY DEF WriteCounter, ReadOver, RowsTypeOK
    <3> QED
      BY <2>1, <3>2, <3>3 DEF WriteCounter, RowsTypeOK
  <2> QED
    BY <2>1, <2>6, <2>7
<1> QED
  BY <1>2, <1>3

LEMMA RowsInvariance == RowsSpec => []RowsInv
<1>1. RowsInv /\ [RowsNext]_rowVars => RowsInv'
  <2> SUFFICES ASSUME RowsInv, [RowsNext]_rowVars PROVE RowsInv'
    OBVIOUS
  <2>1. CASE UNCHANGED rowVars
    BY <2>1 DEF rowVars, RowsInv, RowsTypeOK, SumsRight, ReservedIn
  <2>2. CASE RowsNext
    BY <2>2, IssueInvitationStep, ReadInvitationStep, AcceptInvitationStep, ReadLetterStep, ReplayLetterStep,
       ReadCounterStep, ProcessDiesStep, RowTickStep, ReserveDeliveryStep, WriteCounterStep DEF RowsNext
  <2> QED
    BY <2>1, <2>2
<1> QED
  BY RowsInitOK, <1>1, PTL DEF RowsSpec

\* The rows the processes share, and what each has read of them, are what they should be.
THEOREM RowsTypesCorrect == RowsSpec => []RowsTypeOK
<1>1. RowsInv => RowsTypeOK
  BY DEF RowsInv
<1> QED
  BY RowsInvariance, <1>1, PTL

\* Every reserved request is counted once, for any number of processes that read,
\* write and die between the two.
THEOREM RowsCountedOnce == RowsSpec => []CountedOnce
<1>1. RowsInv => CountedOnce
  BY DEF RowsInv, SumsRight, ReservedIn, CountedOnce
<1> QED
  BY RowsInvariance, <1>1, PTL

-----------------------------------------------------------------------------
(* Approvals *)

\* The votes of an approval are one per actor, and none of the requester.
VotesOfOthers ==
  \A a \in ApprovalIds :
    /\ IsFiniteSet(votes[a])
    /\ \A v, w \in votes[a] : v.actor = w.actor => v = w
    /\ approval[a] = NoApproval => votes[a] = {}
    /\ approval[a] # NoApproval => \A v \in votes[a] : v.actor # approval[a].requester

\* The count that approved it stands in the table.
Carried ==
  \A a \in ApprovalIds :
    approval[a] # NoApproval /\ approval[a].state = "approved" =>
      approval[a].required <= Cardinality(For(votes[a]))

RunsCleared == \A r \in ToolRuns : toolRun[r] \in {"approved", "completed"} => r \in cleared

ApprovalsInv == ApprovalsTypeOK /\ VotesOfOthers /\ Carried /\ RunsCleared

\* Actors who approve are as many as votes that approve.
LEMMA OneVoteEach ==
  ASSUME ApprovalsTypeOK, VotesOfOthers, NEW a \in ApprovalIds
  PROVE  Cardinality({x \in Actors : [actor |-> x, says |-> "approve"] \in votes[a]})
           = Cardinality(For(votes[a]))
<1> DEFINE F == For(votes[a])
           X == {x \in Actors : [actor |-> x, says |-> "approve"] \in votes[a]}
           g == [v \in F |-> v.actor]
<1>1. IsFiniteSet(F)
  BY FS_Subset DEF VotesOfOthers, For
<1>2. \A v \in F : v \in votes[a] /\ v.actor \in Actors /\ v = [actor |-> v.actor, says |-> "approve"]
  BY DEF For, ApprovalsTypeOK, Vote
<1>3. g \in [F -> X]
  BY <1>2
<1>4. \A v, w \in F : g[v] = g[w] => v = w
  BY <1>2 DEF VotesOfOthers
<1>5. \A x \in X : \E v \in F : g[v] = x
  <2> SUFFICES ASSUME NEW x \in X PROVE \E v \in F : g[v] = x
    OBVIOUS
  <2> DEFINE v == [actor |-> x, says |-> "approve"]
  <2>1. v \in F /\ v.actor = x
    BY DEF For
  <2> QED
    BY <2>1
<1> HIDE DEF g, X, F
<1>6. g \in Bijection(F, X)
  BY <1>3, <1>4, <1>5 DEF Bijection, Injection, Surjection, IsInjective
<1> QED
  BY <1>1, <1>6, FS_Bijection DEF ExistsBijection, F, X

LEMMA ApprovalsInitOK == ApprovalsInit => ApprovalsInv
BY FS_EmptySet DEF ApprovalsInit, ApprovalsInv, ApprovalsTypeOK, VotesOfOthers, Carried, RunsCleared

LEMMA CreateApprovalStep ==
  ASSUME ApprovalsInv, NEW a \in ApprovalIds, NEW requester \in Actors, NEW q \in Quorums,
         NEW e \in ApprovalEnds, CreateApproval(a, requester, q, e)
  PROVE  ApprovalsInv'
<1> USE DEF ApprovalsInv
<1> DEFINE row == [requester |-> requester, required |-> q, expires |-> e, state |-> "pending"]
<1>1. /\ approval[a] = NoApproval /\ approval' = [approval EXCEPT ![a] = row] /\ row \in ApprovalRow
      /\ row.state = "pending"
      /\ UNCHANGED <<askClock, votes, needsIt, toolRun, cleared, advice, audited>>
  BY DEF CreateApproval, ApprovalRow
<1> HIDE DEF row
<1>2. ApprovalsTypeOK'
  BY <1>1 DEF ApprovalsTypeOK
<1>3. VotesOfOthers'
  BY <1>1, ApprovalAssumption DEF ApprovalsTypeOK, VotesOfOthers
<1>4. Carried'
  BY <1>1 DEF ApprovalsTypeOK, Carried
<1> QED
  BY <1>1, <1>2, <1>3, <1>4 DEF RunsCleared

LEMMA DecideStep ==
  ASSUME ApprovalsInv, NEW a \in ApprovalIds, NEW actor \in Actors, NEW says \in {"approve", "reject"},
         Decide(a, actor, says)
  PROVE  ApprovalsInv'
<1> USE DEF ApprovalsInv
<1> DEFINE ballots == Cast(a, actor, says)
           vote == [actor |-> actor, says |-> says]
<1>1. PICK s \in {"pending", "approved", "rejected"} :
        /\ approval' = [approval EXCEPT ![a].state = s]
        /\ s = "approved" => Cardinality(For(ballots)) >= approval[a].required
  BY DEF Decide
<1>2. /\ approval[a] \in ApprovalRow /\ approval[a] # NoApproval /\ actor # approval[a].requester
      /\ votes' = [votes EXCEPT ![a] = ballots]
      /\ UNCHANGED <<askClock, needsIt, toolRun, cleared, advice, audited>>
  BY DEF Decide, MayVote, ApprovalsTypeOK
<1> DEFINE row == [approval[a] EXCEPT !.state = s]
<1>3. /\ row \in ApprovalRow /\ row.state = s /\ row.requester = approval[a].requester
      /\ row.required = approval[a].required /\ approval' = [approval EXCEPT ![a] = row]
  BY <1>1, <1>2 DEF ApprovalRow
<1> HIDE DEF row
<1>4. /\ vote \in Vote /\ vote.actor = actor
      /\ ballots = votes[a] \/ (ballots = votes[a] \cup {vote} /\ \A v \in votes[a] : v.actor # vote.actor)
  BY DEF Cast, Vote
<1> HIDE DEF ballots, vote
<1>5. /\ ballots \subseteq Vote /\ IsFiniteSet(ballots)
      /\ \A v, w \in ballots : v.actor = w.actor => v = w
      /\ \A v \in ballots : v.actor # row.requester
  <2>1. /\ votes[a] \subseteq Vote /\ IsFiniteSet(votes[a])
        /\ \A v, w \in votes[a] : v.actor = w.actor => v = w
        /\ \A v \in votes[a] : v.actor # row.requester
    BY <1>2, <1>3 DEF ApprovalsTypeOK, VotesOfOthers
  <2>2. IsFiniteSet(votes[a] \cup {vote})
    BY <2>1, FS_AddElement
  <2> QED
    BY <1>2, <1>3, <1>4, <2>1, <2>2
<1>6. \A b \in ApprovalIds \ {a} : approval'[b] = approval[b] /\ votes'[b] = votes[b]
  BY <1>2, <1>3 DEF ApprovalsTypeOK
<1>7. approval'[a] = row /\ votes'[a] = ballots
  BY <1>2, <1>3 DEF ApprovalsTypeOK
<1>8. ApprovalsTypeOK'
  BY <1>2, <1>3, <1>5 DEF ApprovalsTypeOK
<1>9. VotesOfOthers'
  BY <1>3, <1>5, <1>6, <1>7, ApprovalAssumption DEF VotesOfOthers
<1>10. Carried'
  <2> SUFFICES ASSUME NEW b \in ApprovalIds, approval'[b] # NoApproval, approval'[b].state = "approved"
               PROVE  approval'[b].required <= Cardinality(For(votes'[b]))
    BY DEF Carried, For
  <2>1. CASE b = a
    <3>1. ballots \in SUBSET ballots /\ For(ballots) \in SUBSET ballots
      BY DEF For
    <3>2. Cardinality(For(ballots)) \in Nat
      BY <1>5, <3>1, FS_Subset, FS_CardinalityType
    <3>3. row.required \in Nat
      BY <1>3, ApprovalAssumption DEF ApprovalRow
    <3>4. Cardinality(For(ballots)) >= row.required
      BY <1>1, <1>3, <1>7, <2>1
    <3> QED
      BY <1>7, <2>1, <3>2, <3>3, <3>4
  <2>2. CASE b # a
    BY <1>6, <2>2 DEF Carried
  <2> QED
    BY <2>1, <2>2
<1> QED
  BY <1>2, <1>8, <1>9, <1>10 DEF RunsCleared

LEMMA DecideLateStep ==
  ASSUME ApprovalsInv, NEW a \in ApprovalIds, DecideLate(a)
  PROVE  ApprovalsInv'
<1> USE DEF ApprovalsInv
<1> DEFINE row == [approval[a] EXCEPT !.state = "expired"]
<1>1. /\ row \in ApprovalRow /\ row.state = "expired" /\ row.requester = approval[a].requester
      /\ approval' = [approval EXCEPT ![a] = row] /\ approval[a] # NoApproval
      /\ UNCHANGED <<askClock, votes, needsIt, toolRun, cleared, advice, audited>>
  BY DEF DecideLate, ApprovalsTypeOK, ApprovalRow
<1> HIDE DEF row
<1>2. ApprovalsTypeOK'
  BY <1>1 DEF ApprovalsTypeOK
<1>3. VotesOfOthers'
  BY <1>1, ApprovalAssumption DEF ApprovalsTypeOK, VotesOfOthers
<1>4. Carried'
  BY <1>1 DEF ApprovalsTypeOK, Carried
<1> QED
  BY <1>1, <1>2, <1>3, <1>4 DEF RunsCleared

LEMMA DefinePolicyStep ==
  ASSUME ApprovalsInv, NEW asks \in BOOLEAN, DefinePolicy(asks)
  PROVE  ApprovalsInv'
<1>1. ApprovalsTypeOK' /\ RunsCleared'
  BY DEF DefinePolicy, ApprovalsInv, ApprovalsTypeOK, RunsCleared
<1>2. VotesOfOthers' /\ Carried'
  BY DEF DefinePolicy, ApprovalsInv, VotesOfOthers, Carried
<1> QED
  BY <1>1, <1>2 DEF ApprovalsInv

LEMMA RequestToolStep ==
  ASSUME ApprovalsInv, NEW r \in ToolRuns, RequestTool(r)
  PROVE  ApprovalsInv'
<1>1. ApprovalsTypeOK' /\ RunsCleared'
  BY DEF RequestTool, ApprovalsInv, ApprovalsTypeOK, RunsCleared
<1>2. VotesOfOthers' /\ Carried'
  BY DEF RequestTool, ApprovalsInv, VotesOfOthers, Carried
<1> QED
  BY <1>1, <1>2 DEF ApprovalsInv

LEMMA ApproveToolStep ==
  ASSUME ApprovalsInv, NEW r \in ToolRuns, ApproveTool(r)
  PROVE  ApprovalsInv'
<1>1. ApprovalsTypeOK' /\ RunsCleared'
  BY DEF ApproveTool, ApprovalsInv, ApprovalsTypeOK, RunsCleared
<1>2. VotesOfOthers' /\ Carried'
  BY DEF ApproveTool, ApprovalsInv, VotesOfOthers, Carried
<1> QED
  BY <1>1, <1>2 DEF ApprovalsInv

LEMMA CompleteToolStep ==
  ASSUME ApprovalsInv, NEW r \in ToolRuns, CompleteTool(r)
  PROVE  ApprovalsInv'
<1>1. ApprovalsTypeOK' /\ RunsCleared'
  BY DEF CompleteTool, ApprovalsInv, ApprovalsTypeOK, RunsCleared
<1>2. VotesOfOthers' /\ Carried'
  BY DEF CompleteTool, ApprovalsInv, VotesOfOthers, Carried
<1> QED
  BY <1>1, <1>2 DEF ApprovalsInv

LEMMA ProposeStep ==
  ASSUME ApprovalsInv, NEW o \in Advice, Propose(o)
  PROVE  ApprovalsInv'
<1>1. ApprovalsTypeOK' /\ RunsCleared'
  BY DEF Propose, ApprovalsInv, ApprovalsTypeOK, RunsCleared
<1>2. VotesOfOthers' /\ Carried'
  BY DEF Propose, ApprovalsInv, VotesOfOthers, Carried
<1> QED
  BY <1>1, <1>2 DEF ApprovalsInv

LEMMA DecideReliabilityStep ==
  ASSUME ApprovalsInv, NEW o \in Advice, DecideReliability(o)
  PROVE  ApprovalsInv'
<1>1. ApprovalsTypeOK' /\ RunsCleared'
  BY DEF DecideReliability, ApprovalsInv, ApprovalsTypeOK, RunsCleared
<1>2. VotesOfOthers' /\ Carried'
  BY DEF DecideReliability, ApprovalsInv, VotesOfOthers, Carried
<1> QED
  BY <1>1, <1>2 DEF ApprovalsInv

LEMMA ApproveAdviceStep ==
  ASSUME ApprovalsInv, NEW o \in Advice, ApproveAdvice(o)
  PROVE  ApprovalsInv'
<1>1. ApprovalsTypeOK' /\ RunsCleared'
  BY DEF ApproveAdvice, ApprovalsInv, ApprovalsTypeOK, RunsCleared
<1>2. VotesOfOthers' /\ Carried'
  BY DEF ApproveAdvice, ApprovalsInv, VotesOfOthers, Carried
<1> QED
  BY <1>1, <1>2 DEF ApprovalsInv

LEMMA RollBackAdviceStep ==
  ASSUME ApprovalsInv, NEW o \in Advice, RollBackAdvice(o)
  PROVE  ApprovalsInv'
<1>1. ApprovalsTypeOK' /\ RunsCleared'
  BY DEF RollBackAdvice, ApprovalsInv, ApprovalsTypeOK, RunsCleared
<1>2. VotesOfOthers' /\ Carried'
  BY DEF RollBackAdvice, ApprovalsInv, VotesOfOthers, Carried
<1> QED
  BY <1>1, <1>2 DEF ApprovalsInv

LEMMA AskTickStep ==
  ASSUME ApprovalsInv, AskTick
  PROVE  ApprovalsInv'
<1>1. ApprovalsTypeOK' /\ RunsCleared'
  BY DEF AskTick, ApprovalsInv, ApprovalsTypeOK, RunsCleared
<1>2. VotesOfOthers' /\ Carried'
  BY DEF AskTick, ApprovalsInv, VotesOfOthers, Carried
<1> QED
  BY <1>1, <1>2 DEF ApprovalsInv

LEMMA ApprovalsInvariance == ApprovalsSpec => []ApprovalsInv
<1>1. ApprovalsInv /\ [ApprovalsNext]_approvalVars => ApprovalsInv'
  <2> SUFFICES ASSUME ApprovalsInv, [ApprovalsNext]_approvalVars PROVE ApprovalsInv'
    OBVIOUS
  <2>1. CASE UNCHANGED approvalVars
    BY <2>1 DEF approvalVars, ApprovalsInv, ApprovalsTypeOK, VotesOfOthers, Carried, RunsCleared
  <2>2. CASE ApprovalsNext
    BY <2>2, CreateApprovalStep, DecideStep, DecideLateStep, DefinePolicyStep, RequestToolStep, ApproveToolStep,
       CompleteToolStep, ProposeStep, DecideReliabilityStep, ApproveAdviceStep, RollBackAdviceStep, AskTickStep
       DEF ApprovalsNext
  <2> QED
    BY <2>1, <2>2
<1> QED
  BY ApprovalsInitOK, <1>1, PTL DEF ApprovalsSpec

\* The rows of approvals, votes, tool runs and recommendations are what they should be.
THEOREM ApprovalsTypesCorrect == ApprovalsSpec => []ApprovalsTypeOK
<1>1. ApprovalsInv => ApprovalsTypeOK
  BY DEF ApprovalsInv
<1> QED
  BY ApprovalsInvariance, <1>1, PTL

\* Whatever people vote, repeat and take back, and however late, an approval stands on as
\* many different people as it asked for, without the requester; no tool run ends uncleared.
THEOREM OthersApprove == ApprovalsSpec => []ApprovedByOthers
<1>1. ApprovalsInv => ApprovedByOthers
  BY OneVoteEach DEF ApprovalsInv, VotesOfOthers, Carried, RunsCleared, ApprovedByOthers
<1> QED
  BY ApprovalsInvariance, <1>1, PTL

-----------------------------------------------------------------------------
(* LocalServices *)

\* A start that waits for the port has found its service stopped, one that waits for
\* the child has its entry.
StartsInOrder ==
  /\ starting.waits = "for the port" => managed[starting.service] = NoChild
  /\ starting.waits = "for the child" => managed[starting.service] # NoChild
  /\ starting.waits # "for nothing" => starting.service \in Services

ServicesInv == ServicesTypeOK /\ StartsInOrder /\ ChildIsManaged

LEMMA ServicesInitOK == ServicesInit => ServicesInv
<1> SUFFICES ASSUME ServicesInit PROVE ServicesInv
  OBVIOUS
<1>1. child \in [1..spawned -> Child] /\ spawned \in 0..MaxChildren
  BY ServiceAssumption DEF ServicesInit
<1>2. /\ managed \in [Services -> 1..spawned \cup {NoChild}]
      /\ starting \in [service : Services \cup {NoService},
                       waits : {"for nothing", "for the port", "for the child"}]
      /\ starting.waits = "for nothing"
  BY DEF ServicesInit, Idling
<1> QED
  BY <1>1, <1>2 DEF ServicesInit, ServicesInv, ServicesTypeOK, StartsInOrder, ChildIsManaged

\* What the types say, in the form the steps need it
LEMMA ServiceTypes ==
  ASSUME ServicesTypeOK
  PROVE  /\ spawned \in Nat /\ spawned <= MaxChildren /\ MaxChildren \in Nat
         /\ child \in [1..spawned -> Child] /\ owner \subseteq 1..spawned /\ stranger \subseteq Services
         /\ managed \in [Services -> 1..spawned \cup {NoChild}]
<1>1. spawned \in 0..MaxChildren /\ MaxChildren \in Nat
  BY ServiceAssumption DEF ServicesTypeOK
<1>2. spawned \in Nat /\ spawned <= MaxChildren
  BY <1>1
<1> QED
  BY <1>1, <1>2 DEF ServicesTypeOK

\* Reaping keeps the table and every child in it that runs.
LEMMA ReapedShape ==
  ASSUME ServicesInv, NEW s \in Services
  PROVE  /\ Reaped(s) \in [Services -> 1..spawned \cup {NoChild}]
         /\ \A t \in Services : Reaped(s)[t] \in {managed[t], NoChild}
         /\ \A p \in owner : Alive(p) => Reaped(s)[child[p].service] = p
<1>1. /\ managed \in [Services -> 1..spawned \cup {NoChild}]
      /\ \A p \in owner : p \in 1..spawned /\ child[p].service \in Services
  BY DEF ServicesInv, ServicesTypeOK, Child
<1>2. CASE managed[s] # NoChild /\ ~ Alive(managed[s])
  <2>1. Reaped(s) = [managed EXCEPT ![s] = NoChild]
    BY <1>2 DEF Reaped
  <2> QED
    BY <1>1, <1>2, <2>1 DEF ServicesInv, ChildIsManaged
<1>3. CASE ~ (managed[s] # NoChild /\ ~ Alive(managed[s]))
  <2>1. Reaped(s) = managed
    BY <1>3 DEF Reaped
  <2> QED
    BY <1>1, <2>1 DEF ServicesInv, ChildIsManaged
<1> QED
  BY <1>2, <1>3

\* A child is spawned for a service that has none.
LEMMA SpawnOK ==
  ASSUME ServicesInv, NEW s \in Services, NEW table \in [Services -> 1..spawned \cup {NoChild}],
         table[s] = NoChild, \A p \in owner : Alive(p) => table[child[p].service] = p,
         Spawn(s, table), UNCHANGED <<console, stranger>>
  PROVE  ServicesInv'
<1> USE DEF ServicesInv
<1>1. /\ spawned \in Nat /\ spawned < MaxChildren /\ MaxChildren \in Nat
      /\ child \in [1..spawned -> Child] /\ owner \subseteq 1..spawned
  BY ServiceTypes DEF Spawn
<1>2. PICK new \in 1..MaxChildren : new = spawned + 1
  BY <1>1
<1> DEFINE booting == [service |-> s, life |-> "booting"]
<1>3. /\ spawned' = new /\ managed' = [table EXCEPT ![s] = new] /\ owner' = owner \cup {new}
      /\ starting' = [service |-> s, waits |-> "for the child"]
      /\ child' = [p \in 1..new |-> IF p <= spawned THEN child[p] ELSE booting]
  BY <1>2 DEF Spawn
<1>4. /\ new \in 1..new /\ new \notin 1..spawned /\ 1..spawned \subseteq 1..new
      /\ \A p \in 1..new : p <= spawned <=> p \in 1..spawned
      /\ NoChild # new /\ NoChild \notin 1..spawned /\ new \in 0..MaxChildren
  BY <1>1, <1>2, ServiceAssumption DEF Children
<1>5. booting \in Child
  BY DEF Child
<1> HIDE DEF booting
<1>6. /\ child' \in [1..new -> Child]
      /\ \A p \in 1..spawned : child'[p] = child[p]
  BY <1>1, <1>3, <1>4, <1>5
<1>7. ServicesTypeOK'
  <2>1. managed' \in [Services -> 1..new \cup {NoChild}] /\ owner' \subseteq 1..new
    BY <1>1, <1>3, <1>4
  <2>2. starting' \in [service : Services \cup {NoService},
                      waits : {"for nothing", "for the port", "for the child"}]
    BY <1>3
  <2> QED
    BY <1>3, <1>4, <1>6, <2>1, <2>2 DEF ServicesTypeOK
<1>8. StartsInOrder'
  BY <1>3, <1>4 DEF StartsInOrder
<1>9. ChildIsManaged'
  <2> SUFFICES ASSUME NEW p \in owner', Alive(p)' PROVE managed'[child'[p].service] = p
    BY DEF ChildIsManaged
  <2>1. CASE p = new
    <3>1. child'[new].service = s
      BY <1>3, <1>4 DEF booting
    <3> QED
      BY <1>3, <2>1, <3>1
  <2>2. CASE p \in owner
    <3>1. p \in 1..spawned /\ child'[p] = child[p] /\ child[p].service \in Services
      BY <1>1, <1>6, <2>2 DEF Child
    <3>2. Alive(p)
      BY <3>1 DEF Alive
    <3>3. table[child[p].service] = p
      BY <2>2, <3>2
    <3>4. child[p].service # s
      BY <1>4, <3>1, <3>3
    <3> QED
      BY <1>3, <3>1, <3>3, <3>4
  <2> QED
    BY <1>3, <2>1, <2>2
<1> QED
  BY <1>7, <1>8, <1>9

LEMMA StartServiceStep ==
  ASSUME ServicesInv, NEW s \in Services, StartService(s)
  PROVE  ServicesInv'
<1>1. CASE PortOpen(s)
  <2>1. /\ managed' = Reaped(s) /\ managed'[s] = NoChild
        /\ starting' = [service |-> s, waits |-> "for the port"]
        /\ UNCHANGED <<console, spawned, child, stranger, owner>>
    BY <1>1 DEF StartService
  <2>2. ServicesTypeOK'
    <3>1. managed' \in [Services -> 1..spawned \cup {NoChild}]
      BY <2>1, ReapedShape
    <3> QED
      BY <2>1, <3>1 DEF ServicesInv, ServicesTypeOK
  <2>3. StartsInOrder'
    BY <2>1 DEF StartsInOrder
  <2>4. ChildIsManaged'
    BY <2>1, ReapedShape DEF ChildIsManaged, Alive
  <2> QED
    BY <2>2, <2>3, <2>4 DEF ServicesInv
<1>2. CASE ~ PortOpen(s)
  BY <1>2, ReapedShape, SpawnOK DEF StartService
<1> QED
  BY <1>1, <1>2

LEMMA PortFreedStep ==
  ASSUME ServicesInv, NEW s \in Services, PortFreed(s)
  PROVE  ServicesInv'
<1>1. managed[s] = NoChild /\ Spawn(s, managed) /\ UNCHANGED <<console, stranger>>
  BY DEF PortFreed, WaitsFor, ServicesInv, StartsInOrder
<1>2. /\ managed \in [Services -> 1..spawned \cup {NoChild}]
      /\ \A p \in owner : Alive(p) => managed[child[p].service] = p
  BY DEF ServicesInv, ServicesTypeOK, ChildIsManaged
<1> QED
  BY <1>1, <1>2, SpawnOK

\* An entry goes with its child.
LEMMA EndOK ==
  ASSUME ServicesInv, NEW s \in Services, managed[s] # NoChild,
         IF Alive(managed[s])
         THEN child' = Terminated(managed[s]) /\ stranger' \in Survivors(managed[s])
         ELSE UNCHANGED <<child, stranger>>,
         managed' = [managed EXCEPT ![s] = NoChild],
         starting' = Idling,
         UNCHANGED <<console, spawned, owner>>
  PROVE  ServicesInv'
<1> USE DEF ServicesInv
<1>1. PICK m \in 1..spawned : m = managed[s]
  BY ServiceTypes
<1>2. /\ child[m] \in Child /\ child \in [1..spawned -> Child] /\ spawned \in Nat
      /\ managed \in [Services -> 1..spawned \cup {NoChild}]
  BY ServiceTypes
<1>3. \A p \in 1..spawned : p # m => child'[p] = child[p]
  BY <1>1, <1>2 DEF Terminated, Killed
<1>4. child' \in [1..spawned -> Child] /\ stranger' \subseteq Services /\ ~ Alive(m)'
  <2>1. CASE Alive(m)
    <3>1. child' = [child EXCEPT ![m].life = "dead"] /\ stranger' \in Survivors(m)
      BY <1>1, <2>1 DEF Terminated, Killed
    <3>2. child' \in [1..spawned -> Child] /\ child'[m].life = "dead"
      <4> DEFINE c == [child[m] EXCEPT !.life = "dead"]
      <4>1. c \in Child /\ c.life = "dead"
        BY <1>2 DEF Child
      <4>2. child' = [child EXCEPT ![m] = c]
        BY <3>1
      <4> HIDE DEF c
      <4> QED
        BY <1>2, <4>1, <4>2
    <3>3. stranger' \subseteq Services
      <4>1. stranger \subseteq Services /\ child[m].service \in Services
        BY <1>2 DEF ServicesTypeOK, Child
      <4>2. stranger' = stranger \/ stranger' = stranger \cup {child[m].service}
        BY <3>1 DEF Survivors
      <4> QED
        BY <4>1, <4>2
    <3> QED
      BY <3>2, <3>3 DEF Alive
  <2>2. CASE ~ Alive(m)
    BY <1>1, <1>2, <2>2 DEF Alive, ServicesTypeOK
  <2> QED
    BY <2>1, <2>2
<1>5. ServicesTypeOK'
  <2>1. managed' \in [Services -> 1..spawned \cup {NoChild}]
    BY <1>2
  <2>2. starting' \in [service : Services \cup {NoService},
                      waits : {"for nothing", "for the port", "for the child"}]
    BY DEF Idling
  <2> QED
    BY <1>4, <2>1, <2>2 DEF ServicesTypeOK
<1>6. StartsInOrder'
  BY DEF StartsInOrder, Idling
<1>7. ChildIsManaged'
  <2> SUFFICES ASSUME NEW p \in owner, Alive(p)' PROVE managed'[child'[p].service] = p
    BY DEF ChildIsManaged
  <2>1. p \in 1..spawned /\ p # m
    BY <1>4 DEF ServicesTypeOK
  <2>2. child'[p] = child[p] /\ Alive(p) /\ child[p].service \in Services
    BY <1>2, <1>3, <2>1 DEF Alive, Child
  <2>3. managed[child[p].service] = p
    BY <2>2 DEF ChildIsManaged
  <2>4. child[p].service # s
    BY <1>1, <2>1, <2>3
  <2> QED
    BY <1>2, <2>2, <2>3, <2>4
<1> QED
  BY <1>5, <1>6, <1>7

LEMMA StartFailsStep ==
  ASSUME ServicesInv, NEW s \in Services, StartFails(s)
  PROVE  ServicesInv'
<1>1. managed[s] # NoChild
  BY DEF StartFails, WaitsFor, ServicesInv, StartsInOrder
<1> QED
  BY <1>1, EndOK DEF StartFails

LEMMA StopServiceStep ==
  ASSUME ServicesInv, NEW s \in Services, StopService(s)
  PROVE  ServicesInv'
<1>1. starting' = Idling
  BY DEF StopService, Ready
<1> QED
  BY <1>1, EndOK DEF StopService

LEMMA ReadStatusStep ==
  ASSUME ServicesInv, NEW s \in Services, ReadStatus(s)
  PROVE  ServicesInv'
<1>1. /\ managed' = Reaped(s) /\ starting = Idling
      /\ UNCHANGED <<console, spawned, child, stranger, starting, owner>>
  BY DEF ReadStatus, Ready
<1>2. ServicesTypeOK'
  BY <1>1, ReapedShape DEF ServicesInv, ServicesTypeOK
<1>3. StartsInOrder'
  BY <1>1 DEF StartsInOrder, Idling
<1>4. ChildIsManaged'
  BY <1>1, ReapedShape DEF ChildIsManaged, Alive
<1> QED
  BY <1>2, <1>3, <1>4 DEF ServicesInv

LEMMA CrashConsoleStep ==
  ASSUME ServicesInv, CrashConsole
  PROVE  ServicesInv'
<1>1. /\ managed' \in [Services -> 1..spawned \cup {NoChild}]
      /\ starting' \in [service : Services \cup {NoService},
                        waits : {"for nothing", "for the port", "for the child"}]
      /\ starting'.waits = "for nothing"
  BY DEF CrashConsole, Idling
<1> QED
  BY <1>1 DEF CrashConsole, ServicesInv, ServicesTypeOK, StartsInOrder, ChildIsManaged

LEMMA RestartConsoleStep ==
  ASSUME ServicesInv, RestartConsole
  PROVE  ServicesInv'
BY DEF RestartConsole, ServicesInv, ServicesTypeOK, StartsInOrder, ChildIsManaged

LEMMA QuietStep ==
  ASSUME ServicesInv,
         \/ ShutDown
         \/ \E s \in Services : StartRefused(s) \/ StartSucceeds(s) \/ StrangerComes(s) \/ StrangerGoes(s)
  PROVE  ServicesInv'
<1>1. /\ UNCHANGED <<spawned, child, managed, owner>>
      /\ console' \in BOOLEAN /\ stranger' \subseteq Services
  BY DEF ShutDown, StartRefused, StartSucceeds, StrangerComes, StrangerGoes, ServicesInv, ServicesTypeOK
<1>2. starting' = starting \/ starting' = Idling
  BY DEF ShutDown, StartRefused, StartSucceeds, StrangerComes, StrangerGoes
<1>3. /\ Idling.waits = "for nothing"
      /\ Idling \in [service : Services \cup {NoService},
                    waits : {"for nothing", "for the port", "for the child"}]
  BY DEF Idling
<1>4. ServicesTypeOK'
  BY <1>1, <1>2, <1>3 DEF ServicesInv, ServicesTypeOK
<1>5. StartsInOrder'
  BY <1>1, <1>2, <1>3 DEF ServicesInv, StartsInOrder
<1>6. ChildIsManaged'
  BY <1>1 DEF ServicesInv, ChildIsManaged, Alive
<1> QED
  BY <1>4, <1>5, <1>6 DEF ServicesInv

\* A child serves, or exits; none comes back.
LEMMA ChildStep ==
  ASSUME ServicesInv, NEW p \in Children, ChildServes(p) \/ ChildExits(p)
  PROVE  ServicesInv'
<1> USE DEF ServicesInv
<1>1. /\ p \in 1..spawned /\ child[p] \in Child /\ child \in [1..spawned -> Child] /\ Alive(p)
      /\ UNCHANGED <<console, spawned, managed, stranger, starting, owner>>
  <2>1. p \in Nat /\ p >= 1 /\ p <= spawned
    BY ServiceAssumption DEF ChildServes, ChildExits, Alive, Children
  <2>2. Alive(p) /\ UNCHANGED <<console, spawned, managed, stranger, starting, owner>>
    BY DEF ChildServes, ChildExits, Alive
  <2> QED
    BY <2>1, <2>2, ServiceTypes
<1>2. PICK l \in {"serving", "dead"} : child' = [child EXCEPT ![p].life = l]
  BY DEF ChildServes, ChildExits, Killed
<1>3. child' \in [1..spawned -> Child] /\ \A q \in 1..spawned : child'[q].service = child[q].service
  BY <1>1, <1>2 DEF Child
<1>4. \A q \in 1..spawned : Alive(q)' => Alive(q)
  BY <1>1, <1>2 DEF Alive
<1>5. ServicesTypeOK' /\ StartsInOrder'
  BY <1>1, <1>3 DEF ServicesTypeOK, StartsInOrder
<1>6. ChildIsManaged'
  BY <1>1, <1>3, <1>4 DEF ServicesTypeOK, ChildIsManaged
<1> QED
  BY <1>5, <1>6

LEMMA ServicesInvariance == ServicesSpec => []ServicesInv
<1>1. ServicesInv /\ [ServicesNext]_serviceVars => ServicesInv'
  <2> SUFFICES ASSUME ServicesInv, [ServicesNext]_serviceVars PROVE ServicesInv'
    OBVIOUS
  <2>1. CASE UNCHANGED serviceVars
    BY <2>1 DEF serviceVars, ServicesInv, ServicesTypeOK, StartsInOrder, ChildIsManaged, Alive
  <2>2. CASE ServicesNext
    BY <2>2, StartServiceStep, PortFreedStep, StartFailsStep, StopServiceStep, ReadStatusStep, CrashConsoleStep,
       RestartConsoleStep, QuietStep, ChildStep DEF ServicesNext
  <2> QED
    BY <2>1, <2>2
<1> QED
  BY ServicesInitOK, <1>1, PTL DEF ServicesSpec

\* The table of the manager names children that were spawned.
THEOREM ServicesTypesCorrect == ServicesSpec => []ServicesTypeOK
<1>1. ServicesInv => ServicesTypeOK
  BY DEF ServicesInv
<1> QED
  BY ServicesInvariance, <1>1, PTL

\* No call of the manager, in whatever order with exits, strangers and crashes, leaves a
\* running child that is not in the table of the console which spawned it.
THEOREM ChildrenInTable == ServicesSpec => []ChildIsManaged
<1>1. ServicesInv => ChildIsManaged
  BY DEF ServicesInv
<1> QED
  BY ServicesInvariance, <1>1, PTL

-----------------------------------------------------------------------------
(* AlertDispatch *)

InDispatcher == {"calling", "backing off"}

\* A task is inside its dispatcher while it holds the lock, and only then.
LockHeld == \A d \in Tasks : stage[d] \in InDispatcher <=> busyWith[Home(d)] = d

\* Evaluations start their tasks once, and a task passes the cooldown at an instant
\* that has been.
Unstarted ==
  \A d \in Tasks : (d[1] > evals => stage[d] = "none") /\ passed[d] <= alertClock

\* What a dispatcher remembers of a rule is not older than any delivery of it.
StampsHold ==
  Cooldown > 0 =>
    \A d \in Tasks : stage[d] = "delivered" =>
      /\ lastFired[Home(d)][RuleOf(d)] # Never
      /\ passed[d] <= lastFired[Home(d)][RuleOf(d)]

\* A task that is inside has passed the cooldown of every delivery of its rule.
EnteredLater ==
  \A d, e \in Tasks :
    stage[d] \in InDispatcher /\ stage[e] = "delivered" /\ Home(d) = Home(e) /\ RuleOf(d) = RuleOf(e)
      => passed[d] - passed[e] >= Cooldown

AlertInv == AlertTypeOK /\ LockHeld /\ Unstarted /\ StampsHold /\ EnteredLater /\ CooldownKept

LEMMA HomeOfTask ==
  ASSUME NEW d \in Tasks
  PROVE  /\ Home(d) \in 1..Evals /\ RuleOf(d) \in Rules /\ d[1] \in 1..Evals /\ d # Nobody
<1>1. d[1] \in 1..Evals /\ d[2] \in Rules /\ Evals \in Nat
  BY AlertAssumption DEF Tasks
<1>2. 1 \in 1..Evals
  BY <1>1
<1> QED
  BY <1>1, <1>2, NobodyAssumption DEF Home, RuleOf

LEMMA AlertInitOK == AlertInit => AlertInv
<1> SUFFICES ASSUME AlertInit PROVE AlertInv
  OBVIOUS
<1>1. AlertTypeOK
  BY AlertAssumption DEF AlertInit, AlertTypeOK
<1>2. LockHeld
  BY HomeOfTask DEF AlertInit, LockHeld, InDispatcher
<1>3. Unstarted
  BY AlertAssumption DEF AlertInit, Unstarted
<1> QED
  BY <1>1, <1>2, <1>3 DEF AlertInit, AlertInv, StampsHold, EnteredLater, CooldownKept, InDispatcher

\* Steps that only bring time on, or spend, or answer a task without the lock.
LEMMA SpendStep ==
  ASSUME AlertInv, NEW e \in 0..MaxExposure, Spend(e)
  PROVE  AlertInv'
<1>1. exposure' \in Nat /\ UNCHANGED <<alertClock, evals, busyWith, lastFired, stage, passed, tries>>
  BY AlertAssumption DEF Spend, taskVars
<1>2. AlertTypeOK'
  BY <1>1 DEF AlertInv, AlertTypeOK
<1>3. LockHeld' /\ Unstarted'
  BY <1>1 DEF AlertInv, LockHeld, Unstarted
<1>4. StampsHold' /\ EnteredLater' /\ CooldownKept'
  BY <1>1 DEF AlertInv, StampsHold, EnteredLater, CooldownKept
<1> QED
  BY <1>2, <1>3, <1>4 DEF AlertInv

LEMMA AlertTickStep ==
  ASSUME AlertInv, AlertTick
  PROVE  AlertInv'
<1>1. /\ alertClock \in Nat /\ alertClock' = alertClock + 1
      /\ UNCHANGED <<exposure, evals, busyWith, lastFired, stage, passed, tries>>
  BY DEF AlertTick, taskVars, AlertInv, AlertTypeOK
<1>2. AlertTypeOK'
  <2>1. alertClock' \in Nat
    BY <1>1
  <2> QED
    BY <1>1, <2>1 DEF AlertInv, AlertTypeOK
<1>3. \A d \in Tasks : passed[d] \in Nat
  BY DEF AlertInv, AlertTypeOK
<1>4. LockHeld' /\ Unstarted'
  BY <1>1, <1>3 DEF AlertInv, LockHeld, Unstarted
<1>5. StampsHold' /\ EnteredLater' /\ CooldownKept'
  BY <1>1 DEF AlertInv, StampsHold, EnteredLater, CooldownKept
<1> QED
  BY <1>2, <1>4, <1>5 DEF AlertInv

LEMMA EvaluateStep ==
  ASSUME AlertInv, Evaluate
  PROVE  AlertInv'
<1> USE DEF AlertInv
<1>1. /\ evals \in Nat /\ evals' = evals + 1 /\ evals' \in 0..Evals
      /\ UNCHANGED <<alertClock, exposure, busyWith, lastFired, passed, tries>>
  <2>1. evals \in 0..Evals /\ Evals \in Nat
    BY AlertAssumption DEF AlertTypeOK
  <2>2. evals < Evals /\ evals' = evals + 1
    BY DEF Evaluate
  <2> QED
    BY <2>1, <2>2 DEF Evaluate
<1>2. \A d \in Tasks : \/ stage'[d] = stage[d] /\ d[1] # evals'
                       \/ stage[d] = "none" /\ d[1] = evals' /\ stage'[d] \in {"none", "waiting"}
  <2> SUFFICES ASSUME NEW d \in Tasks
               PROVE  \/ stage'[d] = stage[d] /\ d[1] # evals'
                      \/ stage[d] = "none" /\ d[1] = evals' /\ stage'[d] \in {"none", "waiting"}
    OBVIOUS
  <2>1. stage'[d] = IF d[1] = evals' /\ Triggered(RuleOf(d)) THEN "waiting" ELSE stage[d]
    BY DEF Evaluate
  <2>2. d[1] = evals' => stage[d] = "none"
    BY <1>1, HomeOfTask DEF Unstarted
  <2> QED
    BY <2>1, <2>2
<1>3. stage' \in [Tasks -> {"none", "waiting", "calling", "backing off"} \cup Ended]
  <2>1. stage' = [d \in Tasks |-> stage'[d]]
    BY DEF Evaluate
  <2>2. \A d \in Tasks : stage[d] \in {"none", "waiting", "calling", "backing off"} \cup Ended
    BY DEF AlertTypeOK
  <2> QED
    BY <1>2, <2>1, <2>2
<1>4. AlertTypeOK'
  BY <1>1, <1>3 DEF AlertTypeOK
<1>5. \A d \in Tasks : /\ stage'[d] \in InDispatcher <=> stage[d] \in InDispatcher
                       /\ stage'[d] = "delivered" <=> stage[d] = "delivered"
  BY <1>2 DEF InDispatcher
<1>6. LockHeld'
  BY <1>1, <1>5 DEF LockHeld
<1>7. Unstarted'
  BY <1>1, <1>2, HomeOfTask DEF Unstarted
<1>8. StampsHold' /\ EnteredLater' /\ CooldownKept'
  BY <1>1, <1>5 DEF StampsHold, EnteredLater, CooldownKept
<1> QED
  BY <1>4, <1>6, <1>7, <1>8

LEMMA SuppressStep ==
  ASSUME AlertInv, NEW d \in Tasks, Suppress(d)
  PROVE  AlertInv'
<1> USE DEF AlertInv
<1>0. /\ stage[d] = "waiting" /\ stage' = [stage EXCEPT ![d] = "suppressed"]
      /\ UNCHANGED <<alertClock, exposure, evals, busyWith, lastFired, passed, tries>>
  BY DEF Suppress
<1>1. /\ AlertTypeOK' /\ UNCHANGED <<alertClock, evals, busyWith, lastFired, passed>>
      /\ \A e \in Tasks : e # d => stage'[e] = stage[e]
      /\ stage[d] = "waiting" /\ stage'[d] = "suppressed"
  <2>1. stage \in [Tasks -> {"none", "waiting", "calling", "backing off"} \cup Ended]
    BY DEF AlertTypeOK
  <2>2. stage' \in [Tasks -> {"none", "waiting", "calling", "backing off"} \cup Ended]
    BY <1>0, <2>1 DEF Ended
  <2>3. AlertTypeOK'
    BY <1>0, <2>2 DEF AlertTypeOK
  <2> QED
    BY <1>0, <2>1, <2>3
<1>2. LockHeld'
  <2> SUFFICES ASSUME NEW e \in Tasks PROVE stage'[e] \in InDispatcher <=> busyWith'[Home(e)] = e
    BY DEF LockHeld
  <2>1. CASE e = d
    BY <1>1, <2>1 DEF LockHeld, InDispatcher
  <2>2. CASE e # d
    BY <1>1, <2>2 DEF LockHeld
  <2> QED
    BY <2>1, <2>2
<1>4. Unstarted'
  BY <1>1 DEF Unstarted
<1>3. StampsHold' /\ EnteredLater' /\ CooldownKept'
  BY <1>1 DEF StampsHold, EnteredLater, CooldownKept, InDispatcher
<1> QED
  BY <1>1, <1>2, <1>3, <1>4

LEMMA EnterStep ==
  ASSUME AlertInv, NEW d \in Tasks, Enter(d)
  PROVE  AlertInv'
<1> USE DEF AlertInv
<1>1. AlertTypeOK'
  BY HomeOfTask DEF Enter, AlertTypeOK
<1>2. /\ UNCHANGED <<alertClock, exposure, evals, lastFired>>
      /\ stage[d] = "waiting" /\ stage'[d] = "calling" /\ passed'[d] = alertClock
      /\ busyWith[Home(d)] = Nobody /\ busyWith'[Home(d)] = d
      /\ \A e \in Tasks : e # d => stage'[e] = stage[e] /\ passed'[e] = passed[e]
      /\ \A h \in 1..Evals : h # Home(d) => busyWith'[h] = busyWith[h]
  BY HomeOfTask DEF Enter, DispatcherFree, AlertTypeOK
<1>3. LockHeld'
  <2> SUFFICES ASSUME NEW e \in Tasks PROVE stage'[e] \in InDispatcher <=> busyWith'[Home(e)] = e
    BY DEF LockHeld
  <2>1. Home(e) \in 1..Evals /\ e # Nobody
    BY HomeOfTask
  <2>2. CASE e = d
    BY <1>2, <2>2 DEF InDispatcher
  <2>3. CASE e # d /\ Home(e) = Home(d)
    BY <1>2, <2>1, <2>3 DEF LockHeld
  <2>4. CASE e # d /\ Home(e) # Home(d)
    BY <1>2, <2>1, <2>4 DEF LockHeld
  <2> QED
    BY <2>2, <2>3, <2>4
<1>4. Unstarted'
  <2>1. alertClock \in Nat
    BY DEF AlertTypeOK
  <2> SUFFICES ASSUME NEW e \in Tasks PROVE (e[1] > evals => stage'[e] = "none") /\ passed'[e] <= alertClock
    BY <1>2 DEF Unstarted
  <2> QED
    BY <1>2, <2>1 DEF Unstarted
<1>5. StampsHold' /\ CooldownKept'
  BY <1>2 DEF StampsHold, CooldownKept
<1>6. EnteredLater'
  <2> SUFFICES ASSUME NEW a \in Tasks, NEW e \in Tasks, stage'[a] \in InDispatcher, stage'[e] = "delivered",
                      Home(a) = Home(e), RuleOf(a) = RuleOf(e)
               PROVE  passed'[a] - passed'[e] >= Cooldown
    BY DEF EnteredLater
  <2>1. e # d /\ stage[e] = "delivered" /\ passed'[e] = passed[e]
    BY <1>2
  <2>2. CASE a # d
    BY <1>2, <2>1, <2>2 DEF EnteredLater
  <2>3. CASE a = d
    <3> DEFINE last == lastFired[Home(e)][RuleOf(e)]
    <3>1. /\ passed[e] \in Nat /\ alertClock \in Nat /\ Cooldown \in Nat /\ passed[e] <= alertClock
          /\ last \in Nat \cup {Never}
      BY AlertAssumption, HomeOfTask DEF AlertTypeOK, Unstarted
    <3>2. Cooldown = 0 \/ last = Never \/ ~ alertClock - last < Cooldown
      BY <2>3, <3>1 DEF Enter, InCooldown
    <3>3. Cooldown > 0 => last # Never /\ passed[e] <= last
      BY <2>1 DEF StampsHold
    <3> HIDE DEF last
    <3> QED
      BY <1>2, <2>1, <2>3, <3>1, <3>2, <3>3
  <2> QED
    BY <2>2, <2>3
<1> QED
  BY <1>1, <1>3, <1>4, <1>5, <1>6

\* What a delivery writes down: one entry, and it is not older than the instant passed.
LEMMA StampShape ==
  ASSUME AlertInv, NEW d \in Tasks
  PROVE  /\ Stamp(d) \in [1..Evals -> [Rules -> Nat \cup {Never}]]
         /\ \A h \in 1..Evals, r \in Rules :
              h # Home(d) \/ r # RuleOf(d) => Stamp(d)[h][r] = lastFired[h][r]
         /\ Cooldown > 0 => /\ Stamp(d)[Home(d)][RuleOf(d)] \in Nat
                            /\ passed[d] <= Stamp(d)[Home(d)][RuleOf(d)]
<1>1. /\ Home(d) \in 1..Evals /\ RuleOf(d) \in Rules /\ passed[d] \in Nat /\ alertClock \in Nat
      /\ passed[d] <= alertClock /\ Cooldown \in Nat
      /\ lastFired \in [1..Evals -> [Rules -> Nat \cup {Never}]]
  BY HomeOfTask, AlertAssumption DEF AlertInv, AlertTypeOK, Unstarted
<1>2. PICK n \in Nat : /\ passed[d] <= n
                       /\ n = IF lastFired[Home(d)][RuleOf(d)] = Never THEN alertClock ELSE passed[d]
  BY <1>1
<1>3. CASE Cooldown = 0
  BY <1>1, <1>3 DEF Stamp
<1>4. CASE Cooldown # 0
  <2>1. Stamp(d) = [lastFired EXCEPT ![Home(d)][RuleOf(d)] = n]
    BY <1>2, <1>4 DEF Stamp
  <2> QED
    BY <1>1, <1>2, <1>4, <2>1
<1> QED
  BY <1>3, <1>4

LEMMA DeliverStep ==
  ASSUME AlertInv, NEW d \in Tasks, Deliver(d)
  PROVE  AlertInv'
<1> USE DEF AlertInv
<1>1. /\ UNCHANGED <<alertClock, exposure, evals, passed, tries>>
      /\ stage[d] = "calling" /\ stage'[d] = "delivered"
      /\ busyWith[Home(d)] = d /\ busyWith'[Home(d)] = Nobody /\ lastFired' = Stamp(d)
      /\ \A e \in Tasks : e # d => stage'[e] = stage[e]
      /\ \A h \in 1..Evals : h # Home(d) => busyWith'[h] = busyWith[h]
  BY HomeOfTask DEF Deliver, Fired, AlertTypeOK, LockHeld, InDispatcher
<1>2. /\ stage' \in [Tasks -> {"none", "waiting", "calling", "backing off"} \cup Ended]
      /\ busyWith' \in [1..Evals -> Tasks \cup {Nobody}]
  BY DEF Deliver, AlertTypeOK, Ended
<1>3. AlertTypeOK'
  BY <1>1, <1>2, StampShape DEF AlertTypeOK
<1>4. LockHeld'
  BY <1>1, HomeOfTask DEF LockHeld, InDispatcher
<1>5. Unstarted'
  BY <1>1 DEF Unstarted
<1>6. \A e \in Tasks : e # d /\ Home(e) = Home(d) => stage[e] \notin InDispatcher
  BY <1>1 DEF LockHeld
<1>7. \A e \in Tasks : stage[e] = "delivered" /\ Home(d) = Home(e) /\ RuleOf(d) = RuleOf(e) =>
        passed[d] - passed[e] >= Cooldown /\ passed[d] \in Nat /\ passed[e] \in Nat /\ Cooldown \in Nat
  BY <1>1, AlertAssumption DEF EnteredLater, AlertTypeOK, InDispatcher
<1>8. StampsHold'
  <2> SUFFICES ASSUME Cooldown > 0, NEW e \in Tasks, stage'[e] = "delivered"
               PROVE  /\ lastFired'[Home(e)][RuleOf(e)] # Never
                      /\ passed[e] <= lastFired'[Home(e)][RuleOf(e)]
    BY <1>1 DEF StampsHold
  <2>0. Stamp(d)[Home(d)][RuleOf(d)] \in Nat /\ passed[d] <= Stamp(d)[Home(d)][RuleOf(d)]
    BY StampShape
  <2>1. CASE Home(e) = Home(d) /\ RuleOf(e) = RuleOf(d)
    <3>1. passed[e] <= passed[d] /\ passed[e] \in Nat /\ passed[d] \in Nat
      <4>1. passed[e] \in Nat /\ passed[d] \in Nat
        BY DEF AlertTypeOK
      <4>2. e # d => passed[d] - passed[e] >= Cooldown /\ Cooldown \in Nat
        BY <1>1, <1>7, <2>1
      <4> QED
        BY <4>1, <4>2
    <3> QED
      BY <1>1, <2>0, <2>1, <3>1, AlertAssumption
  <2>2. CASE Home(e) # Home(d) \/ RuleOf(e) # RuleOf(d)
    <3>1. e # d /\ stage[e] = "delivered"
      BY <1>1, <2>2
    <3>2. lastFired'[Home(e)][RuleOf(e)] = lastFired[Home(e)][RuleOf(e)]
      BY <1>1, <2>2, StampShape, HomeOfTask
    <3> QED
      BY <3>1, <3>2 DEF StampsHold
  <2> QED
    BY <2>1, <2>2
<1>9. EnteredLater'
  <2> SUFFICES ASSUME NEW a \in Tasks, NEW e \in Tasks, stage'[a] \in InDispatcher, stage'[e] = "delivered",
                      Home(a) = Home(e), RuleOf(a) = RuleOf(e)
               PROVE  passed[a] - passed[e] >= Cooldown
    BY <1>1 DEF EnteredLater
  <2>1. a # d /\ stage[a] \in InDispatcher
    BY <1>1 DEF InDispatcher
  <2>2. e # d
    BY <1>6, <2>1
  <2> QED
    BY <1>1, <2>1, <2>2 DEF EnteredLater
<1>10. CooldownKept'
  <2> SUFFICES ASSUME NEW a \in Tasks, NEW e \in Tasks, stage'[a] = "delivered", stage'[e] = "delivered",
                      a # e, Home(a) = Home(e), RuleOf(a) = RuleOf(e)
               PROVE  passed[e] - passed[a] >= Cooldown \/ passed[a] - passed[e] >= Cooldown
    BY <1>1 DEF CooldownKept
  <2>1. CASE a = d
    BY <1>1, <1>7, <2>1
  <2>2. CASE e = d
    BY <1>1, <1>7, <2>2
  <2>3. CASE a # d /\ e # d
    BY <1>1, <2>3 DEF CooldownKept
  <2> QED
    BY <2>1, <2>2, <2>3
<1> QED
  BY <1>3, <1>4, <1>5, <1>8, <1>9, <1>10

\* Failing, backing off and giving up change no instant and no delivery.
LEMMA RetryStep ==
  ASSUME AlertInv, NEW d \in Tasks, FailAndRetry(d) \/ WakeUp(d)
  PROVE  AlertInv'
<1> USE DEF AlertInv
<1>1. /\ AlertTypeOK' /\ UNCHANGED <<alertClock, evals, busyWith, lastFired, passed>>
      /\ stage[d] \in InDispatcher /\ stage'[d] \in InDispatcher
      /\ \A e \in Tasks : e # d => stage'[e] = stage[e]
  <2>1. CASE FailAndRetry(d)
    BY <2>1 DEF FailAndRetry, AlertTypeOK, InDispatcher
  <2>2. CASE WakeUp(d)
    <3>0. tries \in [Tasks -> Nat]
      BY DEF AlertTypeOK
    <3>1. tries[d] + 1 \in Nat
      BY <3>0
    <3> QED
      BY <2>2, <3>1 DEF WakeUp, Counted, AlertTypeOK, InDispatcher
  <2> QED
    BY <2>1, <2>2
<1>2. LockHeld' /\ Unstarted'
  BY <1>1 DEF LockHeld, Unstarted, InDispatcher
<1>3. StampsHold' /\ EnteredLater' /\ CooldownKept'
  BY <1>1 DEF StampsHold, EnteredLater, CooldownKept, InDispatcher
<1> QED
  BY <1>1, <1>2, <1>3

LEMMA GiveUpStep ==
  ASSUME AlertInv, NEW d \in Tasks, GiveUp(d)
  PROVE  AlertInv'
<1> USE DEF AlertInv
<1>1. /\ UNCHANGED <<alertClock, exposure, evals, lastFired, passed, tries>>
      /\ stage[d] = "calling" /\ stage'[d] = "given up"
      /\ busyWith[Home(d)] = d /\ busyWith'[Home(d)] = Nobody
      /\ \A e \in Tasks : e # d => stage'[e] = stage[e]
      /\ \A h \in 1..Evals : h # Home(d) => busyWith'[h] = busyWith[h]
  BY HomeOfTask DEF GiveUp, AlertTypeOK, LockHeld, InDispatcher
<1>2. AlertTypeOK'
  BY DEF GiveUp, AlertTypeOK, Ended
<1>3. LockHeld' /\ Unstarted'
  <2>1. Unstarted'
    BY <1>1 DEF Unstarted
  <2> SUFFICES ASSUME NEW e \in Tasks PROVE stage'[e] \in InDispatcher <=> busyWith'[Home(e)] = e
    BY <2>1 DEF LockHeld
  <2>2. Home(e) \in 1..Evals /\ e # Nobody
    BY HomeOfTask
  <2>3. CASE Home(e) = Home(d)
    BY <1>1, <2>2, <2>3 DEF LockHeld, InDispatcher
  <2>4. CASE Home(e) # Home(d)
    BY <1>1, <2>2, <2>4 DEF LockHeld
  <2> QED
    BY <2>3, <2>4
<1>4. StampsHold' /\ EnteredLater' /\ CooldownKept'
  BY <1>1 DEF StampsHold, EnteredLater, CooldownKept, InDispatcher
<1> QED
  BY <1>2, <1>3, <1>4

LEMMA AlertInvariance == AlertSpec => []AlertInv
<1>1. AlertInv /\ [AlertNext]_alertVars => AlertInv'
  <2> SUFFICES ASSUME AlertInv, [AlertNext]_alertVars PROVE AlertInv'
    OBVIOUS
  <2>1. CASE UNCHANGED alertVars
    BY <2>1 DEF alertVars, AlertInv, AlertTypeOK, LockHeld, Unstarted, StampsHold, EnteredLater, CooldownKept
  <2>2. CASE AlertNext
    BY <2>2, SpendStep, EvaluateStep, AlertTickStep, SuppressStep, EnterStep, DeliverStep, RetryStep, GiveUpStep
       DEF AlertNext, TaskStep
  <2> QED
    BY <2>1, <2>2
<1> QED
  BY AlertInitOK, <1>1, PTL DEF AlertSpec

\* The locks, stamps and stages of the dispatchers are what they should be.
THEOREM AlertTypesCorrect == AlertSpec => []AlertTypeOK
<1>1. AlertInv => AlertTypeOK
  BY DEF AlertInv
<1> QED
  BY AlertInvariance, <1>1, PTL

\* A dispatcher never delivers a rule twice within the cooldown, for any number of
\* evaluations, rules and retries, whether or not the evaluations share it.
THEOREM CooldownHolds == AlertSpec => []CooldownKept
<1>1. AlertInv => CooldownKept
  BY DEF AlertInv
<1> QED
  BY AlertInvariance, <1>1, PTL

\* Steps a dispatch may still take, when it is at s and has called its adapter n times.
Remaining(s, n, most) ==
  IF s \in {"none", "waiting"} THEN 2 * most + (IF s = "none" THEN 2 ELSE 1)
  ELSE IF s \in {"calling", "backing off"} THEN 2 * (most - n) + (IF s = "calling" THEN 1 ELSE 0)
  ELSE 0

StepsLeft(d) == Remaining(stage[d], tries[d], MostCalls)

\* A dispatch in flight cannot go on for ever: every step that touches it leaves it fewer
\* steps (the lock, the calls of the adapter and the pauses of AlertDispatcher.dispatch),
\* whatever other tasks, evaluations and spending do in between.
DispatchesWindDown ==
  [][\A d \in Tasks :
       \/ <<stage'[d], tries'[d]>> = <<stage[d], tries[d]>>
       \/ StepsLeft(d)' \in Nat /\ StepsLeft(d)' < StepsLeft(d)]_alertVars

\* The tasks never all wait for each other: while one is in flight, some task is calling,
\* backing off, or waits for a lock that is free.
SomebodyGoesOn ==
  (\E d \in Tasks : stage[d] \notin {"none"} \cup Ended) =>
    \E d \in Tasks : \/ stage[d] \in {"calling", "backing off"}
                     \/ stage[d] = "waiting" /\ DispatcherFree(d)

\* A task that may fail has a call left, and a lock is with a task of its own dispatcher.
WindingDown ==
  /\ \A d \in Tasks : /\ stage[d] = "calling" => tries[d] \in 1..MostCalls
                      /\ stage[d] = "backing off" => tries[d] \in 1..(MostCalls - 1)
  /\ \A h \in 1..Evals : busyWith[h] # Nobody => Home(busyWith[h]) = h

LEMMA MostCallsNat == MostCalls \in Nat /\ MostCalls >= 1
BY AlertAssumption DEF MostCalls

LEMMA RemainingFalls ==
  ASSUME NEW most \in Nat, most >= 1, NEW n \in Nat
  PROVE  /\ Remaining("waiting", n, most) \in Nat
         /\ Remaining("waiting", n, most) < Remaining("none", n, most)
         /\ Remaining("calling", 1, most) \in Nat
         /\ Remaining("calling", 1, most) < Remaining("waiting", n, most)
         /\ n < most =>
              /\ Remaining("backing off", n, most) \in Nat
              /\ Remaining("backing off", n, most) < Remaining("calling", n, most)
              /\ Remaining("calling", n + 1, most) \in Nat
              /\ Remaining("calling", n + 1, most) < Remaining("backing off", n, most)
BY DEF Remaining

LEMMA EndedFalls ==
  ASSUME NEW most \in Nat, most >= 1, NEW n \in Nat, NEW s \in Ended
  PROVE  /\ Remaining(s, n, most) \in Nat
         /\ Remaining(s, n, most) < Remaining("waiting", n, most)
         /\ n <= most => Remaining(s, n, most) < Remaining("calling", n, most)
<1>1. Remaining(s, n, most) = 0
  BY DEF Remaining, Ended
<1>2. Remaining("waiting", n, most) = 2 * most + 1 /\ Remaining("calling", n, most) = 2 * (most - n) + 1
  BY DEF Remaining
<1> QED
  BY <1>1, <1>2

LEMMA StepsLeftNext ==
  ASSUME NEW d
  PROVE  StepsLeft(d)' = Remaining(stage'[d], tries'[d], MostCalls)
BY DEF StepsLeft, MostCalls, Remaining

\* What a step does to the task that takes it.
LEMMA TaskMoves ==
  ASSUME AlertInv, WindingDown, NEW d \in Tasks, TaskStep(d)
  PROVE  /\ StepsLeft(d)' \in Nat /\ StepsLeft(d)' < StepsLeft(d)
         /\ \A e \in Tasks : e # d => stage'[e] = stage[e] /\ tries'[e] = tries[e]
         /\ WindingDown'
<1> DEFINE Down == /\ Remaining(stage'[d], tries'[d], MostCalls) \in Nat
                   /\ Remaining(stage'[d], tries'[d], MostCalls) < Remaining(stage[d], tries[d], MostCalls)
           Others == \A e \in Tasks : e # d => stage'[e] = stage[e] /\ tries'[e] = tries[e]
           Calls == /\ stage'[d] = "calling" => tries'[d] \in 1..MostCalls
                    /\ stage'[d] = "backing off" => tries'[d] \in 1..(MostCalls - 1)
           Locks == \A h \in 1..Evals : \/ busyWith'[h] \in {busyWith[h], Nobody}
                                        \/ (h = Home(d) /\ busyWith'[h] = d)
<1> SUFFICES Down /\ Others /\ Calls /\ Locks
  <2> SUFFICES ASSUME Down, Others, Calls, Locks PROVE (StepsLeft(d)' \in Nat /\ StepsLeft(d)' < StepsLeft(d)) /\ WindingDown'
    OBVIOUS
  <2>1. StepsLeft(d)' \in Nat /\ StepsLeft(d)' < StepsLeft(d)
    BY StepsLeftNext DEF StepsLeft
  <2>2. \A h \in 1..Evals : busyWith'[h] # Nobody => Home(busyWith'[h]) = h
    BY DEF WindingDown
  <2>3. \A e \in Tasks : /\ stage'[e] = "calling" => tries'[e] \in 1..MostCalls
                         /\ stage'[e] = "backing off" => tries'[e] \in 1..(MostCalls - 1)
    BY DEF WindingDown
  <2> QED
    BY <2>1, <2>2, <2>3 DEF WindingDown, MostCalls, Home
<1>0. /\ MostCalls \in Nat /\ MostCalls >= 1
      /\ stage \in [Tasks -> {"none", "waiting", "calling", "backing off"} \cup Ended]
      /\ tries \in [Tasks -> Nat] /\ busyWith \in [1..Evals -> Tasks \cup {Nobody}]
      /\ Home(d) \in 1..Evals
  BY MostCallsNat, HomeOfTask DEF AlertInv, AlertTypeOK
<1>1. /\ stage[d] = "calling" => tries[d] \in 1..MostCalls
      /\ stage[d] = "backing off" => tries[d] \in 1..(MostCalls - 1)
  BY DEF WindingDown
<1>n. MostCalls \in Nat /\ MostCalls >= 1 /\ tries[d] \in Nat
  BY <1>0
<1>2. CASE Suppress(d)
  <2>1. stage[d] = "waiting" /\ stage' = [stage EXCEPT ![d] = "suppressed"] /\ UNCHANGED <<busyWith, tries>>
    BY <1>2 DEF Suppress
  <2>2. stage'[d] = "suppressed" /\ tries'[d] = tries[d] /\ Others /\ Locks
    BY <1>0, <2>1
  <2>3. Down
    <3>1. /\ Remaining("suppressed", tries[d], MostCalls) \in Nat
          /\ Remaining("suppressed", tries[d], MostCalls) < Remaining("waiting", tries[d], MostCalls)
      BY <1>n, EndedFalls DEF Ended
    <3> QED
      BY <2>1, <2>2, <3>1
  <2> QED
    BY <2>2, <2>3
<1>3. CASE Enter(d)
  <2>1. /\ stage[d] = "waiting" /\ stage' = [stage EXCEPT ![d] = "calling"]
        /\ busyWith' = [busyWith EXCEPT ![Home(d)] = d] /\ tries' = [tries EXCEPT ![d] = 1]
    BY <1>3 DEF Enter
  <2>2. stage'[d] = "calling" /\ tries'[d] = 1 /\ Others /\ Locks
    BY <1>0, <2>1
  <2>4. 1 \in 1..MostCalls
    BY <1>n
  <2>3. Down
    <3>1. /\ Remaining("calling", 1, MostCalls) \in Nat
          /\ Remaining("calling", 1, MostCalls) < Remaining("waiting", tries[d], MostCalls)
      BY <1>n, RemainingFalls
    <3> QED
      BY <2>1, <2>2, <3>1
  <2> QED
    BY <2>2, <2>3, <2>4
<1>4. CASE Deliver(d) \/ GiveUp(d)
  <2>1. PICK over \in Ended : /\ stage[d] = "calling" /\ stage' = [stage EXCEPT ![d] = over]
                              /\ busyWith' = [busyWith EXCEPT ![Home(d)] = Nobody] /\ UNCHANGED tries
    BY <1>4 DEF Deliver, GiveUp, Ended
  <2>2. stage'[d] = over /\ tries'[d] = tries[d] /\ Others /\ Locks
    BY <1>0, <2>1
  <2>t. tries[d] \in 1..MostCalls
    BY <1>1, <2>1
  <2>3. tries[d] <= MostCalls /\ over \notin {"calling", "backing off"}
    <3>1. over # "calling" /\ over # "backing off"
      BY <2>1 DEF Ended
    <3>2. tries[d] <= MostCalls
      BY <1>n, <2>t
    <3> QED
      BY <3>1, <3>2
  <2>4. Down
    <3>1. /\ Remaining(over, tries[d], MostCalls) \in Nat
          /\ Remaining(over, tries[d], MostCalls) < Remaining("calling", tries[d], MostCalls)
      BY <1>n, EndedFalls, <2>3
    <3> QED
      BY <2>1, <2>2, <3>1
  <2> QED
    BY <2>2, <2>3, <2>4
<1>5. CASE FailAndRetry(d)
  <2>1. /\ stage[d] = "calling" /\ tries[d] < MostCalls /\ stage' = [stage EXCEPT ![d] = "backing off"]
        /\ UNCHANGED <<busyWith, tries>>
    BY <1>5 DEF FailAndRetry
  <2>2. stage'[d] = "backing off" /\ tries'[d] = tries[d] /\ Others /\ Locks
    BY <1>0, <2>1
  <2>3. tries[d] \in 1..MostCalls /\ tries[d] < MostCalls
    BY <1>1, <2>1
  <2>r. tries[d] \in 1..(MostCalls - 1)
    BY <1>n, <2>3
  <2>4. Down
    <3>1. /\ Remaining("backing off", tries[d], MostCalls) \in Nat
          /\ Remaining("backing off", tries[d], MostCalls) < Remaining("calling", tries[d], MostCalls)
      BY <1>n, RemainingFalls, <2>3
    <3> QED
      BY <2>1, <2>2, <3>1
  <2> QED
    BY <2>2, <2>r, <2>4
<1>6. CASE WakeUp(d)
  <2>1. /\ stage[d] = "backing off" /\ stage' = [stage EXCEPT ![d] = "calling"]
        /\ tries' = [tries EXCEPT ![d] = tries[d] + 1] /\ UNCHANGED busyWith
    BY <1>6 DEF WakeUp, Counted
  <2>2. stage'[d] = "calling" /\ tries'[d] = tries[d] + 1 /\ Others /\ Locks
    BY <1>0, <2>1
  <2>t. tries[d] \in 1..(MostCalls - 1)
    BY <1>1, <2>1
  <2>3. tries[d] < MostCalls /\ tries[d] + 1 \in 1..MostCalls
    BY <1>n, <2>t
  <2>4. Down
    <3>1. /\ Remaining("calling", tries[d] + 1, MostCalls) \in Nat
          /\ Remaining("calling", tries[d] + 1, MostCalls) < Remaining("backing off", tries[d], MostCalls)
      BY <1>n, RemainingFalls, <2>3
    <3> QED
      BY <2>1, <2>2, <3>1
  <2> QED
    BY <2>2, <2>3, <2>4
<1> QED
  BY <1>2, <1>3, <1>4, <1>5, <1>6 DEF TaskStep

\* What others do to a task: an evaluation may start it.
LEMMA OthersMove ==
  ASSUME AlertInv, WindingDown,
         \/ \E e \in 0..MaxExposure : Spend(e)
         \/ Evaluate
         \/ AlertTick
         \/ UNCHANGED alertVars
  PROVE  /\ \A d \in Tasks : \/ <<stage'[d], tries'[d]>> = <<stage[d], tries[d]>>
                             \/ StepsLeft(d)' \in Nat /\ StepsLeft(d)' < StepsLeft(d)
         /\ WindingDown'
<1>1. CASE (\E e \in 0..MaxExposure : Spend(e)) \/ AlertTick \/ UNCHANGED alertVars
  <2>1. UNCHANGED <<busyWith, stage, tries>>
    BY <1>1 DEF Spend, AlertTick, alertVars, taskVars
  <2> QED
    BY <2>1 DEF WindingDown, MostCalls
<1>2. CASE Evaluate
  <2>0. evals \in Nat /\ evals' = evals + 1
    <3>1. evals \in 0..Evals /\ Evals \in Nat
      BY AlertAssumption DEF AlertInv, AlertTypeOK
    <3>2. evals' = evals + 1
      BY <1>2 DEF Evaluate
    <3> QED
      BY <3>1, <3>2
  <2>1. /\ UNCHANGED <<busyWith, tries>>
        /\ stage' = [d \in Tasks |-> IF d[1] = evals' /\ Triggered(RuleOf(d)) THEN "waiting" ELSE stage[d]]
    BY <1>2 DEF Evaluate
  <2>2. \A d \in Tasks : \/ stage'[d] = stage[d]
                         \/ stage[d] = "none" /\ stage'[d] = "waiting"
    <3> TAKE d \in Tasks
    <3>1. d[1] = evals' => stage[d] = "none"
      BY <2>0, HomeOfTask DEF AlertInv, Unstarted
    <3>2. stage'[d] = IF d[1] = evals' /\ Triggered(RuleOf(d)) THEN "waiting" ELSE stage[d]
      BY <2>1
    <3> QED
      BY <3>1, <3>2
  <2>3. ASSUME NEW d \in Tasks, stage[d] = "none", stage'[d] = "waiting"
        PROVE  StepsLeft(d)' \in Nat /\ StepsLeft(d)' < StepsLeft(d)
    <3>1. tries'[d] = tries[d] /\ tries[d] \in Nat
      BY <2>1, <2>3 DEF AlertInv, AlertTypeOK
    <3>2. /\ Remaining(stage'[d], tries'[d], MostCalls) \in Nat
          /\ Remaining(stage'[d], tries'[d], MostCalls) < Remaining(stage[d], tries[d], MostCalls)
      BY <2>3, <3>1, MostCallsNat, RemainingFalls
    <3> QED
      BY <3>2, StepsLeftNext DEF StepsLeft
  <2>4. WindingDown'
    BY <2>1, <2>2 DEF WindingDown, MostCalls
  <2> QED
    BY <2>1, <2>2, <2>3, <2>4
<1> QED
  BY <1>1, <1>2

LEMMA Winding == AlertSpec => []WindingDown
<1>1. AlertInit => WindingDown
  BY DEF AlertInit, WindingDown
<1>2. AlertInv /\ WindingDown /\ [AlertNext]_alertVars => WindingDown'
  BY TaskMoves, OthersMove DEF AlertNext
<1> QED
  BY <1>1, <1>2, AlertInvariance, PTL DEF AlertSpec

\* For any number of rules, evaluations and retries, with one lock or one per dispatcher,
\* every step of a dispatch brings it closer to its end.
THEOREM WindDownCorrect == AlertSpec => DispatchesWindDown
<1> DEFINE Down(d) == \/ <<stage'[d], tries'[d]>> = <<stage[d], tries[d]>>
                      \/ StepsLeft(d)' \in Nat /\ StepsLeft(d)' < StepsLeft(d)
<1>1. ASSUME AlertInv, WindingDown, [AlertNext]_alertVars PROVE \A d \in Tasks : Down(d)
  <2> SUFFICES ASSUME NEW d \in Tasks PROVE Down(d)
    OBVIOUS
  <2>1. CASE \E e \in Tasks : TaskStep(e)
    <3>1. PICK e \in Tasks : TaskStep(e)
      BY <2>1
    <3>2. CASE e = d
      BY <1>1, <3>1, <3>2, TaskMoves
    <3>3. CASE e # d
      BY <1>1, <3>1, <3>3, TaskMoves
    <3> QED
      BY <3>2, <3>3
  <2>2. CASE ~ \E e \in Tasks : TaskStep(e)
    BY <1>1, <2>2, OthersMove DEF AlertNext
  <2> QED
    BY <2>1, <2>2
<1> QED
  BY <1>1, AlertInvariance, Winding, PTL DEF AlertSpec, DispatchesWindDown

\* No deadlock among dispatches: a held lock is with a task that can move.
THEOREM GoesOnCorrect == AlertSpec => []SomebodyGoesOn
<1>1. AlertInv /\ WindingDown => SomebodyGoesOn
  <2> SUFFICES ASSUME AlertInv, WindingDown, NEW d \in Tasks, stage[d] \notin {"none"} \cup Ended,
                      stage[d] \notin {"calling", "backing off"}, ~DispatcherFree(d)
               PROVE  \E e \in Tasks : stage[e] \in {"calling", "backing off"}
    BY DEF SomebodyGoesOn, AlertInv, AlertTypeOK
  <2>1. /\ busyWith[Home(d)] \in Tasks
        /\ Home(busyWith[Home(d)]) = Home(d)
    BY HomeOfTask DEF DispatcherFree, AlertInv, AlertTypeOK, WindingDown
  <2>2. stage[busyWith[Home(d)]] \in InDispatcher
    BY <2>1 DEF AlertInv, LockHeld
  <2> QED
    BY <2>1, <2>2 DEF InDispatcher
<1> QED
  BY <1>1, AlertInvariance, Winding, PTL

-----------------------------------------------------------------------------
(* AlertRules. Theorems about the way from an alert rule to a message, for any
   number of rules, alerts, channels and tasks. A task that may be called again has
   a try left: the last failure is the end of it, whoever else is at work. *)

PlaneAlert == [channel : Wired, rule : {Bare} \cup RuleIds, threshold : 0..MaxRatio]
Sending == [channel : Wired, rule : {Bare} \cup RuleIds, host : Hosts, tries : 0..MostTries,
            said : {"none", "failed", "pending", "delivered"}]

TriesLeft ==
  /\ planeAlerts \in Seq(PlaneAlert) /\ sendings \in Seq(Sending)
  /\ \A n \in DOMAIN sendings :
       sendings[n].said \in {"none", "failed"} => sendings[n].tries < MostTries

RulesInv == AlertRulesTypeOK /\ TriesLeft

-----------------------------------------------------------------------------
\* Everything about tasks follows from what they are made of.
LEMMA SendingFields ==
  ASSUME NEW s \in Sending
  PROVE  /\ s.channel \in Wired /\ s.host \in Hosts
         /\ s.rule \in {Bare} \cup RuleIds /\ s.tries \in 0..MostTries
         /\ s.said \in {"none", "failed", "pending", "delivered"}
  BY DEF Sending

LEMMA SendingsTyped ==
  ASSUME NEW list \in Seq(Sending), NEW n \in DOMAIN list
  PROVE  list[n] \in Sending
  BY ElementOfSeq, LenProperties

LEMMA RulesInitInv == AlertRulesInit => RulesInv
<1> SUFFICES ASSUME AlertRulesInit PROVE RulesInv
  OBVIOUS
<1>1. DOMAIN sendings = {} /\ sendings \in Seq(Sending) /\ planeAlerts \in Seq(PlaneAlert)
  BY DEF AlertRulesInit
<1>2. AlertRulesTypeOK
  BY <1>1 DEF AlertRulesInit, AlertRulesTypeOK
<1> QED
  BY <1>1, <1>2 DEF RulesInv, TriesLeft

\* The registry maps the key of an alert to a host, the empty one included.
LEMMA RegistryHosts ==
  ASSUME RulesInv, NEW registry \in Registries, NEW k \in DOMAIN registry
  PROVE  registry[k] \in Hosts
<1>1. CASE wiring = "console"
  <2>1. registry = ConsoleRegistry
    BY <1>1 DEF Registries
  <2>2. k \in {<<c, Bare>> : c \in Wired}
               \cup {<<rules[i].channel, i>> : i \in {j \in RuleIds : Enabled(rules[j])}}
    BY <2>1 DEF ConsoleRegistry
  <2>3. registry[k] = IF k[2] = Bare THEN NoHost ELSE AdapterHost(k[2])
    BY <2>1, <2>2 DEF ConsoleRegistry
  <2>4. CASE k[2] = Bare
    BY <2>3, <2>4 DEF Hosts
  <2>5. CASE k[2] # Bare
    <3>1. PICK i \in RuleIds : Enabled(rules[i]) /\ k[2] = i
      BY <2>2, <2>5
    <3>2. rules[i] \in RuleRow
      BY <3>1 DEF Enabled, RulesInv, AlertRulesTypeOK
    <3>3. rules[i].host \in Hosts
      BY <3>2 DEF RuleRow
    <3> QED
      BY <2>3, <2>5, <3>1, <3>3 DEF AdapterHost
  <2> QED
    BY <2>4, <2>5
<1>2. CASE wiring # "console"
  <2>1. PICK t \in Hosts \ {NoHost} : registry = [j \in {<<c, Bare>> : c \in Wired} |-> t]
    BY <1>2 DEF Registries, ProgramRegistries
  <2> QED
    BY <2>1
<1> QED
  BY <1>1, <1>2

LEMMA EvaluateInv ==
  ASSUME RulesInv, EvaluateAlerts
  PROVE  RulesInv'
<1>1. PICK registry \in Registries :
        LET due == {a \in DOMAIN planeAlerts :
                      Reached(planeAlerts[a]) /\ KeyOf(planeAlerts[a]) \in DOMAIN registry}
        IN  \E inTurn \in [1..Cardinality(due) -> due] :
              /\ sendings' = sendings \o
                   [n \in 1..Cardinality(due) |->
                      LET a == planeAlerts[inTurn[n]] IN
                        [channel |-> a.channel, rule |-> a.rule, host |-> registry[KeyOf(a)],
                         tries |-> 0, said |-> "none"]]
              /\ UNCHANGED <<wiring, rules, planeAlerts, ratio, resolves, history>>
  BY DEF EvaluateAlerts
<1> DEFINE due == {a \in DOMAIN planeAlerts :
                     Reached(planeAlerts[a]) /\ KeyOf(planeAlerts[a]) \in DOMAIN registry}
           Task(a) == [channel |-> a.channel, rule |-> a.rule, host |-> registry[KeyOf(a)],
                       tries |-> 0, said |-> "none"]
<1>2. PICK inTurn \in [1..Cardinality(due) -> due] :
        /\ sendings' = sendings \o [n \in 1..Cardinality(due) |-> Task(planeAlerts[inTurn[n]])]
        /\ UNCHANGED <<wiring, rules, planeAlerts, ratio, resolves, history>>
  BY <1>1
<1>3. ASSUME NEW a \in due
      PROVE  /\ Task(planeAlerts[a]) \in Sending
             /\ Task(planeAlerts[a]).tries = 0
  <2>1. planeAlerts \in Seq(PlaneAlert) /\ a \in 1..Len(planeAlerts)
    BY LenProperties DEF RulesInv, TriesLeft
  <2>2. planeAlerts[a] \in PlaneAlert
    BY <2>1, ElementOfSeq
  <2>3. planeAlerts[a].channel \in Wired /\ planeAlerts[a].rule \in {Bare} \cup RuleIds
    BY <2>2 DEF PlaneAlert
  <2>4. KeyOf(planeAlerts[a]) \in DOMAIN registry
    OBVIOUS
  <2>5. registry[KeyOf(planeAlerts[a])] \in Hosts
    BY <2>4, RegistryHosts
  <2>6. 0 \in 0..MostTries
    BY AlertRulesAssumption
  <2> QED
    BY <2>3, <2>5, <2>6 DEF Sending
<1>4. Cardinality(due) \in Nat
  <2>1. IsFiniteSet(1..Len(planeAlerts)) /\ due \subseteq 1..Len(planeAlerts)
    <3>1. Len(planeAlerts) \in Nat /\ DOMAIN planeAlerts = 1..Len(planeAlerts)
      BY LenProperties DEF RulesInv, TriesLeft
    <3> QED
      BY <3>1, FS_Interval
  <2> QED
    BY <2>1, FS_Subset, FS_CardinalityType
<1> DEFINE tasks == [n \in 1..Cardinality(due) |-> Task(planeAlerts[inTurn[n]])]
<1>5. \A n \in 1..Cardinality(due) : tasks[n] \in Sending /\ tasks[n].tries = 0
  <2> TAKE n \in 1..Cardinality(due)
  <2>1. inTurn[n] \in due
    OBVIOUS
  <2>2. tasks[n] = Task(planeAlerts[inTurn[n]])
    OBVIOUS
  <2> HIDE DEF due, Task
  <2> QED
    BY <2>1, <2>2, <1>3
<1> HIDE DEF due, Task
<1>6. DOMAIN tasks = 1..Cardinality(due)
  OBVIOUS
<1>7. sendings' = sendings \o tasks
  BY <1>2
<1> HIDE DEF tasks
<1>8. tasks \in Seq(Sending) /\ Len(tasks) = Cardinality(due)
  <2>1. \E m \in Nat : DOMAIN tasks = 1..m
    BY <1>4, <1>6
  <2>2. tasks = [n \in 1..Cardinality(due) |-> tasks[n]]
    BY DEF tasks
  <2>3. tasks \in [1..Cardinality(due) -> Sending]
    BY <1>5, <1>6, <2>2
  <2>4. tasks \in Seq(Sending)
    BY <1>4, <2>3, SeqDef
  <2> QED
    BY <1>4, <1>6, <2>4, LenProperties
<1>9. sendings \in Seq(Sending)
  BY DEF RulesInv, TriesLeft
<1>10. /\ sendings' \in Seq(Sending) /\ Len(sendings') = Len(sendings) + Len(tasks)
       /\ \A n \in 1..Len(sendings') :
            sendings'[n] = IF n <= Len(sendings) THEN sendings[n] ELSE tasks[n - Len(sendings)]
  BY <1>7, <1>8, <1>9, ConcatProperties
<1>11. ASSUME NEW n \in DOMAIN sendings', sendings'[n].said \in {"none", "failed"}
       PROVE  sendings'[n].tries < MostTries
  <2>1. n \in 1..Len(sendings') /\ Len(sendings) \in Nat /\ Len(tasks) \in Nat
    BY <1>8, <1>9, <1>10, LenProperties
  <2>2. CASE n <= Len(sendings)
    <3>1. n \in DOMAIN sendings /\ sendings'[n] = sendings[n]
      BY <1>9, <1>10, <2>1, <2>2, LenProperties
    <3> QED
      BY <1>11, <3>1 DEF RulesInv, TriesLeft
  <2>3. CASE ~(n <= Len(sendings))
    <3>1. n - Len(sendings) \in 1..Len(tasks) /\ sendings'[n] = tasks[n - Len(sendings)]
      BY <1>10, <2>1, <2>3
    <3>2. sendings'[n].tries = 0
      BY <3>1, <1>5, <1>8
    <3> QED
      BY <3>2, AlertRulesAssumption
  <2> QED
    BY <2>2, <2>3
<1>12. UNCHANGED <<wiring, rules, planeAlerts, ratio, resolves, history>>
  BY <1>2
<1>13. TriesLeft'
  BY <1>10, <1>11, <1>12 DEF RulesInv, TriesLeft
<1>14. AlertRulesTypeOK'
  BY <1>10, <1>12, SendingsTyped, SendingFields DEF RulesInv, AlertRulesTypeOK
<1> QED
  BY <1>13, <1>14 DEF RulesInv

\* A call of an adapter: one more try, and what came of it.
LEMMA SaysInv ==
  ASSUME RulesInv, NEW n \in DOMAIN sendings, NEW said \in {"failed", "pending", "delivered"},
         Says(n, said), said = "failed" => sendings[n].tries + 1 # MostTries
  PROVE  RulesInv'
<1> DEFINE s == sendings[n]
           t == [s EXCEPT !.tries = s.tries + 1, !.said = said]
<1>1. sendings \in Seq(Sending) /\ s \in Sending
  BY SendingsTyped DEF RulesInv, TriesLeft
<1>2. s.tries \in 0..MostTries /\ s.tries < MostTries /\ MostTries \in Nat
  BY <1>1, SendingFields, AlertRulesAssumption DEF Says, RulesInv, TriesLeft
<1>3. /\ sendings' = [sendings EXCEPT ![n] = t] /\ history' = HistoryAfter(s, said)
      /\ UNCHANGED <<wiring, rules, planeAlerts, ratio, resolves>>
  BY DEF Says
<1> HIDE DEF s
<1>4. s.tries + 1 \in 0..MostTries
  BY <1>2
<1>5. t \in Sending /\ t.tries = s.tries + 1 /\ t.said = said
  BY <1>1, <1>4 DEF Sending
<1> HIDE DEF t
<1>6. /\ sendings' \in Seq(Sending) /\ sendings'[n] = t /\ DOMAIN sendings' = DOMAIN sendings
      /\ \A m \in DOMAIN sendings : m # n => sendings'[m] = sendings[m]
  BY <1>1, <1>3, <1>5, ExceptSeq
<1>7. said = "failed" => t.tries < MostTries
  BY <1>2, <1>5 DEF s
<1>8. TriesLeft'
  <2>1. \A m \in DOMAIN sendings' :
          sendings'[m].said \in {"none", "failed"} => sendings'[m].tries < MostTries
    BY <1>5, <1>6, <1>7 DEF RulesInv, TriesLeft
  <2> QED
    BY <1>3, <1>6, <2>1 DEF RulesInv, TriesLeft
<1>9. wiring' = "console" => history' = <<>>
  BY <1>3 DEF HistoryAfter, RulesInv, AlertRulesTypeOK
<1>10. AlertRulesTypeOK'
  BY <1>3, <1>6, <1>9, SendingsTyped, SendingFields DEF RulesInv, AlertRulesTypeOK
<1> QED
  BY <1>8, <1>10 DEF RulesInv

LEMMA RulesNextInv == RulesInv /\ [AlertRulesNext]_ruleVars => RulesInv'
<1> SUFFICES ASSUME RulesInv, [AlertRulesNext]_ruleVars PROVE RulesInv'
  OBVIOUS
<1> USE DEF RulesInv, TriesLeft
<1>1. ASSUME NEW r \in RuleRow, CreateRule(r) PROVE RulesInv'
  BY <1>1 DEF CreateRule, AlertRulesTypeOK, RuleIds
<1>2. ASSUME NEW i \in RuleIds, DeleteRule(i) PROVE RulesInv'
  BY <1>2 DEF DeleteRule, AlertRulesTypeOK
<1>3. ASSUME NEW c \in Wired, NEW i \in {Bare} \cup RuleIds, NEW x \in 0..MaxRatio,
             CreateAlert(c, i, x)
      PROVE  RulesInv'
  <2>1. [channel |-> c, rule |-> i, threshold |-> x] \in PlaneAlert
    BY DEF PlaneAlert
  <2>2. planeAlerts' \in Seq(PlaneAlert)
    BY <1>3, <2>1, AppendProperties DEF CreateAlert
  <2> QED
    BY <1>3, <2>2 DEF CreateAlert, AlertRulesTypeOK
<1>4. ASSUME NEW x \in 0..MaxRatio, BudgetMoves(x) PROVE RulesInv'
  BY <1>4 DEF BudgetMoves, AlertRulesTypeOK
<1>5. CASE NamesMove
  BY <1>5 DEF NamesMove, AlertRulesTypeOK
<1>6. ASSUME NEW n \in DOMAIN sendings, Arrives(n) PROVE RulesInv'
  BY <1>6, SaysInv DEF Arrives
<1>7. ASSUME NEW n \in DOMAIN sendings, Fails(n) PROVE RulesInv'
  <2>1. CASE sendings[n].tries + 1 = MostTries
    BY <1>7, <2>1, SaysInv DEF Fails
  <2>2. CASE sendings[n].tries + 1 # MostTries
    BY <1>7, <2>2, SaysInv DEF Fails
  <2> QED
    BY <2>1, <2>2
<1>8. CASE UNCHANGED ruleVars
  BY <1>8 DEF ruleVars, AlertRulesTypeOK
<1> QED
  BY <1>1, <1>2, <1>3, <1>4, <1>5, <1>6, <1>7, <1>8, EvaluateInv DEF AlertRulesNext

-----------------------------------------------------------------------------
\* Rules, tasks and history are of their types in every state: no task is called more
\* often than MostTries, and the console's dispatcher stores nothing
\* (AlertDispatcher.dispatch, record_dispatch).
THEOREM AlertRulesTypesCorrect == AlertRulesSpec => []AlertRulesTypeOK
<1>1. RulesInv => AlertRulesTypeOK
  BY DEF RulesInv
<1> QED
  BY <1>1, RulesInitInv, RulesNextInv, PTL DEF AlertRulesSpec

-----------------------------------------------------------------------------
(* Compatibility. Theorems about the compatibility lab, for any number of runs,
   questions and edits. A run never has more answers than questions, so that what
   is scored is a part of a whole, and nothing that was cut off is stored. *)

\* A run knows its questions and has as many answers as it has had, of a connection as
\* it was.
Asking ==
  /\ DOMAIN checking = Runs
  /\ \A r \in Runs : checking[r] # NoRun =>
       /\ DOMAIN checking[r] = {"of", "asked", "answered", "passed", "admitted"}
       /\ checking[r].of \in Nat /\ checking[r].of <= edits
       /\ checking[r].asked \in Nat \ {0} /\ checking[r].answered \in Nat
       /\ checking[r].passed \in Nat
       /\ checking[r].answered <= checking[r].asked
       /\ checking[r].passed <= checking[r].answered

CompatInv == CompatTypeOK /\ Asking

-----------------------------------------------------------------------------
\* A part of a whole is between 0 and 100 per cent of it, and the whole is 100.
LEMMA PercentBounds ==
  ASSUME NEW part \in Nat, NEW whole \in Nat \ {0}, part <= whole
  PROVE  /\ Percent(part, whole) \in 0..100
         /\ part = whole => Percent(part, whole) = 100
<1> DEFINE floor == (part * 100) \div whole
           rest == (part * 100) % whole
<1>1. /\ floor \in Nat /\ rest \in Nat /\ rest < whole
      /\ part * 100 = whole * floor + rest
  OBVIOUS
<1>2. Percent(part, whole) =
        IF 2 * rest > whole \/ (2 * rest = whole /\ floor % 2 = 1) THEN floor + 1 ELSE floor
  BY DEF Percent
<1> HIDE DEF floor, rest
<1>3. part * 100 <= whole * 100
  BY <1>1
<1>4. whole * floor <= whole * 100
  BY <1>1, <1>3
<1>5. floor <= 100
  BY <1>1, <1>4
<1>6. CASE floor = 100
  <2>1. rest = 0 /\ whole > 0
    BY <1>1, <1>3, <1>6
  <2>2. ~ (2 * rest > whole) /\ 2 * rest # whole
    BY <2>1
  <2> QED
    BY <1>2, <1>6, <2>2
<1>7. CASE floor < 100
  <2>1. part # whole
    <3> SUFFICES ASSUME part = whole PROVE FALSE
      OBVIOUS
    <3>1. whole * 100 = whole * floor + rest
      BY <1>1
    <3>2. whole * floor <= whole * 99
      BY <1>1, <1>7
    <3> QED
      BY <1>1, <3>1, <3>2
  <2>2. floor \in 0..99
    BY <1>1, <1>7
  <2> QED
    BY <1>2, <2>1, <2>2
<1> QED
  BY <1>1, <1>5, <1>6, <1>7

\* What is stored of a run that had as many answers as it passed, or more.
LEMMA ScoredFits ==
  ASSUME NEW c, NEW e \in Nat, c.of \in Nat, c.of <= e,
         c.asked \in Nat \ {0}, c.passed \in Nat, c.passed <= c.asked
  PROVE  /\ Scored(c).of \in 0..e /\ Scored(c).score \in 0..100
         /\ Scored(c).status = "ready" => Scored(c).score = 100
<1>1. /\ Percent(c.passed, c.asked) \in 0..100
      /\ c.passed = c.asked => Percent(c.passed, c.asked) = 100
  BY PercentBounds
<1>2. Scored(c).of = c.of /\ Scored(c).score = Percent(c.passed, c.asked)
  BY DEF Scored
<1>3. Scored(c).status = "ready" => c.passed = c.asked
  BY DEF Scored
<1> QED
  BY <1>1, <1>2, <1>3

LEMMA CompatInitInv == CompatInit => CompatInv
  BY CompatibilityAssumption DEF CompatInit, CompatInv, CompatTypeOK, Asking

LEMMA BeginInv ==
  ASSUME CompatInv, NEW r \in Runs, NEW questions \in {2, 2 + Extra}, BeginCheck(r, questions)
  PROVE  CompatInv'
<1>1. questions \in Nat \ {0}
  BY CompatibilityAssumption
<1>2. edits \in Nat
  BY CompatibilityAssumption DEF CompatInv, CompatTypeOK
<1> DEFINE c == [of |-> edits, asked |-> questions, answered |-> 0, passed |-> 0, admitted |-> TRUE]
<1>3. /\ DOMAIN c = {"of", "asked", "answered", "passed", "admitted"}
      /\ c.of = edits /\ c.asked = questions /\ c.answered = 0 /\ c.passed = 0
  OBVIOUS
<1>4. checking' = [checking EXCEPT ![r] = c] /\ UNCHANGED <<edits, results>>
  BY DEF BeginCheck
<1> HIDE DEF c
<1>5. DOMAIN checking' = Runs /\ checking'[r] = c /\ \A s \in Runs \ {r} : checking'[s] = checking[s]
  BY <1>4 DEF CompatInv, Asking
<1>6. Asking'
  BY <1>1, <1>2, <1>3, <1>4, <1>5 DEF CompatInv, Asking
<1>7. CompatTypeOK'
  BY <1>2, <1>3, <1>4, <1>5 DEF CompatInv, CompatTypeOK
<1> QED
  BY <1>6, <1>7 DEF CompatInv

LEMMA ProbeInv ==
  ASSUME CompatInv, NEW r \in Runs, NEW passes \in BOOLEAN, ProbeAnswers(r, passes)
  PROVE  CompatInv'
<1> DEFINE c == checking[r]
           d == checking'[r]
<1>1. /\ DOMAIN checking = Runs /\ c # NoRun /\ c.answered < c.asked
      /\ DOMAIN c = {"of", "asked", "answered", "passed", "admitted"}
      /\ c.of \in Nat /\ c.of <= edits /\ c.asked \in Nat \ {0} /\ c.answered \in Nat
      /\ c.passed \in Nat /\ c.passed <= c.answered
  BY DEF CompatInv, Asking, ProbeAnswers
<1>2. /\ d = [c EXCEPT !.answered = c.answered + 1,
                       !.passed = IF passes THEN c.passed + 1 ELSE c.passed,
                       !.admitted = IF c.answered = 0 THEN passes ELSE c.admitted]
      /\ DOMAIN checking' = Runs
      /\ \A s \in Runs \ {r} : checking'[s] = checking[s]
      /\ UNCHANGED <<edits, results>>
  BY <1>1 DEF ProbeAnswers
<1>3. /\ DOMAIN d = {"of", "asked", "answered", "passed", "admitted"}
      /\ d.of = c.of /\ d.asked = c.asked /\ d.answered = c.answered + 1
      /\ d.passed \in {c.passed, c.passed + 1}
  BY <1>1, <1>2
<1> HIDE DEF c, d
<1>4. d.passed \in Nat /\ d.passed <= d.answered /\ d.answered \in Nat /\ d.answered <= d.asked
  BY <1>1, <1>3
<1>5. Asking'
  BY <1>1, <1>2, <1>3, <1>4 DEF CompatInv, Asking, d
<1>6. CompatTypeOK'
  BY <1>2, <1>4 DEF CompatInv, CompatTypeOK, d
<1> QED
  BY <1>5, <1>6 DEF CompatInv

LEMMA SaveInv ==
  ASSUME CompatInv, NEW r \in Runs, SaveCheck(r)
  PROVE  CompatInv'
<1> DEFINE c == checking[r]
<1>1. /\ c.of \in Nat /\ c.of <= edits /\ c.asked \in Nat \ {0}
      /\ c.passed \in Nat /\ c.passed <= c.asked
  BY DEF CompatInv, Asking, SaveCheck
<1>2. edits \in Nat
  BY CompatibilityAssumption DEF CompatInv, CompatTypeOK
<1>3. /\ Scored(c).of \in 0..edits /\ Scored(c).score \in 0..100
      /\ Scored(c).status = "ready" => Scored(c).score = 100
  BY <1>1, <1>2, ScoredFits
<1>4. /\ results' = [results EXCEPT ![r] = Scored(c)]
      /\ checking' = [checking EXCEPT ![r] = NoRun] /\ edits' = edits
  BY DEF SaveCheck
<1>5. \A s \in Runs : /\ checking'[s] \in {NoRun, checking[s]} /\ results'[s] \in {Scored(c), results[s]}
  BY <1>4 DEF CompatInv, Asking
<1>6. DOMAIN checking' = Runs
  BY <1>4 DEF CompatInv, Asking
<1> HIDE DEF c
<1>7. Asking'
  BY <1>4, <1>5, <1>6 DEF CompatInv, Asking
<1>8. CompatTypeOK'
  BY <1>3, <1>4, <1>5 DEF CompatInv, CompatTypeOK
<1> QED
  BY <1>7, <1>8 DEF CompatInv

LEMMA ImportInv ==
  ASSUME CompatInv, NEW r \in Runs, NEW good \in 0..2, NEW admitted \in BOOLEAN,
         ImportCheck(r, 2, good, admitted)
  PROVE  CompatInv'
<1> DEFINE c == [of |-> edits, asked |-> 2, passed |-> good, admitted |-> admitted]
<1>1. edits \in Nat
  BY CompatibilityAssumption DEF CompatInv, CompatTypeOK
<1>2. c.of = edits /\ c.asked = 2 /\ c.passed = good
  OBVIOUS
<1>3. good \in Nat /\ good <= 2
  OBVIOUS
<1>4. results' = [results EXCEPT ![r] = Scored(c)] /\ UNCHANGED <<edits, checking>>
  BY DEF ImportCheck
<1> HIDE DEF c
<1>5. /\ Scored(c).of \in 0..edits /\ Scored(c).score \in 0..100
      /\ Scored(c).status = "ready" => Scored(c).score = 100
  BY <1>1, <1>2, <1>3, ScoredFits
<1>6. \A s \in Runs : results'[s] \in {Scored(c), results[s]}
  BY <1>4
<1>7. CompatTypeOK'
  BY <1>4, <1>5, <1>6 DEF CompatInv, CompatTypeOK
<1> QED
  BY <1>4, <1>7 DEF CompatInv, Asking

LEMMA CompatNextInv == CompatInv /\ [CompatNext]_compatVars => CompatInv'
<1> SUFFICES ASSUME CompatInv, [CompatNext]_compatVars PROVE CompatInv'
  OBVIOUS
<1>1. CASE EditConnection
  <2>1. edits \in Nat /\ edits' = edits + 1 /\ edits' \in 0..MaxEdits
    BY <1>1, CompatibilityAssumption DEF EditConnection, CompatInv, CompatTypeOK
  <2>2. UNCHANGED <<checking, results>>
    BY <1>1 DEF EditConnection
  <2>3. \A r \in Runs : results[r] # NoRun => results[r].of \in 0..(edits + 1)
    BY <2>1 DEF CompatInv, CompatTypeOK
  <2>4. \A r \in Runs : checking[r] # NoRun => checking[r].of <= edits + 1
    BY <2>1 DEF CompatInv, Asking
  <2> QED
    BY <2>1, <2>2, <2>3, <2>4 DEF CompatInv, CompatTypeOK, Asking
<1>2. ASSUME NEW r \in Runs, CheckLost(r)
      PROVE  CompatInv'
  <2>1. /\ checking' = [checking EXCEPT ![r] = NoRun] /\ UNCHANGED <<edits, results>>
    BY <1>2 DEF CheckLost
  <2>2. DOMAIN checking' = Runs /\ \A s \in Runs : checking'[s] \in {NoRun, checking[s]}
    BY <2>1 DEF CompatInv, Asking
  <2> QED
    BY <2>1, <2>2 DEF CompatInv, CompatTypeOK, Asking
<1>3. CASE UNCHANGED compatVars
  BY <1>3 DEF compatVars, CompatInv, CompatTypeOK, Asking
<1> QED
  BY <1>1, <1>2, <1>3, BeginInv, ProbeInv, SaveInv, ImportInv DEF CompatNext

-----------------------------------------------------------------------------
\* Runs and results are of their types: a result is of the connection as it was when its
\* run began or later, its score is a percentage, and one that is ready has all of it
\* (ProviderCompatibilityLab.evaluate).
THEOREM CompatTypesCorrect == CompatSpec => []CompatTypeOK
<1>1. CompatInv => CompatTypeOK
  BY DEF CompatInv
<1> QED
  BY <1>1, CompatInitInv, CompatNextInv, PTL DEF CompatSpec

-----------------------------------------------------------------------------
(* Evidence *)

Events ==
  [incident : Incidents, at : Nat,
   about : {"request", "route", "provider", "cost"} \cup {e.about : e \in AddedEvents},
   outcome : {"failed", "completed", "selected", "recorded"} \cup {e.outcome : e \in AddedEvents},
   severity : {"critical", "info", "warning"} \cup {e.severity : e \in AddedEvents},
   summary : {"reason", "selection", "cost", "other"}]

\* The four events of an incident, all of which are there, or some of which.
Own(i) == {FourEvents(i)[m] : m \in 1..4}
Stands(i, m) == \E k \in 1..Len(evidence) : evidence[k] = FourEvents(i)[m]

\* What is said of an incident that nobody has added to.
SaidOf(i) ==
  [status |-> "active", impact |-> IF i \in FailedRequests THEN "reason" ELSE "cost",
   fix |-> "budget"]

\* What is left of a build are the last of the four, and the others stand.
Building ==
  /\ building \in Seq(Events) /\ Len(building) \in 0..4
  /\ Len(evidence) + Len(building) <= MaxEvents
  /\ building # <<>> =>
       \E i \in Incidents :
         /\ \A m \in 1..Len(building) : building[m] = FourEvents(i)[4 - Len(building) + m]
         /\ \A m \in 1..(4 - Len(building)) : Stands(i, m)

OnlyOwn ==
  \A k \in 1..Len(evidence) :
    evidence[k].incident \notin foreign => evidence[k] \in Own(evidence[k].incident)

ExplainedWhole ==
  \A i \in Incidents : explained[i] # NoExplanation =>
    /\ \A m \in 1..4 : Stands(i, m)
    /\ i \notin foreign => explained[i] = SaidOf(i) /\ saidLast[i] = SaidOf(i)

EvidenceInv ==
  /\ EvidenceTypeOK /\ evidence \in Seq(Events)
  /\ Building /\ OnlyOwn /\ ExplainedWhole

LEMMA FourOK ==
  ASSUME NEW i \in Incidents
  PROVE  /\ FourEvents(i) \in Seq(Events) /\ Len(FourEvents(i)) = 4
         /\ \A m \in 1..4 : /\ FourEvents(i)[m] \in Events /\ FourEvents(i)[m].incident = i
                            /\ FourEvents(i)[m].outcome # "recovered"
                            /\ FourEvents(i)[m].about \in {"request", "route", "provider", "cost"}
                            /\ FourEvents(i)[m].severity = "critical" <=> i \in FailedRequests /\ m \in {1, 3}
                            /\ m \in {1, 3} => FourEvents(i)[m].summary = "reason"
                            /\ m = 4 => FourEvents(i)[m].summary = "cost" /\ FourEvents(i)[m].about = "cost"
                            /\ IF m = 4 THEN FourEvents(i)[m].at = 3 ELSE FourEvents(i)[m].at < 3
<1>1. PICK weight, result, cost :
        /\ weight = (IF i \in FailedRequests THEN "critical" ELSE "info")
        /\ result \in {"failed", "completed"} /\ cost \in {"warning", "info"}
        /\ FourEvents(i) = <<Event(i, 0, "request", result, weight, "reason"),
                            Event(i, 1, "route", "selected", "info", "selection"),
                            Event(i, 2, "provider", result, weight, "reason"),
                            Event(i, 3, "cost", "recorded", cost, "cost")>>
  BY DEF FourEvents
<1> DEFINE e1 == Event(i, 0, "request", result, weight, "reason")
           e2 == Event(i, 1, "route", "selected", "info", "selection")
           e3 == Event(i, 2, "provider", result, weight, "reason")
           e4 == Event(i, 3, "cost", "recorded", cost, "cost")
<1>2. /\ e1 \in Events /\ e1.incident = i /\ e1.outcome = result /\ e1.about = "request"
      /\ e1.severity = weight /\ e1.summary = "reason" /\ e1.at = 0
  BY <1>1 DEF Event, Events
<1>3. /\ e2 \in Events /\ e2.incident = i /\ e2.outcome = "selected" /\ e2.about = "route"
      /\ e2.severity = "info" /\ e2.summary = "selection" /\ e2.at = 1
  BY DEF Event, Events
<1>4. /\ e3 \in Events /\ e3.incident = i /\ e3.outcome = result /\ e3.about = "provider"
      /\ e3.severity = weight /\ e3.summary = "reason" /\ e3.at = 2
  BY <1>1 DEF Event, Events
<1>5. /\ e4 \in Events /\ e4.incident = i /\ e4.outcome = "recorded" /\ e4.about = "cost"
      /\ e4.severity = cost /\ e4.summary = "cost" /\ e4.at = 3
  BY <1>1 DEF Event, Events
<1>6. FourEvents(i) = <<e1, e2, e3, e4>>
  BY <1>1
<1> HIDE DEF e1, e2, e3, e4
<1>7. /\ FourEvents(i) \in Seq(Events) /\ Len(FourEvents(i)) = 4
      /\ FourEvents(i)[1] = e1 /\ FourEvents(i)[2] = e2 /\ FourEvents(i)[3] = e3 /\ FourEvents(i)[4] = e4
  BY <1>2, <1>3, <1>4, <1>5, <1>6
<1>8. \A m \in 1..4 : m = 1 \/ m = 2 \/ m = 3 \/ m = 4
  OBVIOUS
<1>9. ASSUME NEW m \in 1..4
      PROVE  /\ FourEvents(i)[m] \in Events /\ FourEvents(i)[m].incident = i
             /\ FourEvents(i)[m].outcome # "recovered"
             /\ FourEvents(i)[m].about \in {"request", "route", "provider", "cost"}
             /\ FourEvents(i)[m].severity = "critical" <=> i \in FailedRequests /\ m \in {1, 3}
             /\ m \in {1, 3} => FourEvents(i)[m].summary = "reason"
             /\ m = 4 => FourEvents(i)[m].summary = "cost" /\ FourEvents(i)[m].about = "cost"
             /\ IF m = 4 THEN FourEvents(i)[m].at = 3 ELSE FourEvents(i)[m].at < 3
  <2>1. CASE m = 1
    BY <1>1, <1>2, <1>7, <2>1
  <2>2. CASE m = 2
    BY <1>3, <1>7, <2>2
  <2>3. CASE m = 3
    BY <1>1, <1>4, <1>7, <2>3
  <2>4. CASE m = 4
    BY <1>1, <1>5, <1>7, <2>4
  <2> QED
    BY <1>8, <2>1, <2>2, <2>3, <2>4
<1> QED
  BY <1>7, <1>9

\* Times of finitely many rows have a bound.
LEMMA TimesBounded ==
  ASSUME NEW rows \in Seq(Events)
  PROVE  \E u \in Nat : \A k \in 1..Len(rows) : rows[k].at <= u
<1> DEFINE N == Len(rows)
           Bounded(n) == \E u \in Nat : \A k \in 1..n : rows[k].at <= u
           Bad == {n \in 0..N : ~ Bounded(n)}
<1>1. N \in Nat /\ \A k \in 1..N : rows[k].at \in Nat
  <2>1. \A k \in 1..N : rows[k] \in Events
    BY ElementOfSeq
  <2> QED
    BY <2>1 DEF Events
<1> HIDE DEF N
<1> SUFFICES ASSUME Bad # {} PROVE FALSE
  <2>1. N \in 0..N
    BY <1>1
  <2> QED
    BY <2>1 DEF N
<1>2. PICK n \in Bad : \A k \in Bad : n <= k
  <2>1. Bad \in SUBSET Nat
    BY <1>1
  <2> HIDE DEF Bad
  <2> QED
    BY <2>1, LeastNat
<1>3. n \in 0..N /\ ~ Bounded(n)
  OBVIOUS
<1>4. n # 0
  BY <1>3
<1>5. n - 1 \in 0..N /\ ~ (n <= n - 1)
  BY <1>1, <1>3, <1>4
<1>6. PICK u \in Nat : \A k \in 1..(n - 1) : rows[k].at <= u
  BY <1>2, <1>5
<1> DEFINE v == IF rows[n].at <= u THEN u ELSE rows[n].at
<1>7. n \in 1..N
  BY <1>1, <1>3, <1>4
<1>8. v \in Nat /\ u <= v /\ rows[n].at <= v
  <2>1. rows[n].at \in Nat
    BY <1>1, <1>7
  <2>2. \A x, y \in Nat : LET z == IF x <= y THEN y ELSE x IN z \in Nat /\ y <= z /\ x <= z
    OBVIOUS
  <2> QED
    BY <2>1, <2>2
<1> HIDE DEF v
<1>9. \A k \in 1..n : rows[k].at <= v
  <2> TAKE k \in 1..n
  <2>1. k = n \/ k \in 1..(n - 1)
    BY <1>7
  <2>2. k \in 1..N
    BY <1>1, <1>7
  <2>3. CASE k = n
    BY <1>8, <2>3
  <2>4. CASE k # n
    <3>1. rows[k].at <= u /\ rows[k].at \in Nat
      BY <1>1, <1>6, <2>1, <2>2, <2>4
    <3>2. \A x, y, z \in Nat : x <= y /\ y <= z => x <= z
      OBVIOUS
    <3> QED
      BY <1>8, <3>1, <3>2
  <2> QED
    BY <2>3, <2>4
<1> QED
  BY <1>3, <1>8, <1>9

LEMMA FirstOK ==
  ASSUME NEW rows \in Seq(Events), NEW K \in SUBSET (1..Len(rows)), K # {}
  PROVE  FirstOf(rows, K) \in K
<1> DEFINE at(k) == rows[k].at
           A == {rows[k].at : k \in K}
<1>1. Len(rows) \in Nat /\ \A k \in K : rows[k].at \in Nat /\ k \in Nat
  <2>1. \A k \in 1..Len(rows) : rows[k] \in Events /\ k \in Nat
    BY ElementOfSeq
  <2> QED
    BY <2>1 DEF Events
<1>2. PICK a \in A : \A b \in A : a <= b
  <2>1. A \in SUBSET Nat /\ A # {}
    BY <1>1
  <2> HIDE DEF A
  <2> QED
    BY <2>1, LeastNat
<1> DEFINE B == {k \in K : rows[k].at = a}
<1>3. PICK m \in B : \A k \in B : m <= k
  <2>1. B \in SUBSET Nat /\ B # {}
    BY <1>1
  <2> HIDE DEF B
  <2> QED
    BY <2>1, LeastNat
<1>4. m \in K /\ \A j \in K \ {m} : InTime(rows, m, j)
  <2>1. m \in K /\ rows[m].at = a
    OBVIOUS
  <2>2. ASSUME NEW j \in K \ {m} PROVE InTime(rows, m, j)
    <3>1. rows[m].at <= rows[j].at /\ rows[m].at \in Nat /\ rows[j].at \in Nat /\ m \in Nat /\ j \in Nat
      BY <1>1, <1>2, <2>1
    <3>2. rows[j].at = rows[m].at => m <= j
      BY <1>3, <2>1
    <3> QED
      BY <3>1, <3>2 DEF InTime
  <2> QED
    BY <2>1, <2>2
<1> QED
  BY <1>4 DEF FirstOf

LEMMA LastOK ==
  ASSUME NEW rows \in Seq(Events), NEW K \in SUBSET (1..Len(rows)), K # {}
  PROVE  LastOf(rows, K) \in K /\ \A j \in K \ {LastOf(rows, K)} : InTime(rows, j, LastOf(rows, K))
<1>1. Len(rows) \in Nat /\ \A k \in K : rows[k].at \in Nat /\ k \in Nat /\ k <= Len(rows)
  <2>1. \A k \in 1..Len(rows) : rows[k] \in Events /\ k \in Nat /\ k <= Len(rows)
    BY ElementOfSeq
  <2> QED
    BY <2>1 DEF Events
<1>2. PICK u \in Nat : \A k \in K : rows[k].at <= u
  BY TimesBounded
<1> DEFINE A == {u - rows[k].at : k \in K}
<1>3. PICK a \in A : \A b \in A : a <= b
  <2>1. \A k \in K : u - rows[k].at \in Nat
    BY <1>1, <1>2
  <2>2. A \in SUBSET Nat /\ A # {}
    BY <2>1
  <2> HIDE DEF A
  <2> QED
    BY <2>2, LeastNat
<1> DEFINE B == {k \in K : u - rows[k].at = a}
<1>4. PICK m \in B : \A k \in B : k <= m
  <2>1. B \in SUBSET (1..Len(rows)) /\ B # {}
    OBVIOUS
  <2> HIDE DEF B
  <2> QED
    BY <1>1, <2>1, GreatestNat
<1>5. m \in K /\ \A j \in K \ {m} : InTime(rows, j, m)
  <2>1. m \in K /\ u - rows[m].at = a
    OBVIOUS
  <2>2. ASSUME NEW j \in K \ {m} PROVE InTime(rows, j, m)
    <3>1. /\ u - rows[m].at <= u - rows[j].at /\ rows[m].at \in Nat /\ rows[j].at \in Nat
          /\ m \in Nat /\ j \in Nat
      BY <1>1, <1>3, <2>1
    <3>2. rows[j].at = rows[m].at => j <= m
      BY <1>4, <2>1
    <3>3. rows[j].at <= rows[m].at
      BY <3>1
    <3> QED
      BY <3>1, <3>2, <3>3 DEF InTime
  <2> QED
    BY <2>1, <2>2
<1> QED
  BY <1>5 DEF LastOf

LEMMA FourFacts ==
  ASSUME NEW i \in Incidents, NEW m \in 1..4, NEW e, e = FourEvents(i)[m]
  PROVE  /\ e \in Events /\ e.incident = i /\ e.outcome # "recovered"
         /\ e.about \in {"request", "route", "provider", "cost"}
         /\ i \notin FailedRequests => e.severity # "critical"
         /\ e.severity = "critical" => e.summary = "reason"
         /\ m = 1 /\ i \in FailedRequests => e.severity = "critical"
         /\ m = 4 => e.summary = "cost" /\ e.about = "cost" /\ e.at = 3
         /\ m # 4 => e.at < 3
BY FourOK

\* What is said of an incident whose four events are there, once or more, and no other
LEMMA SaidRight ==
  ASSUME NEW rows \in Seq(Events), NEW i \in Incidents,
         \A k \in 1..Len(rows) : rows[k].incident = i => rows[k] \in Own(i),
         \A m \in 1..4 : \E k \in 1..Len(rows) : rows[k] = FourEvents(i)[m]
  PROVE  Explanation(rows, Timeline(rows, i)) = SaidOf(i)
<1> DEFINE K == Timeline(rows, i)
           C == {k \in K : rows[k].severity = "critical"}
<1>1. K \in SUBSET (1..Len(rows)) /\ \A k \in K : \E m \in 1..4 : rows[k] = FourEvents(i)[m]
  BY DEF Timeline, Own
<1>2. ASSUME NEW m \in 1..4 PROVE \E k \in K : rows[k] = FourEvents(i)[m]
  <2>1. PICK k \in 1..Len(rows) : rows[k] = FourEvents(i)[m]
    OBVIOUS
  <2>2. rows[k].incident = i
    BY <2>1, FourFacts
  <2> QED
    BY <2>1, <2>2 DEF Timeline
<1> HIDE DEF K
<1>3. ASSUME NEW k \in K
      PROVE  /\ rows[k].outcome # "recovered" /\ rows[k].about # "rate"
             /\ i \notin FailedRequests => rows[k].severity # "critical"
             /\ rows[k].severity = "critical" => rows[k].summary = "reason"
  <2>0. PICK m \in 1..4 : rows[k] = FourEvents(i)[m]
    BY <1>1
  <2>1. PICK e : e = rows[k] /\ e = FourEvents(i)[m]
    BY <2>0
  <2>2. /\ e.outcome # "recovered" /\ e.about \in {"request", "route", "provider", "cost"}
        /\ i \notin FailedRequests => e.severity # "critical"
        /\ e.severity = "critical" => e.summary = "reason"
    BY <2>1, FourFacts
  <2> QED
    BY <2>1, <2>2
<1>4. PICK f \in K : rows[f].summary = "cost" /\ rows[f].about = "cost" /\ rows[f].at = 3
  <2>1. 4 \in 1..4
    OBVIOUS
  <2>2. PICK k \in K : rows[k] = FourEvents(i)[4]
    BY <1>2, <2>1
  <2> QED
    BY <2>1, <2>2, FourFacts
<1>5. Fix(rows, K) = "budget"
  <2>1. ~ \E k \in K : rows[k].about = "rate"
    BY <1>3
  <2>2. \E k \in K : rows[k].about = "cost"
    BY <1>4
  <2> QED
    BY <2>1, <2>2 DEF Fix
<1>6. ~ \E k \in K : rows[k].outcome = "recovered"
  BY <1>3
<1>7. CASE i \in FailedRequests
  <2>1. \E k \in K : rows[k].severity = "critical"
    <3>1. 1 \in 1..4
      OBVIOUS
    <3>2. PICK k \in K : rows[k] = FourEvents(i)[1]
      BY <1>2, <3>1
    <3> QED
      BY <1>7, <3>1, <3>2, FourFacts
  <2>2. C # {} /\ C \in SUBSET (1..Len(rows)) /\ C \in SUBSET K
    BY <1>1, <2>1
  <2>3. Impact(rows, K) = rows[FirstOf(rows, C)].summary
    BY <2>2 DEF Impact
  <2>4. FirstOf(rows, C) \in C
    <3> HIDE DEF C
    <3> QED
      BY <2>2, FirstOK
  <2>5. PICK k \in K : k = FirstOf(rows, C) /\ rows[k].severity = "critical"
    BY <2>4
  <2>6. rows[k].summary = "reason"
    BY <1>3, <2>5
  <2>7. Impact(rows, K) = "reason"
    BY <2>3, <2>5, <2>6
  <2> QED
    BY <1>5, <1>6, <1>7, <2>7 DEF Explanation, SaidOf, K
<1>8. CASE i \notin FailedRequests
  <2>1. C = {}
    BY <1>3, <1>8
  <2>2. Impact(rows, K) = rows[LastOf(rows, K)].summary
    BY <2>1 DEF Impact
  <2>3. LastOf(rows, K) \in K /\ \A j \in K \ {LastOf(rows, K)} : InTime(rows, j, LastOf(rows, K))
    BY <1>1, <1>4, LastOK
  <2>4. PICK k \in K : k = LastOf(rows, K) /\ \A j \in K \ {k} : InTime(rows, j, k)
    BY <2>3
  <2>5. PICK m \in 1..4 : rows[k] = FourEvents(i)[m]
    BY <1>1
  <2>6. rows[k] \in Events
    BY <2>5, FourFacts
  <2>7. rows[k].at \in Nat
    BY <2>6 DEF Events
  <2>8. m = 4
    <3> SUFFICES ASSUME m # 4 PROVE FALSE
      OBVIOUS
    <3>1. rows[k].at < 3
      BY <2>5, FourFacts
    <3>2. f # k
      BY <1>4, <2>7, <3>1
    <3>3. InTime(rows, f, k)
      BY <2>4, <3>2
    <3>4. 3 < rows[k].at \/ 3 = rows[k].at
      BY <1>4, <3>3 DEF InTime
    <3> QED
      BY <2>7, <3>1, <3>4
  <2>9. rows[k].summary = "cost"
    BY <2>5, <2>8, FourFacts
  <2>10. Impact(rows, K) = "cost"
    BY <2>2, <2>4, <2>9
  <2> QED
    BY <1>5, <1>6, <1>8, <2>10 DEF Explanation, SaidOf, K
<1> QED
  BY <1>7, <1>8

LEMMA ExplanationTyped ==
  ASSUME NEW rows \in Seq(Events), NEW i \in Incidents, Timeline(rows, i) # {}
  PROVE  Explanation(rows, Timeline(rows, i)) \in Explanations
<1> DEFINE K == Timeline(rows, i)
           C == {k \in K : rows[k].severity = "critical"}
<1>1. K \in SUBSET (1..Len(rows)) /\ K # {} /\ C \in SUBSET (1..Len(rows)) /\ C \in SUBSET K
  BY DEF Timeline
<1>2. \A k \in 1..Len(rows) : rows[k].summary \in {"reason", "selection", "cost", "other"}
  <2>1. \A k \in 1..Len(rows) : rows[k] \in Events
    BY ElementOfSeq
  <2> QED
    BY <2>1 DEF Events
<1>3. Impact(rows, K) \in {"reason", "selection", "cost", "other"}
  <2>1. Impact(rows, K) = IF C = {} THEN rows[LastOf(rows, K)].summary ELSE rows[FirstOf(rows, C)].summary
    BY DEF Impact
  <2>2. LastOf(rows, K) \in 1..Len(rows)
    <3> HIDE DEF K, C
    <3> QED
      BY <1>1, LastOK
  <2>3. C # {} => FirstOf(rows, C) \in 1..Len(rows)
    <3> HIDE DEF K, C
    <3> QED
      BY <1>1, FirstOK
  <2> QED
    BY <1>2, <2>1, <2>2, <2>3
<1>4. Fix(rows, K) \in {"limits", "budget", "credential", "health", "inspect"}
  BY DEF Fix
<1> HIDE DEF C
<1> QED
  BY <1>3, <1>4 DEF Explanation, Explanations

\* Rows are only appended.
LEMMA StillStands ==
  ASSUME NEW i \in Incidents, NEW m \in 1..4, NEW e \in Events, evidence \in Seq(Events),
         evidence' = Append(evidence, e), Stands(i, m) \/ e = FourEvents(i)[m]
  PROVE  Stands(i, m)'
<1>1. /\ Len(evidence') = Len(evidence) + 1 /\ evidence'[Len(evidence) + 1] = e
      /\ Len(evidence) \in Nat /\ \A k \in 1..Len(evidence) : evidence'[k] = evidence[k]
  OBVIOUS
<1>2. CASE Stands(i, m)
  BY <1>1, <1>2 DEF Stands
<1>3. CASE e = FourEvents(i)[m]
  <2>1. Len(evidence) + 1 \in 1..Len(evidence')
    BY <1>1
  <2> QED
    BY <1>1, <1>3, <2>1 DEF Stands
<1> QED
  BY <1>2, <1>3

LEMMA AppendedOwn ==
  ASSUME NEW e \in Events, evidence \in Seq(Events), evidence' = Append(evidence, e), OnlyOwn,
         foreign \subseteq foreign', e.incident \in foreign' \/ e \in Own(e.incident)
  PROVE  OnlyOwn'
<1>1. /\ Len(evidence') = Len(evidence) + 1 /\ evidence'[Len(evidence) + 1] = e
      /\ Len(evidence) \in Nat /\ \A k \in 1..Len(evidence) : evidence'[k] = evidence[k]
  OBVIOUS
<1> SUFFICES ASSUME NEW k \in 1..Len(evidence'), evidence'[k].incident \notin foreign'
             PROVE  evidence'[k] \in Own(evidence'[k].incident)
  BY DEF OnlyOwn, Own
<1>2. CASE k = Len(evidence) + 1
  BY <1>1, <1>2
<1>3. CASE k # Len(evidence) + 1
  <2>1. k \in 1..Len(evidence)
    BY <1>1, <1>3
  <2> QED
    BY <1>1, <2>1 DEF OnlyOwn
<1> QED
  BY <1>2, <1>3

LEMMA EvidenceInitOK ==
  EvidenceInit => EvidenceInv
<1> SUFFICES ASSUME EvidenceInit PROVE EvidenceInv
  OBVIOUS
<1>1. /\ evidence = <<>> /\ building = <<>> /\ foreign = {}
      /\ explained = [i \in Incidents |-> NoExplanation] /\ saidLast = [i \in Incidents |-> NoExplanation]
  BY DEF EvidenceInit
<1>2. /\ evidence \in Seq(Events) /\ building \in Seq(Events) /\ Len(evidence) = 0 /\ Len(building) = 0
  BY <1>1
<1>3. EvidenceTypeOK
  BY <1>1, <1>2, EvidenceAssumption DEF EvidenceTypeOK
<1>4. Building
  BY <1>1, <1>2, EvidenceAssumption DEF Building
<1>5. OnlyOwn /\ ExplainedWhole
  BY <1>1, <1>2 DEF OnlyOwn, ExplainedWhole
<1> QED
  BY <1>2, <1>3, <1>4, <1>5 DEF EvidenceInv

LEMMA AskFromRequestStep ==
  ASSUME EvidenceInv, NEW i \in Incidents, AskFromRequest(i)
  PROVE  EvidenceInv'
<1>1. /\ building' = FourEvents(i) /\ Len(evidence) + 4 <= MaxEvents
      /\ UNCHANGED <<evidence, explained, saidLast, foreign>>
  BY DEF AskFromRequest
<1>2. building' \in Seq(Events) /\ Len(building') = 4
  BY <1>1, FourOK
<1>3. EvidenceTypeOK' /\ evidence' \in Seq(Events) /\ OnlyOwn' /\ ExplainedWhole'
  BY <1>1, <1>2 DEF EvidenceInv, EvidenceTypeOK, OnlyOwn, ExplainedWhole, Stands, Own
<1>4. Building'
  <2>1. \A m \in 1..Len(building') : building'[m] = FourEvents(i)[4 - Len(building') + m]
    BY <1>1, <1>2
  <2>2. 1..(4 - Len(building')) = {}
    BY <1>2
  <2>3. Len(evidence') + Len(building') <= MaxEvents
    BY <1>1, <1>2
  <2> QED
    BY <1>2, <2>1, <2>2, <2>3 DEF Building
<1> QED
  BY <1>3, <1>4 DEF EvidenceInv

LEMMA AskIncidentStep ==
  ASSUME EvidenceInv, NEW i \in Incidents, AskIncident(i)
  PROVE  EvidenceInv'
<1> DEFINE said == Explanation(evidence, Timeline(evidence, i))
<1>1. /\ Timeline(evidence, i) # {} /\ saidLast' = [saidLast EXCEPT ![i] = said]
      /\ UNCHANGED <<evidence, building, explained, foreign>>
  BY DEF AskIncident, Explain
<1>2. said \in Explanations
  BY <1>1, ExplanationTyped DEF EvidenceInv
<1>3. explained[i] # NoExplanation /\ i \notin foreign => said = SaidOf(i)
  <2> SUFFICES ASSUME explained[i] # NoExplanation, i \notin foreign PROVE said = SaidOf(i)
    OBVIOUS
  <2>1. \A k \in 1..Len(evidence) : evidence[k].incident = i => evidence[k] \in Own(i)
    BY DEF EvidenceInv, OnlyOwn
  <2>2. \A m \in 1..4 : \E k \in 1..Len(evidence) : evidence[k] = FourEvents(i)[m]
    BY DEF EvidenceInv, ExplainedWhole, Stands
  <2> QED
    BY <2>1, <2>2, SaidRight DEF EvidenceInv
<1> HIDE DEF said
<1>4. EvidenceTypeOK'
  BY <1>1, <1>2 DEF EvidenceInv, EvidenceTypeOK
<1>5. evidence' \in Seq(Events) /\ Building' /\ OnlyOwn'
  BY <1>1 DEF EvidenceInv, Building, OnlyOwn, Stands, Own
<1>6. ExplainedWhole'
  <2> SUFFICES ASSUME NEW j \in Incidents, explained'[j] # NoExplanation
               PROVE  /\ \A m \in 1..4 : Stands(j, m)'
                      /\ j \notin foreign' => explained'[j] = SaidOf(j) /\ saidLast'[j] = SaidOf(j)
    BY DEF ExplainedWhole, SaidOf
  <2>1. \A m \in 1..4 : Stands(j, m)
    BY <1>1 DEF EvidenceInv, ExplainedWhole
  <2>2. ASSUME NEW m \in 1..4 PROVE Stands(j, m)'
    BY <1>1, <2>1 DEF Stands
  <2>3. j \notin foreign' => explained'[j] = SaidOf(j) /\ saidLast[j] = SaidOf(j)
    BY <1>1 DEF EvidenceInv, ExplainedWhole
  <2>4. saidLast'[j] = IF j = i THEN said ELSE saidLast[j]
    BY <1>1 DEF EvidenceInv, EvidenceTypeOK
  <2> QED
    BY <1>1, <1>3, <2>2, <2>3, <2>4
<1> QED
  BY <1>4, <1>5, <1>6 DEF EvidenceInv

LEMMA AddEventStep ==
  ASSUME EvidenceInv, NEW i \in Incidents, NEW e \in AddedEvents, AddEvent(i, e)
  PROVE  EvidenceInv'
<1> DEFINE row == Event(i, e.at, e.about, e.outcome, e.severity, "other")
<1>1. /\ building = <<>> /\ Len(evidence) < MaxEvents /\ evidence' = Append(evidence, row)
      /\ foreign' = foreign \cup {i} /\ UNCHANGED <<building, explained, saidLast>>
  BY DEF AddEvent
<1>2. row \in Events /\ row.incident = i
  BY EvidenceAssumption DEF Event, Events
<1> HIDE DEF row
<1>3. /\ evidence \in Seq(Events) /\ evidence' \in Seq(Events) /\ Len(evidence') = Len(evidence) + 1
      /\ Len(evidence) \in Nat /\ building' = <<>> /\ Len(building') = 0 /\ building' \in Seq(Events)
  BY <1>1, <1>2 DEF EvidenceInv, Building
<1>4. EvidenceTypeOK'
  BY <1>1, <1>3, EvidenceAssumption DEF EvidenceInv, EvidenceTypeOK
<1>5. Building'
  <2>1. Len(evidence') + Len(building') <= MaxEvents
    BY <1>1, <1>3, EvidenceAssumption
  <2> QED
    BY <1>3, <2>1 DEF Building
<1>6. OnlyOwn'
  BY <1>1, <1>2, AppendedOwn DEF EvidenceInv
<1>7. ExplainedWhole'
  <2> SUFFICES ASSUME NEW j \in Incidents, explained'[j] # NoExplanation
               PROVE  /\ \A m \in 1..4 : Stands(j, m)'
                      /\ j \notin foreign' => explained'[j] = SaidOf(j) /\ saidLast'[j] = SaidOf(j)
    BY DEF ExplainedWhole, SaidOf
  <2>1. \A m \in 1..4 : Stands(j, m)
    BY <1>1 DEF EvidenceInv, ExplainedWhole
  <2>2. ASSUME NEW m \in 1..4 PROVE Stands(j, m)'
    BY <1>1, <1>2, <1>3, <2>1, StillStands
  <2>3. j \notin foreign' => explained'[j] = SaidOf(j) /\ saidLast'[j] = SaidOf(j)
    BY <1>1 DEF EvidenceInv, ExplainedWhole
  <2> QED
    BY <2>2, <2>3
<1> QED
  BY <1>3, <1>4, <1>5, <1>6, <1>7 DEF EvidenceInv

\* What the next append of a build does to what is left of it.
LEMMA BuildShrinks ==
  ASSUME NEW b \in Seq(Events), b # <<>>, Len(b) \in 0..4
  PROVE  /\ Head(b) = b[1] /\ Tail(b) \in Seq(Events) /\ Len(Tail(b)) = Len(b) - 1 /\ Len(b) \in 1..4
         /\ \A m \in 1..Len(Tail(b)) : Tail(b)[m] = b[m + 1] /\ m + 1 \in 1..Len(b)
         /\ Len(Tail(b)) \in 0..4 /\ 5 - Len(b) \in 1..4
         /\ Tail(b) = <<>> <=> Len(b) = 1
<1>1. Len(b) \in 1..4
  BY EmptySeq
<1>2. /\ Head(b) = b[1] /\ Tail(b) \in Seq(Events) /\ Len(Tail(b)) = Len(b) - 1
      /\ \A m \in 1..Len(Tail(b)) : Tail(b)[m] = b[m + 1]
  BY HeadTailProperties
<1>3. \A n \in 1..4 : n - 1 \in 0..4 /\ 5 - n \in 1..4 /\ \A m \in 1..(n - 1) : m + 1 \in 1..n
  OBVIOUS
<1>4. Tail(b) = <<>> <=> Len(b) = 1
  <2>1. Tail(b) = <<>> <=> Len(Tail(b)) = 0
    BY <1>2, EmptySeq
  <2> QED
    BY <1>1, <1>2, <2>1
<1> QED
  BY <1>1, <1>2, <1>3, <1>4

LEMMA BuildNextStep ==
  ASSUME EvidenceInv, BuildNext
  PROVE  EvidenceInv'
<1>1. PICK i \in Incidents :
        /\ \A m \in 1..Len(building) : building[m] = FourEvents(i)[4 - Len(building) + m]
        /\ \A m \in 1..(4 - Len(building)) : Stands(i, m)
  BY DEF BuildNext, EvidenceInv, Building
<1> DEFINE n == Len(building)
           row == Head(building)
<1>2. /\ row = building[1] /\ building' = Tail(building) /\ building' \in Seq(Events)
      /\ Len(building') = n - 1 /\ n \in 1..4 /\ 5 - n \in 1..4
      /\ \A m \in 1..Len(building') : building'[m] = building[m + 1] /\ m + 1 \in 1..n
      /\ Len(building') \in 0..4
      /\ building' = <<>> <=> n = 1
  BY BuildShrinks DEF BuildNext, EvidenceInv, Building
<1>3. row = FourEvents(i)[5 - n]
  <2>1. 1 \in 1..n /\ 4 - n + 1 = 5 - n
    BY <1>2
  <2> QED
    BY <1>1, <1>2, <2>1
<1> HIDE DEF row, n
<1>4. row \in Events /\ row.incident = i /\ row \in Own(i)
  BY <1>2, <1>3, FourFacts DEF Own
<1>5. /\ evidence \in Seq(Events) /\ evidence' = Append(evidence, row) /\ evidence' \in Seq(Events)
      /\ Len(evidence') = Len(evidence) + 1 /\ Len(evidence) \in Nat /\ foreign' = foreign
  BY <1>4 DEF BuildNext, EvidenceInv, row
<1>6. OnlyOwn'
  BY <1>4, <1>5, AppendedOwn DEF EvidenceInv
<1>7. ASSUME NEW m \in 1..4, m <= 5 - n PROVE Stands(i, m)'
  <2>1. CASE m = 5 - n
    BY <1>3, <1>4, <1>5, <2>1, StillStands
  <2>2. CASE m # 5 - n
    <3>1. m \in 1..(4 - n)
      BY <1>2, <1>7, <2>2
    <3>2. Stands(i, m)
      BY <1>1, <3>1 DEF n
    <3> QED
      BY <1>4, <1>5, <3>2, StillStands
  <2> QED
    BY <2>1, <2>2
<1>8. Building'
  <2>1. Len(evidence') + Len(building') <= MaxEvents
    <3>1. Len(evidence) + n <= MaxEvents
      BY DEF EvidenceInv, Building, n
    <3> QED
      BY <1>2, <1>5, <3>1, EvidenceAssumption
  <2>2. ASSUME NEW m \in 1..Len(building') PROVE building'[m] = FourEvents(i)[4 - Len(building') + m]
    <3>1. m + 1 \in 1..n /\ building'[m] = building[m + 1] /\ 4 - n + (m + 1) = 4 - Len(building') + m
      BY <1>2
    <3> QED
      BY <1>1, <3>1 DEF n
  <2>3. ASSUME NEW m \in 1..(4 - Len(building')) PROVE Stands(i, m)'
    <3>1. m \in 1..4 /\ m <= 5 - n
      BY <1>2
    <3> QED
      BY <1>7, <3>1
  <2>4. \A m \in 1..Len(building') : building'[m] = FourEvents(i)[4 - Len(building') + m]
    BY <2>2
  <2>5. \A m \in 1..(4 - Len(building')) : \E k \in 1..Len(evidence') : evidence'[k] = FourEvents(i)[m]
    BY <2>3 DEF Stands
  <2> QED
    BY <1>2, <2>1, <2>4, <2>5 DEF Building, Stands
<1>9. ASSUME NEW j \in Incidents, explained[j] # NoExplanation
      PROVE  \A m \in 1..4 : Stands(j, m)'
  <2>1. \A m \in 1..4 : Stands(j, m)
    BY <1>9 DEF EvidenceInv, ExplainedWhole
  <2>2. ASSUME NEW m \in 1..4 PROVE Stands(j, m)'
    BY <1>4, <1>5, <2>1, StillStands
  <2> QED
    BY <2>2
<1>10. Len(evidence') <= MaxEvents /\ Len(building') <= 4
  BY <1>2, <1>5, <1>8, EvidenceAssumption DEF Building
<1>11. CASE building' # <<>>
  <2>1. UNCHANGED <<explained, saidLast>>
    BY <1>11 DEF BuildNext
  <2>2. EvidenceTypeOK'
    BY <1>5, <1>10, <2>1 DEF EvidenceInv, EvidenceTypeOK
  <2>3. ExplainedWhole'
    <3> SUFFICES ASSUME NEW j \in Incidents, explained'[j] # NoExplanation
                 PROVE  /\ \A m \in 1..4 : Stands(j, m)'
                        /\ j \notin foreign' => explained'[j] = SaidOf(j) /\ saidLast'[j] = SaidOf(j)
      BY DEF ExplainedWhole, SaidOf
    <3>1. j \notin foreign' => explained'[j] = SaidOf(j) /\ saidLast'[j] = SaidOf(j)
      BY <1>5, <2>1 DEF EvidenceInv, ExplainedWhole
    <3> QED
      BY <1>9, <2>1, <3>1
  <2> QED
    BY <1>5, <1>6, <1>8, <2>2, <2>3 DEF EvidenceInv
<1>12. CASE building' = <<>>
  <2> DEFINE said == Explanation(evidence', Timeline(evidence', i))
  <2>1. /\ saidLast' = [saidLast EXCEPT ![i] = said]
        /\ explained' = IF explained[i] = NoExplanation
                        THEN [explained EXCEPT ![i] = saidLast'[i]] ELSE explained
    BY <1>4, <1>12 DEF BuildNext, Explain, row
  <2>2. ASSUME NEW m \in 1..4 PROVE Stands(i, m)'
    <3>1. m <= 5 - n
      BY <1>2, <1>12
    <3> QED
      BY <1>7, <3>1
  <2>3. \A m \in 1..4 : \E k \in 1..Len(evidence') : evidence'[k] = FourEvents(i)[m]
    BY <2>2 DEF Stands
  <2>4. said \in Explanations
    <3>1. 1 \in 1..4
      OBVIOUS
    <3>2. PICK k \in 1..Len(evidence') : evidence'[k] = FourEvents(i)[1]
      BY <2>3, <3>1
    <3>3. evidence'[k].incident = i
      BY <3>1, <3>2, FourFacts
    <3>4. Timeline(evidence', i) # {}
      BY <3>3 DEF Timeline
    <3> QED
      BY <1>5, <3>4, ExplanationTyped
  <2>5. i \notin foreign => said = SaidOf(i)
    <3> SUFFICES ASSUME i \notin foreign PROVE said = SaidOf(i)
      OBVIOUS
    <3>1. \A k \in 1..Len(evidence') : evidence'[k].incident = i => evidence'[k] \in Own(i)
      BY <1>5, <1>6 DEF OnlyOwn, Own
    <3> QED
      BY <1>5, <2>3, <3>1, SaidRight
  <2> HIDE DEF said
  <2>6. /\ \A j \in Incidents : saidLast'[j] = IF j = i THEN said ELSE saidLast[j]
        /\ \A j \in Incidents : explained'[j] = IF j = i /\ explained[i] = NoExplanation
                                                THEN said ELSE explained[j]
    BY <2>1 DEF EvidenceInv, EvidenceTypeOK
  <2>7. EvidenceTypeOK'
    BY <1>5, <1>10, <2>1, <2>4, <2>6 DEF EvidenceInv, EvidenceTypeOK
  <2>8. ExplainedWhole'
    <3> SUFFICES ASSUME NEW j \in Incidents, explained'[j] # NoExplanation
                 PROVE  /\ \A m \in 1..4 : Stands(j, m)'
                        /\ j \notin foreign' => explained'[j] = SaidOf(j) /\ saidLast'[j] = SaidOf(j)
      BY DEF ExplainedWhole, SaidOf
    <3>1. explained[j] # NoExplanation /\ j \notin foreign =>
            explained[j] = SaidOf(j) /\ saidLast[j] = SaidOf(j)
      BY DEF EvidenceInv, ExplainedWhole
    <3>2. j # i => explained[j] # NoExplanation
      BY <2>6
    <3>3. \A m \in 1..4 : Stands(j, m)'
      BY <1>9, <2>2, <3>2
    <3>4. j \notin foreign' => explained'[j] = SaidOf(j) /\ saidLast'[j] = SaidOf(j)
      BY <1>5, <2>5, <2>6, <3>1
    <3> QED
      BY <3>3, <3>4
  <2> QED
    BY <1>5, <1>6, <1>8, <2>7, <2>8 DEF EvidenceInv
<1> QED
  BY <1>11, <1>12

\* The inductive invariant of the incidents of the console
LEMMA EvidenceInvariant ==
  EvidenceSpec => []EvidenceInv
<1>1. EvidenceInv /\ [EvidenceNext]_evidenceVars => EvidenceInv'
  <2> SUFFICES ASSUME EvidenceInv, [EvidenceNext]_evidenceVars PROVE EvidenceInv'
    OBVIOUS
  <2>1. CASE ConsoleStops
    <3>1. building' = <<>> /\ UNCHANGED <<evidence, explained, saidLast, foreign>>
      BY <2>1 DEF ConsoleStops
    <3>2. /\ building' \in Seq(Events) /\ Len(building') = 0 /\ Len(building) \in 0..4
          /\ Len(evidence) \in Nat /\ Len(evidence) <= MaxEvents
      BY <3>1 DEF EvidenceInv, Building, EvidenceTypeOK
    <3>3. Building'
      BY <3>1, <3>2, EvidenceAssumption DEF Building
    <3>4. EvidenceTypeOK' /\ evidence' \in Seq(Events)
      BY <3>1, <3>2 DEF EvidenceInv, EvidenceTypeOK
    <3>5. OnlyOwn' /\ ExplainedWhole'
      BY <3>1 DEF EvidenceInv, OnlyOwn, ExplainedWhole, Stands, Own
    <3> QED
      BY <3>3, <3>4, <3>5 DEF EvidenceInv
  <2>2. CASE UNCHANGED evidenceVars
    <3>1. UNCHANGED <<evidence, building, explained, saidLast, foreign>>
      BY <2>2 DEF evidenceVars
    <3>2. EvidenceTypeOK' /\ evidence' \in Seq(Events)
      BY <3>1 DEF EvidenceInv, EvidenceTypeOK
    <3>3. Building'
      BY <3>1 DEF EvidenceInv, Building, Stands
    <3>4. OnlyOwn' /\ ExplainedWhole'
      BY <3>1 DEF EvidenceInv, OnlyOwn, ExplainedWhole, Stands, Own
    <3> QED
      BY <3>2, <3>3, <3>4 DEF EvidenceInv
  <2> QED
    BY <2>1, <2>2, AskFromRequestStep, AskIncidentStep, AddEventStep, BuildNextStep DEF EvidenceNext
<1> QED
  BY EvidenceInitOK, <1>1, PTL DEF EvidenceSpec

\* Type correctness of what the console keeps of incidents (Evidence).
THEOREM EvidenceTypesCorrect ==
  EvidenceSpec => []EvidenceTypeOK
<1>1. EvidenceInv => EvidenceTypeOK
  BY DEF EvidenceInv
<1> QED
  BY EvidenceInvariant, <1>1, PTL

\* What is said of the incident of a request stays the same however often it is asked
\* for and wherever the console dies, unless others add to it: its four events are always
\* there, all of them, and the explanation depends on nothing else
\* (incident_from_request, IncidentTimelineStore.explain).
THEOREM ExplainedTheSame ==
  EvidenceSpec => []ExplainedAlike
<1>1. EvidenceInv => ExplainedAlike
  BY DEF EvidenceInv, ExplainedWhole, ExplainedAlike
<1> QED
  BY EvidenceInvariant, <1>1, PTL

-----------------------------------------------------------------------------
(* CallPages *)

\* The log has a row per call, and what a reader meant to see is never put back.
LogOK ==
  /\ epoch \in 0..PageClockMax
  /\ logRows \in Seq([call : 1..MaxCalls, at : 0..PageClockMax, route : CallRoutes \cup {Routeless}, ok : BOOLEAN])
  /\ Len(logRows) <= MaxCalls
  /\ \A k \in 1..Len(logRows) : logRows[k].call <= Len(logRows) /\ logRows[k].at <= epoch
  /\ \A i, j \in 1..Len(logRows) : logRows[i].call = logRows[j].call => i = j

ReaderOK ==
  /\ filter \in CallRoutes \cup {AllRoutes} /\ page \in Nat /\ total \in 0..MaxCalls
  /\ \A s \in sums : s.success <= s.requests /\ s.requests <= total
  /\ shown \subseteq 1..MaxCalls /\ takenBack \in BOOLEAN

\* What he meant to see is of his route, and goes from the log only if it was a success.
MeantOK ==
  \A r \in meant :
    /\ r.call \in 1..Len(logRows) /\ (filter = AllRoutes \/ r.route = filter)
    /\ ~r.ok => \E k \in 1..Len(logRows) : logRows[k] = r

\* What comes before a row in his log.
Newer(k) == {j \in 1..Len(logRows) : Chosen(logRows[j], filter) /\ NewestFirst(j, k)}

\* The rows he has not been shown come after the pages he has read.
AheadOfHim ==
  page > 0 /\ (takenBack => filter = AllRoutes) =>
    \A k \in 1..Len(logRows) :
      logRows[k] \in meant /\ InWindow(logRows[k]) =>
        logRows[k].call \in shown \/ Cardinality(Newer(k)) >= page * PageSize

PageInv == LogOK /\ ReaderOK /\ MeantOK /\ AheadOfHim /\ PagesMissNothing

LEMMA LogTypes ==
  ASSUME LogOK
  PROVE  /\ Len(logRows) \in 0..MaxCalls /\ Len(logRows) \in Nat /\ MaxCalls \in Nat
         /\ epoch \in Int /\ epoch \in 0..PageClockMax
         /\ PageClockMax \in Nat /\ WindowLen \in Nat
         /\ \A k \in 1..Len(logRows) :
              /\ logRows[k] \in [call : 1..MaxCalls, at : 0..PageClockMax,
                                 route : CallRoutes \cup {Routeless}, ok : BOOLEAN]
              /\ logRows[k].call \in 1..MaxCalls /\ logRows[k].call \in 1..Len(logRows)
              /\ logRows[k].at \in 0..PageClockMax /\ logRows[k].at \in Int
              /\ logRows[k].route \in CallRoutes \cup {Routeless} /\ logRows[k].ok \in BOOLEAN
<1> DEFINE T == [call : 1..MaxCalls, at : 0..PageClockMax, route : CallRoutes \cup {Routeless}, ok : BOOLEAN]
<1>1. PageClockMax \in Nat /\ WindowLen \in Nat /\ MaxCalls \in Nat
  BY CallAssumption
<1>2. logRows \in Seq(T) /\ Len(logRows) <= MaxCalls /\ epoch \in 0..PageClockMax
      /\ \A k \in 1..Len(logRows) : logRows[k].call <= Len(logRows)
  BY DEF LogOK
<1>3. Len(logRows) \in Nat
  BY <1>2, LenProperties
<1>4. ASSUME NEW k \in 1..Len(logRows) PROVE logRows[k] \in T
  <2> HIDE DEF T
  <2> QED
    BY <1>2, ElementOfSeq
<1>5. ASSUME NEW k \in 1..Len(logRows)
      PROVE  /\ logRows[k].call \in 1..MaxCalls /\ logRows[k].at \in 0..PageClockMax
             /\ logRows[k].route \in CallRoutes \cup {Routeless} /\ logRows[k].ok \in BOOLEAN
  BY <1>4
<1>6. ASSUME NEW k \in 1..Len(logRows)
      PROVE  logRows[k].call \in 1..Len(logRows) /\ logRows[k].at \in Int
  BY <1>1, <1>2, <1>3, <1>5
<1>7. epoch \in Int
  BY <1>1, <1>2
<1> QED
  BY <1>1, <1>2, <1>3, <1>4, <1>5, <1>6, <1>7

\* Sets of rows are finite and no larger than the log.
LEMMA RowsFinite ==
  ASSUME NEW n \in Nat, NEW S \in SUBSET (1..n)
  PROVE  IsFiniteSet(S) /\ Cardinality(S) \in Nat /\ Cardinality(S) <= n
<1>1. IsFiniteSet(1..n) /\ Cardinality(1..n) = n
  BY 1 \in Int, n \in Int, (IF 1 > n THEN 0 ELSE n - 1 + 1) = n, FS_Interval
<1>2. IsFiniteSet(S) /\ Cardinality(S) <= n
  BY <1>1, FS_Subset
<1> QED
  BY <1>2, FS_CardinalityType

LEMMA FoundInLog == \A route : FoundRows(route) \in SUBSET (1..Len(logRows))
  BY DEF FoundRows

LEMMA SmallerSet ==
  ASSUME NEW S, IsFiniteSet(S), NEW T \in SUBSET S
  PROVE  Cardinality(T) <= Cardinality(S)
  BY FS_Subset

\* The row itself does not come before it.
LEMMA PlaceInside ==
  ASSUME LogOK, NEW route, NEW k \in FoundRows(route)
  PROVE  Place(k, route) \in Nat /\ Place(k, route) < Cardinality(FoundRows(route))
<1> DEFINE F == FoundRows(route)
           N == {j \in F : NewestFirst(j, k)}
<1>1. F \in SUBSET (1..Len(logRows)) /\ N \in SUBSET F /\ N \in SUBSET (1..Len(logRows))
  BY FoundInLog
<1>2. k \in 1..Len(logRows) /\ logRows[k].at \in Int /\ Len(logRows) \in Nat
  BY <1>1, LogTypes
<1>3. k \notin N
  <2>1. k \in Int
    BY <1>2
  <2> QED
    BY <1>2, <2>1 DEF NewestFirst
<1>4. Place(k, route) = Cardinality(N)
  BY DEF Place
<1>5. N # F
  BY <1>3
<1> HIDE DEF F, N
<1>6. IsFiniteSet(F) /\ Cardinality(F) \in Nat /\ Cardinality(N) \in Nat
  BY <1>1, <1>2, RowsFinite
<1>7. Cardinality(N) <= Cardinality(F) /\ Cardinality(N) # Cardinality(F)
  BY <1>1, <1>5, <1>6, FS_Subset
<1> QED
  BY <1>4, <1>6, <1>7 DEF F

(***************************************************************************)
(* Steps of the log.                                                       *)
(***************************************************************************)

\* A step of the log: what is still there of what he meant to see was there before, and
\* nothing that came before it is gone.
LEMMA LogMoves ==
  ASSUME PageInv, LogOK', UNCHANGED <<filter, page, total, shown, meant>>,
         takenBack => takenBack',
         \A k \in 1..Len(logRows') : logRows'[k] \in meant /\ InWindow(logRows[k])' =>
           \E j \in 1..Len(logRows) :
             /\ logRows[j] = logRows'[k] /\ InWindow(logRows[j])
             /\ page > 0 /\ (takenBack' => filter = AllRoutes) =>
                  Cardinality(Newer(j)) <= Cardinality(Newer(k)')
  PROVE  AheadOfHim' /\ PagesMissNothing'
<1>1. page' = page /\ shown' = shown /\ filter' = filter /\ meant' = meant
      /\ (MorePages' <=> MorePages)
  BY DEF MorePages
<1>2. PageSize \in Nat /\ page \in Nat /\ page * PageSize \in Int
  BY CallAssumption DEF PageInv, ReaderOK
<1>3. ASSUME page > 0, takenBack' => filter = AllRoutes, NEW k \in 1..Len(logRows'),
             logRows'[k] \in meant, InWindow(logRows[k])'
      PROVE  /\ logRows'[k].call \in shown \/ Cardinality(Newer(k)') >= page * PageSize
             /\ ~MorePages => logRows'[k].call \in shown
  <2>1. PICK j \in 1..Len(logRows) :
               /\ logRows[j] = logRows'[k] /\ InWindow(logRows[j])
               /\ Cardinality(Newer(j)) <= Cardinality(Newer(k)')
    BY <1>3
  <2>2. takenBack => filter = AllRoutes
    BY <1>3
  <2>3. logRows[j] \in meant /\ InWindow(logRows[j])
    BY <1>3, <2>1
  <2>4. logRows[j].call \in shown \/ Cardinality(Newer(j)) >= page * PageSize
    BY <1>3, <2>2, <2>3 DEF PageInv, AheadOfHim
  <2>5. ~MorePages => logRows[j].call \in shown
    BY <1>3, <2>2, <2>3 DEF PageInv, PagesMissNothing
  <2>6. Newer(j) \in SUBSET (1..Len(logRows)) /\ Newer(k)' \in SUBSET (1..Len(logRows'))
    BY DEF Newer
  <2>7. Cardinality(Newer(j)) \in Nat /\ Cardinality(Newer(k)') \in Nat
    <3>1. Len(logRows) \in Nat /\ Len(logRows') \in Nat
      BY LenProperties DEF PageInv, LogOK
    <3> QED
      BY <2>6, <3>1, RowsFinite
  <2> QED
    BY <1>2, <2>1, <2>4, <2>5, <2>7
<1>4. AheadOfHim'
  BY <1>1, <1>3 DEF AheadOfHim
<1>5. PagesMissNothing'
  BY <1>1, <1>3 DEF PagesMissNothing
<1> QED
  BY <1>4, <1>5

LEMMA TickStep == PageInv /\ PageTick => PageInv'
<1> SUFFICES ASSUME PageInv, PageTick PROVE PageInv'
  OBVIOUS
<1>1. LogOK /\ UNCHANGED <<logRows, filter, page, total, sums, shown, meant, takenBack>> /\ epoch' = epoch + 1
      /\ epoch < PageClockMax
  BY DEF PageInv, PageTick
<1>2. /\ Len(logRows) \in Nat /\ epoch \in Int /\ epoch \in 0..PageClockMax /\ PageClockMax \in Nat
      /\ WindowLen \in Nat /\ \A k \in 1..Len(logRows) : logRows[k].at \in Int /\ logRows[k].at <= epoch
  BY <1>1, LogTypes DEF LogOK
<1>3. epoch' \in 0..PageClockMax /\ epoch <= epoch'
  BY <1>1, <1>2
<1>4. LogOK'
  <2>1. \A k \in 1..Len(logRows) : logRows[k].at <= epoch'
    BY <1>1, <1>2
  <2> QED
    BY <1>1, <1>3, <2>1 DEF LogOK
<1>5. ASSUME NEW k \in 1..Len(logRows), InWindow(logRows[k])'
      PROVE  InWindow(logRows[k]) /\ Newer(k)' = Newer(k)
  <2>1. logRows[k].at >= (epoch + 1) - WindowLen
    <3>1. logRows'[k].at >= epoch' - WindowLen
      BY <1>5 DEF InWindow
    <3> QED
      BY <1>1, <1>2, <3>1
  <2>2. InWindow(logRows[k])
    BY <1>2, <2>1 DEF InWindow
  <2>3. ASSUME NEW j \in 1..Len(logRows), NewestFirst(j, k)
        PROVE  logRows[j].at >= (epoch + 1) - WindowLen /\ logRows[j].at >= epoch - WindowLen
    BY <1>2, <2>1, <2>3 DEF NewestFirst
  <2>4. \A j \in 1..Len(logRows) : NewestFirst(j, k)' <=> NewestFirst(j, k)
    BY <1>1 DEF NewestFirst
  <2>5. \A j \in 1..Len(logRows) :
          NewestFirst(j, k) => (Chosen(logRows[j], filter)' <=> Chosen(logRows[j], filter))
    <3> TAKE j \in 1..Len(logRows)
    <3> HAVE NewestFirst(j, k)
    <3>1. Chosen(logRows[j], filter)' <=>
            (logRows'[j].at >= epoch' - WindowLen /\ (filter' = AllRoutes \/ logRows'[j].route = filter'))
      BY DEF Chosen, InWindow
    <3>2. Chosen(logRows[j], filter) <=> (filter = AllRoutes \/ logRows[j].route = filter)
      BY <2>3 DEF Chosen, InWindow
    <3>3. logRows'[j].at >= epoch' - WindowLen
      BY <1>1, <1>2, <2>3
    <3> QED
      BY <1>1, <3>1, <3>2, <3>3
  <2> QED
    BY <1>1, <2>2, <2>4, <2>5 DEF Newer
<1>6. ASSUME NEW k \in 1..Len(logRows') , logRows'[k] \in meant, InWindow(logRows[k])'
      PROVE  \E j \in 1..Len(logRows) :
               /\ logRows[j] = logRows'[k] /\ InWindow(logRows[j])
               /\ page > 0 /\ (takenBack' => filter = AllRoutes) =>
                    Cardinality(Newer(j)) <= Cardinality(Newer(k)')
  <2>1. k \in 1..Len(logRows) /\ logRows[k] = logRows'[k]
    BY <1>1
  <2>2. InWindow(logRows[k]) /\ Newer(k)' = Newer(k)
    BY <1>5, <1>6, <2>1
  <2>3. Newer(k) \in SUBSET (1..Len(logRows))
    BY DEF Newer
  <2>4. Cardinality(Newer(k)) \in Nat
    BY <1>1, <2>3, RowsFinite
  <2> QED
    BY <2>1, <2>2, <2>4
<1>7. AheadOfHim' /\ PagesMissNothing'
  BY <1>1, <1>4, <1>6, LogMoves
<1>8. MeantOK' /\ ReaderOK'
  BY <1>1 DEF PageInv, MeantOK, ReaderOK
<1> QED
  BY <1>4, <1>7, <1>8 DEF PageInv

LEMMA RecordStep ==
  ASSUME PageInv, NEW at \in 0..PageClockMax, NEW ok \in BOOLEAN, RecordCall(at, ok)
  PROVE  PageInv'
<1> DEFINE n == Len(logRows)
           T == [call : 1..MaxCalls, at : 0..PageClockMax, route : CallRoutes \cup {Routeless}, ok : BOOLEAN]
<1>1. LogOK /\ UNCHANGED <<epoch, filter, page, total, sums, shown, meant, takenBack>>
      /\ n + 1 <= MaxCalls /\ at <= epoch
  BY DEF PageInv, RecordCall, MadeAt
<1>2. /\ n \in Nat /\ epoch \in Int /\ MaxCalls \in Nat
      /\ \A k \in 1..n : logRows[k].call \in 1..n /\ logRows[k].at \in Int
  BY <1>1, LogTypes
<1>3. n + 1 \in 1..MaxCalls /\ n + 1 \in 1..(n + 1)
  BY <1>1, <1>2
<1>4. PICK route \in {RouteOf[n + 1]} \cup {Routeless} : logRows' = Append(logRows, Row(n + 1, at, route, ok))
  BY DEF RecordCall
<1>5. route \in CallRoutes \cup {Routeless}
  BY <1>3, <1>4, CallAssumption
<1> DEFINE new == Row(n + 1, at, route, ok)
<1>6. new \in T /\ new.call = n + 1 /\ new.at = at
  BY <1>3, <1>5 DEF Row
<1>7. logRows \in Seq(T)
  BY <1>1 DEF LogOK
<1>8. /\ logRows' \in Seq(T) /\ Len(logRows') = n + 1
      /\ \A k \in 1..n : logRows'[k] = logRows[k]
      /\ logRows'[n + 1] = new
  <2> HIDE DEF T, new
  <2>1. logRows' = Append(logRows, new)
    BY <1>4 DEF new
  <2> QED
    BY <1>6, <1>7, <2>1, AppendProperties
<1>9. \A k \in 1..(n + 1) : k \in 1..n \/ k = n + 1
  BY <1>2
<1> HIDE DEF T, new
<1>10. LogOK'
  <2>1. \A k \in 1..(n + 1) : logRows'[k].call <= n + 1 /\ logRows'[k].at <= epoch
    <3> TAKE k \in 1..(n + 1)
    <3>1. CASE k = n + 1
      BY <1>1, <1>2, <1>6, <1>8, <3>1
    <3>2. CASE k \in 1..n
      <4>1. logRows[k].call <= n /\ logRows[k].at <= epoch
        BY <1>1, <3>2 DEF LogOK
      <4> QED
        BY <1>2, <1>8, <3>2, <4>1
    <3> QED
      BY <1>9, <3>1, <3>2
  <2>2. ASSUME NEW i \in 1..(n + 1), NEW j \in 1..(n + 1), logRows'[i].call = logRows'[j].call PROVE i = j
    <3>1. \A k \in 1..n : logRows'[k].call \in 1..n /\ logRows'[k].call # n + 1
      BY <1>2, <1>8
    <3>2. CASE i \in 1..n /\ j \in 1..n
      BY <1>1, <1>8, <2>2, <3>2 DEF LogOK
    <3> QED
      BY <1>6, <1>8, <1>9, <2>2, <3>1, <3>2
  <2> QED
    BY <1>1, <1>8, <2>1, <2>2 DEF LogOK, T
<1>11. MeantOK'
  <2>1. ASSUME NEW r \in meant
        PROVE  /\ r.call \in 1..(n + 1) /\ (filter = AllRoutes \/ r.route = filter)
               /\ ~r.ok => \E k \in 1..(n + 1) : logRows'[k] = r
    <3>1. /\ r.call \in 1..n /\ (filter = AllRoutes \/ r.route = filter)
          /\ ~r.ok => \E k \in 1..n : logRows[k] = r
      BY DEF PageInv, MeantOK
    <3>2. \A k \in 1..n : k \in 1..(n + 1)
      BY <1>2
    <3> QED
      BY <1>8, <3>1, <3>2
  <2> QED
    BY <1>1, <1>8, <2>1 DEF MeantOK
<1>12. ASSUME NEW k \in 1..Len(logRows'), logRows'[k] \in meant, InWindow(logRows[k])'
       PROVE  \E j \in 1..Len(logRows) :
                /\ logRows[j] = logRows'[k] /\ InWindow(logRows[j])
                /\ page > 0 /\ (takenBack' => filter = AllRoutes) =>
                     Cardinality(Newer(j)) <= Cardinality(Newer(k)')
  <2>1. k # n + 1
    <3>1. \A r \in meant : r.call \in 1..n
      BY DEF PageInv, MeantOK
    <3> QED
      BY <1>2, <1>6, <1>8, <1>12, <3>1
  <2>2. k \in 1..n /\ logRows'[k] = logRows[k]
    BY <1>8, <1>9, <2>1
  <2>3. InWindow(logRows[k])
    <3>1. logRows'[k].at >= epoch' - WindowLen
      BY <1>12 DEF InWindow
    <3> QED
      BY <1>1, <2>2, <3>1 DEF InWindow
  <2>4. ASSUME NEW j \in Newer(k) PROVE j \in Newer(k)'
    <3>1. j \in 1..n /\ logRows'[j] = logRows[j]
      BY <1>8 DEF Newer
    <3>2. j \in 1..Len(logRows')
      BY <1>2, <1>8, <3>1
    <3>3. Chosen(logRows[j], filter) /\ NewestFirst(j, k)
      BY DEF Newer
    <3>4. Chosen(logRows[j], filter)'
      BY <1>1, <3>1, <3>3 DEF Chosen, InWindow
    <3>5. NewestFirst(j, k)'
      BY <2>2, <3>1, <3>3 DEF NewestFirst
    <3> QED
      BY <3>2, <3>4, <3>5 DEF Newer
  <2>5. Newer(k)' \in SUBSET (1..(n + 1)) /\ n + 1 \in Nat
    BY <1>2, <1>8 DEF Newer
  <2>6. IsFiniteSet(Newer(k)') /\ Newer(k) \in SUBSET Newer(k)'
    BY <2>4, <2>5, RowsFinite
  <2>7. Cardinality(Newer(k)) <= Cardinality(Newer(k)')
    BY <2>6, SmallerSet
  <2> QED
    BY <2>2, <2>3, <2>7
<1>13. AheadOfHim' /\ PagesMissNothing'
  BY <1>1, <1>10, <1>12, LogMoves
<1>14. ReaderOK'
  BY <1>1 DEF PageInv, ReaderOK
<1> QED
  BY <1>10, <1>11, <1>13, <1>14 DEF PageInv

\* Where a row of the log was before an answer was taken back.
Was(k, j) == IF j < k THEN j ELSE IF j < Len(logRows) THEN j + 1 ELSE k

\* Where a row of the log goes then: its successor comes last.
Goes(k, j) == IF j < k THEN j ELSE IF j = k THEN Len(logRows) ELSE j - 1

LEMMA Positions ==
  ASSUME Len(logRows) \in Nat, NEW k \in 1..Len(logRows)
  PROVE  /\ \A j \in 1..Len(logRows) : Was(k, j) \in 1..Len(logRows) /\ Goes(k, j) \in 1..Len(logRows)
         /\ \A i, j \in 1..Len(logRows) : Was(k, i) = Was(k, j) => i = j
         /\ \A i, j \in 1..Len(logRows) : Goes(k, i) = Goes(k, j) => i = j
         /\ \A j \in 1..Len(logRows) : Was(k, Goes(k, j)) = j /\ Goes(k, Was(k, j)) = j
         /\ \A j \in 1..Len(logRows) : j # k => Goes(k, j) < Len(logRows)
         /\ \A j \in 1..Len(logRows) : j # Len(logRows) => Was(k, j) # k
         /\ \A i, j \in 1..Len(logRows) : i # k /\ j # k /\ i > j => Goes(k, i) > Goes(k, j)
  BY DEF Was, Goes

\* Taking back an answer: the other rows stay, in their order, and its new row comes last.
LEMMA TakenBackLog ==
  ASSUME LogOK, NEW k \in 1..Len(logRows), NEW at \in 0..PageClockMax, TakeBack(k, at)
  PROVE  /\ LogOK' /\ Len(logRows') = Len(logRows)
         /\ \A j \in 1..Len(logRows) : j # k => logRows'[Goes(k, j)] = logRows[j]
         /\ \A j \in 1..Len(logRows) : j # Len(logRows) => logRows'[j] = logRows[Was(k, j)]
         /\ logRows'[Len(logRows)].call = logRows[k].call
         /\ logRows'[Len(logRows)].at = at /\ ~logRows'[Len(logRows)].ok
<1> DEFINE n == Len(logRows)
           seenAgain == Row(logRows[k].call, at, Routeless, FALSE)
           T == [call : 1..MaxCalls, at : 0..PageClockMax, route : CallRoutes \cup {Routeless}, ok : BOOLEAN]
           next == [j \in 1..n |-> IF j < k THEN logRows[j] ELSE IF j < n THEN logRows[j + 1] ELSE seenAgain]
<1>1. logRows' = next /\ logRows[k].at <= at /\ at <= epoch /\ epoch' = epoch
  BY DEF TakeBack, MadeAt
<1>2. /\ n \in Nat /\ n <= MaxCalls
      /\ \A j \in 1..n : /\ logRows[j] \in T /\ logRows[j].call \in 1..n /\ logRows[j].call \in 1..MaxCalls
                         /\ logRows[j].at <= epoch
  BY LogTypes DEF LogOK
<1>3. seenAgain \in T /\ seenAgain.call = logRows[k].call /\ seenAgain.at = at /\ ~seenAgain.ok
  BY <1>2 DEF Row
<1>4. \A j \in 1..n : next[j] = IF j < n THEN logRows[Was(k, j)] ELSE seenAgain
  <2> TAKE j \in 1..n
  <2>1. j \in Int /\ n \in Int /\ k \in Int /\ k <= n /\ j <= n
    BY <1>2
  <2>0. next[j] = IF j < k THEN logRows[j] ELSE IF j < n THEN logRows[j + 1] ELSE seenAgain
    OBVIOUS
  <2>5. (j < k => j < n) /\ Was(k, j) = IF j < k THEN j ELSE IF j < n THEN j + 1 ELSE k
    BY <2>1 DEF Was
  <2> HIDE DEF next, seenAgain, n
  <2>2. CASE j < k
    BY <2>0, <2>5, <2>2
  <2>3. CASE ~(j < k) /\ j < n
    BY <2>0, <2>5, <2>3
  <2>4. CASE ~(j < n)
    BY <2>0, <2>5, <2>4
  <2> QED
    BY <2>2, <2>3, <2>4
<1>5. \A j \in 1..n : Was(k, j) \in 1..n /\ Goes(k, j) \in 1..n
  BY <1>2, Positions
<1> HIDE DEF T, seenAgain
<1>6. \A j \in 1..n : next[j] \in T
  BY <1>2, <1>3, <1>4, <1>5
<1>7. next \in Seq(T) /\ Len(next) = n
  BY <1>2, <1>6, SeqDef, LenProperties
<1> HIDE DEF next
<1>8. \A j \in 1..n : j # n => logRows'[j] = logRows[Was(k, j)]
  BY <1>1, <1>2, <1>4
<1>9. n \in 1..n /\ logRows'[n] = seenAgain
  BY <1>1, <1>2, <1>4
<1>10. ASSUME NEW j \in 1..n, j # k PROVE logRows'[Goes(k, j)] = logRows[j]
  <2>1. Goes(k, j) \in 1..n /\ Goes(k, j) # n /\ Was(k, Goes(k, j)) = j
    BY <1>2, <1>5, <1>10, Positions
  <2> QED
    BY <1>8, <2>1
<1>11. \A j \in 1..n : logRows'[j].call = logRows[Was(k, j)].call
  <2> TAKE j \in 1..n
  <2>1. CASE j # n
    BY <1>8, <2>1
  <2>2. CASE j = n
    <3>1. Was(k, n) = k
      BY <1>2 DEF Was
    <3> QED
      BY <1>3, <1>9, <2>2, <3>1
  <2> QED
    BY <2>1, <2>2
<1>12. ASSUME NEW i \in 1..n, NEW j \in 1..n, logRows'[i].call = logRows'[j].call PROVE i = j
  <2>1. logRows[Was(k, i)].call = logRows[Was(k, j)].call
    BY <1>11, <1>12
  <2>2. Was(k, i) = Was(k, j)
    BY <1>5, <2>1 DEF LogOK
  <2> QED
    BY <1>2, <2>2, Positions
<1>13. \A j \in 1..n : logRows'[j].call <= n /\ logRows'[j].at <= epoch
  <2> TAKE j \in 1..n
  <2>1. logRows'[j].call <= n
    <3>1. Was(k, j) \in 1..n
      BY <1>5
    <3>2. logRows[Was(k, j)].call \in 1..n
      BY <1>2, <3>1
    <3>3. logRows'[j].call = logRows[Was(k, j)].call
      BY <1>11
    <3> QED
      BY <1>2, <3>2, <3>3
  <2>2. logRows'[j].at <= epoch
    BY <1>1, <1>2, <1>3, <1>5, <1>8, <1>9
  <2> QED
    BY <2>1, <2>2
<1>14. LogOK'
  <2>1. Len(logRows') = n
    BY <1>1, <1>7
  <2> QED
    BY <1>1, <1>2, <1>7, <1>12, <1>13, <2>1 DEF LogOK, T
<1> QED
  BY <1>1, <1>3, <1>7, <1>8, <1>9, <1>10, <1>14

LEMMA TakeBackStep ==
  ASSUME PageInv, NEW k \in 1..Len(logRows), NEW at \in 0..PageClockMax, TakeBack(k, at)
  PROVE  PageInv'
<1> DEFINE n == Len(logRows)
<1>1. LogOK /\ UNCHANGED <<epoch, filter, page, total, sums, shown, meant>>
      /\ takenBack' = (takenBack \/ page > 0) /\ logRows[k].ok /\ logRows[k].at <= at
  BY DEF PageInv, TakeBack
<1>2. /\ n \in Nat /\ epoch \in Int /\ PageClockMax \in Nat /\ WindowLen \in Nat
      /\ \A j \in 1..n : logRows[j].at \in Int
  BY <1>1, LogTypes
<1>3. /\ LogOK' /\ Len(logRows') = n
      /\ \A j \in 1..n : j # k => logRows'[Goes(k, j)] = logRows[j]
      /\ \A j \in 1..n : j # n => logRows'[j] = logRows[Was(k, j)]
      /\ logRows'[n].call = logRows[k].call
      /\ logRows'[n].at = at /\ ~logRows'[n].ok
  BY <1>1, TakenBackLog
<1>4. /\ \A j \in 1..n : Was(k, j) \in 1..n /\ Goes(k, j) \in 1..n
      /\ \A i, j \in 1..n : Goes(k, i) = Goes(k, j) => i = j
      /\ \A j \in 1..n : Goes(k, Was(k, j)) = j
      /\ \A j \in 1..n : j # k => Goes(k, j) < n
      /\ \A j \in 1..n : j # n => Was(k, j) # k
      /\ \A i, j \in 1..n : i # k /\ j # k /\ i > j => Goes(k, i) > Goes(k, j)
  BY <1>2, Positions
<1>5. Goes(k, k) = n /\ n \in 1..n
  BY <1>2 DEF Goes
<1>6. ASSUME NEW r \in meant
      PROVE  /\ r.call \in 1..n /\ (filter = AllRoutes \/ r.route = filter)
             /\ ~r.ok => \E j \in 1..n : logRows'[j] = r
  <2>1. /\ r.call \in 1..n /\ (filter = AllRoutes \/ r.route = filter)
        /\ ~r.ok => \E j \in 1..n : logRows[j] = r
    BY DEF PageInv, MeantOK
  <2>2. ASSUME ~r.ok PROVE \E j \in 1..n : logRows'[j] = r
    <3>1. PICK j \in 1..n : logRows[j] = r
      BY <2>1, <2>2
    <3>2. j # k
      BY <1>1, <2>2, <3>1
    <3> QED
      BY <1>3, <1>4, <3>1, <3>2
  <2> QED
    BY <2>1, <2>2
<1>7. MeantOK'
  BY <1>1, <1>3, <1>6 DEF MeantOK
<1>8. logRows'[n] \notin meant
  <2> SUFFICES ASSUME logRows'[n] \in meant PROVE FALSE
    OBVIOUS
  <2>1. PICK j \in 1..n : logRows[j] = logRows'[n]
    BY <1>3 DEF PageInv, MeantOK
  <2>2. j = k
    BY <1>1, <1>3, <2>1 DEF LogOK
  <2> QED
    BY <1>1, <1>3, <2>1, <2>2
<1>9. ASSUME NEW i \in 1..Len(logRows'), logRows'[i] \in meant, InWindow(logRows[i])'
      PROVE  \E j \in 1..n :
               /\ logRows[j] = logRows'[i] /\ InWindow(logRows[j])
               /\ page > 0 /\ (takenBack' => filter = AllRoutes) =>
                    Cardinality(Newer(j)) <= Cardinality(Newer(i)')
  <2>1. i \in 1..n /\ i # n
    BY <1>3, <1>8, <1>9
  <2> DEFINE j == Was(k, i)
  <2>2. j \in 1..n /\ j # k /\ logRows[j] = logRows'[i] /\ Goes(k, j) = i
    BY <1>3, <1>4, <2>1
  <2> HIDE DEF j
  <2>3. logRows[j].at >= epoch - WindowLen
    <3>1. logRows'[i].at >= epoch' - WindowLen
      BY <1>9 DEF InWindow
    <3> QED
      BY <1>1, <2>2, <3>1
  <2>4. ASSUME page > 0, takenBack' => filter = AllRoutes
        PROVE  Cardinality(Newer(j)) <= Cardinality(Newer(i)')
    <3> DEFINE f == [m \in Newer(j) |-> Goes(k, m)]
    <3>1. filter = AllRoutes /\ filter' = AllRoutes
      BY <1>1, <2>4
    <3>2. ASSUME NEW m \in Newer(j) PROVE Goes(k, m) \in Newer(i)'
      <4>1. m \in 1..n /\ NewestFirst(m, j) /\ InWindow(logRows[m])
        BY DEF Newer, Chosen
      <4>2. Goes(k, m) \in 1..n
        BY <1>4, <4>1
      <4>3. CASE m = k
        <5>1. Goes(k, m) = n
          BY <1>5, <4>3
        <5>2. at >= logRows[j].at /\ at \in Int
          BY <1>1, <1>2, <2>2, <4>1, <4>3 DEF NewestFirst
        <5>3. n > i
          BY <1>4, <2>2
        <5>4. logRows'[n].at > logRows'[i].at \/ (logRows'[n].at = logRows'[i].at /\ n > i)
          BY <1>2, <1>3, <2>2, <5>2, <5>3
        <5>5. logRows'[n].at >= epoch' - WindowLen
          BY <1>1, <1>2, <1>3, <2>2, <2>3, <5>2
        <5> QED
          BY <1>3, <3>1, <4>2, <5>1, <5>4, <5>5 DEF Newer, Chosen, InWindow, NewestFirst
      <4>4. CASE m # k
        <5>1. logRows'[Goes(k, m)] = logRows[m]
          BY <1>3, <4>1, <4>4
        <5>2. m > j => Goes(k, m) > i
          BY <1>4, <2>2, <4>1, <4>4
        <5>3. logRows'[Goes(k, m)].at > logRows'[i].at
              \/ (logRows'[Goes(k, m)].at = logRows'[i].at /\ Goes(k, m) > i)
          BY <2>2, <4>1, <5>1, <5>2 DEF NewestFirst
        <5>4. logRows'[Goes(k, m)].at >= epoch' - WindowLen
          BY <1>1, <4>1, <5>1 DEF InWindow
        <5> QED
          BY <1>3, <3>1, <4>2, <5>3, <5>4 DEF Newer, Chosen, InWindow, NewestFirst
      <4> QED
        BY <4>3, <4>4
    <3>3. Newer(j) \in SUBSET (1..n) /\ Newer(i)' \in SUBSET (1..n)
      BY <1>3 DEF Newer
    <3>4. \A a, b \in Newer(j) : Goes(k, a) = Goes(k, b) => a = b
      BY <1>4, <3>3
    <3>5. f \in Injection(Newer(j), Newer(i)')
      BY <3>2, <3>4 DEF Injection, IsInjective
    <3>6. IsFiniteSet(Newer(i)')
      BY <1>2, <3>3, RowsFinite
    <3> HIDE DEF f
    <3> QED
      BY <3>5, <3>6, FS_Injection
  <2>5. InWindow(logRows[j])
    BY <2>3 DEF InWindow
  <2> QED
    BY <2>2, <2>4, <2>5
<1>10. takenBack => takenBack'
  BY <1>1
<1>11. AheadOfHim' /\ PagesMissNothing'
  BY <1>1, <1>3, <1>9, <1>10, LogMoves
<1>12. ReaderOK'
  <2>1. takenBack' \in BOOLEAN
    BY <1>1 DEF PageInv, ReaderOK
  <2> QED
    BY <1>1, <2>1 DEF PageInv, ReaderOK
<1> QED
  BY <1>3, <1>7, <1>11, <1>12 DEF PageInv

(***************************************************************************)
(* Pages.                                                                  *)
(***************************************************************************)

\* The numbers above a page fit together.
LEMMA SumsFit ==
  ASSUME LogOK, NEW F \in SUBSET (1..Len(logRows)), NEW s \in SumsOf(F)
  PROVE  s.success <= s.requests /\ s.requests <= Cardinality(F)
<1> DEFINE of(b) == {k \in F : logRows[k].at \div BucketLen = b}
           good(b) == {k \in of(b) : logRows[k].ok}
<1>1. PICK b : s = [bucket |-> b, requests |-> Cardinality(of(b)), success |-> Cardinality(good(b))]
  BY DEF SumsOf
<1>2. s.requests = Cardinality(of(b)) /\ s.success = Cardinality(good(b))
  BY <1>1
<1>3. good(b) \in SUBSET of(b) /\ of(b) \in SUBSET F
  OBVIOUS
<1> HIDE DEF of, good
<1>4. Len(logRows) \in Nat
  BY LogTypes
<1>5. IsFiniteSet(F) /\ IsFiniteSet(of(b))
  BY <1>3, <1>4, RowsFinite
<1>6. Cardinality(good(b)) <= Cardinality(of(b)) /\ Cardinality(of(b)) <= Cardinality(F)
  BY <1>3, <1>5, SmallerSet
<1> QED
  BY <1>2, <1>6

\* A page is shown: what is not on the pages up to it comes after them.
LEMMA ShowKeeps ==
  ASSUME LogOK, NEW route, NEW p \in Nat \ {0},
         Show(p, route), filter' = route, UNCHANGED <<epoch, logRows>>,
         {logRows[k].call : k \in PageOf(p, route)} \subseteq shown',
         \A r \in meant' : route = AllRoutes \/ r.route = route,
         (takenBack' => route = AllRoutes) =>
           \A k \in 1..Len(logRows) : logRows[k] \in meant' /\ InWindow(logRows[k]) =>
             logRows[k].call \in shown' \/ Place(k, route) >= (p - 1) * PageSize
  PROVE  /\ AheadOfHim' /\ PagesMissNothing' /\ total' \in 0..MaxCalls
         /\ \A s \in sums' : s.success <= s.requests /\ s.requests <= total'
<1>1. page' = p /\ total' = Cardinality(FoundRows(route)) /\ sums' = SumsOf(FoundRows(route))
  BY DEF Show
<1>2. FoundRows(route) \in SUBSET (1..Len(logRows)) /\ Len(logRows) \in Nat
  BY FoundInLog, LogTypes
<1>3. total' \in 0..MaxCalls
  <2>1. Cardinality(FoundRows(route)) \in Nat /\ Cardinality(FoundRows(route)) <= Len(logRows)
        /\ Len(logRows) <= MaxCalls /\ MaxCalls \in Nat
    BY <1>2, RowsFinite, LogTypes DEF LogOK
  <2> QED
    BY <1>1, <1>2, <2>1
<1>4. ASSUME takenBack' => route = AllRoutes, NEW k \in 1..Len(logRows),
             logRows[k] \in meant', InWindow(logRows[k])
      PROVE  /\ logRows[k].call \in shown' \/ Place(k, route) >= p * PageSize
             /\ total' <= p * PageSize => logRows[k].call \in shown'
  <2>1. logRows[k].call \in shown' \/ Place(k, route) >= (p - 1) * PageSize
    BY <1>4
  <2>2. k \in FoundRows(route)
    BY <1>4 DEF FoundRows, Chosen
  <2>3. Place(k, route) \in Nat /\ Place(k, route) < total'
    BY <1>1, <2>2, PlaceInside
  <2>4. PageSize \in Nat /\ p * PageSize \in Int
    BY CallAssumption
  <2>5. (p - 1) * PageSize <= Place(k, route) /\ Place(k, route) < p * PageSize
          => logRows[k].call \in shown'
    BY <2>2 DEF PageOf
  <2>6. (p - 1) * PageSize \in Int
    BY <2>4
  <2> HIDE DEF Place
  <2>7. logRows[k].call \in shown' \/ Place(k, route) >= p * PageSize
    BY <2>1, <2>3, <2>4, <2>5, <2>6
  <2>8. total' \in Int
    BY <1>3
  <2>9. total' <= p * PageSize => ~(Place(k, route) >= p * PageSize)
    BY <2>3, <2>4, <2>8
  <2> QED
    BY <2>7, <2>9
<1>5. ASSUME NEW k \in 1..Len(logRows) PROVE Newer(k)' = {j \in FoundRows(route) : NewestFirst(j, k)}
  BY DEF Newer, FoundRows, Chosen, InWindow, NewestFirst
<1>6. ASSUME NEW k \in 1..Len(logRows) PROVE Cardinality(Newer(k)') = Place(k, route)
  BY <1>5 DEF Place
<1>7. \A k \in 1..Len(logRows) : InWindow(logRows[k])' <=> InWindow(logRows[k])
  BY DEF InWindow
<1>8. AheadOfHim'
  BY <1>1, <1>4, <1>6, <1>7 DEF AheadOfHim
<1>9. PagesMissNothing'
  <2>1. ~MorePages' => total' <= p * PageSize
    <3>1. PageSize \in Nat /\ p * PageSize \in Int
      BY CallAssumption
    <3>2. total' \in Int
      BY <1>3
    <3> QED
      BY <1>1, <3>1, <3>2 DEF MorePages
  <2> QED
    BY <1>4, <1>7, <2>1 DEF PagesMissNothing
<1>10. \A s \in sums' : s.success <= s.requests /\ s.requests <= total'
  BY <1>1, <1>2, SumsFit
<1> QED
  BY <1>3, <1>8, <1>9, <1>10

LEMMA CallsShown ==
  ASSUME LogOK, NEW route, NEW p
  PROVE  {logRows[k].call : k \in PageOf(p, route)} \subseteq 1..MaxCalls
<1>1. ASSUME NEW k \in PageOf(p, route) PROVE logRows[k].call \in 1..MaxCalls
  <2>1. k \in 1..Len(logRows)
    BY DEF PageOf, FoundRows
  <2> QED
    BY <2>1, LogTypes
<1> QED
  BY <1>1

LEMMA FirstPageStep ==
  ASSUME PageInv, NEW route \in CallRoutes \cup {AllRoutes}, FirstPage(route)
  PROVE  PageInv'
<1>1. /\ LogOK /\ page = 0 /\ filter' = route /\ Show(1, route)
      /\ shown' = {logRows[k].call : k \in PageOf(1, route)}
      /\ meant' = {logRows[k] : k \in FoundRows(route)}
      /\ UNCHANGED <<epoch, logRows>> /\ takenBack' \in BOOLEAN
  BY DEF PageInv, ReaderOK, FirstPage
<1>2. ASSUME NEW r \in meant'
      PROVE  /\ r.call \in 1..Len(logRows) /\ (route = AllRoutes \/ r.route = route)
             /\ \E k \in 1..Len(logRows) : logRows[k] = r
  <2>1. PICK k \in FoundRows(route) : r = logRows[k]
    BY <1>1
  <2>2. k \in 1..Len(logRows) /\ (route = AllRoutes \/ r.route = route)
    BY <2>1 DEF FoundRows, Chosen
  <2> QED
    BY <1>1, <2>1, <2>2, LogTypes
<1>3. MeantOK'
  BY <1>1, <1>2 DEF MeantOK
<1>4. ASSUME NEW k \in 1..Len(logRows), logRows[k] \in meant', InWindow(logRows[k])
      PROVE  Place(k, route) >= (1 - 1) * PageSize
  <2>1. k \in FoundRows(route)
    BY <1>2, <1>4 DEF FoundRows, Chosen
  <2>2. Place(k, route) \in Nat /\ PageSize \in Nat
    BY <1>1, <2>1, PlaceInside, CallAssumption
  <2>3. (1 - 1) * PageSize = 0
    BY <2>2
  <2> QED
    BY <2>2, <2>3
<1>5. 1 \in Nat \ {0}
  OBVIOUS
<1>6. /\ AheadOfHim' /\ PagesMissNothing' /\ total' \in 0..MaxCalls
      /\ \A s \in sums' : s.success <= s.requests /\ s.requests <= total'
  BY <1>1, <1>2, <1>4, <1>5, ShowKeeps
<1>7. page' = 1 /\ shown' \subseteq 1..MaxCalls
  BY <1>1, CallsShown DEF Show
<1>8. ReaderOK'
  BY <1>1, <1>6, <1>7 DEF ReaderOK
<1>9. LogOK'
  BY <1>1 DEF LogOK
<1> QED
  BY <1>3, <1>6, <1>8, <1>9 DEF PageInv

LEMMA NextPageStep == PageInv /\ NextPage => PageInv'
<1> SUFFICES ASSUME PageInv, NextPage PROVE PageInv'
  OBVIOUS
<1>1. /\ LogOK /\ page > 0 /\ page \in Nat /\ Show(page + 1, filter)
      /\ shown' = shown \cup {logRows[k].call : k \in PageOf(page + 1, filter)}
      /\ UNCHANGED <<epoch, logRows, filter, meant, takenBack>>
      /\ filter \in CallRoutes \cup {AllRoutes} /\ takenBack \in BOOLEAN /\ shown \subseteq 1..MaxCalls
  BY DEF PageInv, ReaderOK, NextPage
<1>2. PICK route : route = filter
  OBVIOUS
<1>3. PICK p \in Nat \ {0} : p = page + 1
  BY <1>1
<1>4. MeantOK'
  BY <1>1 DEF PageInv, MeantOK
<1>5. \A r \in meant' : route = AllRoutes \/ r.route = route
  BY <1>1, <1>2 DEF PageInv, MeantOK
<1>6. ASSUME takenBack' => route = AllRoutes, NEW k \in 1..Len(logRows),
             logRows[k] \in meant', InWindow(logRows[k])
      PROVE  logRows[k].call \in shown' \/ Place(k, route) >= (p - 1) * PageSize
  <2>1. logRows[k].call \in shown \/ Cardinality(Newer(k)) >= page * PageSize
    BY <1>1, <1>2, <1>6 DEF PageInv, AheadOfHim
  <2>2. Newer(k) = {j \in FoundRows(route) : NewestFirst(j, k)}
    BY <1>2 DEF Newer, FoundRows
  <2>3. p - 1 = page
    BY <1>1, <1>3
  <2> QED
    BY <1>1, <2>1, <2>2, <2>3 DEF Place
<1>7. Show(p, route) /\ filter' = route /\ UNCHANGED <<epoch, logRows>>
      /\ {logRows[k].call : k \in PageOf(p, route)} \subseteq shown'
  BY <1>1, <1>2, <1>3
<1>8. /\ AheadOfHim' /\ PagesMissNothing' /\ total' \in 0..MaxCalls
      /\ \A s \in sums' : s.success <= s.requests /\ s.requests <= total'
  BY <1>1, <1>5, <1>6, <1>7, ShowKeeps
<1>9. page' = p /\ shown' \subseteq 1..MaxCalls
  BY <1>1, <1>2, <1>3, <1>7, CallsShown DEF Show
<1>10. ReaderOK'
  BY <1>1, <1>8, <1>9 DEF ReaderOK
<1>11. LogOK'
  BY <1>1 DEF LogOK
<1> QED
  BY <1>4, <1>8, <1>10, <1>11 DEF PageInv

LEMMA PageStart == PageInit => PageInv
<1> SUFFICES ASSUME PageInit PROVE PageInv
  OBVIOUS
<1>1. epoch = 0 /\ logRows = <<>> /\ filter = AllRoutes /\ page = 0 /\ total = 0 /\ sums = {}
      /\ shown = {} /\ meant = {} /\ takenBack = FALSE
  BY DEF PageInit
<1>2. 0 \in 0..PageClockMax /\ 0 \in 0..MaxCalls /\ 0 <= MaxCalls
  BY CallAssumption
<1>3. Len(<<>>) = 0 /\ \A T : <<>> \in Seq(T)
  OBVIOUS
<1>4. LogOK
  BY <1>1, <1>2, <1>3 DEF LogOK
<1>5. ReaderOK /\ MeantOK
  BY <1>1, <1>2 DEF ReaderOK, MeantOK
<1>6. AheadOfHim /\ PagesMissNothing
  BY <1>1 DEF AheadOfHim, PagesMissNothing
<1> QED
  BY <1>4, <1>5, <1>6 DEF PageInv

LEMMA PageStep == PageInv /\ [PageNext]_pageVars => PageInv'
<1> SUFFICES ASSUME PageInv, [PageNext]_pageVars PROVE PageInv'
  OBVIOUS
<1>1. CASE UNCHANGED pageVars
  <2>1. /\ UNCHANGED <<filter, page, total, sums, shown, meant, takenBack, epoch, logRows>>
    BY <1>1 DEF pageVars
  <2>2. LogOK' /\ ReaderOK' /\ MeantOK'
    BY <2>1 DEF PageInv, LogOK, ReaderOK, MeantOK
  <2>3. PagesMissNothing'
    BY <2>1 DEF PageInv, PagesMissNothing, MorePages, InWindow
  <2>4. AheadOfHim'
    BY <2>1 DEF PageInv, AheadOfHim, Newer, InWindow, Chosen, NewestFirst
  <2> QED
    BY <2>2, <2>3, <2>4 DEF PageInv
<1> QED
  BY <1>1, TickStep, RecordStep, TakeBackStep, FirstPageStep, NextPageStep DEF PageNext

LEMMA PageInvHolds == PageSpec => []PageInv
<1> QED
  BY PageStart, PageStep, PTL DEF PageSpec

(***************************************************************************)
(* PageTypeOK: the shape of the log and of what a page says.               *)
(***************************************************************************)
THEOREM PageTypesCorrect == PageSpec => []PageTypeOK
<1>1. PageInv => PageTypeOK
  <2> SUFFICES ASSUME PageInv PROVE PageTypeOK
    OBVIOUS
  <2>1. LogOK /\ ReaderOK
    BY DEF PageInv
  <2> QED
    BY <2>1, LogTypes DEF ReaderOK, PageTypeOK
<1> QED
  BY <1>1, PageInvHolds, PTL

(***************************************************************************)
(* PagesMissNothing: whoever turns the pages to the last has seen every    *)
(* row that was there when he began and still is, however the log grows,   *)
(* is rewritten and leaves the window meanwhile (usage_by_period).         *)
(***************************************************************************)
THEOREM NothingMissed == PageSpec => []PagesMissNothing
<1>1. PageInv => PagesMissNothing
  BY DEF PageInv
<1> QED
  BY <1>1, PageInvHolds, PTL

=============================================================================
