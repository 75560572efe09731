------------------------------- MODULE RoutingProofs -------------------------------
(***************************************************************************)
(* Theorems about the routes and what is recorded of the requests they     *)
(* serve: the drafts and versions of the Studio, the candidates and the    *)
(* cached answers of a route, the older routes whose targets have          *)
(* priorities, the books that every response closes, the bills of          *)
(* customers, and the rate ceilings of the requests that no route of the   *)
(* Studio takes. The components share nothing: each part below has an      *)
(* inductive invariant and theorems of its own.                            *)
(***************************************************************************)
EXTENDS RouteStudio, RouteAnswers, PriorityRoutes, Books, Customers, LegacyRequests,
        NatSumLemmas, FiniteSetTheorems, SequenceTheorems

-----------------------------------------------------------------------------
(* RouteStudio. Theorems about the routes of the Studio, for any number of routes,
   versions, editors and applications. The invariant adds to the properties what
   makes them inductive: the row holds the content of its last draft, and what an
   editor has open is of a route that was created and of a version that is not
   ahead of the row. *)

DraftStored ==
  \A r \in StudioIds :
    Exists(r) => studio[r].targets = versions[r][studio[r].draft]

CreatedOnly == \A r \in StudioIds : Exists(r) => r <= created

OpenedPast ==
  \A e \in Editors :
    opened[e] # NoRoute =>
      /\ opened[e].route <= created
      /\ Exists(opened[e].route) => opened[e].draft <= studio[opened[e].route].draft

StudioInv ==
  /\ StudioTypeOK
  /\ DraftStored
  /\ CreatedOnly
  /\ OpenedPast
  /\ LiveIsPublished
  /\ VersionTellsContent

-----------------------------------------------------------------------------
LEMMA StudioInitOK == StudioInit => StudioInv
<1> SUFFICES ASSUME StudioInit PROVE StudioInv
  OBVIOUS
<1>1. \A r \in StudioIds : ~ Exists(r)
  BY DEF StudioInit, Exists
<1>2. StudioTypeOK
  BY <1>1, StudioAssumption DEF StudioInit, StudioTypeOK
<1>3. OpenedPast /\ VersionTellsContent
  BY DEF StudioInit, OpenedPast, VersionTellsContent
<1> QED
  BY <1>1, <1>2, <1>3 DEF StudioInv, DraftStored, CreatedOnly, LiveIsPublished

\* What the rows and the open routes are made of.
LEMMA RowFields ==
  ASSUME StudioTypeOK
  PROVE  /\ \A r \in StudioIds : Exists(r) =>
              /\ studio[r] \in StudioRow
              /\ studio[r].name \in Names /\ studio[r].draft \in Drafts
              /\ studio[r].published \in 0..MaxDrafts /\ studio[r].targets \in Targets
              /\ studio[r].draft \in Nat
         /\ \A e \in Editors : opened[e] # NoRoute =>
              /\ opened[e] \in Snapshot
              /\ opened[e].route \in StudioIds /\ opened[e].draft \in Drafts
              /\ opened[e].draft \in Nat /\ opened[e].route \in Nat
<1>1. \A r \in StudioIds : Exists(r) => studio[r] \in StudioRow
  BY DEF StudioTypeOK, Exists
<1>2. \A e \in Editors : opened[e] # NoRoute => opened[e] \in Snapshot
  BY DEF StudioTypeOK
<1>3. Drafts \subseteq Nat /\ StudioIds \subseteq Nat
  BY StudioAssumption DEF Drafts, StudioIds
<1> QED
  BY <1>1, <1>2, <1>3 DEF StudioRow, Snapshot

-----------------------------------------------------------------------------
\* Publish, archive and restore change the status of a row and what is published
\* of it, never its content; a row that is made active publishes its draft.
LEMMA RelabelStep ==
  ASSUME StudioInv, NEW r \in StudioIds, Exists(r),
         NEW line \in StudioRow, line.name = studio[r].name,
         line.draft = studio[r].draft, line.targets = studio[r].targets,
         line.status = "active" => line.published = line.draft,
         studio' = [studio EXCEPT ![r] = line],
         UNCHANGED <<created, versions, opened, default>>
  PROVE  StudioInv'
<1> USE DEF StudioInv
<1>0. line # NoRoute
  BY NoRouteAssumption
<1>1. /\ studio' \in [StudioIds -> StudioRow \cup {NoRoute}]
      /\ studio'[r] = line /\ \A q \in StudioIds : q # r => studio'[q] = studio[q]
  BY DEF StudioTypeOK
<1>2. \A q \in StudioIds :
        /\ Exists(q)' <=> Exists(q)
        /\ Exists(q) => /\ studio'[q].name = studio[q].name
                        /\ studio'[q].draft = studio[q].draft
                        /\ studio'[q].targets = studio[q].targets
  BY <1>0, <1>1 DEF Exists
<1>3. StudioTypeOK'
  BY <1>1, <1>2 DEF StudioTypeOK
<1>4. DraftStored' /\ CreatedOnly'
  BY <1>2 DEF DraftStored, CreatedOnly
<1>5. OpenedPast' /\ VersionTellsContent'
  <2> SUFFICES ASSUME NEW e \in Editors, opened'[e] # NoRoute
               PROVE  LET q == opened'[e].route IN
                      /\ q <= created'
                      /\ studio'[q] # NoRoute => opened'[e].draft <= studio'[q].draft
                      /\ studio'[q] # NoRoute /\ studio'[q].draft = opened'[e].draft
                           => studio'[q].targets = opened'[e].targets
    BY DEF OpenedPast, VersionTellsContent, Exists
  <2>1. opened[e].route \in StudioIds
    BY RowFields
  <2> QED
    BY <1>2, <2>1 DEF OpenedPast, VersionTellsContent, Exists
<1>6. LiveIsPublished'
  <2> SUFFICES ASSUME NEW q \in StudioIds, Exists(q)', studio'[q].status = "active"
               PROVE  /\ studio'[q].published # 0
                      /\ studio'[q].targets = versions'[q][studio'[q].published]
    BY DEF LiveIsPublished
  <2>1. CASE q = r
    <3>1. line.published = studio[r].draft /\ studio[r].draft # 0
      BY <2>1, <1>1, StudioAssumption, RowFields DEF Drafts
    <3>2. studio[r].targets = versions[r][studio[r].draft]
      BY DEF DraftStored
    <3> QED
      BY <2>1, <3>1, <3>2, <1>1
  <2>2. CASE q # r
    BY <2>2, <1>1, <1>2 DEF LiveIsPublished
  <2> QED
    BY <2>1, <2>2
<1> QED
  BY <1>3, <1>4, <1>5, <1>6

LEMMA StatusStep ==
  ASSUME StudioInv, NEW r \in StudioIds, Publish(r) \/ Archive(r) \/ Restore(r)
  PROVE  StudioInv'
<1>0. /\ Exists(r) /\ studio[r] \in StudioRow
      /\ UNCHANGED <<created, versions, opened, default>>
  BY RowFields DEF StudioInv, Publish, Archive, Restore
<1>1. CASE Publish(r)
  <2> DEFINE line == [studio[r] EXCEPT !.published = studio[r].draft, !.status = "active"]
  <2>1. studio[r].draft \in 0..MaxDrafts
    BY <1>0, StudioAssumption, RowFields DEF StudioInv, Drafts
  <2>2. /\ line \in StudioRow /\ line.name = studio[r].name
        /\ line.draft = studio[r].draft /\ line.targets = studio[r].targets
        /\ line.published = line.draft
    BY <1>0, <2>1 DEF StudioRow
  <2>3. studio' = [studio EXCEPT ![r] = line]
    BY <1>1 DEF Publish
  <2> HIDE DEF line
  <2> QED
    BY <1>0, <2>2, <2>3, RelabelStep
<1>2. CASE Archive(r)
  <2> DEFINE line == [studio[r] EXCEPT !.status = "archived"]
  <2>1. /\ line \in StudioRow /\ line.name = studio[r].name
        /\ line.draft = studio[r].draft /\ line.targets = studio[r].targets
        /\ line.status # "active"
    BY <1>0 DEF StudioRow
  <2>2. studio' = [studio EXCEPT ![r] = line]
    BY <1>2 DEF Archive
  <2> HIDE DEF line
  <2> QED
    BY <1>0, <2>1, <2>2, RelabelStep
<1>3. CASE Restore(r)
  <2> DEFINE line == [studio[r] EXCEPT !.status = "draft"]
  <2>1. /\ line \in StudioRow /\ line.name = studio[r].name
        /\ line.draft = studio[r].draft /\ line.targets = studio[r].targets
        /\ line.status # "active"
    BY <1>0 DEF StudioRow
  <2>2. studio' = [studio EXCEPT ![r] = line]
    BY <1>3 DEF Restore, Restored
  <2> HIDE DEF line
  <2> QED
    BY <1>0, <2>1, <2>2, RelabelStep
<1> QED
  BY <1>1, <1>2, <1>3

-----------------------------------------------------------------------------
\* The new row is of an id that nobody has open, under a name nobody has.
LEMMA CreateStep ==
  ASSUME StudioInv, NEW n \in Names, NEW t \in Targets, CreateStudioRoute(n, t)
  PROVE  StudioInv'
<1> DEFINE r == created + 1
           line == [name |-> n, draft |-> 1, published |-> 0,
                   status |-> "draft", targets |-> t]
<1> USE DEF StudioInv
<1>0. /\ r \in StudioIds /\ created' = r /\ created' \in 0..MaxRoutes
      /\ opened' = opened /\ default' = default /\ created \in Nat
  BY StudioAssumption DEF CreateStudioRoute, StudioIds, StudioTypeOK
<1>1. line \in StudioRow /\ line # NoRoute
  <2>1. 1 \in Drafts /\ 0 \in 0..MaxDrafts
    BY StudioAssumption DEF Drafts
  <2>2. line \in StudioRow
    BY <2>1 DEF StudioRow
  <2> QED
    BY <2>2, NoRouteAssumption
<1>2. line.name = n /\ line.draft = 1 /\ line.targets = t /\ line.status = "draft"
  OBVIOUS
<1>3. /\ studio' = [studio EXCEPT ![r] = line]
      /\ \A q \in StudioIds : Exists(q) => studio[q].name # n
      /\ versions' = [versions EXCEPT ![r] = [versions[r] EXCEPT ![1] = t]]
  BY DEF CreateStudioRoute
<1> HIDE DEF line
<1>4. ~ Exists(r)
  BY <1>0 DEF CreatedOnly
<1>5. /\ studio' \in [StudioIds -> StudioRow \cup {NoRoute}]
      /\ studio'[r] = line /\ studio'[r] # NoRoute
      /\ \A q \in StudioIds : q # r => studio'[q] = studio[q]
  <2> HIDE DEF r
  <2> QED
    BY <1>0, <1>1, <1>3 DEF StudioTypeOK
<1>6. /\ versions' \in [StudioIds -> [Drafts -> Targets \cup {NoTargets}]]
      /\ versions'[r][1] = t
      /\ \A q \in StudioIds : q # r => versions'[q] = versions[q]
  <2>1. versions[r] \in [Drafts -> Targets \cup {NoTargets}] /\ 1 \in Drafts
    BY <1>0, StudioAssumption DEF StudioTypeOK, Drafts
  <2> DEFINE list == [versions[r] EXCEPT ![1] = t]
  <2>2. list \in [Drafts -> Targets \cup {NoTargets}] /\ list[1] = t
    BY <2>1
  <2>3. versions' = [versions EXCEPT ![r] = list]
    BY <1>3
  <2> HIDE DEF list
  <2> QED
    BY <1>0, <2>2, <2>3 DEF StudioTypeOK
<1>7. StudioTypeOK'
  <2>1. \A p, q \in StudioIds :
          Exists(p)' /\ Exists(q)' /\ studio'[p].name = studio'[q].name => p = q
    BY <1>2, <1>3, <1>5 DEF StudioTypeOK, Exists
  <2> QED
    BY <1>0, <1>5, <1>6, <2>1 DEF StudioTypeOK
<1>8. DraftStored' /\ CreatedOnly' /\ LiveIsPublished'
  <2> SUFFICES ASSUME NEW q \in StudioIds, Exists(q)'
               PROVE  /\ studio'[q].targets = versions'[q][studio'[q].draft]
                      /\ q <= created'
                      /\ studio'[q].status = "active" =>
                           /\ studio'[q].published # 0
                           /\ studio'[q].targets = versions'[q][studio'[q].published]
    BY DEF DraftStored, CreatedOnly, LiveIsPublished
  <2>1. CASE q = r
    BY <2>1, <1>0, <1>2, <1>5, <1>6
  <2>2. CASE q # r
    <3>1. q <= created /\ q \in Nat
      BY <2>2, <1>5, StudioAssumption DEF CreatedOnly, StudioIds, Exists
    <3>2. q <= created'
      BY <3>1, <1>0
    <3> HIDE DEF r
    <3> QED
      BY <2>2, <3>2, <1>5, <1>6 DEF DraftStored, LiveIsPublished, Exists
  <2> QED
    BY <2>1, <2>2
<1>9. OpenedPast' /\ VersionTellsContent'
  <2> SUFFICES ASSUME NEW e \in Editors, opened[e] # NoRoute
               PROVE  LET q == opened[e].route IN
                      /\ q <= created'
                      /\ studio'[q] # NoRoute => opened[e].draft <= studio'[q].draft
                      /\ studio'[q] # NoRoute /\ studio'[q].draft = opened[e].draft
                           => studio'[q].targets = opened[e].targets
    BY <1>0 DEF OpenedPast, VersionTellsContent, Exists
  <2>1. opened[e].route \in StudioIds /\ opened[e].route \in Nat
    BY RowFields
  <2>2. opened[e].route <= created
    BY DEF OpenedPast
  <2>3. opened[e].route # r /\ opened[e].route <= created'
    BY <2>1, <2>2, <1>0
  <2> QED
    BY <2>1, <2>3, <1>5 DEF OpenedPast, VersionTellsContent, Exists
<1> QED
  BY <1>7, <1>8, <1>9

\* An editor takes the row as it is.
LEMMA OpenStep ==
  ASSUME StudioInv, NEW e \in Editors, NEW r \in StudioIds, OpenRoute(e, r)
  PROVE  StudioInv'
<1> DEFINE snap == [route |-> r, draft |-> studio[r].draft, targets |-> studio[r].targets]
<1> USE DEF StudioInv
<1>0. /\ Exists(r) /\ UNCHANGED <<created, studio, versions, default>>
      /\ opened' = [opened EXCEPT ![e] = snap]
  BY DEF OpenRoute
<1>1. snap \in Snapshot
  BY <1>0, RowFields DEF Snapshot
<1>2. snap.route = r /\ snap.draft = studio[r].draft /\ snap.targets = studio[r].targets
  OBVIOUS
<1> HIDE DEF snap
<1>3. opened' \in [Editors -> Snapshot \cup {NoRoute}]
  BY <1>0, <1>1 DEF StudioTypeOK
<1>4. opened'[e] = snap /\ \A d \in Editors : d # e => opened'[d] = opened[d]
  BY <1>0 DEF StudioTypeOK
<1>5. StudioTypeOK' /\ DraftStored' /\ CreatedOnly' /\ LiveIsPublished'
  BY <1>0, <1>3 DEF StudioTypeOK, DraftStored, CreatedOnly, LiveIsPublished, Exists
<1>6. OpenedPast'
  <2>1. studio[r].draft <= studio[r].draft /\ r <= created
    BY <1>0, RowFields DEF CreatedOnly
  <2> QED
    BY <1>0, <1>2, <1>4, <2>1 DEF OpenedPast, Exists
<1>7. VersionTellsContent'
  BY <1>0, <1>2, <1>4 DEF VersionTellsContent, Exists
<1> QED
  BY <1>5, <1>6, <1>7

\* A save numbers its content past every version anybody has open, and takes the
\* route out of the traffic.
LEMMA SaveStep ==
  ASSUME StudioInv, NEW r \in StudioIds, NEW t \in Targets, Save(r, t),
         UNCHANGED <<created, default>>,
         opened' \in [Editors -> Snapshot \cup {NoRoute}],
         \A e \in Editors :
           \/ opened'[e] = opened[e]
           \/ /\ opened'[e].route = r /\ opened'[e].draft = NextDraft(r)
              /\ opened'[e].targets = t
  PROVE  StudioInv'
<1> DEFINE v == NextDraft(r)
           line == [studio[r] EXCEPT !.draft = v, !.status = "draft", !.targets = t]
<1> USE DEF StudioInv
<1>0. Exists(r) /\ v \in Drafts /\ v \in Nat /\ v = studio[r].draft + 1
  BY StudioAssumption DEF Save, Drafts, NextDraft
<1>1. studio[r] \in StudioRow /\ studio[r].draft \in Nat /\ r <= created
  BY <1>0, RowFields DEF CreatedOnly
<1>2. /\ line \in StudioRow /\ line.name = studio[r].name
      /\ line.draft = v /\ line.targets = t /\ line.status = "draft"
  <2> HIDE DEF v
  <2> QED
    BY <1>0, <1>1 DEF StudioRow
<1>3. line # NoRoute
  BY <1>2, NoRouteAssumption
<1>4. /\ studio' = [studio EXCEPT ![r] = line]
      /\ versions' = [versions EXCEPT ![r] = [versions[r] EXCEPT ![v] = t]]
  BY DEF Save, Saved
<1> HIDE DEF line
<1>5. /\ studio' \in [StudioIds -> StudioRow \cup {NoRoute}]
      /\ studio'[r] = line
      /\ \A q \in StudioIds : q # r => studio'[q] = studio[q]
      /\ \A q \in StudioIds : Exists(q)' <=> Exists(q)
  BY <1>0, <1>2, <1>3, <1>4 DEF StudioTypeOK, Exists
<1>6. /\ versions' \in [StudioIds -> [Drafts -> Targets \cup {NoTargets}]]
      /\ versions'[r][v] = t
      /\ \A q \in StudioIds : q # r => versions'[q] = versions[q]
  <2>1. versions[r] \in [Drafts -> Targets \cup {NoTargets}]
    BY DEF StudioTypeOK
  <2> DEFINE list == [versions[r] EXCEPT ![v] = t]
  <2>2. list \in [Drafts -> Targets \cup {NoTargets}] /\ list[v] = t
    <3> HIDE DEF v
    <3> QED
      BY <1>0, <2>1
  <2>3. versions' = [versions EXCEPT ![r] = list]
    BY <1>4
  <2> HIDE DEF list, v
  <2> QED
    BY <2>2, <2>3 DEF StudioTypeOK
<1>7. StudioTypeOK'
  <2>1. \A q \in StudioIds : Exists(q) => studio'[q].name = studio[q].name
    BY <1>2, <1>5
  <2> QED
    BY <1>5, <1>6, <2>1 DEF StudioTypeOK
<1>8. DraftStored' /\ CreatedOnly' /\ LiveIsPublished'
  <2> HIDE DEF v
  <2> SUFFICES ASSUME NEW q \in StudioIds, Exists(q)'
               PROVE  /\ studio'[q].targets = versions'[q][studio'[q].draft]
                      /\ q <= created'
                      /\ studio'[q].status = "active" =>
                           /\ studio'[q].published # 0
                           /\ studio'[q].targets = versions'[q][studio'[q].published]
    BY DEF DraftStored, CreatedOnly, LiveIsPublished
  <2>1. CASE q = r
    BY <2>1, <1>1, <1>2, <1>5, <1>6
  <2>2. CASE q # r
    BY <2>2, <1>5, <1>6 DEF DraftStored, CreatedOnly, LiveIsPublished
  <2> QED
    BY <2>1, <2>2
<1>9. OpenedPast' /\ VersionTellsContent'
  <2> SUFFICES ASSUME NEW e \in Editors, opened'[e] # NoRoute
               PROVE  LET q == opened'[e].route IN
                      /\ q <= created'
                      /\ studio'[q] # NoRoute => opened'[e].draft <= studio'[q].draft
                      /\ studio'[q] # NoRoute /\ studio'[q].draft = opened'[e].draft
                           => studio'[q].targets = opened'[e].targets
    BY DEF OpenedPast, VersionTellsContent, Exists
  <2>1. CASE opened'[e] = opened[e]
    <3>1. opened[e].route \in StudioIds /\ opened[e].draft \in Nat
      BY <2>1, RowFields
    <3>2. opened[e].route <= created
      BY <2>1 DEF OpenedPast
    <3>3. CASE opened[e].route = r
      <4>1. opened[e].draft <= studio[r].draft
        BY <2>1, <3>3, <1>0 DEF OpenedPast, Exists
      <4>2. opened[e].draft < v /\ v = studio'[r].draft
        BY <4>1, <3>1, <1>0, <1>1, <1>2, <1>5
      <4> HIDE DEF v
      <4> QED
        BY <2>1, <3>1, <3>2, <3>3, <4>2, <1>0
    <3>4. CASE opened[e].route # r
      <4>1. studio'[opened[e].route] = studio[opened[e].route]
        BY <3>1, <3>4, <1>5
      <4> QED
        BY <2>1, <3>2, <4>1 DEF OpenedPast, VersionTellsContent, Exists
    <3> QED
      BY <3>3, <3>4
  <2>2. CASE /\ opened'[e].route = r /\ opened'[e].draft = v
             /\ opened'[e].targets = t
    <3>1. v <= v
      BY <1>0
    <3> HIDE DEF v
    <3> QED
      BY <2>2, <3>1, <1>1, <1>2, <1>5
  <2> QED
    BY <2>1, <2>2
<1> QED
  BY <1>7, <1>8, <1>9

LEMMA SavesStep ==
  ASSUME StudioInv, NEW t \in Targets,
         \/ \E e \in Editors : SaveOpened(e, t)
         \/ \E r \in StudioIds : SaveBlindly(r, t)
  PROVE  StudioInv'
<1>1. ASSUME NEW e \in Editors, SaveOpened(e, t)
      PROVE  StudioInv'
  <2> DEFINE r == opened[e].route
             snap == [route |-> r, draft |-> NextDraft(r), targets |-> t]
  <2>1. /\ opened[e] # NoRoute /\ Save(r, t) /\ opened' = [opened EXCEPT ![e] = snap]
        /\ UNCHANGED <<created, default>>
    BY <1>1 DEF SaveOpened
  <2>2. r \in StudioIds
    BY <2>1, RowFields DEF StudioInv
  <2>3. NextDraft(r) \in Drafts
    BY <2>1 DEF Save
  <2>4. snap \in Snapshot
    <3> HIDE DEF r
    <3> QED
      BY <2>2, <2>3 DEF Snapshot
  <2>5. snap.route = r /\ snap.draft = NextDraft(r) /\ snap.targets = t
    OBVIOUS
  <2> HIDE DEF snap
  <2>6. opened' \in [Editors -> Snapshot \cup {NoRoute}]
    BY <2>1, <2>4 DEF StudioInv, StudioTypeOK
  <2>7. opened'[e] = snap /\ \A d \in Editors : d # e => opened'[d] = opened[d]
    BY <2>1 DEF StudioInv, StudioTypeOK
  <2>8. \A d \in Editors :
          \/ opened'[d] = opened[d]
          \/ /\ opened'[d].route = r /\ opened'[d].draft = NextDraft(r)
             /\ opened'[d].targets = t
    BY <2>5, <2>7
  <2> HIDE DEF r
  <2> QED
    BY <2>1, <2>2, <2>6, <2>8, SaveStep
<1>2. ASSUME NEW r \in StudioIds, SaveBlindly(r, t)
      PROVE  StudioInv'
  <2>1. Save(r, t) /\ UNCHANGED <<created, opened, default>>
    BY <1>2 DEF SaveBlindly
  <2>2. opened' \in [Editors -> Snapshot \cup {NoRoute}]
    BY <2>1 DEF StudioInv, StudioTypeOK
  <2> QED
    BY <2>1, <2>2, SaveStep
<1> QED
  BY <1>1, <1>2

\* A route that is deleted takes its versions along; its id does not come back.
LEMMA DeleteStep ==
  ASSUME StudioInv, NEW r \in StudioIds, NEW n \in Names, DeleteRoute(r, n)
  PROVE  StudioInv'
<1> DEFINE blank == [v \in Drafts |-> NoTargets]
<1> USE DEF StudioInv
<1>0. /\ studio' = [studio EXCEPT ![r] = NoRoute]
      /\ versions' = [versions EXCEPT ![r] = blank]
      /\ UNCHANGED <<created, opened, default>>
  BY DEF DeleteRoute
<1>1. /\ studio' \in [StudioIds -> StudioRow \cup {NoRoute}]
      /\ ~ Exists(r)'
      /\ \A q \in StudioIds : q # r => studio'[q] = studio[q]
      /\ \A q \in StudioIds : Exists(q)' => Exists(q) /\ q # r
  BY <1>0 DEF StudioTypeOK, Exists
<1>2. /\ versions' \in [StudioIds -> [Drafts -> Targets \cup {NoTargets}]]
      /\ \A q \in StudioIds : q # r => versions'[q] = versions[q]
  <2>1. blank \in [Drafts -> Targets \cup {NoTargets}]
    OBVIOUS
  <2> HIDE DEF blank
  <2> QED
    BY <1>0, <2>1 DEF StudioTypeOK
<1>3. StudioTypeOK'
  BY <1>0, <1>1, <1>2 DEF StudioTypeOK
<1>4. DraftStored' /\ CreatedOnly' /\ LiveIsPublished'
  BY <1>0, <1>1, <1>2 DEF DraftStored, CreatedOnly, LiveIsPublished
<1>5. OpenedPast' /\ VersionTellsContent'
  <2> SUFFICES ASSUME NEW e \in Editors, opened[e] # NoRoute
               PROVE  LET q == opened[e].route IN
                      /\ q <= created'
                      /\ studio'[q] # NoRoute => opened[e].draft <= studio'[q].draft
                      /\ studio'[q] # NoRoute /\ studio'[q].draft = opened[e].draft
                           => studio'[q].targets = opened[e].targets
    BY <1>0 DEF OpenedPast, VersionTellsContent, Exists
  <2>1. opened[e].route \in StudioIds
    BY RowFields
  <2> QED
    BY <2>1, <1>0, <1>1 DEF OpenedPast, VersionTellsContent, Exists
<1> QED
  BY <1>3, <1>4, <1>5

LEMMA StudioStepOK == StudioInv /\ [StudioNext]_studioVars => StudioInv'
<1> SUFFICES ASSUME StudioInv, [StudioNext]_studioVars PROVE StudioInv'
  OBVIOUS
<1> USE DEF StudioInv
<1>1. CASE \E n \in Names, t \in Targets : CreateStudioRoute(n, t)
  BY <1>1, CreateStep
<1>2. CASE \E r \in StudioIds, n \in Names : DuplicateRoute(r, n) \/ DeleteRoute(r, n)
  <2>1. PICK r \in StudioIds, n \in Names : DuplicateRoute(r, n) \/ DeleteRoute(r, n)
    BY <1>2
  <2>2. CASE DuplicateRoute(r, n)
    <3>1. studio[r].targets \in Targets
      BY <2>2, RowFields DEF DuplicateRoute
    <3> QED
      BY <2>2, <3>1, CreateStep DEF DuplicateRoute
  <2> QED
    BY <2>1, <2>2, DeleteStep
<1>3. CASE \E e \in Editors, r \in StudioIds : OpenRoute(e, r)
  BY <1>3, OpenStep
<1>4. CASE \E e \in Editors, t \in Targets : SaveOpened(e, t)
  BY <1>4, SavesStep
<1>5. CASE \E r \in StudioIds, t \in Targets : SaveBlindly(r, t)
  BY <1>5, SavesStep
<1>6. CASE \E r \in StudioIds : Publish(r) \/ Archive(r) \/ Restore(r)
  BY <1>6, StatusStep
<1>7. CASE \E c \in Clients, n \in Names : CreateApplication(c, n)
  <2>1. /\ UNCHANGED <<created, studio, versions, opened>>
        /\ default' \in [Clients -> Names \cup {NoName}]
    BY <1>7 DEF CreateApplication, StudioTypeOK
  <2> QED
    BY <2>1 DEF StudioTypeOK, DraftStored, CreatedOnly, OpenedPast,
         LiveIsPublished, VersionTellsContent, Exists
<1>8. CASE UNCHANGED studioVars
  BY <1>8 DEF studioVars, StudioTypeOK, DraftStored, CreatedOnly, OpenedPast,
       LiveIsPublished, VersionTellsContent, Exists
<1> QED
  BY <1>1, <1>2, <1>3, <1>4, <1>5, <1>6, <1>7, <1>8 DEF StudioNext

LEMMA StudioInvariance == StudioSpec => []StudioInv
BY StudioInitOK, StudioStepOK, PTL DEF StudioSpec

-----------------------------------------------------------------------------
\* The types of the Studio hold in every state, and no two routes share a name.
THEOREM StudioTypesCorrect == StudioSpec => []StudioTypeOK
<1>1. StudioInv => StudioTypeOK
  BY DEF StudioInv
<1> QED
  BY <1>1, StudioInvariance, PTL

\* An active route carries the version that was published, as it was stored:
\* nobody's draft reaches the traffic without a publish.
THEOREM LiveCorrect == StudioSpec => []LiveIsPublished
<1>1. StudioInv => LiveIsPublished
  BY DEF StudioInv
<1> QED
  BY <1>1, StudioInvariance, PTL

\* A version number that still matches means content that still matches, so the
\* comparison of update_route loses nobody's work: ids are not used again and
\* drafts are numbered past all that anybody has open.
THEOREM VersionsCorrect == StudioSpec => []VersionTellsContent
<1>1. StudioInv => VersionTellsContent
  BY DEF StudioInv
<1> QED
  BY <1>1, StudioInvariance, PTL

-----------------------------------------------------------------------------
(* RouteAnswers: cached answers *)

\* The tables are functions of what they are asked for.
AnswerTables ==
  /\ DOMAIN cached = PublicNames \X Payloads
  /\ cached = [k \in PublicNames \X Payloads |-> cached[k]]
  /\ answer = [q \in AskIds |-> answer[q]]

\* An entry was put there by a provider's answer, which the history has.
KeptWasGiven ==
  \A n \in PublicNames, p \in Payloads :
    cached[<<n, p>>] # NoEntry =>
      \E g \in given : /\ g.name = n /\ g.payload = p
                       /\ g.model = cached[<<n, p>>].model /\ g.until = cached[<<n, p>>].expires

AnswerInv == AnswerTables /\ KeptWasGiven /\ HitIsAnswer

LEMMA AnswerInitOK == AnswerInit => AnswerInv
BY DEF AnswerInit, AnswerInv, AnswerTables, KeptWasGiven, HitIsAnswer

\* A reply that did not come from the cache says nothing of it; the history only grows.
LEMMA ReplyOK ==
  ASSUME AnswerInv, NEW q \in AskIds, NEW n, NEW status, NEW from, NEW model, from # "cache",
         Tell(q, n, status, from, model), given \subseteq given'
  PROVE  HitIsAnswer' /\ answer' = [r \in AskIds |-> answer'[r]]
<1>1. /\ answer' = [r \in AskIds |-> answer'[r]] /\ answer'[q].from = from
      /\ \A r \in AskIds \ {q} : answer'[r] = answer[r]
  BY DEF AnswerInv, AnswerTables, Tell
<1>2. ASSUME NEW r \in AskIds, answer'[r] # NoReply, answer'[r].from = "cache"
      PROVE  \E g \in given' : /\ g.name = answer'[r].name /\ g.payload = Said[r].payload
                               /\ g.model = answer'[r].model /\ answer'[r].at < g.until
  <2>1. answer'[r] = answer[r]
    BY <1>1, <1>2
  <2> QED
    BY <1>2, <2>1 DEF AnswerInv, HitIsAnswer
<1> QED
  BY <1>1, <1>2 DEF HitIsAnswer

LEMMA NameOfType ==
  ASSUME NEW q \in AskIds
  PROVE  NameOf(q) \in PublicNames /\ Said[q].payload \in Payloads
BY AnswerAssumption DEF NameOf, Payloads

\* An entry that stays was given as before.
LEMMA EntriesKept ==
  ASSUME AnswerInv, given' = given,
         \A k \in PublicNames \X Payloads : cached'[k] \in {cached[k], NoEntry}
  PROVE  KeptWasGiven'
<1> SUFFICES ASSUME NEW n \in PublicNames, NEW p \in Payloads, cached'[<<n, p>>] # NoEntry
             PROVE  \E g \in given' : /\ g.name = n /\ g.payload = p
                                      /\ g.model = cached'[<<n, p>>].model /\ g.until = cached'[<<n, p>>].expires
  BY DEF KeptWasGiven
<1>1. cached'[<<n, p>>] = cached[<<n, p>>]
  OBVIOUS
<1>2. PICK g \in given : /\ g.name = n /\ g.payload = p
                        /\ g.model = cached[<<n, p>>].model /\ g.until = cached[<<n, p>>].expires
  BY <1>1 DEF AnswerInv, KeptWasGiven
<1> QED
  BY <1>1, <1>2

LEMMA HitCacheStep ==
  ASSUME AnswerInv, NEW q \in AskIds, HitCache(q)
  PROVE  AnswerInv'
<1> USE DEF AnswerInv
<1>1. PICK n \in PublicNames, p \in Payloads :
        /\ p = Said[q].payload /\ cached[<<n, p>>] # NoEntry /\ cached[<<n, p>>].expires > instant
        /\ Tell(q, n, 200, "cache", cached[<<n, p>>].model)
  BY NameOfType DEF HitCache, Entry, Shelf, Fresh
<1>2. UNCHANGED <<instant, offer, cached, walk, given>>
  BY DEF HitCache
<1>3. /\ answer' = [r \in AskIds |-> answer'[r]]
      /\ answer'[q] = [status |-> 200, from |-> "cache", name |-> n, model |-> cached[<<n, p>>].model,
                       at |-> instant]
      /\ \A r \in AskIds \ {q} : answer'[r] = answer[r]
  BY <1>1 DEF AnswerTables, Tell
<1>4. PICK g \in given : /\ g.name = n /\ g.payload = p
                         /\ g.model = cached[<<n, p>>].model /\ g.until = cached[<<n, p>>].expires
  BY <1>1 DEF KeptWasGiven
<1>5. /\ g.name = answer'[q].name /\ g.payload = Said[q].payload
      /\ g.model = answer'[q].model /\ answer'[q].at < g.until
  BY <1>1, <1>3, <1>4
<1>6. HitIsAnswer'
  <2> SUFFICES ASSUME NEW r \in AskIds, answer'[r] # NoReply, answer'[r].from = "cache"
               PROVE  \E h \in given' : /\ h.name = answer'[r].name /\ h.payload = Said[r].payload
                                        /\ h.model = answer'[r].model /\ answer'[r].at < h.until
    BY DEF HitIsAnswer
  <2>1. CASE r = q
    BY <1>2, <1>5, <2>1
  <2>2. CASE r # q
    BY <1>2, <1>3, <2>2 DEF HitIsAnswer
  <2> QED
    BY <2>1, <2>2
<1>7. AnswerTables'
  <2>1. cached' = cached /\ answer' = [r \in AskIds |-> answer'[r]]
    BY <1>2, <1>3
  <2>2. DOMAIN cached = PublicNames \X Payloads /\ cached = [k \in PublicNames \X Payloads |-> cached[k]]
    BY DEF AnswerTables
  <2> QED
    BY <2>1, <2>2 DEF AnswerTables
<1>8. KeptWasGiven'
  <2> SUFFICES ASSUME NEW m \in PublicNames, NEW r \in Payloads, cached'[<<m, r>>] # NoEntry
               PROVE  \E h \in given' : /\ h.name = m /\ h.payload = r
                                        /\ h.model = cached'[<<m, r>>].model
                                        /\ h.until = cached'[<<m, r>>].expires
    BY DEF KeptWasGiven
  <2> QED
    BY <1>2 DEF KeptWasGiven
<1> QED
  BY <1>6, <1>7, <1>8

LEMMA SetOutStep ==
  ASSUME AnswerInv, NEW q \in AskIds, SetOut(q)
  PROVE  AnswerInv'
<1> USE DEF AnswerInv
<1>1. PICK n : /\ UNCHANGED <<instant, offer, answer, given>>
               /\ \/ cached' = cached
                  \/ cached' = [cached EXCEPT ![<<Shelf(n), Said[q].payload>>] = NoEntry]
  BY DEF SetOut
<1>2. /\ DOMAIN cached' = PublicNames \X Payloads
      /\ cached' = [k \in PublicNames \X Payloads |-> cached'[k]]
      /\ \A k \in PublicNames \X Payloads : cached'[k] \in {cached[k], NoEntry}
  BY <1>1 DEF AnswerTables
<1>3. KeptWasGiven'
  BY <1>1, <1>2, EntriesKept
<1> QED
  BY <1>1, <1>2, <1>3 DEF AnswerTables, HitIsAnswer

LEMMA ServeStep ==
  ASSUME AnswerInv, NEW q \in AskIds, NEW m \in LLMs, Serve(q, m)
  PROVE  AnswerInv'
<1> USE DEF AnswerInv
<1>1. PICK w : w = walk[q]
  OBVIOUS
<1>2. given \subseteq given'
  BY DEF Serve
<1>3. \E status, from, model : from # "cache" /\ Tell(q, w.name, status, from, model)
  BY <1>1 DEF Serve
<1>4. HitIsAnswer' /\ answer' = [r \in AskIds |-> answer'[r]]
  BY <1>2, <1>3, ReplyOK
<1>5. CASE w.keeps /\ w.life # Garbled /\ w.life > 0
  <2>1. PICK e, g : /\ e = [model |-> m, expires |-> instant + w.life]
                    /\ g = [name |-> w.name, payload |-> Sent(q), model |-> m, until |-> instant + w.life]
                    /\ cached' = [cached EXCEPT ![<<w.name, Sent(q)>>] = e] /\ g \in given'
    BY <1>1, <1>5 DEF Serve, Shelf, KeyKept
  <2>2. g.name = w.name /\ g.payload = Sent(q) /\ g.model = e.model /\ g.until = e.expires
    BY <2>1
  <2>3. /\ DOMAIN cached' = PublicNames \X Payloads
        /\ cached' = [k \in PublicNames \X Payloads |-> cached'[k]]
        /\ \A k \in PublicNames \X Payloads : cached'[k] = IF k = <<w.name, Sent(q)>> THEN e ELSE cached[k]
    BY <2>1 DEF AnswerTables
  <2>4. ASSUME NEW n \in PublicNames, NEW p \in Payloads, cached'[<<n, p>>] # NoEntry
        PROVE  \E h \in given' : /\ h.name = n /\ h.payload = p
                                 /\ h.model = cached'[<<n, p>>].model /\ h.until = cached'[<<n, p>>].expires
    <3>1. CASE n = w.name /\ p = Sent(q)
      BY <2>1, <2>2, <2>3, <3>1
    <3>2. CASE ~ (n = w.name /\ p = Sent(q))
      <4>1. cached'[<<n, p>>] = cached[<<n, p>>]
        BY <2>3, <3>2
      <4> QED
        BY <1>2, <2>4, <4>1 DEF KeptWasGiven
    <3> QED
      BY <3>1, <3>2
  <2> QED
    BY <1>4, <2>3, <2>4 DEF AnswerTables, KeptWasGiven
<1>6. CASE ~ (w.keeps /\ w.life # Garbled /\ w.life > 0)
  <2>1. cached' = cached
    BY <1>1, <1>6 DEF Serve
  <2>2. KeptWasGiven'
    <3> SUFFICES ASSUME NEW n \in PublicNames, NEW p \in Payloads, cached'[<<n, p>>] # NoEntry
                 PROVE  \E g \in given' : /\ g.name = n /\ g.payload = p
                                          /\ g.model = cached'[<<n, p>>].model
                                          /\ g.until = cached'[<<n, p>>].expires
      BY DEF KeptWasGiven
    <3> QED
      BY <1>2, <2>1 DEF KeptWasGiven
  <2> QED
    BY <1>4, <2>1, <2>2 DEF AnswerTables
<1> QED
  BY <1>5, <1>6

\* The steps that leave the cache alone and answer, if at all, without it
LEMMA OtherAnswerStep ==
  ASSUME AnswerInv,
         \/ AnswerTick
         \/ \E n \in PublicNames : \E o \in Offers[n] \cup {NoOffer} : PublishOffer(n, o)
         \/ \E q \in AskIds : Turn(q) \/ \E status \in {412, 502} : Fail(q, status)
  PROVE  AnswerInv'
<1> USE DEF AnswerInv
<1>1. UNCHANGED <<cached, given>>
  BY DEF AnswerTick, PublishOffer, Turn, Fail
<1>2. \/ UNCHANGED answer
      \/ \E q \in AskIds : \E n, status, from, model : from # "cache" /\ Tell(q, n, status, from, model)
  BY DEF AnswerTick, PublishOffer, Turn, Fail
<1>3. HitIsAnswer' /\ answer' = [r \in AskIds |-> answer'[r]]
  <2>1. CASE UNCHANGED answer
    BY <1>1, <2>1 DEF HitIsAnswer, AnswerTables
  <2>2. CASE \E q \in AskIds : \E n, status, from, model : from # "cache" /\ Tell(q, n, status, from, model)
    BY <1>1, <2>2, ReplyOK
  <2> QED
    BY <1>2, <2>1, <2>2
<1>4. KeptWasGiven'
  BY <1>1, EntriesKept
<1>5. AnswerTables'
  BY <1>1, <1>3 DEF AnswerTables
<1> QED
  BY <1>3, <1>4, <1>5

\* On every route, for any offers, requests and times: what the cache answers, a provider
\* has answered there, to the same payload and not too long ago.
THEOREM HitsAreAnswers == AnswerSpec => []HitIsAnswer
<1>1. AnswerInv /\ [AnswerNext]_answerVars => AnswerInv'
  <2> SUFFICES ASSUME AnswerInv, [AnswerNext]_answerVars PROVE AnswerInv'
    OBVIOUS
  <2>1. CASE UNCHANGED answerVars
    <3>1. UNCHANGED <<cached, answer, given>>
      BY <2>1 DEF answerVars
    <3> QED
      BY <3>1 DEF AnswerInv, AnswerTables, KeptWasGiven, HitIsAnswer
  <2>2. CASE AnswerNext
    BY <2>2, HitCacheStep, SetOutStep, ServeStep, OtherAnswerStep DEF AnswerNext
  <2> QED
    BY <2>1, <2>2
<1>2. AnswerInv => HitIsAnswer
  BY DEF AnswerInv
<1> QED
  BY AnswerInitOK, <1>1, <1>2, PTL DEF AnswerSpec

-----------------------------------------------------------------------------
\* An arrangement of a finite set is a sequence of its members, empty only if the set is.
LEMMA ArrangedFits ==
  ASSUME NEW K, IsFiniteSet(K), NEW s \in [1..Cardinality(K) -> K]
  PROVE  s \in Seq(K) /\ Len(s) = Cardinality(K)
<1>1. Cardinality(K) \in Nat
  BY FS_CardinalityType
<1> QED
  BY <1>1

LEMMA IntervalFinite ==
  ASSUME NEW k \in Nat, NEW K, K \subseteq 1..k
  PROVE  IsFiniteSet(K)
<1>1. IsFiniteSet(1..k)
  BY FS_Interval
<1> QED
  BY <1>1, FS_Subset

\* The targets a route keeps are there, and name models.
LEMMA OfferFits ==
  ASSUME NEW n \in PublicNames, NEW o \in Offers[n]
  PROVE  /\ o # NoOffer /\ Len(o.targets) \in Nat
         /\ \A i \in 1..Len(o.targets) : o.targets[i].model \in LLMs
         /\ o.life \in Int \cup {Garbled, Unsaid}
BY AnswerAssumption DEF TargetType

LEMMA DrawnFits ==
  ASSUME NEW o, NEW E, IsFiniteSet(E), NEW s \in Drawn(o, E)
  PROVE  s \in Seq(E) /\ Len(s) > 0
<1>1. \E c \in E : \E t \in [1..Cardinality(E \ {c}) -> E \ {c}] : s = <<c>> \o t
  BY DEF Drawn, Arranged
<1>0. PICK c \in E : \E t \in [1..Cardinality(E \ {c}) -> E \ {c}] : s = <<c>> \o t
  BY <1>1
<1>2. PICK t \in [1..Cardinality(E \ {c}) -> E \ {c}] : s = <<c>> \o t
  BY <1>0
<1>3. IsFiniteSet(E \ {c})
  BY FS_Subset
<1>4. t \in Seq(E \ {c})
  BY <1>2, <1>3, ArrangedFits
<1>5. t \in Seq(E) /\ Len(t) \in Nat
  BY <1>4
<1>6. <<c>> \in Seq(E) /\ Len(<<c>>) = 1
  OBVIOUS
<1>7. s \in Seq(E) /\ Len(s) = 1 + Len(t)
  BY <1>2, <1>5, <1>6, ConcatProperties
<1> QED
  BY <1>5, <1>7

LEMMA OrdersFit ==
  ASSUME NEW n \in PublicNames, NEW o \in Offers[n], NEW q, NEW s \in Orders(o, q)
  PROVE  s \in Seq(LLMs) \ {<<>>}
<1> DEFINE E == Eligible(o, q)
<1>1. E \subseteq 1..Len(o.targets) /\ IsFiniteSet(E)
  <2>1. E \subseteq 1..Len(o.targets)
    BY DEF Eligible
  <2> QED
    BY <2>1, OfferFits, IntervalFinite
<1>2. PICK t : /\ E # {} /\ t \in Drawn(o, E) \cup Arranged(E, <)
               /\ s = [k \in 1..Len(t) |-> o.targets[t[k]].model]
  BY DEF Orders
<1>3. t \in Seq(E) /\ Len(t) > 0
  <2>1. CASE t \in Drawn(o, E)
    BY <1>1, <2>1, DrawnFits
  <2>2. CASE t \in Arranged(E, <)
    <3>0. t \in [1..Cardinality(E) -> E]
      BY <2>2 DEF Arranged
    <3>1. t \in Seq(E) /\ Len(t) = Cardinality(E)
      BY <1>1, <3>0, ArrangedFits
    <3>2. Cardinality(E) \in Nat /\ Cardinality(E) # 0
      BY <1>1, <1>2, FS_CardinalityType, FS_EmptySet
    <3> QED
      BY <3>1, <3>2
  <2> QED
    BY <1>2, <2>1, <2>2
<1>4. ASSUME NEW k \in 1..Len(t) PROVE o.targets[t[k]].model \in LLMs
  <2>1. t[k] \in E
    BY <1>3, <1>4, ElementOfSeq
  <2> QED
    BY <1>1, <2>1, OfferFits
<1>5. s \in [1..Len(t) -> LLMs] /\ Len(t) \in Nat
  <2>1. s = [k \in 1..Len(t) |-> o.targets[t[k]].model]
    BY <1>2
  <2> QED
    BY <1>3, <1>4, <2>1
<1>6. s \in Seq(LLMs) /\ Len(s) = Len(t)
  BY <1>5
<1> QED
  BY <1>3, <1>6

\* A candidate than which none is cheaper, the first of those, is there.
LEMMA CheapestThere ==
  ASSUME NEW s \in Seq(LLMs) \ {<<>>}
  PROVE  /\ Cheapest(s) \in 1..Len(s)
         /\ \A j \in 1..Len(s) : Price[s[Cheapest(s)]] <= Price[s[j]]
<1> DEFINE First(i) == \A j \in 1..Len(s) :
                         Price[s[i]] < Price[s[j]] \/ (Price[s[i]] = Price[s[j]] /\ i <= j)
           Prices == {Price[s[i]] : i \in 1..Len(s)}
<1>1. \A i \in 1..Len(s) : Price[s[i]] \in Nat
  BY AnswerAssumption, ElementOfSeq
<1>2. Prices \subseteq Nat /\ Prices # {}
  <2>1. 1 \in 1..Len(s)
    OBVIOUS
  <2> QED
    BY <1>1, <2>1
<1>3. PICK least \in Prices : \A p \in Prices : least <= p
  BY <1>2, LeastNat
<1> DEFINE Those == {i \in 1..Len(s) : Price[s[i]] = least}
<1>4. Those \subseteq Nat /\ Those # {}
  BY <1>3
<1>5. PICK first \in Those : \A i \in Those : first <= i
  BY <1>4, LeastNat
<1>6. first \in 1..Len(s) /\ First(first)
  <2> SUFFICES ASSUME NEW j \in 1..Len(s)
               PROVE  Price[s[first]] < Price[s[j]] \/ (Price[s[first]] = Price[s[j]] /\ first <= j)
    BY <1>5
  <2>1. Price[s[first]] = least /\ least <= Price[s[j]] /\ least \in Nat /\ Price[s[j]] \in Nat
    BY <1>1, <1>2, <1>3, <1>5
  <2>2. Price[s[j]] = least => first <= j
    BY <1>5
  <2> QED
    BY <2>1, <2>2
<1>7. Cheapest(s) = CHOOSE i \in 1..Len(s) : First(i)
  BY DEF Cheapest
<1>8. Cheapest(s) \in 1..Len(s) /\ First(Cheapest(s))
  <2> HIDE DEF First
  <2> QED
    BY <1>6, <1>7
<1> QED
  BY <1>1, <1>8

\* The cheapest goes first, the others follow: still candidates, and still one of them.
LEMMA CheapestFirstFits ==
  ASSUME NEW q, NEW s \in Seq(LLMs) \ {<<>>}, NEW t \in CheapestFirst(q, s)
  PROVE  t \in Seq(LLMs) \ {<<>>}
<1> DEFINE best == s[Cheapest(s)]
           rest == {i \in 1..Len(s) : s[i] # best}
<1>1. CASE t = s
  BY <1>1
<1>2. CASE Len(s) > 1 /\ \E u \in [1..Cardinality(rest) -> rest] : t = <<best>> \o [k \in 1..Len(u) |-> s[u[k]]]
  <2>1. PICK u \in [1..Cardinality(rest) -> rest] : t = <<best>> \o [k \in 1..Len(u) |-> s[u[k]]]
    BY <1>2
  <2>2. Len(s) \in Nat /\ \A i \in rest : i \in 1..Len(s)
    OBVIOUS
  <2> HIDE DEF rest
  <2>3. IsFiniteSet(rest)
    BY <2>2, IntervalFinite
  <2>7. u \in Seq(rest)
    BY <2>1, <2>3, ArrangedFits
  <2>4. ASSUME NEW k \in 1..Len(u) PROVE s[u[k]] \in LLMs
    <3>1. u[k] \in rest
      BY <2>7, <2>4, ElementOfSeq
    <3> QED
      BY <2>2, <3>1, ElementOfSeq
  <2>5. [k \in 1..Len(u) |-> s[u[k]]] \in Seq(LLMs)
    BY <2>7, <2>4
  <2>6. best \in LLMs
    BY CheapestThere, ElementOfSeq
  <2> HIDE DEF best
  <2>8. <<best>> \in Seq(LLMs) /\ Len(<<best>>) = 1
    BY <2>6
  <2>9. t \in Seq(LLMs) /\ Len(t) = 1 + Len([k \in 1..Len(u) |-> s[u[k]]])
    BY <2>1, <2>5, <2>8, ConcatProperties
  <2>10. Len([k \in 1..Len(u) |-> s[u[k]]]) \in Nat
    BY <2>5
  <2>11. Len(t) > 0
    BY <2>9, <2>10
  <2> QED
    BY <2>9, <2>11
<1> QED
  BY <1>1, <1>2 DEF CheapestFirst, Arranged

\* What the type invariant leaves out: a table of offers is a table of all names.
AnswerTypes == AnswerTypeOK /\ DOMAIN offer = PublicNames

LEMMA AnswerTypesInit == AnswerInit => AnswerTypes
BY AnswerAssumption DEF AnswerInit, AnswerTypes, AnswerTypeOK

LEMMA WalkFits ==
  ASSUME NEW n \in PublicNames, NEW models \in Seq(LLMs) \ {<<>>}, NEW keeps \in BOOLEAN, NEW life \in Lives
  PROVE  [name |-> n, models |-> models, keeps |-> keeps, life |-> life] \in Walks
BY DEF Walks

LEMMA WalkFields ==
  ASSUME NEW w \in Walks
  PROVE  w.name \in PublicNames /\ w.life \in Lives
BY DEF Walks

LEMMA TellFits ==
  ASSUME AnswerTypes, NEW q \in AskIds, NEW n \in PublicNames, NEW status \in {200, 400, 404, 412, 422, 502},
         NEW from \in {"provider", "cache", "gateway"}, NEW model \in LLMs \cup {Unsaid},
         Tell(q, n, status, from, model)
  PROVE  answer' \in [AskIds -> Replies \cup {NoReply}]
<1>1. instant \in Nat
  BY AnswerAssumption DEF AnswerTypes, AnswerTypeOK
<1>2. [status |-> status, from |-> from, name |-> n, model |-> model, at |-> instant] \in Replies
  BY <1>1 DEF Replies
<1>3. answer \in [AskIds -> Replies \cup {NoReply}]
  BY DEF AnswerTypes, AnswerTypeOK
<1> QED
  BY <1>2, <1>3 DEF Tell

LEMMA SentFits ==
  ASSUME NEW q \in AskIds
  PROVE  /\ NameOf(q) \in PublicNames
         /\ Said[q].payload \in Payloads /\ Sent(q) \in Payloads
<1>1. Said[q].payload \in Payloads /\ Said[q].redacted \in Payloads
  BY DEF Payloads
<1>2. Sent(q) \in Payloads
  BY <1>1 DEF Sent
<1>3. NameOf(q) \in PublicNames
  BY AnswerAssumption DEF NameOf
<1> QED
  BY <1>1, <1>2, <1>3

LEMMA LifeFits ==
  ASSUME AnswerTypes, NEW q \in AskIds, NEW n \in PublicNames
  PROVE  LifeFor(q, n) \in Lives
<1>1. Said[q].life \in Int \cup {Garbled, Unsaid} /\ DefaultLife \in Int
  BY AnswerAssumption
<1>2. offer[n] # NoOffer => offer[n].life \in Int \cup {Garbled, Unsaid}
  BY OfferFits DEF AnswerTypes, AnswerTypeOK
<1> QED
  BY <1>1, <1>2 DEF LifeFor, Lives

\* A plan has a candidate.
LEMMA PlansFit ==
  ASSUME AnswerTypes, NEW q \in AskIds, NEW n \in PublicNames, NEW s \in Plans(q, n)
  PROVE  s \in Seq(LLMs) \ {<<>>}
<1>1. CASE offer[n] # NoOffer
  <2>1. offer[n] \in Offers[n] /\ s \in Orders(offer[n], q)
    BY <1>1 DEF AnswerTypes, AnswerTypeOK, Plans
  <2> QED
    BY <2>1, OrdersFit
<1>2. CASE ~ (offer[n] # NoOffer)
  <2>1. s = PlaneOrder[n] /\ PlaneOrder[n] # <<>>
    BY <1>2 DEF Plans
  <2> QED
    BY <2>1, AnswerAssumption
<1> QED
  BY <1>1, <1>2

LEMMA WantsFits ==
  ASSUME NEW q, NEW n
  PROVE  (WantsCache(q, n) /\ ~Said[q].stream) \in BOOLEAN
OBVIOUS

LEMMA SetOutTypes ==
  ASSUME AnswerTypes, NEW q \in AskIds, SetOut(q)
  PROVE  AnswerTypes'
<1> DEFINE n == NameOf(q)
           keeps == WantsCache(q, n) /\ ~Said[q].stream
<1>1. n \in PublicNames /\ Said[q].payload \in Payloads
  BY SentFits
<1>2. PICK s \in Plans(q, n) : \E models \in CheapestFirst(q, s) :
        walk' = [walk EXCEPT ![q] = [name |-> n, models |-> models, keeps |-> keeps, life |-> LifeFor(q, n)]]
  BY DEF SetOut
<1>3. PICK models \in CheapestFirst(q, s) :
        walk' = [walk EXCEPT ![q] = [name |-> n, models |-> models, keeps |-> keeps, life |-> LifeFor(q, n)]]
  BY <1>2
<1>4. models \in Seq(LLMs) \ {<<>>}
  <2>1. s \in Seq(LLMs) \ {<<>>}
    BY <1>1, PlansFit
  <2> QED
    BY <2>1, CheapestFirstFits
<1>5. keeps \in BOOLEAN /\ LifeFor(q, n) \in Lives
  BY <1>1, LifeFits, WantsFits
<1>6. UNCHANGED <<instant, offer, answer, given>>
  BY DEF SetOut
<1>7. cached' \in [PublicNames \X Payloads -> Kept \cup {NoEntry}]
  <2>1. cached \in [PublicNames \X Payloads -> Kept \cup {NoEntry}]
    BY DEF AnswerTypes, AnswerTypeOK
  <2>2. \/ cached' = cached
        \/ cached' = [cached EXCEPT ![<<n, Said[q].payload>>] = NoEntry]
    BY DEF SetOut, Shelf
  <2> QED
    BY <1>1, <2>1, <2>2
<1>8. walk' \in [AskIds -> Walks \cup {NoWalk}]
  <2> HIDE DEF n, keeps
  <2>1. [name |-> n, models |-> models, keeps |-> keeps, life |-> LifeFor(q, n)] \in Walks
    BY <1>1, <1>4, <1>5, WalkFits
  <2>2. walk \in [AskIds -> Walks \cup {NoWalk}]
    BY DEF AnswerTypes, AnswerTypeOK
  <2>3. PICK set : set \in Walks /\ walk' = [walk EXCEPT ![q] = set]
    BY <1>3, <2>1
  <2> QED
    BY <2>2, <2>3
<1> QED
  BY <1>6, <1>7, <1>8 DEF AnswerTypes, AnswerTypeOK

LEMMA HitCacheTypes ==
  ASSUME AnswerTypes, NEW q \in AskIds, HitCache(q)
  PROVE  AnswerTypes'
<1> DEFINE n == NameOf(q)
<1>1. n \in PublicNames /\ Said[q].payload \in Payloads
  BY SentFits
<1>2. PICK e : e = cached[<<n, Said[q].payload>>] /\ e # NoEntry /\ Tell(q, n, 200, "cache", e.model)
  BY DEF HitCache, Entry, Shelf, Fresh
<1>3. e \in Kept
  BY <1>1, <1>2 DEF AnswerTypes, AnswerTypeOK
<1>4. answer' \in [AskIds -> Replies \cup {NoReply}]
  <2>1. e.model \in LLMs
    BY <1>3 DEF Kept
  <2> HIDE DEF n
  <2> QED
    BY <1>1, <1>2, <2>1, TellFits
<1> QED
  BY <1>4 DEF HitCache, AnswerTypes, AnswerTypeOK

LEMMA TurnTypes ==
  ASSUME AnswerTypes, NEW q \in AskIds, Turn(q)
  PROVE  AnswerTypes'
<1> DEFINE n == NameOf(q)
<1>1. n \in PublicNames
  BY SentFits
<1>2. Tell(q, n, Refusal(q, n), "gateway", Unsaid) /\ UNCHANGED <<instant, offer, cached, walk, given>>
  BY DEF Turn
<1>3. Refusal(q, n) \in {200, 400, 404, 412, 422, 502}
  BY DEF Refusal
<1>4. answer' \in [AskIds -> Replies \cup {NoReply}]
  <2> HIDE DEF n
  <2> QED
    BY <1>1, <1>2, <1>3, TellFits
<1> QED
  BY <1>2, <1>4 DEF AnswerTypes, AnswerTypeOK

LEMMA FailTypes ==
  ASSUME AnswerTypes, NEW q \in AskIds, NEW status \in {412, 502}, Fail(q, status)
  PROVE  AnswerTypes'
<1>1. walk[q] \in Walks
  BY DEF Fail, AnswerTypes, AnswerTypeOK
<1>2. walk[q].name \in PublicNames
  BY <1>1, WalkFields
<1>3. answer' \in [AskIds -> Replies \cup {NoReply}]
  BY <1>2, TellFits DEF Fail
<1>4. walk' \in [AskIds -> Walks \cup {NoWalk}]
  BY DEF Fail, AnswerTypes, AnswerTypeOK
<1> QED
  BY <1>3, <1>4 DEF Fail, AnswerTypes, AnswerTypeOK

\* What is put in the cache expires later than now: put() refuses a life that is not positive.
LEMMA ServeTypes ==
  ASSUME AnswerTypes, NEW q \in AskIds, NEW m \in LLMs, Serve(q, m)
  PROVE  AnswerTypes'
<1>1. PICK w : w = walk[q] /\ w \in Walks
  BY DEF Serve, AnswerTypes, AnswerTypeOK
<1>2. w.name \in PublicNames /\ w.life \in Lives /\ Sent(q) \in Payloads /\ instant \in Nat
  BY <1>1, WalkFields, SentFits, AnswerAssumption DEF AnswerTypes, AnswerTypeOK
<1>3. given' \subseteq Answers
  <2>1. given \subseteq Answers
    BY DEF AnswerTypes, AnswerTypeOK
  <2>2. CASE w.keeps /\ w.life # Garbled
    <3>1. w.life \in Int
      BY <1>2, <2>2 DEF Lives
    <3>2. PICK until \in Int : until = instant + w.life
      BY <1>2, <3>1
    <3>3. [name |-> w.name, payload |-> Sent(q), model |-> m, until |-> until] \in Answers
      BY <1>2 DEF Answers
    <3>4. given' = given \cup {[name |-> w.name, payload |-> Sent(q), model |-> m, until |-> until]}
      BY <1>1, <2>2, <3>2 DEF Serve
    <3> QED
      BY <2>1, <3>3, <3>4
  <2>3. CASE ~ (w.keeps /\ w.life # Garbled)
    BY <1>1, <2>1, <2>3 DEF Serve
  <2> QED
    BY <2>2, <2>3
<1>4. cached' \in [PublicNames \X Payloads -> Kept \cup {NoEntry}]
  <2>1. cached \in [PublicNames \X Payloads -> Kept \cup {NoEntry}]
    BY DEF AnswerTypes, AnswerTypeOK
  <2>2. CASE w.keeps /\ w.life # Garbled /\ w.life > 0
    <3>1. w.life \in Int /\ w.life > 0
      BY <1>2, <2>2 DEF Lives
    <3>2. PICK until \in Nat : until = instant + w.life
      BY <1>2, <3>1
    <3>3. PICK e \in Kept : e = [model |-> m, expires |-> until]
      BY DEF Kept
    <3>4. cached' = [cached EXCEPT ![<<w.name, Sent(q)>>] = e]
      BY <1>1, <2>2, <3>2, <3>3 DEF Serve, Shelf, KeyKept
    <3> QED
      BY <1>2, <2>1, <3>4
  <2>3. CASE ~ (w.keeps /\ w.life # Garbled /\ w.life > 0)
    BY <1>1, <2>1, <2>3 DEF Serve
  <2> QED
    BY <2>2, <2>3
<1>5. answer' \in [AskIds -> Replies \cup {NoReply}]
  <2>1. \/ Tell(q, w.name, 502, "gateway", Unsaid)
        \/ Tell(q, w.name, 200, "provider", m)
    BY <1>1 DEF Serve
  <2> QED
    BY <1>2, <2>1, TellFits
<1>6. walk' \in [AskIds -> Walks \cup {NoWalk}] /\ UNCHANGED <<instant, offer>>
  BY DEF Serve, AnswerTypes, AnswerTypeOK
<1> QED
  BY <1>3, <1>4, <1>5, <1>6 DEF AnswerTypes, AnswerTypeOK

\* Whatever editors publish within the bounds and whatever requests say, the walk over
\* providers begins with a candidate: a request without one is refused before it looks at the cache.
THEOREM AnswerTypesCorrect == AnswerSpec => []AnswerTypeOK
<1>1. AnswerTypes /\ [AnswerNext]_answerVars => AnswerTypes'
  <2> SUFFICES ASSUME AnswerTypes, [AnswerNext]_answerVars PROVE AnswerTypes'
    OBVIOUS
  <2>1. CASE UNCHANGED answerVars
    BY <2>1 DEF answerVars, AnswerTypes, AnswerTypeOK
  <2>2. CASE AnswerTick
    BY <2>2, AnswerAssumption DEF AnswerTick, AnswerTypes, AnswerTypeOK
  <2>3. ASSUME NEW n \in PublicNames, NEW o \in Offers[n] \cup {NoOffer}, PublishOffer(n, o)
        PROVE  AnswerTypes'
    BY <2>3 DEF PublishOffer, AnswerTypes, AnswerTypeOK
  <2> QED
    BY <2>1, <2>2, <2>3, TurnTypes, HitCacheTypes, SetOutTypes, ServeTypes, FailTypes DEF AnswerNext
<1>2. AnswerTypes => AnswerTypeOK
  BY DEF AnswerTypes
<1> QED
  BY AnswerTypesInit, <1>1, <1>2, PTL DEF AnswerSpec

-----------------------------------------------------------------------------
(* PriorityRoutes. Theorems about the ordered routes, for any number of routes,
   names, targets and versions. A version that was kept is never written again and
   the published one only moves up, so what a decision was made of stays as it was,
   whatever is drafted and published meanwhile. *)

\* Targets by their priorities, which are positive and each target's own.
ByPriority(targets) ==
  /\ DOMAIN targets \subseteq Nat
  /\ \A p \in DOMAIN targets : targets[p].priority = p

OrderedRow ==
  [name : PrNames, draft : 1..MaxChains, published : 1..MaxChains \cup {NoPr},
   status : {"draft", "active"}]
KeptVersion ==
  [name : PrNames, targets : {Ordered(targets) : targets \in {t \in PrBodies : Usable(t)}}]

Drafted ==
  /\ ordered \in [PrIds -> OrderedRow \cup {NoPr}]
  /\ drafts \in [PrIds -> Seq(KeptVersion)]

\* A decision was made of a version of its route that has been published.
DecidedWell ==
  decided # NoPr =>
    /\ DOMAIN decided = {"route", "version", "targets", "selected"}
    /\ decided.route \in PrIds /\ ordered[decided.route] # NoPr
    /\ decided.version \in Nat \ {0}
    /\ ordered[decided.route].published # NoPr

PriorityInv == PriorityTypeOK /\ Drafted /\ DecidedWell

-----------------------------------------------------------------------------
LEMMA PriorityBounds ==
  /\ MaxChains \in Nat \ {0} /\ MaxMonth \in Nat /\ MaxPrSpend \in Nat /\ PrCosts \subseteq Nat
  /\ NoPr \notin Nat /\ NoPr \notin OrderedRow
  BY PriorityAssumption DEF OrderedRow

LEMMA PriorityInitInv == PriorityInit => PriorityInv
<1> SUFFICES ASSUME PriorityInit PROVE PriorityInv
  OBVIOUS
<1>1. Drafted
  BY DEF PriorityInit, Drafted
<1>2. monthly \in [PrNames \X PrModels \X (0..MaxMonth) -> 0..MaxPrSpend]
  <2>1. 0 \in 0..MaxPrSpend
    BY PriorityBounds
  <2> QED
    BY <2>1 DEF PriorityInit
<1>3. PriorityTypeOK
  BY <1>2 DEF PriorityInit, PriorityTypeOK
<1> QED
  BY <1>1, <1>3 DEF PriorityInit, PriorityInv, DecidedWell

LEMMA ChainByPriority ==
  ASSUME NEW targets \in PrBodies, Usable(targets)
  PROVE  ByPriority(Ordered(targets))
<1>1. \A i \in DOMAIN targets : targets[i].priority \in Int /\ targets[i].priority > 0
  BY PriorityAssumption DEF Usable
<1>2. DOMAIN Ordered(targets) = Priorities(targets)
  BY DEF Ordered
<1>3. Priorities(targets) \subseteq Nat
  BY <1>1 DEF Priorities
<1>4. ASSUME NEW p \in Priorities(targets)
      PROVE  Ordered(targets)[p].priority = p
  <2>1. \E i \in DOMAIN targets : targets[i].priority = p
    BY DEF Priorities
  <2>2. targets[CHOOSE i \in DOMAIN targets : targets[i].priority = p].priority = p
    BY <2>1
  <2> QED
    BY <2>2 DEF Ordered
<1> QED
  BY <1>2, <1>3, <1>4 DEF ByPriority

LEMMA ForemostOf ==
  ASSUME NEW S \in SUBSET Nat, S # {}
  PROVE  Foremost(S) \in S
<1>1. \E p \in S : \A q \in S : p <= q
  BY LeastNat
<1> QED
  BY <1>1 DEF Foremost

LEMMA VersionsByPriority ==
  ASSUME Drafted, NEW r \in PrIds, NEW v \in 1..Len(drafts[r])
  PROVE  ByPriority(drafts[r][v].targets)
<1>1. drafts[r] \in Seq(KeptVersion)
  BY DEF Drafted
<1>2. drafts[r][v] \in KeptVersion
  BY <1>1, ElementOfSeq
<1>3. PICK targets \in {t \in PrBodies : Usable(t)} : drafts[r][v].targets = Ordered(targets)
  BY <1>2 DEF KeptVersion
<1> QED
  BY <1>3, ChainByPriority

-----------------------------------------------------------------------------
\* The row and the versions of one route change: no version that was there is
\* written again, and the published one is not moved below a decision.
LEMMA OneRoute ==
  ASSUME PriorityInv, NEW r \in PrIds, NEW line \in OrderedRow, NEW list \in Seq(KeptVersion),
         ordered' = [ordered EXCEPT ![r] = line], drafts' = [drafts EXCEPT ![r] = list],
         UNCHANGED <<monthly, sick, decided>>,
         line.draft = Len(list), line.name = list[Len(list)].name,
         line.published \in 1..Len(list) \cup {NoPr},
         ~NamedElsewhere(line.name, r),
         ordered[r] # NoPr =>
           /\ \A v \in 1..Len(drafts[r]) : list[v] = drafts[r][v]
           /\ ordered[r].published # NoPr =>
                line.published # NoPr /\ ordered[r].published <= line.published
  PROVE  PriorityInv'
<1>1. Drafted /\ PriorityTypeOK
  BY DEF PriorityInv
<1>2. line # NoPr
  BY PriorityBounds
<1>3. /\ ordered'[r] = line /\ drafts'[r] = list
      /\ \A s \in PrIds : s # r => ordered'[s] = ordered[s] /\ drafts'[s] = drafts[s]
  BY <1>1 DEF Drafted
<1>4. Drafted'
  BY <1>1 DEF Drafted
<1>5. ASSUME NEW s \in PrIds, ordered'[s] # NoPr
      PROVE  /\ ordered'[s].draft = Len(drafts'[s])
             /\ ordered'[s].name = drafts'[s][Len(drafts'[s])].name
             /\ ordered'[s].published \in 1..Len(drafts'[s]) \cup {NoPr}
             /\ ~NamedElsewhere(ordered[s].name, s)'
  <2>1. \A q \in PrIds \ {r} : ordered[q] # NoPr => ordered[q].name # line.name
    BY DEF NamedElsewhere
  <2>2. CASE s = r
    BY <2>1, <2>2, <1>3 DEF NamedElsewhere
  <2>3. CASE s # r
    <3>1. /\ ordered[s] # NoPr /\ ordered[s].draft = Len(drafts[s])
          /\ ordered[s].name = drafts[s][Len(drafts[s])].name
          /\ ordered[s].published \in 1..Len(drafts[s]) \cup {NoPr}
          /\ ~NamedElsewhere(ordered[s].name, s)
      BY <1>1, <1>3, <1>5, <2>3 DEF PriorityTypeOK
    <3>2. ~NamedElsewhere(ordered[s].name, s)'
      BY <2>1, <2>3, <3>1, <1>3 DEF NamedElsewhere
    <3> QED
      BY <3>1, <3>2, <1>3, <2>3
  <2> QED
    BY <2>2, <2>3
<1>6. ASSUME decided # NoPr
      PROVE  /\ ordered'[decided.route] # NoPr
             /\ ordered'[decided.route].published # NoPr
             /\ drafts'[decided.route][decided.version] = drafts[decided.route][decided.version]
             /\ decided.version <= ordered'[decided.route].published
  <2>1. /\ decided.route \in PrIds /\ ordered[decided.route] # NoPr
        /\ decided.version \in Nat \ {0} /\ ordered[decided.route].published # NoPr
    BY <1>6 DEF PriorityInv, DecidedWell
  <2>2. /\ decided.version <= ordered[decided.route].published
        /\ ordered[decided.route].published \in 1..Len(drafts[decided.route])
    BY <1>1, <1>6, <2>1 DEF PriorityTypeOK
  <2>3. CASE decided.route = r
    <3>1. drafts[r] \in Seq(KeptVersion) /\ Len(drafts[r]) \in Nat
      BY <1>1, LenProperties DEF Drafted
    <3>2. decided.version \in 1..Len(drafts[r])
      BY <2>1, <2>2, <2>3, <3>1
    <3>3. list[decided.version] = drafts[r][decided.version]
      BY <2>1, <2>3, <3>2
    <3>4. line.published # NoPr /\ ordered[r].published <= line.published
      BY <2>1, <2>3
    <3>5. line.published \in 1..Len(list) /\ Len(list) \in Nat
      BY <3>4, LenProperties
    <3>6. decided.version <= line.published
      BY <2>1, <2>2, <2>3, <3>1, <3>4, <3>5
    <3> QED
      BY <1>2, <1>3, <2>3, <3>3, <3>4, <3>6
  <2>4. CASE decided.route # r
    BY <1>3, <2>1, <2>2, <2>4
  <2> QED
    BY <2>3, <2>4
<1>7. PriorityTypeOK'
  BY <1>1, <1>5, <1>6 DEF PriorityTypeOK
<1>8. DecidedWell'
  BY <1>6 DEF PriorityInv, DecidedWell
<1> QED
  BY <1>4, <1>7, <1>8 DEF PriorityInv

LEMMA CreateInv ==
  ASSUME PriorityInv, NEW r \in PrIds, NEW name \in PrNames, NEW targets \in PrBodies,
         Create(r, name, targets)
  PROVE  PriorityInv'
<1> DEFINE line == [name |-> name, draft |-> 1, published |-> NoPr, status |-> "draft"]
           version == [name |-> name, targets |-> Ordered(targets)]
<1>1. /\ ordered[r] = NoPr /\ Usable(targets) /\ ~NamedElsewhere(name, r)
      /\ ordered' = [ordered EXCEPT ![r] = line] /\ drafts' = [drafts EXCEPT ![r] = <<version>>]
      /\ UNCHANGED <<monthly, sick, decided>>
  BY DEF Create
<1>2. line \in OrderedRow /\ line.name = name /\ line.draft = 1 /\ line.published = NoPr
  BY PriorityAssumption DEF OrderedRow
<1>3. version \in KeptVersion /\ version.name = name
  BY <1>1 DEF KeptVersion
<1> HIDE DEF line, version
<1>4. <<version>> \in Seq(KeptVersion) /\ Len(<<version>>) = 1 /\ <<version>>[1] = version
  BY <1>3
<1> QED
  BY <1>1, <1>2, <1>3, <1>4, OneRoute

LEMMA RedraftInv ==
  ASSUME PriorityInv, NEW r \in PrIds, NEW name \in PrNames, NEW targets \in PrBodies,
         Redraft(r, name, targets)
  PROVE  PriorityInv'
<1> DEFINE old == ordered[r]
           line == [name |-> name, draft |-> old.draft + 1, published |-> old.published,
                    status |-> "draft"]
           version == [name |-> name, targets |-> Ordered(targets)]
           list == Append(drafts[r], version)
<1>1. /\ old # NoPr /\ Usable(targets) /\ ~NamedElsewhere(name, r) /\ old.draft < MaxChains
      /\ UNCHANGED <<monthly, sick, decided>>
      /\ ordered' = [ordered EXCEPT ![r] = line] /\ drafts' = [drafts EXCEPT ![r] = list]
  BY DEF Redraft
<1>2. old \in OrderedRow /\ drafts[r] \in Seq(KeptVersion)
  BY <1>1 DEF PriorityInv, Drafted
<1>3. /\ old.draft = Len(drafts[r]) /\ old.published \in 1..Len(drafts[r]) \cup {NoPr}
  BY <1>1 DEF PriorityInv, PriorityTypeOK
<1>4. old.draft \in 1..MaxChains /\ old.published \in 1..MaxChains \cup {NoPr}
  BY <1>2 DEF OrderedRow
<1>5. version \in KeptVersion /\ version.name = name
  BY <1>1 DEF KeptVersion
<1> HIDE DEF old, version
<1>6. old.draft + 1 \in 1..MaxChains
  BY <1>1, <1>4, PriorityBounds
<1>7. /\ line \in OrderedRow /\ line.name = name /\ line.draft = old.draft + 1
      /\ line.published = old.published
  BY <1>4, <1>6 DEF OrderedRow
<1>8. /\ list \in Seq(KeptVersion) /\ Len(list) = Len(drafts[r]) + 1
      /\ \A v \in 1..Len(drafts[r]) : list[v] = drafts[r][v]
      /\ list[Len(list)] = version
  BY <1>2, <1>5, AppendProperties
<1> HIDE DEF line, list
<1>9. Len(drafts[r]) \in Nat
  BY <1>2, LenProperties
<1>10. old.published # NoPr => old.published <= old.published
  BY <1>4
<1>11. line.published \in 1..Len(list) \cup {NoPr}
  BY <1>3, <1>7, <1>8, <1>9
<1>12. line.draft = Len(list) /\ line.name = list[Len(list)].name
  BY <1>3, <1>5, <1>7, <1>8
<1> QED
  BY <1>1, <1>7, <1>8, <1>10, <1>11, <1>12, OneRoute DEF old

LEMMA PublishInv ==
  ASSUME PriorityInv, NEW r \in PrIds, PublishOrdered(r)
  PROVE  PriorityInv'
<1> DEFINE old == ordered[r]
           line == [name |-> old.name, draft |-> old.draft, published |-> old.draft,
                    status |-> "active"]
           list == drafts[r]
<1>1. /\ old # NoPr /\ ordered' = [ordered EXCEPT ![r] = line]
      /\ UNCHANGED <<drafts, monthly, sick, decided>>
  BY DEF PublishOrdered
<1>2. old \in OrderedRow /\ list \in Seq(KeptVersion) /\ drafts' = [drafts EXCEPT ![r] = list]
  BY <1>1 DEF PriorityInv, Drafted
<1>3. /\ old.draft = Len(list) /\ old.name = list[Len(list)].name
      /\ old.published \in 1..Len(list) \cup {NoPr} /\ ~NamedElsewhere(old.name, r)
  BY <1>1 DEF PriorityInv, PriorityTypeOK
<1>4. old.draft \in 1..MaxChains /\ old.name \in PrNames
  BY <1>2 DEF OrderedRow
<1> HIDE DEF old
<1>5. /\ line \in OrderedRow /\ line.name = old.name /\ line.draft = old.draft
      /\ line.published = old.draft
  BY <1>4 DEF OrderedRow
<1> HIDE DEF line, list
<1>6. line.published \in 1..Len(list) /\ line.published \in Nat
  BY <1>3, <1>4, <1>5, PriorityBounds
<1>7. old.published # NoPr => line.published # NoPr /\ old.published <= line.published
  <2>1. old.published # NoPr => old.published \in 1..Len(list)
    BY <1>3
  <2>2. old.published # NoPr => line.published # NoPr
    BY <1>6, PriorityBounds
  <2> QED
    BY <2>1, <2>2, <1>3, <1>5, <1>6
<1> QED
  BY <1>1, <1>2, <1>3, <1>5, <1>6, <1>7, OneRoute DEF old, list

-----------------------------------------------------------------------------
LEMMA DecideInv ==
  ASSUME PriorityInv, NEW r \in PrIds, NEW at, NEW capabilities,
         DecideChain(r, at, capabilities)
  PROVE  PriorityInv'
<1> DEFINE version == ordered[r].published
           targets == drafts[r][version].targets
           open == {p \in DOMAIN targets :
                      EligibleTarget(ordered[r].name, targets[p], at, capabilities)}
           picked == [p \in open |-> targets[p]]
           decision == [route |-> r, version |-> version, targets |-> picked,
                        selected |-> Foremost(open)]
<1>1. /\ ordered[r] # NoPr /\ version # NoPr /\ open # {} /\ decided' = decision
      /\ UNCHANGED <<ordered, drafts, monthly, sick>>
  BY DEF DecideChain
<1>2. Drafted /\ PriorityTypeOK
  BY DEF PriorityInv
<1>3. version \in 1..Len(drafts[r]) /\ Len(drafts[r]) \in Nat
  BY <1>1, <1>2, LenProperties DEF PriorityTypeOK, Drafted
<1>4. ByPriority(targets)
  BY <1>2, <1>3, VersionsByPriority
<1>5. open \subseteq DOMAIN targets /\ open \subseteq Nat
  BY <1>4 DEF ByPriority
<1> HIDE DEF open
<1>6. Foremost(open) \in open
  BY <1>1, <1>5, ForemostOf
<1>7. DOMAIN picked = open /\ \A p \in open : picked[p] = targets[p]
  OBVIOUS
<1> HIDE DEF picked
<1>8. /\ DOMAIN decision = {"route", "version", "targets", "selected"}
      /\ decision.route = r /\ decision.version = version /\ decision.targets = picked
      /\ decision.selected = Foremost(open)
  OBVIOUS
<1> HIDE DEF decision
<1>9. version \in Nat \ {0} /\ version <= version
  BY <1>3
<1>10. \A p \in open : p \in DOMAIN targets /\ targets[p] = picked[p] /\ targets[p].priority = p
  BY <1>4, <1>5, <1>7 DEF ByPriority
<1>11. /\ decided'.route = r /\ decided'.version = version /\ decided'.targets = picked
       /\ decided'.selected \in DOMAIN picked
       /\ DOMAIN decided' = {"route", "version", "targets", "selected"}
  BY <1>1, <1>6, <1>7, <1>8
<1>12. /\ \A s \in PrIds : ordered'[s] = ordered[s] /\ drafts'[s] = drafts[s]
       /\ ordered'[r].published = version /\ drafts'[r][version].targets = targets
  BY <1>1
<1>13. \A p \in DOMAIN decided'.targets :
         p \in DOMAIN targets /\ targets[p] = decided'.targets[p] /\ targets[p].priority = p
  BY <1>7, <1>10, <1>11
<1>14. PriorityTypeOK'
  <2>1. LET kept == drafts'[decided'.route][decided'.version].targets IN
          /\ decided'.version <= ordered'[decided'.route].published
          /\ decided'.selected \in DOMAIN decided'.targets
          /\ \A p \in DOMAIN decided'.targets :
               p \in DOMAIN kept /\ kept[p] = decided'.targets[p] /\ kept[p].priority = p
    <3> HIDE DEF targets, version
    <3> QED
      BY <1>9, <1>11, <1>12, <1>13
  <2> HIDE DEF targets, version
  <2> QED
    BY <1>1, <1>2, <2>1 DEF PriorityTypeOK, NamedElsewhere
<1>15. DecidedWell'
  BY <1>1, <1>9, <1>11, <1>12 DEF DecidedWell
<1> QED
  BY <1>1, <1>2, <1>14, <1>15 DEF PriorityInv, Drafted

LEMMA FallBackInv ==
  ASSUME PriorityInv, NEW status, FallBack(status)
  PROVE  PriorityInv'
<1> DEFINE later == {p \in DOMAIN decided.targets : p > decided.selected}
<1>1. /\ decided # NoPr /\ later # {}
      /\ decided' = [decided EXCEPT !.selected = Foremost(later)]
      /\ UNCHANGED <<ordered, drafts, monthly, sick>>
  BY DEF FallBack
<1>2. PriorityTypeOK /\ Drafted /\ DecidedWell
  BY DEF PriorityInv
<1>3. /\ decided.route \in PrIds /\ decided.version \in Nat \ {0}
      /\ ordered[decided.route] # NoPr /\ ordered[decided.route].published # NoPr
      /\ DOMAIN decided = {"route", "version", "targets", "selected"}
  BY <1>1, <1>2 DEF DecidedWell
<1>4. /\ decided.version <= ordered[decided.route].published
      /\ ordered[decided.route].published \in 1..Len(drafts[decided.route])
      /\ \A p \in DOMAIN decided.targets :
           p \in DOMAIN drafts[decided.route][decided.version].targets
  BY <1>1, <1>2, <1>3 DEF PriorityTypeOK
<1>5. decided.version \in 1..Len(drafts[decided.route])
  <2>1. Len(drafts[decided.route]) \in Nat
    BY <1>2, <1>3, LenProperties DEF Drafted
  <2> QED
    BY <2>1, <1>3, <1>4
<1>6. DOMAIN drafts[decided.route][decided.version].targets \subseteq Nat
  BY <1>2, <1>3, <1>5, VersionsByPriority DEF ByPriority
<1>7. later \subseteq DOMAIN decided.targets /\ later \in SUBSET Nat
  BY <1>4, <1>6
<1> HIDE DEF later
<1>8. Foremost(later) \in DOMAIN decided.targets
  BY <1>1, <1>7, ForemostOf
<1>9. /\ DOMAIN decided' = DOMAIN decided
      /\ decided'.route = decided.route /\ decided'.version = decided.version
      /\ decided'.targets = decided.targets /\ decided'.selected = Foremost(later)
  BY <1>1, <1>3
<1>10. PriorityTypeOK'
  <2>1. LET kept == drafts'[decided'.route][decided'.version].targets IN
          /\ decided'.version <= ordered'[decided'.route].published
          /\ decided'.selected \in DOMAIN decided'.targets
          /\ \A p \in DOMAIN decided'.targets :
               p \in DOMAIN kept /\ kept[p] = decided'.targets[p] /\ kept[p].priority = p
    BY <1>1, <1>2, <1>8, <1>9 DEF PriorityTypeOK
  <2> QED
    BY <1>1, <1>2, <2>1 DEF PriorityTypeOK, NamedElsewhere
<1>11. DecidedWell'
  BY <1>1, <1>3, <1>9 DEF DecidedWell
<1> QED
  BY <1>1, <1>2, <1>10, <1>11 DEF PriorityInv, Drafted

LEMMA PriorityNextInv == PriorityInv /\ [PriorityNext]_priorityVars => PriorityInv'
<1> SUFFICES ASSUME PriorityInv, [PriorityNext]_priorityVars PROVE PriorityInv'
  OBVIOUS
<1>1. ASSUME NEW name \in PrNames, NEW model \in PrModels, NEW cost \in PrCosts,
             NEW at \in Instants, RecordSpend(name, model, cost, at)
      PROVE  PriorityInv'
  <2> DEFINE month == MonthAt(at)
  <2>1. month \in 0..MaxMonth
    <3>1. at \in Nat /\ DayLength \in Nat \ {0} /\ MonthLength \in Nat \ {0}
      BY PriorityAssumption
    <3>2. at \div DayLength \in Nat
      BY <3>1
    <3>3. month \in Nat
      BY <3>1, <3>2 DEF MonthAt
    <3> QED
      BY <3>3, PriorityAssumption DEF MonthAt
  <2>2. /\ monthly[<<name, model, month>>] + cost <= MaxPrSpend
        /\ monthly' = [monthly EXCEPT ![<<name, model, month>>] = @ + cost]
        /\ UNCHANGED <<ordered, drafts, sick, decided>>
    BY <1>1 DEF RecordSpend
  <2> HIDE DEF month
  <2>3. monthly \in [PrNames \X PrModels \X (0..MaxMonth) -> 0..MaxPrSpend] /\ cost \in Nat
    BY PriorityAssumption DEF PriorityInv, PriorityTypeOK
  <2>4. monthly' \in [PrNames \X PrModels \X (0..MaxMonth) -> 0..MaxPrSpend]
    <3>1. <<name, model, month>> \in PrNames \X PrModels \X (0..MaxMonth)
      BY <2>1
    <3>2. monthly[<<name, model, month>>] \in 0..MaxPrSpend
      BY <2>3, <3>1
    <3>3. monthly[<<name, model, month>>] + cost \in 0..MaxPrSpend
      BY <2>2, <2>3, <3>2, PriorityBounds
    <3> QED
      BY <2>2, <2>3, <3>1, <3>3
  <2>5. PriorityTypeOK'
    BY <2>2, <2>4 DEF PriorityInv, PriorityTypeOK, NamedElsewhere
  <2> QED
    BY <2>2, <2>5 DEF PriorityInv, Drafted, DecidedWell
<1>2. ASSUME NEW name \in PrNames, NEW model \in PrModels, NEW healthy \in BOOLEAN,
             SetHealth(name, model, healthy)
      PROVE  PriorityInv'
  <2>1. /\ sick' \subseteq sick \cup {<<name, model>>}
        /\ UNCHANGED <<ordered, drafts, monthly, decided>>
    BY <1>2 DEF SetHealth
  <2>2. PriorityTypeOK'
    BY <2>1 DEF PriorityInv, PriorityTypeOK, NamedElsewhere
  <2> QED
    BY <2>1, <2>2 DEF PriorityInv, Drafted, DecidedWell
<1>3. CASE UNCHANGED priorityVars
  BY <1>3 DEF priorityVars, PriorityInv, PriorityTypeOK, NamedElsewhere, Drafted, DecidedWell
<1> QED
  BY <1>1, <1>2, <1>3, CreateInv, RedraftInv, PublishInv, DecideInv, FallBackInv
  DEF PriorityNext

-----------------------------------------------------------------------------
\* However routes are drafted, renamed and published while a decision is walked: its
\* targets are those of a version that was published, by their priorities, and a name is
\* of one route (PriorityRouteStore.resolve, next_after_failure).
THEOREM PriorityTypesCorrect == PrioritySpec => []PriorityTypeOK
<1>1. PriorityInv => PriorityTypeOK
  BY DEF PriorityInv
<1> QED
  BY <1>1, PriorityInitInv, PriorityNextInv, PTL DEF PrioritySpec

-----------------------------------------------------------------------------
(* Books *)

\* What is counted of a request whose books are closed
CountedRight(r) ==
  /\ CountsAsSuccess(ledger[r]) => Served(r)
  /\ usage[r] = produced[r] /\ Served(r) => CountsAsSuccess(ledger[r])
  /\ trace[r] # NoLine => (trace[r] = "success" <=> ledger[r].status = "success")

Unwritten(r) == ledger[r] = NoLine /\ trace[r] = NoLine

\* The books of a request of an application, by the await it is at: what it is about to
\* write agrees with what the client has got so far.
BookOf(r) ==
  /\ usage[r] <= produced[r]
  /\ place[r] \in {"new", "walking", "offered", "streaming"} =>
       Unwritten(r) /\ ~ received[r].whole
  /\ place[r] = "hit" => Unwritten(r) /\ draft[r] = HitLine
  /\ place[r] = "plain" =>
       /\ Unwritten(r) /\ received[r].whole /\ received[r].status \in {200, 502}
       /\ draft[r] = RouteLine(received[r].status, usage[r])
  /\ place[r] = "noting" =>
       /\ draft[r] = PlainLine("error") /\ received[r].status = 502
       /\ trace[r] \in {"error", "timeout", NoLine}
  /\ place[r] = "closing" =>
       /\ Unwritten(r)
       /\ \/ received[r].left
          \/ ~ received[r].whole /\ draft[r] = RouteLine(502, usage[r])
          \/ /\ received[r].whole /\ received[r].status = 200
             /\ draft[r] = RouteLine(200, usage[r])
  /\ place[r] # "legacy"
  /\ place[r] = "done" =>
       received[r].left \/ r \in gaps \/ ledger[r] = NoLine \/ ledger[r].hit \/ CountedRight(r)

PlaceOK(r) ==
  /\ place[r] \in {"new", "walking"} => produced[r] = 0
  /\ place[r] \in {"offered", "streaming"} => r \in Managed

BookInv ==
  /\ BookTypeOK
  /\ \A r \in BookIds : PlaceOK(r)
  /\ \A r \in Managed : BookOf(r)

\* What a step does to another request
SameBook(t) ==
  /\ place'[t] = place[t] /\ produced'[t] = produced[t] /\ usage'[t] = usage[t]
  /\ draft'[t] = draft[t] /\ ledger'[t] = ledger[t] /\ trace'[t] = trace[t]
  /\ received'[t] = received[t] /\ (t \in gaps' <=> t \in gaps)

LEMMA BookInitOK == BookInit => BookInv
<1> SUFFICES ASSUME BookInit PROVE BookInv
  OBVIOUS
<1>1. BookTypeOK
  <2>1. 0 \in 0..MaxTokens
    BY BookAssumption
  <2> QED
    BY <2>1 DEF BookInit, BookTypeOK, BookStages, Told
<1>2. ASSUME NEW r \in BookIds PROVE PlaceOK(r) /\ BookOf(r)
  <2>1. place[r] = "new" /\ produced[r] = 0 /\ usage[r] = 0 /\ ~ received[r].whole /\ Unwritten(r)
    BY DEF BookInit, Unwritten
  <2> QED
    BY <2>1 DEF PlaceOK, BookOf
<1> QED
  BY <1>1, <1>2, BookAssumption DEF BookInv

LEMMA SameBookKept ==
  ASSUME NEW t, BookOf(t), SameBook(t)
  PROVE  BookOf(t)'
BY DEF BookOf, SameBook, Unwritten, CountedRight, CountsAsSuccess, Served, HitLine, RouteLine, PlainLine

\* A step of one request
LEMMA OneBookMoves ==
  ASSUME BookInv, NEW r \in BookIds, BookTypeOK', r \in Managed => BookOf(r)',
         PlaceOK(r)',
         \A t \in BookIds \ {r} : SameBook(t)
  PROVE  BookInv'
<1>1. \A t \in Managed : BookOf(t)'
  BY SameBookKept, BookAssumption DEF BookInv
<1>2. \A t \in BookIds : PlaceOK(t)'
  BY DEF BookInv, SameBook, PlaceOK
<1> QED
  BY <1>1, <1>2 DEF BookInv

\* The parts the steps are made of
OnlyAt(r, old, new) == \A t \in BookIds \ {r} : new[t] = old[t]

LEMMA GoOK ==
  ASSUME BookTypeOK, NEW r \in BookIds, NEW s \in BookStages, Go(r, s)
  PROVE  place' \in [BookIds -> BookStages] /\ place'[r] = s /\ OnlyAt(r, place, place')
BY DEF BookTypeOK, Go, OnlyAt

LEMMA WriteOK ==
  ASSUME BookTypeOK, NEW r \in BookIds, NEW line \in Lines, NEW s \in BookStages, Write(r, line, s)
  PROVE  /\ place' \in [BookIds -> BookStages] /\ place'[r] = s /\ OnlyAt(r, place, place')
         /\ draft' \in [BookIds -> Lines \cup {NoLine}] /\ draft'[r] = line /\ OnlyAt(r, draft, draft')
BY GoOK DEF BookTypeOK, Write, OnlyAt

LEMMA ToldStatus ==
  ASSUME NEW t \in Told, NEW code \in {200, 401, 412, 429, 502}
  PROVE  [t EXCEPT !.status = code] \in Told /\ [t EXCEPT !.status = code].status = code
BY DEF Told

\* A record that has a field of truth values
LEMMA ToldParts ==
  ASSUME NEW t \in Told, NEW b
  PROVE  /\ [t EXCEPT !.whole = b] = [status |-> t.status, whole |-> b, left |-> t.left]
         /\ [t EXCEPT !.left = b] = [status |-> t.status, whole |-> t.whole, left |-> b]
<1>1. PICK x, y, z : t = [status |-> x, whole |-> y, left |-> z]
  <2>1. t = [status |-> t.status, whole |-> t.whole, left |-> t.left]
    BY DEF Told
  <2> QED
    BY <2>1
<1>2. /\ [[status |-> x, whole |-> y, left |-> z] EXCEPT !.whole = b] = [status |-> x, whole |-> b, left |-> z]
      /\ [[status |-> x, whole |-> y, left |-> z] EXCEPT !.left = b] = [status |-> x, whole |-> y, left |-> b]
  OBVIOUS
<1> QED
  BY <1>1, <1>2

LEMMA ToldWith ==
  ASSUME NEW t \in Told, NEW b \in BOOLEAN
  PROVE  /\ [t EXCEPT !.whole = b] \in Told /\ [t EXCEPT !.whole = b].whole = b
         /\ [t EXCEPT !.whole = b].status = t.status
         /\ [t EXCEPT !.left = b] \in Told /\ [t EXCEPT !.left = b].left = b
BY ToldParts DEF Told

LEMMA AnsweredOK ==
  ASSUME BookTypeOK, NEW r \in BookIds, NEW code \in {200, 401, 412, 429, 502}, NEW whole \in BOOLEAN,
         Answered(r, code, whole)
  PROVE  /\ received' \in [BookIds -> Told] /\ OnlyAt(r, received, received')
         /\ received'[r].status = code /\ received'[r].whole = whole
<1>0. received[r] \in Told
  BY DEF BookTypeOK
<1>1. PICK new \in Told : new = [received[r] EXCEPT !.status = code] /\ new.status = code
  <2>1. /\ [received[r] EXCEPT !.status = code] \in Told
        /\ [received[r] EXCEPT !.status = code].status = code
    BY <1>0, ToldStatus DEF Told
  <2> DEFINE e == [received[r] EXCEPT !.status = code]
  <2>2. e \in Told /\ e.status = code
    BY <2>1
  <2> HIDE DEF e
  <2>3. \E new \in Told : new = e /\ new.status = code
    BY <2>2
  <2> QED
    BY <2>3 DEF e
<1>3. PICK newer \in Told : newer = [new EXCEPT !.whole = whole] /\ newer.status = code /\ newer.whole = whole
  <2>1. /\ [new EXCEPT !.whole = whole] \in Told /\ [new EXCEPT !.whole = whole].whole = whole
        /\ [new EXCEPT !.whole = whole].status = new.status
    BY ToldWith DEF Told
  <2> DEFINE e == [new EXCEPT !.whole = whole]
  <2>2. e \in Told /\ e.whole = whole /\ e.status = code
    BY <1>1, <2>1
  <2> HIDE DEF e
  <2>3. \E newer \in Told : newer = e /\ newer.status = code /\ newer.whole = whole
    BY <2>2
  <2> QED
    BY <2>3 DEF e
<1>4. received'[r] = newer
  <2>1. received'[r] = [[received[r] EXCEPT !.status = code] EXCEPT !.whole = whole]
    BY DEF Answered, BookTypeOK
  <2> QED
    BY <1>1, <1>3, <2>1
<1>5. received' \in [BookIds -> {received'[t] : t \in BookIds}]
  BY DEF Answered, BookTypeOK
<1>6. OnlyAt(r, received, received')
  BY DEF Answered, BookTypeOK, OnlyAt
<1> QED
  BY <1>3, <1>4, <1>5, <1>6 DEF BookTypeOK, OnlyAt

WholeAnswer(r, code) == Answered(r, code, TRUE)

LEMMA AnsweredWhole ==
  ASSUME BookTypeOK, NEW r \in BookIds, NEW code \in {200, 401, 412, 429, 502}, WholeAnswer(r, code)
  PROVE  /\ received' \in [BookIds -> Told] /\ OnlyAt(r, received, received')
         /\ received'[r].status = code /\ received'[r].whole
<1>1. PICK b \in BOOLEAN : b = TRUE
  OBVIOUS
<1>2. Answered(r, code, b)
  BY <1>1 DEF WholeAnswer
<1>3. received' \in [BookIds -> Told] /\ OnlyAt(r, received, received')
         /\ received'[r].status = code /\ received'[r].whole = b
  BY <1>2, AnsweredOK
<1>4. received'[r].whole 
  BY <1>1, <1>3
<1> QED
  BY <1>3, <1>4

PartAnswer(r, code) == Answered(r, code, FALSE)

LEMMA AnsweredPart ==
  ASSUME BookTypeOK, NEW r \in BookIds, NEW code \in {200, 401, 412, 429, 502}, PartAnswer(r, code)
  PROVE  /\ received' \in [BookIds -> Told] /\ OnlyAt(r, received, received')
         /\ received'[r].status = code /\ ~ received'[r].whole
<1>1. PICK b \in BOOLEAN : b = FALSE
  OBVIOUS
<1>2. Answered(r, code, b)
  BY <1>1 DEF PartAnswer
<1>3. received' \in [BookIds -> Told] /\ OnlyAt(r, received, received')
         /\ received'[r].status = code /\ received'[r].whole = b
  BY <1>2, AnsweredOK
<1>4. ~ received'[r].whole 
  BY <1>1, <1>3
<1> QED
  BY <1>3, <1>4

LEMMA GoneOK ==
  ASSUME BookTypeOK, NEW r \in BookIds, Gone(r)
  PROVE  /\ received' \in [BookIds -> Told] /\ received'[r].left /\ OnlyAt(r, received, received')
<1>1. PICK b \in BOOLEAN : b = TRUE
  OBVIOUS
<1>0. received[r] \in Told
  BY DEF BookTypeOK
<1>2. PICK new \in Told : new = [received[r] EXCEPT !.left = b] /\ new.left = b
  <2>1. [received[r] EXCEPT !.left = b] \in Told /\ [received[r] EXCEPT !.left = b].left = b
    BY <1>0, ToldWith DEF Told
  <2> QED
    BY <2>1
<1>4. received' = [received EXCEPT ![r] = new]
  BY <1>1, <1>2 DEF Gone, BookTypeOK
<1> QED
  BY <1>1, <1>2, <1>4 DEF BookTypeOK, OnlyAt

LEMMA EmitOK ==
  ASSUME BookTypeOK, NEW r \in BookIds, NEW status \in {"success", "error", "timeout", "rate_limited"},
         EmitTrace(r, status)
  PROVE  /\ trace' \in [BookIds -> {"success", "error", "timeout", "rate_limited", NoLine}]
         /\ trace'[r] \in {status, trace[r]} /\ OnlyAt(r, trace, trace')
         /\ gaps' \subseteq BookIds /\ \A t \in BookIds \ {r} : t \in gaps' <=> t \in gaps
BY DEF BookTypeOK, EmitTrace, OnlyAt

LEMMA HearOK ==
  ASSUME BookTypeOK, NEW r \in BookIds, NEW text \in BOOLEAN, NEW tells \in BOOLEAN, HearChunk(r, text, tells),
         produced[r] < MaxTokens, usage[r] <= produced[r]
  PROVE  /\ produced' \in [BookIds -> 0..MaxTokens] /\ OnlyAt(r, produced, produced')
         /\ usage' \in [BookIds -> 0..MaxTokens] /\ OnlyAt(r, usage, usage')
         /\ usage'[r] <= produced'[r]
<1>1. produced[r] \in 0..MaxTokens /\ usage[r] \in 0..MaxTokens /\ MaxTokens \in Nat
  BY BookAssumption DEF BookTypeOK
<1>2. PICK n : n = IF text THEN produced[r] + 1 ELSE produced[r]
  OBVIOUS
<1>3. n \in 0..MaxTokens /\ produced[r] <= n
  BY <1>1, <1>2
<1>4. /\ produced' \in [BookIds -> 0..MaxTokens] /\ OnlyAt(r, produced, produced') /\ produced'[r] = n
  BY <1>2, <1>3 DEF HearChunk, BookTypeOK, OnlyAt
<1>5. usage' = [usage EXCEPT ![r] = IF tells THEN n ELSE usage[r]]
  BY <1>4 DEF HearChunk
<1> QED
  BY <1>1, <1>3, <1>4, <1>5 DEF BookTypeOK, OnlyAt

LEMMA InsertOK ==
  ASSUME BookTypeOK, NEW r \in BookIds, NEW lands \in BOOLEAN, Insert(r, lands)
  PROVE  /\ ledger' \in [BookIds -> Lines \cup {NoLine}] /\ OnlyAt(r, ledger, ledger')
         /\ ledger'[r] = IF lands THEN draft[r] ELSE ledger[r]
BY DEF BookTypeOK, Insert, OnlyAt

\* The draft is done with.
LEMMA DraftGone ==
  ASSUME BookTypeOK, NEW r \in BookIds, draft' = [draft EXCEPT ![r] = NoLine]
  PROVE  draft' \in [BookIds -> Lines \cup {NoLine}] /\ OnlyAt(r, draft, draft')
BY DEF BookTypeOK, OnlyAt

LEMMA GoodLine ==
  ASSUME NEW tokens \in Nat
  PROVE  CountsAsSuccess(RouteLine(200, tokens)) <=> tokens # 0
<1>1. 200 < 400
  OBVIOUS
<1>2. RouteLine(200, tokens).status = "success"
  BY <1>1 DEF RouteLine
<1>3. RouteLine(200, tokens).empty = (200 < 400 /\ tokens = 0)
  BY DEF RouteLine
<1>4. RouteLine(200, tokens).empty = (tokens = 0)
  BY <1>1, <1>3
<1> QED
  BY <1>2, <1>4 DEF CountsAsSuccess

LEMMA LineTypes ==
  /\ HitLine \in Lines
  /\ \A status \in {"success", "error", "timeout"} : PlainLine(status) \in Lines
  /\ \A code \in {200, 502}, tokens \in Nat : RouteLine(code, tokens) \in Lines
  /\ \A code \in Nat : TraceOf(code) \in {"success", "error", "rate_limited"}
BY DEF HitLine, PlainLine, RouteLine, Lines, TraceOf

LEMMA RefuseManagedStep ==
  ASSUME BookInv, NEW r \in BookIds, NEW code \in {412}, RefuseManaged(r, code)
  PROVE  BookInv'
<1> USE DEF BookInv
<1>1. place[r] = "new"
  BY DEF RefuseManaged, BookStages
<1>2. place' \in [BookIds -> BookStages] /\ OnlyAt(r, place, place') /\ place'[r] = "done"
  BY GoOK DEF RefuseManaged, BookStages
<1>3. received' \in [BookIds -> Told] /\ OnlyAt(r, received, received') /\ received'[r].status = code /\ received'[r].whole
  <2>1. WholeAnswer(r, code)
    BY DEF RefuseManaged, WholeAnswer
  <2>2. code \in {200, 401, 412, 429, 502}
    OBVIOUS
  <2> QED
    BY <2>1, <2>2, AnsweredWhole
<1>4. UNCHANGED <<produced, usage, draft, ledger, trace, activity, gaps>>
  BY DEF RefuseManaged
<1> HIDE DEF BookInv
<1> USE <1>1, <1>2, <1>3, <1>4
<1>91. BookTypeOK'
  BY DEF BookInv, BookTypeOK
<1>92. r \in Managed => BookOf(r)'
  BY DEF BookInv, BookOf, Unwritten
<1>93. PlaceOK(r)'
  BY DEF BookInv, PlaceOK
<1>94. \A t \in BookIds \ {r} : SameBook(t)
  BY DEF SameBook, OnlyAt
<1> QED
  BY <1>91, <1>92, <1>93, <1>94, OneBookMoves

LEMMA RefuseLegacyStep ==
  ASSUME BookInv, NEW r \in BookIds, NEW code \in {401, 429}, RefuseLegacy(r, code)
  PROVE  BookInv'
<1> USE DEF BookInv
<1>1. place[r] = "new" /\ r \notin Managed
  BY DEF RefuseLegacy, BookStages
<1>2. place' \in [BookIds -> BookStages] /\ OnlyAt(r, place, place') /\ place'[r] = "done"
  BY GoOK DEF RefuseLegacy, BookStages
<1>3. received' \in [BookIds -> Told] /\ OnlyAt(r, received, received') /\ received'[r].status = code /\ received'[r].whole
  <2>1. WholeAnswer(r, code)
    BY DEF RefuseLegacy, WholeAnswer
  <2>2. code \in {200, 401, 412, 429, 502}
    OBVIOUS
  <2> QED
    BY <2>1, <2>2, AnsweredWhole
<1>4. trace' \in [BookIds -> {"success", "error", "timeout", "rate_limited", NoLine}] /\ OnlyAt(r, trace, trace')
  BY EmitOK, LineTypes DEF RefuseLegacy
<1>5. gaps' \subseteq BookIds /\ \A t \in BookIds \ {r} : t \in gaps' <=> t \in gaps
  BY EmitOK, LineTypes DEF RefuseLegacy
<1>6. UNCHANGED <<produced, usage, draft, ledger, activity>>
  BY DEF RefuseLegacy
<1> HIDE DEF BookInv
<1> USE <1>1, <1>2, <1>3, <1>4, <1>5, <1>6
<1>91. BookTypeOK'
  BY DEF BookInv, BookTypeOK
<1>92. r \in Managed => BookOf(r)'
  BY DEF BookInv, BookOf, Unwritten
<1>93. PlaceOK(r)'
  BY DEF BookInv, PlaceOK
<1>94. \A t \in BookIds \ {r} : SameBook(t)
  BY DEF SameBook, OnlyAt
<1> QED
  BY <1>91, <1>92, <1>93, <1>94, OneBookMoves

LEMMA TakeFromCacheStep ==
  ASSUME BookInv, NEW r \in BookIds, TakeFromCache(r)
  PROVE  BookInv'
<1> USE DEF BookInv
<1>1. place[r] = "new"
  BY DEF TakeFromCache, BookStages
<1>2. place' \in [BookIds -> BookStages] /\ OnlyAt(r, place, place') /\ place'[r] = "hit"
  BY WriteOK, LineTypes DEF TakeFromCache, BookStages
<1>3. draft' \in [BookIds -> Lines \cup {NoLine}] /\ OnlyAt(r, draft, draft') /\ draft'[r] = HitLine
  BY WriteOK, LineTypes DEF TakeFromCache, BookStages
<1>4. received' \in [BookIds -> Told] /\ OnlyAt(r, received, received') /\ received'[r].status = 200 /\ received'[r].whole
  <2>1. WholeAnswer(r, 200)
    BY DEF TakeFromCache, WholeAnswer
  <2>2. 200 \in {200, 401, 412, 429, 502}
    OBVIOUS
  <2> QED
    BY <2>1, <2>2, AnsweredWhole
<1>5. UNCHANGED <<produced, usage, ledger, trace, activity, gaps>>
  BY DEF TakeFromCache
<1> HIDE DEF BookInv
<1> USE <1>1, <1>2, <1>3, <1>4, <1>5
<1>91. BookTypeOK'
  BY DEF BookInv, BookTypeOK
<1>92. r \in Managed => BookOf(r)'
  BY DEF BookInv, BookOf, Unwritten
<1>93. PlaceOK(r)'
  BY DEF BookInv, PlaceOK
<1>94. \A t \in BookIds \ {r} : SameBook(t)
  BY DEF SameBook, OnlyAt
<1> QED
  BY <1>91, <1>92, <1>93, <1>94, OneBookMoves

LEMMA WalkStep ==
  ASSUME BookInv, NEW r \in BookIds, Walk(r)
  PROVE  BookInv'
<1> USE DEF BookInv
<1>1. place[r] = "new"
  BY DEF Walk, BookStages
<1>2. place' \in [BookIds -> BookStages] /\ OnlyAt(r, place, place') /\ place'[r] = "walking"
  BY GoOK DEF Walk, BookStages
<1>3. UNCHANGED <<produced, usage, draft, ledger, trace, activity, received, gaps>>
  BY DEF Walk
<1> HIDE DEF BookInv
<1> USE <1>1, <1>2, <1>3
<1>91. BookTypeOK'
  BY DEF BookInv, BookTypeOK
<1>92. r \in Managed => BookOf(r)'
  BY DEF BookInv, BookOf, Unwritten
<1>93. PlaceOK(r)'
  BY DEF BookInv, PlaceOK
<1>94. \A t \in BookIds \ {r} : SameBook(t)
  BY DEF SameBook, OnlyAt
<1> QED
  BY <1>91, <1>92, <1>93, <1>94, OneBookMoves

LEMMA WalkRaisesStep ==
  ASSUME BookInv, NEW r \in BookIds, WalkRaises(r)
  PROVE  BookInv'
<1> USE DEF BookInv
<1>1. PICK failure \in FailureTraces :
        EmitTrace(r, failure) /\ Raise(r, PlainLine(IF r \in Managed THEN "error" ELSE failure))
  BY DEF WalkRaises
<1>2. PICK line \in Lines : /\ Write(r, line, "noting") /\ PartAnswer(r, 502)
                            /\ r \in Managed => line = PlainLine("error")
  BY <1>1, LineTypes DEF FailureTraces, Raise, PartAnswer
<1>3. place[r] = "walking" /\ UNCHANGED <<produced, usage, ledger, activity>>
  BY DEF WalkRaises
<1>4. place' \in [BookIds -> BookStages] /\ OnlyAt(r, place, place') /\ place'[r] = "noting"
      /\ draft' \in [BookIds -> Lines \cup {NoLine}] /\ OnlyAt(r, draft, draft') /\ draft'[r] = line
  BY <1>2, WriteOK DEF BookStages
<1>5. received' \in [BookIds -> Told] /\ OnlyAt(r, received, received') /\ received'[r].status = 502
      /\ ~ received'[r].whole
  <2>1. 502 \in {200, 401, 412, 429, 502}
    OBVIOUS
  <2> QED
    BY <1>2, <2>1, AnsweredPart
<1>6. trace' \in [BookIds -> {"success", "error", "timeout", "rate_limited", NoLine}] /\ OnlyAt(r, trace, trace')
      /\ trace'[r] \in {failure, trace[r]} /\ failure \in {"error", "timeout"}
      /\ gaps' \subseteq BookIds /\ \A t \in BookIds \ {r} : t \in gaps' <=> t \in gaps
  BY <1>1, EmitOK DEF FailureTraces
<1> HIDE DEF BookInv
<1> USE <1>2, <1>3, <1>4, <1>5, <1>6
<1>91. BookTypeOK'
  BY DEF BookInv, BookTypeOK
<1>92. r \in Managed => BookOf(r)'
  BY DEF BookInv, BookOf, Unwritten
<1>93. PlaceOK(r)'
  BY DEF BookInv, PlaceOK
<1>94. \A t \in BookIds \ {r} : SameBook(t)
  BY DEF SameBook, OnlyAt
<1> QED
  BY <1>91, <1>92, <1>93, <1>94, OneBookMoves

LEMMA AnswerPlainStep ==
  ASSUME BookInv, NEW r \in BookIds, NEW code \in {200, 502}, NEW tokens \in 0..MaxTokens, NEW tells \in BOOLEAN, AnswerPlain(r, code, tokens, tells)
  PROVE  BookInv'
<1> USE DEF BookInv
<1>1. place[r] = "walking"
  BY DEF AnswerPlain, BookStages
<1>2. produced' \in [BookIds -> 0..MaxTokens] /\ OnlyAt(r, produced, produced') /\ produced'[r] = tokens
  BY DEF AnswerPlain, BookTypeOK, OnlyAt
<1>3. usage' \in [BookIds -> 0..MaxTokens] /\ OnlyAt(r, usage, usage') /\ usage'[r] \in {0, tokens}
  BY BookAssumption DEF AnswerPlain, BookTypeOK, OnlyAt
<1>4. usage'[r] \in Nat /\ usage'[r] <= produced'[r]
  BY <1>3, <1>2, BookAssumption
<1>5. place' \in [BookIds -> BookStages] /\ OnlyAt(r, place, place') /\ place'[r] = "plain"
  BY <1>4, WriteOK, LineTypes DEF AnswerPlain, BookStages
<1>6. draft' \in [BookIds -> Lines \cup {NoLine}] /\ OnlyAt(r, draft, draft') /\ draft'[r] = RouteLine(code, usage'[r])
  BY <1>4, WriteOK, LineTypes DEF AnswerPlain, BookStages
<1>7. received' \in [BookIds -> Told] /\ OnlyAt(r, received, received') /\ received'[r].status = code /\ received'[r].whole
  <2>1. WholeAnswer(r, code)
    BY DEF AnswerPlain, WholeAnswer
  <2>2. code \in {200, 401, 412, 429, 502}
    OBVIOUS
  <2> QED
    BY <2>1, <2>2, AnsweredWhole
<1>8. UNCHANGED <<ledger, trace, activity, gaps>>
  BY DEF AnswerPlain
<1> HIDE DEF BookInv
<1> USE <1>1, <1>2, <1>3, <1>4, <1>5, <1>6, <1>7, <1>8
<1>91. BookTypeOK'
  BY DEF BookInv, BookTypeOK
<1>92. r \in Managed => BookOf(r)'
  BY DEF BookInv, BookOf, Unwritten
<1>93. PlaceOK(r)'
  BY DEF BookInv, PlaceOK
<1>94. \A t \in BookIds \ {r} : SameBook(t)
  BY DEF SameBook, OnlyAt
<1> QED
  BY <1>91, <1>92, <1>93, <1>94, OneBookMoves

LEMMA AnswerLegacyStep ==
  ASSUME BookInv, NEW r \in BookIds, NEW code \in {200, 502}, AnswerLegacy(r, code)
  PROVE  BookInv'
<1> USE DEF BookInv
<1>1. place[r] = "walking" /\ r \notin Managed
  BY DEF AnswerLegacy, BookStages
<1>2. place' \in [BookIds -> BookStages] /\ OnlyAt(r, place, place') /\ place'[r] = "legacy"
  BY WriteOK, LineTypes DEF AnswerLegacy, BookStages
<1>3. draft' \in [BookIds -> Lines \cup {NoLine}] /\ OnlyAt(r, draft, draft') /\ draft'[r] = PlainLine("success")
  BY WriteOK, LineTypes DEF AnswerLegacy, BookStages
<1>4. received' \in [BookIds -> Told] /\ OnlyAt(r, received, received') /\ received'[r].status = code /\ received'[r].whole
  <2>1. WholeAnswer(r, code)
    BY DEF AnswerLegacy, WholeAnswer
  <2>2. code \in {200, 401, 412, 429, 502}
    OBVIOUS
  <2> QED
    BY <2>1, <2>2, AnsweredWhole
<1>5. UNCHANGED <<produced, usage, ledger, trace, activity, gaps>>
  BY DEF AnswerLegacy
<1> HIDE DEF BookInv
<1> USE <1>1, <1>2, <1>3, <1>4, <1>5
<1>91. BookTypeOK'
  BY DEF BookInv, BookTypeOK
<1>92. r \in Managed => BookOf(r)'
  BY DEF BookInv, BookOf, Unwritten
<1>93. PlaceOK(r)'
  BY DEF BookInv, PlaceOK
<1>94. \A t \in BookIds \ {r} : SameBook(t)
  BY DEF SameBook, OnlyAt
<1> QED
  BY <1>91, <1>92, <1>93, <1>94, OneBookMoves

LEMMA OfferStreamStep ==
  ASSUME BookInv, NEW r \in BookIds, NEW text \in BOOLEAN, NEW tells \in BOOLEAN, OfferStream(r, text, tells)
  PROVE  BookInv'
<1> USE DEF BookInv
<1>1. place[r] = "walking"
  BY DEF OfferStream, BookStages
<1>2. produced[r] < MaxTokens /\ usage[r] <= produced[r] /\ (r \in Managed)
  BY <1>1, BookAssumption DEF OfferStream, PlaceOK, BookOf
<1>3. place' \in [BookIds -> BookStages] /\ OnlyAt(r, place, place') /\ place'[r] = "offered"
  BY GoOK DEF OfferStream, BookStages
<1>4. produced' \in [BookIds -> 0..MaxTokens] /\ OnlyAt(r, produced, produced') /\ usage'[r] <= produced'[r]
  BY <1>2, HearOK DEF OfferStream
<1>5. usage' \in [BookIds -> 0..MaxTokens] /\ OnlyAt(r, usage, usage')
  BY <1>2, HearOK DEF OfferStream
<1>6. UNCHANGED <<draft, ledger, trace, activity, received, gaps>>
  BY DEF OfferStream
<1> HIDE DEF BookInv
<1> USE <1>1, <1>2, <1>3, <1>4, <1>5, <1>6
<1>91. BookTypeOK'
  BY DEF BookInv, BookTypeOK
<1>92. r \in Managed => BookOf(r)'
  BY DEF BookInv, BookOf, Unwritten
<1>93. PlaceOK(r)'
  BY DEF BookInv, PlaceOK
<1>94. \A t \in BookIds \ {r} : SameBook(t)
  BY DEF SameBook, OnlyAt
<1> QED
  BY <1>91, <1>92, <1>93, <1>94, OneBookMoves

LEMMA SendFirstStep ==
  ASSUME BookInv, NEW r \in BookIds, SendFirst(r)
  PROVE  BookInv'
<1> USE DEF BookInv
<1>1. place[r] = "offered"
  BY DEF SendFirst, BookStages
<1>2. place' \in [BookIds -> BookStages] /\ OnlyAt(r, place, place') /\ place'[r] = "streaming"
  BY GoOK DEF SendFirst, BookStages
<1>3. received' \in [BookIds -> Told] /\ OnlyAt(r, received, received') /\ received'[r].status = 200 /\ ~ received'[r].whole
  <2>1. PartAnswer(r, 200)
    BY DEF SendFirst, PartAnswer
  <2>2. 200 \in {200, 401, 412, 429, 502}
    OBVIOUS
  <2> QED
    BY <2>1, <2>2, AnsweredPart
<1>4. UNCHANGED <<produced, usage, draft, ledger, trace, activity, gaps>>
  BY DEF SendFirst
<1> HIDE DEF BookInv
<1> USE <1>1, <1>2, <1>3, <1>4
<1>91. BookTypeOK'
  BY DEF BookInv, BookTypeOK
<1>92. r \in Managed => BookOf(r)'
  BY DEF BookInv, BookOf, Unwritten
<1>93. PlaceOK(r)'
  BY DEF BookInv, PlaceOK
<1>94. \A t \in BookIds \ {r} : SameBook(t)
  BY DEF SameBook, OnlyAt
<1> QED
  BY <1>91, <1>92, <1>93, <1>94, OneBookMoves

LEMMA SendChunkStep ==
  ASSUME BookInv, NEW r \in BookIds, NEW text \in BOOLEAN, NEW tells \in BOOLEAN, SendChunk(r, text, tells)
  PROVE  BookInv'
<1> USE DEF BookInv
<1>1. place[r] = "streaming"
  BY DEF SendChunk, BookStages
<1>2. produced[r] < MaxTokens /\ usage[r] <= produced[r] /\ (r \in Managed)
  BY <1>1, BookAssumption DEF SendChunk, PlaceOK, BookOf
<1>3. produced' \in [BookIds -> 0..MaxTokens] /\ OnlyAt(r, produced, produced') /\ usage'[r] <= produced'[r]
  BY <1>2, HearOK DEF SendChunk
<1>4. usage' \in [BookIds -> 0..MaxTokens] /\ OnlyAt(r, usage, usage')
  BY <1>2, HearOK DEF SendChunk
<1>5. UNCHANGED <<place, draft, ledger, trace, activity, received, gaps>>
  BY DEF SendChunk
<1> HIDE DEF BookInv
<1> USE <1>1, <1>2, <1>3, <1>4, <1>5
<1>91. BookTypeOK'
  BY DEF BookInv, BookTypeOK
<1>92. r \in Managed => BookOf(r)'
  BY DEF BookInv, BookOf, Unwritten
<1>93. PlaceOK(r)'
  BY DEF BookInv, PlaceOK
<1>94. \A t \in BookIds \ {r} : SameBook(t)
  BY DEF SameBook, OnlyAt
<1> QED
  BY <1>91, <1>92, <1>93, <1>94, OneBookMoves

LEMMA BreakOffStep ==
  ASSUME BookInv, NEW r \in BookIds, BreakOff(r)
  PROVE  BookInv'
<1> USE DEF BookInv
<1>1. RouteLine(200, usage[r]) \in Lines /\ RouteLine(502, usage[r]) \in Lines
  BY LineTypes, BookAssumption DEF BookTypeOK
<1>2. place[r] = "streaming"
  BY DEF BreakOff, BrokenStatus, BookStages
<1>3. place' \in [BookIds -> BookStages] /\ OnlyAt(r, place, place') /\ place'[r] = "closing"
  BY <1>1, WriteOK DEF BreakOff, BrokenStatus, BookStages
<1>4. draft' \in [BookIds -> Lines \cup {NoLine}] /\ OnlyAt(r, draft, draft') /\ draft'[r] = RouteLine(502, usage[r])
  BY <1>1, WriteOK DEF BreakOff, BrokenStatus, BookStages
<1>5. UNCHANGED <<produced, usage, ledger, trace, activity, received, gaps>>
  BY DEF BreakOff, BrokenStatus
<1> HIDE DEF BookInv
<1> USE <1>1, <1>2, <1>3, <1>4, <1>5
<1>91. BookTypeOK'
  BY DEF BookInv, BookTypeOK
<1>92. r \in Managed => BookOf(r)'
  BY DEF BookInv, BookOf, Unwritten
<1>93. PlaceOK(r)'
  BY DEF BookInv, PlaceOK
<1>94. \A t \in BookIds \ {r} : SameBook(t)
  BY DEF SameBook, OnlyAt
<1> QED
  BY <1>91, <1>92, <1>93, <1>94, OneBookMoves

LEMMA EndStreamStep ==
  ASSUME BookInv, NEW r \in BookIds, EndStream(r)
  PROVE  BookInv'
<1> USE DEF BookInv
<1>1. RouteLine(200, usage[r]) \in Lines /\ RouteLine(502, usage[r]) \in Lines
  BY LineTypes, BookAssumption DEF BookTypeOK
<1>2. place[r] = "streaming"
  BY DEF EndStream, BookStages
<1>3. place' \in [BookIds -> BookStages] /\ OnlyAt(r, place, place') /\ place'[r] = "closing"
  BY <1>1, WriteOK DEF EndStream, BookStages
<1>4. draft' \in [BookIds -> Lines \cup {NoLine}] /\ OnlyAt(r, draft, draft') /\ draft'[r] = RouteLine(200, usage[r])
  BY <1>1, WriteOK DEF EndStream, BookStages
<1>5. received' \in [BookIds -> Told] /\ OnlyAt(r, received, received') /\ received'[r].status = 200 /\ received'[r].whole
  <2>1. WholeAnswer(r, 200)
    BY DEF EndStream, WholeAnswer
  <2>2. 200 \in {200, 401, 412, 429, 502}
    OBVIOUS
  <2> QED
    BY <2>1, <2>2, AnsweredWhole
<1>6. UNCHANGED <<produced, usage, ledger, trace, activity, gaps>>
  BY DEF EndStream
<1> HIDE DEF BookInv
<1> USE <1>1, <1>2, <1>3, <1>4, <1>5, <1>6
<1>91. BookTypeOK'
  BY DEF BookInv, BookTypeOK
<1>92. r \in Managed => BookOf(r)'
  BY DEF BookInv, BookOf, Unwritten
<1>93. PlaceOK(r)'
  BY DEF BookInv, PlaceOK
<1>94. \A t \in BookIds \ {r} : SameBook(t)
  BY DEF SameBook, OnlyAt
<1> QED
  BY <1>91, <1>92, <1>93, <1>94, OneBookMoves

LEMMA LeaveUnheardStep ==
  ASSUME BookInv, NEW r \in BookIds, LeaveUnheard(r)
  PROVE  BookInv'
<1> USE DEF BookInv
<1>1. place[r] = "offered"
  BY DEF LeaveUnheard, BookStages
<1>2. place' \in [BookIds -> BookStages] /\ OnlyAt(r, place, place') /\ place'[r] = "done"
  BY GoOK DEF LeaveUnheard, BookStages
<1>3. received' \in [BookIds -> Told] /\ OnlyAt(r, received, received') /\ received'[r].left
  BY GoneOK DEF LeaveUnheard
<1>4. UNCHANGED <<produced, usage, draft, ledger, trace, activity, gaps>>
  BY DEF LeaveUnheard
<1> HIDE DEF BookInv
<1> USE <1>1, <1>2, <1>3, <1>4
<1>91. BookTypeOK'
  BY DEF BookInv, BookTypeOK
<1>92. r \in Managed => BookOf(r)'
  BY DEF BookInv, BookOf, Unwritten
<1>93. PlaceOK(r)'
  BY DEF BookInv, PlaceOK
<1>94. \A t \in BookIds \ {r} : SameBook(t)
  BY DEF SameBook, OnlyAt
<1> QED
  BY <1>91, <1>92, <1>93, <1>94, OneBookMoves

LEMMA LeaveStreamStep ==
  ASSUME BookInv, NEW r \in BookIds, LeaveStream(r)
  PROVE  BookInv'
<1> USE DEF BookInv
<1>1. RouteLine(200, usage[r]) \in Lines /\ RouteLine(502, usage[r]) \in Lines
  BY LineTypes, BookAssumption DEF BookTypeOK
<1>2. place[r] = "streaming"
  BY DEF LeaveStream, BookStages
<1>3. place' \in [BookIds -> BookStages] /\ OnlyAt(r, place, place') /\ place'[r] = "closing"
  BY <1>1, WriteOK DEF LeaveStream, BookStages
<1>4. draft' \in [BookIds -> Lines \cup {NoLine}] /\ OnlyAt(r, draft, draft')
  BY <1>1, WriteOK DEF LeaveStream, BookStages
<1>5. received' \in [BookIds -> Told] /\ OnlyAt(r, received, received') /\ received'[r].left
  BY GoneOK DEF LeaveStream
<1>6. UNCHANGED <<produced, usage, ledger, trace, activity, gaps>>
  BY DEF LeaveStream
<1> HIDE DEF BookInv
<1> USE <1>1, <1>2, <1>3, <1>4, <1>5, <1>6
<1>91. BookTypeOK'
  BY DEF BookInv, BookTypeOK
<1>92. r \in Managed => BookOf(r)'
  BY DEF BookInv, BookOf, Unwritten
<1>93. PlaceOK(r)'
  BY DEF BookInv, PlaceOK
<1>94. \A t \in BookIds \ {r} : SameBook(t)
  BY DEF SameBook, OnlyAt
<1> QED
  BY <1>91, <1>92, <1>93, <1>94, OneBookMoves

LEMMA CancelRequestStep ==
  ASSUME BookInv, NEW r \in BookIds, CancelRequest(r)
  PROVE  BookInv'
<1> USE DEF BookInv
<1>1. place' \in [BookIds -> BookStages] /\ OnlyAt(r, place, place') /\ place'[r] = "done"
  BY GoOK DEF CancelRequest, BookStages
<1>2. received' \in [BookIds -> Told] /\ OnlyAt(r, received, received') /\ received'[r].left
  BY GoneOK DEF CancelRequest
<1>3. ledger' \in [BookIds -> Lines \cup {NoLine}] /\ OnlyAt(r, ledger, ledger')
  BY DEF CancelRequest, BookTypeOK, OnlyAt
<1>4. draft' \in [BookIds -> Lines \cup {NoLine}] /\ OnlyAt(r, draft, draft')
  BY DraftGone DEF CancelRequest
<1>5. UNCHANGED <<produced, usage, trace, activity, gaps>>
  BY DEF CancelRequest
<1> HIDE DEF BookInv
<1> USE <1>1, <1>2, <1>3, <1>4, <1>5
<1>91. BookTypeOK'
  BY DEF BookInv, BookTypeOK
<1>92. r \in Managed => BookOf(r)'
  BY DEF BookInv, BookOf, Unwritten
<1>93. PlaceOK(r)'
  BY DEF BookInv, PlaceOK
<1>94. \A t \in BookIds \ {r} : SameBook(t)
  BY DEF SameBook, OnlyAt
<1> QED
  BY <1>91, <1>92, <1>93, <1>94, OneBookMoves

LEMMA LegacyBookedStep ==
  ASSUME BookInv, NEW r \in BookIds, NEW lands \in BOOLEAN, NEW traced \in BOOLEAN, LegacyBooked(r, lands, traced)
  PROVE  BookInv'
<1> USE DEF BookInv
<1>1. place[r] = "legacy"
  BY DEF LegacyBooked, BookStages
<1>2. place' \in [BookIds -> BookStages] /\ OnlyAt(r, place, place') /\ place'[r] = "done"
  BY GoOK DEF LegacyBooked, BookStages
<1>3. ledger' \in [BookIds -> Lines \cup {NoLine}] /\ OnlyAt(r, ledger, ledger')
  BY InsertOK DEF LegacyBooked
<1>4. TraceOf(received[r].status) \in {"success", "error", "rate_limited"}
  BY DEF TraceOf
<1>5. trace' \in [BookIds -> {"success", "error", "timeout", "rate_limited", NoLine}] /\ OnlyAt(r, trace, trace')
  BY <1>4 DEF LegacyBooked, BookTypeOK, OnlyAt
<1>6. gaps' \subseteq BookIds /\ \A t \in BookIds \ {r} : t \in gaps' <=> t \in gaps
  BY DEF LegacyBooked, Missing, BookTypeOK
<1>7. draft' \in [BookIds -> Lines \cup {NoLine}] /\ OnlyAt(r, draft, draft')
  BY DraftGone DEF LegacyBooked
<1>8. UNCHANGED <<produced, usage, activity, received>>
  BY DEF LegacyBooked
<1> HIDE DEF BookInv
<1> USE <1>1, <1>2, <1>3, <1>4, <1>5, <1>6, <1>7, <1>8
<1>91. BookTypeOK'
  BY DEF BookInv, BookTypeOK
<1>92. r \in Managed => BookOf(r)'
  BY DEF BookInv, BookOf, Unwritten
<1>93. PlaceOK(r)'
  BY DEF BookInv, PlaceOK
<1>94. \A t \in BookIds \ {r} : SameBook(t)
  BY DEF SameBook, OnlyAt
<1> QED
  BY <1>91, <1>92, <1>93, <1>94, OneBookMoves

LEMMA PlainBookedStep ==
  ASSUME BookInv, NEW r \in BookIds, NEW lands \in BOOLEAN, NEW traced \in BOOLEAN, PlainBooked(r, lands, traced)
  PROVE  BookInv'
<1> USE DEF BookInv
<1>1. place[r] = "plain"
  BY DEF PlainBooked, Booked, BookStages
<1>2. place' \in [BookIds -> BookStages] /\ OnlyAt(r, place, place') /\ place'[r] = "done"
  BY GoOK DEF PlainBooked, Booked, BookStages
<1>3. ledger' \in [BookIds -> Lines \cup {NoLine}] /\ OnlyAt(r, ledger, ledger') /\ (lands => ledger'[r] = draft[r])
  BY InsertOK DEF PlainBooked, Booked
<1>4. TraceOf(received[r].status) \in {"success", "error", "rate_limited"}
  BY DEF TraceOf
<1>5. trace' \in [BookIds -> {"success", "error", "timeout", "rate_limited", NoLine}] /\ OnlyAt(r, trace, trace') /\ (traced => trace'[r] = TraceOf(received[r].status))
  BY <1>4 DEF PlainBooked, Booked, BookTypeOK, OnlyAt
<1>6. (r \notin gaps' => lands /\ traced) /\ gaps' \subseteq BookIds /\ \A t \in BookIds \ {r} : t \in gaps' <=> t \in gaps
  BY DEF PlainBooked, Booked, Missing, BookTypeOK
<1>7. draft' \in [BookIds -> Lines \cup {NoLine}] /\ OnlyAt(r, draft, draft')
  BY DraftGone DEF PlainBooked, Booked
<1>8. activity' \subseteq BookIds
  BY DEF PlainBooked, Booked, BookTypeOK
<1>9. UNCHANGED <<produced, usage, received>>
  BY DEF PlainBooked, Booked
<1> HIDE DEF BookInv
<1> USE <1>1, <1>2, <1>3, <1>4, <1>5, <1>6, <1>7, <1>8, <1>9
<1>91. BookTypeOK'
  BY DEF BookInv, BookTypeOK
<1>92. r \in Managed => BookOf(r)'
  <2> SUFFICES ASSUME r \in Managed, r \notin gaps' PROVE CountedRight(r)' /\ usage[r] <= produced[r]
    BY DEF BookInv, BookOf
  <2>1. /\ ledger'[r] = RouteLine(received[r].status, usage[r]) /\ trace'[r] = TraceOf(received[r].status)
        /\ received[r].whole /\ received[r].status \in {200, 502} /\ usage[r] <= produced[r]
        /\ usage[r] \in Nat /\ produced[r] \in Nat
    BY BookAssumption DEF BookInv, BookOf, BookTypeOK
  <2>2. CASE received[r].status = 200
    <3>1. ledger'[r].status = "success" /\ trace'[r] = "success"
      BY <2>1, <2>2 DEF RouteLine, TraceOf
    <3>2. CountsAsSuccess(ledger'[r]) <=> usage[r] # 0
      BY <2>1, <2>2, GoodLine
    <3> QED
      BY <2>1, <2>2, <3>1, <3>2 DEF CountedRight, Served
  <2>3. CASE received[r].status = 502
    <3>1. ledger'[r].status = "error" /\ trace'[r] = "error"
      BY <2>1, <2>3 DEF RouteLine, TraceOf
    <3> QED
      BY <2>1, <2>3, <3>1 DEF CountedRight, CountsAsSuccess, Served
  <2> QED
    BY <2>1, <2>2, <2>3
<1>93. PlaceOK(r)'
  BY DEF BookInv, PlaceOK
<1>94. \A t \in BookIds \ {r} : SameBook(t)
  BY DEF SameBook, OnlyAt
<1> QED
  BY <1>91, <1>92, <1>93, <1>94, OneBookMoves

LEMMA PlainGarbledStep ==
  ASSUME BookInv, NEW r \in BookIds, NEW lands \in BOOLEAN, NEW traced \in BOOLEAN, PlainGarbled(r, lands, traced)
  PROVE  BookInv'
<1> USE DEF BookInv
<1>1. place[r] = "plain"
  BY DEF PlainGarbled, Booked, BookStages
<1>2. place' \in [BookIds -> BookStages] /\ OnlyAt(r, place, place') /\ place'[r] = "noting"
  BY WriteOK, LineTypes DEF PlainGarbled, Booked, Raise, BookStages
<1>3. draft' \in [BookIds -> Lines \cup {NoLine}] /\ OnlyAt(r, draft, draft') /\ draft'[r] = PlainLine("error")
  BY WriteOK, LineTypes DEF PlainGarbled, Booked, Raise, BookStages
<1>4. received' \in [BookIds -> Told] /\ OnlyAt(r, received, received') /\ received'[r].status = 502 /\ ~ received'[r].whole
  <2>1. PartAnswer(r, 502)
    BY DEF PlainGarbled, Booked, Raise, PartAnswer
  <2>2. 502 \in {200, 401, 412, 429, 502}
    OBVIOUS
  <2> QED
    BY <2>1, <2>2, AnsweredPart
<1>5. ledger' \in [BookIds -> Lines \cup {NoLine}] /\ OnlyAt(r, ledger, ledger')
  BY InsertOK DEF PlainGarbled, Booked
<1>6. trace' \in [BookIds -> {"success", "error", "timeout", "rate_limited", NoLine}] /\ OnlyAt(r, trace, trace') /\ trace'[r] \in {"error", trace[r]}
  BY DEF PlainGarbled, Booked, BookTypeOK, OnlyAt
<1>7. gaps' \subseteq BookIds /\ \A t \in BookIds \ {r} : t \in gaps' <=> t \in gaps
  BY DEF PlainGarbled, Booked, Missing, BookTypeOK
<1>8. activity' \subseteq BookIds
  BY DEF PlainGarbled, Booked, BookTypeOK
<1>9. UNCHANGED <<produced, usage>>
  BY DEF PlainGarbled, Booked
<1> HIDE DEF BookInv
<1> USE <1>1, <1>2, <1>3, <1>4, <1>5, <1>6, <1>7, <1>8, <1>9
<1>91. BookTypeOK'
  BY DEF BookInv, BookTypeOK
<1>92. r \in Managed => BookOf(r)'
  <2> SUFFICES ASSUME r \in Managed PROVE BookOf(r)'
    OBVIOUS
  <2>1. Unwritten(r) /\ usage[r] <= produced[r]
    BY DEF BookInv, BookOf
  <2>2. trace'[r] \in {"error", "timeout", NoLine}
    BY <2>1 DEF Unwritten
  <2> QED
    BY <2>1, <2>2 DEF BookOf
<1>93. PlaceOK(r)'
  BY DEF BookInv, PlaceOK
<1>94. \A t \in BookIds \ {r} : SameBook(t)
  BY DEF SameBook, OnlyAt
<1> QED
  BY <1>91, <1>92, <1>93, <1>94, OneBookMoves

LEMMA ClosedStep ==
  ASSUME BookInv, NEW r \in BookIds, NEW lands \in BOOLEAN, Closed(r, lands)
  PROVE  BookInv'
<1> USE DEF BookInv
<1>1. place[r] \in {"hit", "noting", "closing"}
  BY DEF Closed, BookStages
<1>2. place' \in [BookIds -> BookStages] /\ OnlyAt(r, place, place') /\ place'[r] = "done"
  BY GoOK DEF Closed, BookStages
<1>3. ledger' \in [BookIds -> Lines \cup {NoLine}] /\ OnlyAt(r, ledger, ledger') /\ (lands => ledger'[r] = draft[r])
  BY InsertOK DEF Closed
<1>4. (r \notin gaps' => lands) /\ gaps' \subseteq BookIds /\ \A t \in BookIds \ {r} : t \in gaps' <=> t \in gaps
  BY DEF Closed, BookTypeOK
<1>5. draft' \in [BookIds -> Lines \cup {NoLine}] /\ OnlyAt(r, draft, draft')
  BY DraftGone DEF Closed
<1>6. UNCHANGED <<produced, usage, trace, activity, received>>
  BY DEF Closed
<1> HIDE DEF BookInv
<1> USE <1>1, <1>2, <1>3, <1>4, <1>5, <1>6
<1>91. BookTypeOK'
  BY DEF BookInv, BookTypeOK
<1>92. r \in Managed => BookOf(r)'
  <2> SUFFICES ASSUME r \in Managed, r \notin gaps', ~ received[r].left
               PROVE  ledger'[r].hit \/ CountedRight(r)'
    BY DEF BookInv, BookOf
  <2>1. /\ ledger'[r] = draft[r] /\ BookOf(r) /\ usage[r] \in Nat /\ produced[r] \in Nat
        /\ usage[r] <= produced[r]
    BY BookAssumption DEF BookInv, BookOf, BookTypeOK
  <2>2. CASE place[r] = "hit"
    BY <2>1, <2>2 DEF BookOf, HitLine
  <2>3. CASE place[r] = "noting"
    <3>1. /\ ledger'[r].status = "error" /\ received[r].status = 502
          /\ trace[r] \in {"error", "timeout", NoLine}
      BY <2>1, <2>3 DEF BookOf, PlainLine
    <3> QED
      BY <3>1 DEF CountedRight, CountsAsSuccess, Served
  <2>4. CASE place[r] = "closing" /\ ~ received[r].whole
    <3>1. trace[r] = NoLine /\ ledger'[r].status = "error"
      BY <2>1, <2>4 DEF BookOf, Unwritten, RouteLine
    <3> QED
      BY <2>4, <3>1 DEF CountedRight, CountsAsSuccess, Served
  <2>5. CASE place[r] = "closing" /\ received[r].whole
    <3>1. /\ trace[r] = NoLine /\ received[r].status = 200
          /\ ledger'[r] = RouteLine(200, usage[r])
      BY <2>1, <2>5 DEF BookOf, Unwritten
    <3>2. ledger'[r].status = "success"
      BY <3>1 DEF RouteLine
    <3>3. CountsAsSuccess(ledger'[r]) <=> usage[r] # 0
      BY <2>1, <3>1, GoodLine
    <3> QED
      BY <2>1, <2>5, <3>1, <3>2, <3>3 DEF CountedRight, Served
  <2> QED
    BY <2>2, <2>3, <2>4, <2>5
<1>93. PlaceOK(r)'
  BY DEF BookInv, PlaceOK
<1>94. \A t \in BookIds \ {r} : SameBook(t)
  BY DEF SameBook, OnlyAt
<1> QED
  BY <1>91, <1>92, <1>93, <1>94, OneBookMoves

LEMMA BookInvariance == BookSpec => []BookInv
<1>1. BookInv /\ [BookNext]_bookVars => BookInv'
  <2> SUFFICES ASSUME BookInv, [BookNext]_bookVars PROVE BookInv'
    OBVIOUS
  <2>1. CASE UNCHANGED bookVars
    <3>1. BookTypeOK' /\ \A t \in BookIds : SameBook(t)
      BY <2>1 DEF bookVars, BookInv, BookTypeOK, SameBook
    <3> QED
      BY <3>1, SameBookKept, BookAssumption DEF BookInv, SameBook, PlaceOK
  <2>2. CASE BookNext
    BY <2>2, RefuseManagedStep, RefuseLegacyStep, TakeFromCacheStep, WalkStep, WalkRaisesStep,
       AnswerPlainStep, AnswerLegacyStep, OfferStreamStep, SendFirstStep, SendChunkStep,
       BreakOffStep, EndStreamStep, LeaveUnheardStep, LeaveStreamStep, CancelRequestStep,
       LegacyBookedStep, PlainBookedStep, PlainGarbledStep, ClosedStep DEF BookNext
  <2> QED
    BY <2>1, <2>2
<1> QED
  BY BookInitOK, <1>1, PTL DEF BookSpec

\* Every row, trace and count of tokens is one of those there may be.
THEOREM BookTypesCorrect == BookSpec => []BookTypeOK
<1>1. BookInv => BookTypeOK
  BY DEF BookInv
<1> QED
  BY BookInvariance, <1>1, PTL

\* For any number of requests and tokens: what the usage page counts as a success was a
\* whole answer with output, and the trace says what the row says.
THEOREM BooksAgree == BookSpec => []CountedAsServed
<1>1. BookInv => CountedAsServed
  <2> SUFFICES ASSUME BookInv, NEW r \in Managed, HasEnded(r), ledger[r] # NoLine, ~ ledger[r].hit
               PROVE  CountedRight(r)
    BY DEF CountedAsServed, CountedRight
  <2> QED
    BY DEF BookInv, BookOf, HasEnded
<1> QED
  BY BookInvariance, <1>1, PTL

-----------------------------------------------------------------------------
(* Customers. Theorems about the costs of customers, for any number of customers,
   requests and months and any amounts. The sum a budget is shown with is read
   after the sum of its customer; in between rows only come, unless one is replaced
   or the month turns, which apart remembers. *)

\* Unless something set them apart, the ledger has by now what the page has read, and
\* a budget that was read is no smaller.
ReadBefore ==
  \A c \in DOMAIN custPage :
    /\ c \in CustIds
    /\ DOMAIN custPage[c] = {"mtd", "limit", "spent"}
    /\ custPage[c].mtd \in Nat
    /\ ~apart => custPage[c].mtd <= MonthToDate(c)

CustInv == CustomersTypeOK /\ ReadBefore

-----------------------------------------------------------------------------
\* What a row counts for a customer.
CustomerShare(c, q) == IF CountsFor(c, q) THEN billed[q].cost ELSE 0

LEMMA ShareNat ==
  ASSUME CustomersTypeOK, NEW c, NEW q \in CustRequests
  PROVE  CustomerShare(c, q) \in Nat
<1>1. billed[q] # Unset => billed[q] \in Bill
  BY DEF CustomersTypeOK
<1>2. billed[q] # Unset => billed[q].cost \in RowCosts
  BY <1>1 DEF Bill
<1> QED
  BY <1>2, CustomersAssumption DEF CustomerShare, CountsFor

LEMMA MonthNat ==
  ASSUME CustomersTypeOK, NEW c
  PROVE  MonthToDate(c) \in Nat
<1> DEFINE f == [q \in CustRequests |-> CustomerShare(c, q)]
<1>1. \A q \in 1..MaxBills : f[q] \in Nat
  BY ShareNat DEF CustRequests
<1>2. MonthToDate(c) = Sum(f, MaxBills)
  BY DEF MonthToDate, CustomerShare
<1> HIDE DEF f
<1>3. MaxBills \in Nat
  BY CustomersAssumption
<1>4. \A m \in 0..MaxBills : Sum(f, m) \in Nat
  BY <1>1, <1>3, SumFacts
<1> QED
  BY <1>2, <1>3, <1>4

SumsInNat == \A c \in CustIds : MonthToDate(c) \in Nat

LEMMA MonthsNat == CustomersTypeOK => SumsInNat
  BY MonthNat DEF SumsInNat

\* As long as rows only come, and the month is the same, sums only grow.
LEMMA SumsGrow ==
  ASSUME CustomersTypeOK, CustomersTypeOK', thisMonth' = thisMonth,
         \A q \in CustRequests : billed[q] # Unset => billed'[q] = billed[q],
         NEW c
  PROVE  MonthToDate(c) <= MonthToDate(c)'
<1> DEFINE f == [q \in CustRequests |-> CustomerShare(c, q)]
           h == [q \in CustRequests |-> CustomerShare(c, q)']
<1>1. \A q \in CustRequests : CustomerShare(c, q) \in Nat
  BY ShareNat
<1>2. \A q \in CustRequests : CustomerShare(c, q)' \in Nat
  <2>1. \A q \in CustRequests : billed'[q] # Unset => billed'[q] \in Bill
    BY DEF CustomersTypeOK
  <2>2. \A q \in CustRequests : billed'[q] # Unset => billed'[q].cost \in RowCosts
    BY <2>1 DEF Bill
  <2> QED
    BY <2>2, CustomersAssumption DEF CustomerShare, CountsFor
<1>3. \A q \in CustRequests : CustomerShare(c, q) <= CustomerShare(c, q)'
  <2> TAKE q \in CustRequests
  <2>1. CASE billed[q] = Unset
    <3>1. CustomerShare(c, q) = 0 /\ CustomerShare(c, q)' \in Nat
      BY <2>1, <1>2 DEF CustomerShare, CountsFor
    <3> QED
      BY <3>1
  <2>2. CASE billed[q] # Unset
    <3>1. CustomerShare(c, q)' = CustomerShare(c, q) /\ CustomerShare(c, q) \in Nat
      BY <2>2, <1>1 DEF CustomerShare, CountsFor
    <3> QED
      BY <3>1
  <2> QED
    BY <2>1, <2>2
<1>4. \A q \in 1..MaxBills : f[q] \in Nat /\ h[q] \in Nat /\ f[q] <= h[q]
  BY <1>1, <1>2, <1>3 DEF CustRequests
<1>5. MonthToDate(c) = Sum(f, MaxBills) /\ MonthToDate(c)' = Sum(h, MaxBills)
  BY DEF MonthToDate, CustomerShare
<1> HIDE DEF f, h
<1>6. Sum(f, MaxBills) <= Sum(h, MaxBills)
  BY <1>4, CustomersAssumption, SumMonotone
<1> QED
  BY <1>5, <1>6

\* What a page has read stays true of it when rows only come.
LEMMA PageKept ==
  ASSUME CustInv, CustomersTypeOK', thisMonth' = thisMonth, custPage' = custPage,
         \A q \in CustRequests : billed[q] # Unset => billed'[q] = billed[q],
         apart => apart'
  PROVE  ReadBefore'
<1> SUFFICES ASSUME NEW c \in DOMAIN custPage, ~apart'
             PROVE  custPage[c].mtd <= MonthToDate(c)'
  BY DEF CustInv, ReadBefore
<1>1. CustomersTypeOK /\ custPage[c].mtd \in Nat /\ custPage[c].mtd <= MonthToDate(c)
  BY DEF CustInv, ReadBefore
<1>2. MonthToDate(c) <= MonthToDate(c)'
  BY <1>1, SumsGrow
<1>3. MonthToDate(c) \in Nat /\ MonthToDate(c)' \in Nat
  <2>1. c \in CustIds
    BY DEF CustInv, ReadBefore
  <2>2. SumsInNat /\ SumsInNat'
    BY <1>1, MonthsNat, PTL
  <2> QED
    BY <2>1, <2>2 DEF SumsInNat
<1> QED
  BY <1>1, <1>2, <1>3

LEMMA CustInitInv == CustomersInit => CustInv
<1> SUFFICES ASSUME CustomersInit PROVE CustInv
  OBVIOUS
<1>1. DOMAIN custPage = {}
  BY DEF CustomersInit
<1>2. CustomersTypeOK
  <2>1. customers \in Seq(CustNames) /\ Len(customers) = 0
    BY DEF CustomersInit
  <2>2. /\ custLimits \in [CustIds -> MonthlyLimits \cup {Unset}]
        /\ billed \in [CustRequests -> Bill \cup {Unset}]
        /\ thisMonth = 0 /\ apart = FALSE
    BY DEF CustomersInit
  <2>3. thisMonth \in 0..MaxTurns /\ Len(customers) <= MaxCustomers
    BY <2>1, <2>2, CustomersAssumption
  <2>5. apart \in BOOLEAN
    BY <2>2
  <2>4. \A c \in DOMAIN custPage :
          ~ apart /\ custPage[c].spent # Unset => custPage[c].spent >= custPage[c].mtd
    BY <1>1
  <2> QED
    BY <2>1, <2>2, <2>3, <2>4, <2>5 DEF CustomersTypeOK
<1> QED
  BY <1>1, <1>2 DEF CustInv, ReadBefore

LEMMA ResolvedIsKnown ==
  ASSUME CustomersTypeOK, NEW said \in Sayings
  PROVE  ResolveCustomer(said) \in CustIds \cup {Stranger, NoCustomer}
<1> DEFINE named == {c \in DOMAIN customers : customers[c] = said.client}
           found == CHOOSE c \in named \cup {NoCustomer} : named # {} => c \in named
<1>1. /\ said.meta # Unset => said.meta \in CustIds \cup {Stranger}
      /\ said.header # Unset => said.header \in CustIds \cup {Stranger}
  BY CustomersAssumption
<1>2. named \subseteq CustIds
  BY CustomersAssumption DEF CustomersTypeOK, CustIds
<1>3. found \in named \cup {NoCustomer}
  <2>1. \E c \in named \cup {NoCustomer} : named # {} => c \in named
    OBVIOUS
  <2> HIDE DEF named
  <2> QED
    BY <2>1
<1>4. ResolveCustomer(said) =
        CASE said.meta # Unset -> said.meta
          [] said.meta = Unset /\ said.header # Unset -> said.header
          [] OTHER -> found
  BY DEF ResolveCustomer
<1> HIDE DEF named, found
<1>5. CASE said.meta # Unset
  BY <1>1, <1>4, <1>5
<1>6. CASE said.meta = Unset /\ said.header # Unset
  BY <1>1, <1>4, <1>6
<1>7. CASE said.meta = Unset /\ said.header = Unset
  BY <1>2, <1>3, <1>4, <1>7
<1> QED
  BY <1>5, <1>6, <1>7

LEMMA BillsInv ==
  ASSUME CustInv, NEW q \in CustRequests, NEW said \in Sayings, NEW cost \in RowCosts,
         Bills(q, said, cost)
  PROVE  CustInv'
<1>1. PICK made \in {thisMonth - 1, thisMonth} \cap Nat :
        billed' = [billed EXCEPT ![q] =
          [customer |-> ResolveCustomer(said), cost |-> cost, month |-> made]]
  BY DEF Bills
<1>2. made \in 0..MaxTurns
  BY CustomersAssumption DEF CustInv, CustomersTypeOK
<1>3. CustomersTypeOK
  BY DEF CustInv
<1>4. [customer |-> ResolveCustomer(said), cost |-> cost, month |-> made] \in Bill
  BY <1>2, <1>3, ResolvedIsKnown DEF Bill
<1>5. billed' \in [CustRequests -> Bill \cup {Unset}]
  BY <1>1, <1>3, <1>4 DEF CustomersTypeOK
<1>6. /\ UNCHANGED <<customers, custLimits, thisMonth, custPage>>
      /\ apart' = (apart \/ billed[q] # Unset)
  BY DEF Bills
<1>7. CustomersTypeOK'
  BY <1>3, <1>5, <1>6 DEF CustomersTypeOK
<1>8. CASE apart'
  BY <1>3, <1>6, <1>7, <1>8 DEF CustInv, ReadBefore
<1>9. CASE ~apart'
  <2>1. billed[q] = Unset /\ ~apart
    BY <1>6, <1>9
  <2>2. \A p \in CustRequests : billed[p] # Unset => billed'[p] = billed[p]
    BY <1>1, <1>3, <2>1 DEF CustomersTypeOK
  <2> QED
    BY <1>6, <1>7, <2>1, <2>2, PageKept DEF CustInv
<1> QED
  BY <1>8, <1>9

\* A page of some customers, made in one statement.
LEMMA PageIsRead ==
  ASSUME CustInv, NEW cs \in SUBSET CustIds, custPage' = Page(cs), apart' = FALSE,
         UNCHANGED <<customers, custLimits, billed, thisMonth>>
  PROVE  CustInv'
<1>1. CustomersTypeOK
  BY DEF CustInv
<1>2. DOMAIN custPage' = cs
  BY DEF Page
<1>3. \A c \in cs : custPage'[c] = [mtd |-> MonthToDate(c), limit |-> Unset, spent |-> Unset]
  BY DEF Page
<1>4. \A c \in cs : MonthToDate(c)' = MonthToDate(c) /\ MonthToDate(c) \in Nat
  BY <1>1, MonthNat DEF MonthToDate, CountsFor
<1>5. \A c \in cs : /\ DOMAIN custPage'[c] = {"mtd", "limit", "spent"}
                    /\ custPage'[c].mtd = MonthToDate(c) /\ custPage'[c].spent = Unset
  <2> TAKE c \in cs
  <2>1. custPage'[c] = [mtd |-> MonthToDate(c), limit |-> Unset, spent |-> Unset]
    BY <1>3
  <2> QED
    BY <2>1
<1>6. CustomersTypeOK'
  BY <1>1, <1>2, <1>5 DEF CustomersTypeOK, Bill
<1>7. ReadBefore'
  BY <1>2, <1>4, <1>5 DEF ReadBefore
<1> QED
  BY <1>6, <1>7 DEF CustInv

LEMMA BudgetIsRead ==
  ASSUME CustInv, NEW c \in CustIds, ReadBudget(c)
  PROVE  CustInv'
<1>1. CustomersTypeOK /\ MonthToDate(c) \in Nat /\ c \in DOMAIN custPage
  BY MonthNat DEF CustInv, ReadBudget
<1>2. UNCHANGED <<customers, custLimits, billed, thisMonth, apart>>
  BY DEF ReadBudget
<1>3. /\ DOMAIN custPage' = DOMAIN custPage
      /\ \A d \in DOMAIN custPage : d # c => custPage'[d] = custPage[d]
      /\ custPage'[c] = [custPage[c] EXCEPT !.limit = custLimits[c], !.spent = MonthToDate(c)]
  BY <1>1 DEF ReadBudget
<1>4. DOMAIN custPage[c] = {"mtd", "limit", "spent"}
  BY <1>1 DEF CustInv, ReadBefore
<1>5. /\ DOMAIN custPage'[c] = {"mtd", "limit", "spent"}
      /\ custPage'[c].mtd = custPage[c].mtd /\ custPage'[c].spent = MonthToDate(c)
  BY <1>3, <1>4
<1>6. ~apart => MonthToDate(c) >= custPage[c].mtd
  BY <1>1 DEF CustInv, ReadBefore
<1>7. CustomersTypeOK'
  <2>1. \A d \in DOMAIN custPage' :
          ~apart' /\ custPage'[d].spent # Unset => custPage'[d].spent >= custPage'[d].mtd
    BY <1>1, <1>2, <1>3, <1>5, <1>6 DEF CustomersTypeOK
  <2> QED
    BY <1>1, <1>2, <2>1 DEF CustomersTypeOK, Bill
<1>8. \A d \in DOMAIN custPage : MonthToDate(d)' = MonthToDate(d)
  BY <1>2 DEF MonthToDate, CountsFor
<1>9. ReadBefore'
  <2> SUFFICES ASSUME NEW d \in DOMAIN custPage
      PROVE  /\ d \in CustIds
             /\ DOMAIN custPage'[d] = {"mtd", "limit", "spent"}
             /\ custPage'[d].mtd \in Nat
             /\ ~apart => custPage'[d].mtd <= MonthToDate(d)
    BY <1>2, <1>3, <1>8 DEF ReadBefore
  <2>1. /\ d \in CustIds
        /\ DOMAIN custPage[d] = {"mtd", "limit", "spent"}
        /\ custPage[d].mtd \in Nat
        /\ ~apart => custPage[d].mtd <= MonthToDate(d)
    BY DEF CustInv, ReadBefore
  <2>2. CASE d = c
    BY <2>1, <2>2, <1>5
  <2>3. CASE d # c
    BY <2>1, <2>3, <1>3
  <2> QED
    BY <2>2, <2>3
<1> QED
  BY <1>7, <1>9 DEF CustInv

LEMMA CustNextInv == CustInv /\ [CustomersNext]_custVars => CustInv'
<1> SUFFICES ASSUME CustInv, [CustomersNext]_custVars PROVE CustInv'
  OBVIOUS
<1>1. CustomersTypeOK
  BY DEF CustInv
<1>2. ASSUME NEW n \in CustNames, CreateCustomer(n) PROVE CustInv'
  <2>1. customers' \in Seq(CustNames) /\ Len(customers') <= MaxCustomers
    BY <1>1, <1>2, CustomersAssumption DEF CreateCustomer, CustomersTypeOK
  <2>2. UNCHANGED <<custLimits, billed, thisMonth, custPage, apart>>
    BY <1>2 DEF CreateCustomer
  <2>3. CustomersTypeOK'
    BY <1>1, <2>1, <2>2 DEF CustomersTypeOK, Bill
  <2> QED
    BY <2>2, <2>3, PageKept DEF CustInv
<1>3. ASSUME NEW c \in CustIds, NEW l \in MonthlyLimits, SetMonthlyBudget(c, l) PROVE CustInv'
  <2>1. UNCHANGED <<customers, billed, thisMonth, custPage, apart>>
    BY <1>3 DEF SetMonthlyBudget
  <2>2. custLimits' \in [CustIds -> MonthlyLimits \cup {Unset}]
    BY <1>1, <1>3 DEF SetMonthlyBudget, Upserted, CustomersTypeOK
  <2>3. CustomersTypeOK'
    BY <1>1, <2>1, <2>2 DEF CustomersTypeOK, Bill
  <2> QED
    BY <2>1, <2>3, PageKept DEF CustInv
<1>4. CASE MonthTurns
  <2>1. /\ UNCHANGED <<customers, custLimits, billed, custPage>> /\ apart' = TRUE
        /\ thisMonth' \in 0..MaxTurns
    BY <1>1, <1>4, CustomersAssumption DEF MonthTurns, CustomersTypeOK
  <2>2. CustomersTypeOK'
    BY <1>1, <2>1 DEF CustomersTypeOK, Bill
  <2>3. ReadBefore'
    BY <2>1 DEF CustInv, ReadBefore
  <2> QED
    BY <2>2, <2>3 DEF CustInv
<1>5. CASE ListCustomers
  <2>1. DOMAIN customers \in SUBSET CustIds
    BY <1>1, CustomersAssumption DEF CustomersTypeOK, CustIds
  <2> QED
    BY <1>5, <2>1, PageIsRead DEF ListCustomers
<1>6. ASSUME NEW c \in CustIds, OpenCustomer(c) PROVE CustInv'
  BY <1>6, PageIsRead DEF OpenCustomer
<1>7. CASE UNCHANGED custVars
  <2>1. CustomersTypeOK'
    BY <1>1, <1>7 DEF custVars, CustomersTypeOK, Bill
  <2> QED
    BY <1>7, <2>1, PageKept DEF custVars, CustInv
<1> QED
  BY <1>2, <1>3, <1>4, <1>5, <1>6, <1>7, BillsInv, BudgetIsRead DEF CustomersNext

-----------------------------------------------------------------------------
\* However requests are recorded while a page is made: within a month, and unless an
\* answer was recorded again, the spend a budget is shown with is no less than the costs
\* of its customer (product_customers, CostAttributionStore.get_budget).
THEOREM CustomersTypesCorrect == CustomersSpec => []CustomersTypeOK
<1>1. CustInv => CustomersTypeOK
  BY DEF CustInv
<1> QED
  BY <1>1, CustInitInv, CustNextInv, PTL DEF CustomersSpec

-----------------------------------------------------------------------------
(* LegacyRequests *)

\* A store of counters: each bucket once, and no more of them than it may have.
Distinct(store) == \A i, j \in 1..Len(store) : store[i].key = store[j].key => i = j
StoreOK(store) == store \in Seq(Counter) /\ Len(store) <= MaxBuckets /\ Distinct(store)

\* Has a ceiling, and the store has not forgotten it.
StillCounts(key) == RateLimit[<<key.scope, key.kind>>] # NoRate /\ key \notin evicted

\* What was admitted under a bucket is in its counter, where refusals are too; it was
\* compared with the ceiling when the last of it came.
Admissions ==
  \A key \in RateKeys :
    StillCounts(key) => /\ AdmittedIn(key) <= CountOf(counters, key)
                        /\ AdmittedIn(key) <= RateLimit[<<key.scope, key.kind>>]

LegacyTypes ==
  /\ second \in 0..LegacyClockMax
  /\ failedAt \in [LegacyModels -> Nat \cup {Cold}]
  /\ waits \in [LegacyIds -> Phases]
  /\ chain \in [LegacyIds -> SUBSET Nat]
  /\ \A r \in LegacyIds : chain[r] \subseteq 0..Len(Chain[Wanted[r]])
  /\ reply \in [LegacyIds -> {0, 200, 401, 404, 412, 429, 500, 502}]
  /\ row \in [LegacyIds -> {"none", "success", "error", "timeout"}]
  /\ admitted \subseteq [who : LegacyIds, scope : RateScopes, bucket : Nat]
  /\ evicted \subseteq RateKeys

LegacyInv ==
  /\ LegacyTypes /\ StoreOK(counters) /\ Admissions
  /\ \A p \in admitted : waits[p.who] # "new"

-----------------------------------------------------------------------------
(***************************************************************************)
(* The store.                                                              *)
(***************************************************************************)

LEMMA CounterAt ==
  ASSUME NEW store \in Seq(Counter), NEW i \in 1..Len(store)
  PROVE  /\ store[i] \in Counter /\ store[i].key \in RateKeys /\ store[i].count \in Nat
         /\ store[i] = [key |-> store[i].key, count |-> store[i].count]
<1>1. store[i] \in Counter
  BY ElementOfSeq
<1> QED
  BY <1>1 DEF Counter

\* What a key counts.
LEMMA CountIs ==
  ASSUME NEW store \in Seq(Counter), Distinct(store), NEW key
  PROVE  /\ \A i \in 1..Len(store) : store[i].key = key => CountOf(store, key) = store[i].count
         /\ (\A i \in 1..Len(store) : store[i].key # key) => CountOf(store, key) = 0
         /\ CountOf(store, key) \in Nat
<1>1. ASSUME NEW i \in 1..Len(store), store[i].key = key PROVE CountOf(store, key) = store[i].count
  <2>1. i \in Slots(store, key)
    BY <1>1 DEF Slots
  <2>2. \A j \in Slots(store, key) : j = i
    BY <1>1 DEF Slots, Distinct
  <2>3. (CHOOSE j \in Slots(store, key) : TRUE) = i
    BY <2>1, <2>2
  <2> QED
    BY <2>1, <2>3 DEF CountOf
<1>2. ASSUME \A i \in 1..Len(store) : store[i].key # key PROVE CountOf(store, key) = 0
  <2>1. Slots(store, key) = {}
    BY <1>2 DEF Slots
  <2> QED
    BY <2>1 DEF CountOf
<1>3. CountOf(store, key) \in Nat
  <2>1. CASE \E i \in 1..Len(store) : store[i].key = key
    BY <1>1, <2>1, CounterAt
  <2>2. CASE \A i \in 1..Len(store) : store[i].key # key
    BY <1>2, <2>2
  <2> QED
    BY <2>1, <2>2
<1> QED
  BY <1>1, <1>2, <1>3

\* Two stores with the same counter of a key count it alike.
LEMMA SameCount ==
  ASSUME NEW old \in Seq(Counter), NEW new \in Seq(Counter), Distinct(old), Distinct(new), NEW key,
         \A i \in 1..Len(old) : old[i].key = key => \E j \in 1..Len(new) : new[j] = old[i],
         \A j \in 1..Len(new) : new[j].key = key => \E i \in 1..Len(old) : new[j] = old[i]
  PROVE  CountOf(new, key) = CountOf(old, key)
<1>1. CASE \E i \in 1..Len(old) : old[i].key = key
  <2>1. PICK i \in 1..Len(old) : old[i].key = key
    BY <1>1
  <2>2. PICK j \in 1..Len(new) : new[j] = old[i]
    BY <2>1
  <2>3. CountOf(old, key) = old[i].count /\ CountOf(new, key) = new[j].count
    BY <2>1, <2>2, CountIs
  <2> QED
    BY <2>2, <2>3
<1>2. CASE \A i \in 1..Len(old) : old[i].key # key
  <2>1. \A j \in 1..Len(new) : new[j].key # key
    BY <1>2
  <2> QED
    BY <1>2, <2>1, CountIs
<1> QED
  BY <1>1, <1>2

\* Putting a counter last changes no other.
LEMMA PutLastOK ==
  ASSUME NEW store \in Seq(Counter), Distinct(store), NEW key \in RateKeys, NEW count \in Nat,
         NEW p, p = PutLast(store, key, count)
  PROVE  /\ p \in Seq(Counter) /\ Distinct(p) /\ Len(p) \in 1..(Len(store) + 1)
         /\ CountOf(p, key) = count
         /\ \A other : other # key => CountOf(p, other) = CountOf(store, other)
<1> DEFINE n == Len(store)
           from == IF Slots(store, key) = {} THEN n + 1 ELSE CHOOSE i \in Slots(store, key) : TRUE
           size == IF from > n THEN from ELSE n
           new == [key |-> key, count |-> count]
           q == [i \in 1..size |-> IF i < from THEN store[i] ELSE IF i < size THEN store[i + 1] ELSE new]
<1>1. p = q
  BY DEF PutLast
<1>2. n \in Nat
  BY LenProperties
<1>3. /\ from \in 1..(n + 1)
      /\ from = n + 1 => \A i \in 1..n : store[i].key # key
      /\ from # n + 1 => from \in 1..n /\ store[from].key = key
  <2>1. CASE Slots(store, key) = {}
    <3>1. from = n + 1 /\ \A i \in 1..n : store[i].key # key
      BY <2>1 DEF Slots
    <3> HIDE DEF from
    <3> QED
      BY <1>2, <3>1
  <2>2. CASE Slots(store, key) # {}
    <3>1. from \in Slots(store, key)
      BY <2>2
    <3> HIDE DEF from
    <3>2. from \in 1..n /\ store[from].key = key
      BY <3>1 DEF Slots
    <3> QED
      BY <1>2, <3>2
  <2> QED
    BY <2>1, <2>2
<1> HIDE DEF from
<1>4. /\ size \in Nat /\ size \in 1..(n + 1) /\ n <= size /\ from <= size
      /\ from = n + 1 => size = n + 1
      /\ from # n + 1 => size = n
  BY <1>2, <1>3
<1>5. new \in Counter /\ new.key = key
  BY DEF Counter
<1> HIDE DEF size, new
\* Where the counter at a place of the new store was before.
<1> DEFINE was(i) == IF i < from THEN i ELSE i + 1
<1>6. ASSUME NEW i \in 1..size
      PROVE  /\ i # size => was(i) \in 1..n /\ was(i) # from /\ q[i] = store[was(i)]
             /\ i = size => q[i] = new
  <2>1. q[i] = IF i < from THEN store[i] ELSE IF i < size THEN store[i + 1] ELSE new
    OBVIOUS
  <2>2. i \in Int /\ from \in Int /\ size \in Int /\ i <= size /\ 1 <= i
    BY <1>3, <1>4
  <2>3. i = size => ~(i < from) /\ ~(i < size)
    BY <1>4, <2>2
  <2>4. i # size => i < size /\ was(i) \in 1..n /\ was(i) # from
    BY <1>2, <1>3, <1>4, <2>2
  <2> HIDE DEF q
  <2> QED
    BY <2>1, <2>3, <2>4
<1>7. ASSUME NEW j \in 1..n, j # from PROVE \E i \in 1..size : q[i] = store[j]
  <2> DEFINE i == IF j < from THEN j ELSE j - 1
  <2>1. i \in 1..size /\ i # size /\ was(i) = j
    BY <1>2, <1>3, <1>4, <1>7
  <2> HIDE DEF i, was, q
  <2> QED
    BY <1>6, <2>1
<1>8. \A i \in 1..size : q[i] \in Counter
  <2> TAKE i \in 1..size
  <2> HIDE DEF q, was
  <2> QED
    BY <1>5, <1>6, CounterAt
<1>9. q \in Seq(Counter) /\ Len(q) = size
  BY <1>4, <1>8, SeqDef, LenProperties
<1>10. \A i \in 1..n : store[i].key = key => i = from
  BY <1>3 DEF Distinct
<1>11. Distinct(q)
  <2> SUFFICES ASSUME NEW i \in 1..size, NEW j \in 1..size, q[i].key = q[j].key PROVE i = j
    BY <1>9 DEF Distinct
  <2>1. CASE i # size /\ j # size
    <3>1. was(i) \in 1..n /\ was(j) \in 1..n /\ store[was(i)].key = store[was(j)].key
      BY <1>6, <2>1
    <3>2. was(i) = was(j)
      BY <3>1 DEF Distinct
    <3> QED
      BY <1>2, <1>3, <3>2
  <2>2. ASSUME NEW m \in 1..size, m # size PROVE q[m].key # key
    <3> HIDE DEF q, was
    <3> QED
      BY <1>6, <1>10, <2>2
  <2>3. q[size].key = key /\ size \in 1..size
    BY <1>4, <1>5, <1>6
  <2> HIDE DEF q, was
  <2> QED
    BY <2>1, <2>2, <2>3
<1>12. q[size] = new /\ size \in 1..size
  BY <1>4, <1>6
<1> HIDE DEF q, was
<1>13. CountOf(q, key) = count
  BY <1>5, <1>9, <1>11, <1>12, CountIs DEF new
<1>14. ASSUME NEW other, other # key PROVE CountOf(q, other) = CountOf(store, other)
  <2>1. \A i \in 1..n : store[i].key = other => \E j \in 1..size : q[j] = store[i]
    <3> TAKE i \in 1..n
    <3> HAVE store[i].key = other
    <3>1. i # from
      BY <1>2, <1>3, <1>14
    <3> QED
      BY <1>7, <3>1
  <2>2. \A j \in 1..size : q[j].key = other => \E i \in 1..n : q[j] = store[i]
    BY <1>5, <1>6, <1>14
  <2> QED
    BY <1>9, <1>11, <2>1, <2>2, SameCount
<1> QED
  BY <1>1, <1>4, <1>9, <1>11, <1>12, <1>13, <1>14 DEF new

\* What is dropped is the first, if anything is.
LEMMA TrimOK ==
  ASSUME NEW q \in Seq(Counter), Distinct(q), Len(q) \in 1..(MaxBuckets + 1)
  PROVE  /\ StoreOK(Trim(q))
         /\ Overfull(q) => Head(q).key \in RateKeys
         /\ \A key : ~(Overfull(q) /\ key = Head(q).key) => CountOf(Trim(q), key) = CountOf(q, key)
<1>1. MaxBuckets \in Nat \ {0}
  BY LegacyAssumption
<1>2. CASE ~Overfull(q)
  <2>1. Trim(q) = q /\ Len(q) <= MaxBuckets
    BY <1>1, <1>2 DEF Trim, Overfull
  <2> QED
    BY <1>2, <2>1 DEF StoreOK
<1>3. CASE Overfull(q)
  <2> DEFINE t == Tail(q)
             n == Len(q)
  <2>0. n \in Nat /\ n >= 1 /\ n <= MaxBuckets + 1 /\ q # <<>>
    BY <1>1
  <2>1. Trim(q) = t
    BY <1>3 DEF Trim
  <2>2. t \in Seq(Counter) /\ Len(t) = n - 1 /\ \A i \in 1..(n - 1) : t[i] = q[i + 1]
    BY <2>0, HeadTailProperties
  <2>3. Head(q) = q[1] /\ 1 \in 1..n
    BY <2>0, HeadTailProperties
  <2> HIDE DEF t
  <2>4. \A i \in 1..(n - 1) : i + 1 \in 1..n
    BY <2>0
  <2>5. Distinct(t)
    <3> SUFFICES ASSUME NEW i \in 1..(n - 1), NEW j \in 1..(n - 1), t[i].key = t[j].key PROVE i = j
      BY <2>2 DEF Distinct
    <3>1. i + 1 = j + 1
      BY <2>2, <2>4 DEF Distinct
    <3> QED
      BY <3>1
  <2>6. Len(t) <= MaxBuckets
    BY <1>1, <2>0, <2>2
  <2>7. Head(q).key \in RateKeys
    BY <2>3, CounterAt
  <2>8. ASSUME NEW key, key # Head(q).key PROVE CountOf(t, key) = CountOf(q, key)
    <3>1. ASSUME NEW i \in 1..n, q[i].key = key PROVE \E j \in 1..(n - 1) : t[j] = q[i]
      <4>1. i # 1
        BY <2>3, <2>8, <3>1
      <4>2. i - 1 \in 1..(n - 1) /\ (i - 1) + 1 = i
        BY <2>0, <4>1
      <4> QED
        BY <2>2, <4>2
    <3>2. \A j \in 1..(n - 1) : t[j].key = key => \E i \in 1..n : t[j] = q[i]
      BY <2>2, <2>4
    <3> QED
      BY <2>2, <2>5, <3>1, <3>2, SameCount
  <2> QED
    BY <1>3, <2>1, <2>2, <2>5, <2>6, <2>7, <2>8 DEF StoreOK
<1> QED
  BY <1>2, <1>3

(***************************************************************************)
(* The ceilings of a request, one after the other.                         *)
(***************************************************************************)

AccOK(acc) ==
  /\ acc = [store |-> acc.store, ok |-> acc.ok, forgotten |-> acc.forgotten]
  /\ StoreOK(acc.store) /\ acc.ok \in BOOLEAN /\ acc.forgotten \subseteq RateKeys

\* One ceiling raises its own counter and lowers none that is not forgotten.
LEMMA IncrementOK ==
  ASSUME NEW acc, AccOK(acc), NEW key \in RateKeys, NEW n \in Nat, NEW limit \in Nat,
         NEW next, next = Increment(acc, key, n, limit)
  PROVE  /\ AccOK(next) /\ acc.forgotten \subseteq next.forgotten
         /\ \A k \in RateKeys \ next.forgotten :
              CountOf(next.store, k) = CountOf(acc.store, k) + (IF k = key THEN n ELSE 0)
         /\ next.ok => CountOf(acc.store, key) + n <= limit
<1> DEFINE count == CountOf(acc.store, key) + n
           put == PutLast(acc.store, key, count)
           lost == IF Overfull(put) THEN {Head(put).key} ELSE {}
<1>1. acc.store \in Seq(Counter) /\ Distinct(acc.store) /\ Len(acc.store) <= MaxBuckets
  BY DEF AccOK, StoreOK
<1>2. CountOf(acc.store, key) \in Nat /\ count \in Nat
  BY <1>1, CountIs
<1>3. next = [store |-> Trim(put), ok |-> ~Beyond(count, limit), forgotten |-> acc.forgotten \cup lost]
  BY DEF Increment
<1> HIDE DEF count
<1>4. /\ put \in Seq(Counter) /\ Distinct(put) /\ Len(put) \in 1..(Len(acc.store) + 1)
      /\ CountOf(put, key) = count
      /\ \A other : other # key => CountOf(put, other) = CountOf(acc.store, other)
  <2>1. put = PutLast(acc.store, key, count)
    OBVIOUS
  <2> HIDE DEF put
  <2> QED
    BY <1>1, <1>2, <2>1, PutLastOK
<1> HIDE DEF put
<1>5. Len(put) \in 1..(MaxBuckets + 1)
  <2>1. MaxBuckets \in Nat /\ Len(acc.store) \in Nat
    BY <1>1, LenProperties, LegacyAssumption
  <2> QED
    BY <1>1, <1>4, <2>1
<1>6. /\ StoreOK(Trim(put))
      /\ Overfull(put) => Head(put).key \in RateKeys
      /\ \A k : ~(Overfull(put) /\ k = Head(put).key) => CountOf(Trim(put), k) = CountOf(put, k)
  BY <1>4, <1>5, TrimOK
<1>7. lost \subseteq RateKeys /\ \A k : k \notin lost => CountOf(Trim(put), k) = CountOf(put, k)
  BY <1>6
<1> HIDE DEF lost
<1>8. next.store = Trim(put) /\ next.ok = ~Beyond(count, limit) /\ next.forgotten = acc.forgotten \cup lost
  BY <1>3
<1>9. AccOK(next)
  <2>1. acc.forgotten \subseteq RateKeys
    BY DEF AccOK
  <2>2. (~Beyond(count, limit)) \in BOOLEAN
    BY DEF Beyond
  <2>3. next.forgotten \subseteq RateKeys /\ next.ok \in BOOLEAN /\ StoreOK(next.store)
    BY <1>6, <1>7, <1>8, <2>1, <2>2
  <2>4. next = [store |-> next.store, ok |-> next.ok, forgotten |-> next.forgotten]
    BY <1>3, <1>8
  <2> QED
    BY <2>3, <2>4 DEF AccOK
<1>10. ASSUME NEW k \in RateKeys \ next.forgotten
       PROVE  CountOf(next.store, k) = CountOf(acc.store, k) + (IF k = key THEN n ELSE 0)
  <2>1. CountOf(next.store, k) = CountOf(put, k)
    BY <1>7, <1>8
  <2>2. CASE k = key
    BY <1>4, <2>1, <2>2 DEF count
  <2>3. CASE k # key
    <3>1. CountOf(put, k) = CountOf(acc.store, k) /\ CountOf(acc.store, k) \in Nat
      BY <1>1, <1>4, <2>3, CountIs
    <3> QED
      BY <2>1, <2>3, <3>1
  <2> QED
    BY <2>2, <2>3
<1>11. next.ok => CountOf(acc.store, key) + n <= limit
  <2>1. next.ok => ~(count > limit)
    BY <1>8 DEF Beyond
  <2>2. ~(count > limit) => count <= limit
    BY <1>2
  <2> QED
    BY <2>1, <2>2 DEF count
<1> QED
  BY <1>8, <1>9, <1>10, <1>11

LEMMA BucketNat == \A s \in RateScopes : second \in Nat => BucketOf(s) \in Nat
<1> SUFFICES ASSUME NEW s \in RateScopes, second \in Nat PROVE BucketOf(s) \in Nat
  OBVIOUS
<1>1. PICK w \in Nat \ {0} : w = WindowOf[s]
  BY LegacyAssumption
<1>2. second \div w \in Nat
  BY <1>1
<1> QED
  BY <1>1, <1>2 DEF BucketOf

\* The places of a scope's two ceilings.
LEMMA Places ==
  ASSUME NEW r \in LegacyIds
  PROVE  /\ Len(ScopesFor[r]) \in Nat
         /\ \A i \in 1..(2 * Len(ScopesFor[r])) : ScopeAt(r, i) \in Scoping(r) /\ ScopeAt(r, i) \in RateScopes /\ KindAt(i) \in Kinds
         /\ \A s \in Scoping(r), k \in Kinds :
              \E i \in 1..(2 * Len(ScopesFor[r])) : ScopeAt(r, i) = s /\ KindAt(i) = k
<1> DEFINE n == Len(ScopesFor[r])
<1>1. ScopesFor[r] \in Seq(RateScopes)
  BY LegacyAssumption
<1>2. n \in Nat /\ DOMAIN ScopesFor[r] = 1..n
  BY <1>1, LenProperties
<1>3. ASSUME NEW i \in 1..(2 * n) PROVE ScopeAt(r, i) \in Scoping(r) /\ ScopeAt(r, i) \in RateScopes
  <2>1. (i + 1) \div 2 \in 1..n
    BY <1>2
  <2>2. ScopeAt(r, i) \in Scoping(r)
    BY <1>2, <2>1 DEF ScopeAt, Scoping
  <2> QED
    BY <2>2 DEF RateScopes
<1>4. ASSUME NEW s \in Scoping(r), NEW k \in Kinds
      PROVE  \E i \in 1..(2 * n) : ScopeAt(r, i) = s /\ KindAt(i) = k
  <2>1. PICK m \in 1..n : ScopesFor[r][m] = s
    BY <1>2 DEF Scoping
  <2>2. CASE k = "tpm"
    <3>1. ((2 * m - 1) + 1) \div 2 = m /\ (2 * m - 1) % 2 = 1 /\ 2 * m - 1 \in 1..(2 * n)
      BY <1>2
    <3> QED
      BY <2>1, <2>2, <3>1 DEF ScopeAt, KindAt
  <2>3. CASE k = "rpm"
    <3>1. (2 * m + 1) \div 2 = m /\ (2 * m) % 2 = 0 /\ 2 * m \in 1..(2 * n)
      BY <1>2
    <3> QED
      BY <2>1, <2>3, <3>1 DEF ScopeAt, KindAt
  <2> QED
    BY <2>2, <2>3 DEF Kinds
<1>5. \A i : KindAt(i) \in Kinds
  BY DEF KindAt, Kinds
<1> QED
  BY <1>2, <1>3, <1>4, <1>5

LEMMA AmountNat == \A r \in LegacyIds, k \in Kinds : Amount(r, k) \in Nat
  BY LegacyAssumption DEF Amount

LEMMA StepOK ==
  ASSUME second \in Nat, NEW r \in LegacyIds, NEW i \in 1..(2 * Len(ScopesFor[r])),
         NEW acc, AccOK(acc), NEW next, next = StepOf(r, i, acc),
         NEW s, NEW k, s = ScopeAt(r, i), k = KindAt(i)
  PROVE  /\ AccOK(next) /\ acc.forgotten \subseteq next.forgotten
         /\ next.ok => acc.ok
         /\ \A key \in RateKeys \ next.forgotten : CountOf(acc.store, key) <= CountOf(next.store, key)
         /\ next.ok /\ RateLimit[<<s, k>>] # NoRate =>
              /\ CountOf(acc.store, Key(s, k)) + Amount(r, k) <= RateLimit[<<s, k>>]
              /\ Key(s, k) \notin next.forgotten =>
                   CountOf(next.store, Key(s, k)) = CountOf(acc.store, Key(s, k)) + Amount(r, k)
<1>1. s \in RateScopes /\ k \in Kinds /\ BucketOf(s) \in Nat /\ Amount(r, k) \in Nat
  BY Places, BucketNat, AmountNat
<1>2. Key(s, k) \in RateKeys
  BY <1>1 DEF Key, RateKeys
<1>3. CASE ~acc.ok \/ RateLimit[<<s, k>>] = NoRate
  <2>1. next = acc
    BY <1>3 DEF StepOf
  <2>2. \A key : CountOf(acc.store, key) \in Nat
    BY CountIs DEF AccOK, StoreOK
  <2> QED
    BY <1>3, <2>1, <2>2
<1>4. CASE acc.ok /\ RateLimit[<<s, k>>] # NoRate
  <2>1. next = Increment(acc, Key(s, k), Amount(r, k), RateLimit[<<s, k>>])
    BY <1>4 DEF StepOf
  <2>2. RateLimit[<<s, k>>] \in Nat
    BY <1>1, <1>4, LegacyAssumption
  <2>3. /\ AccOK(next) /\ acc.forgotten \subseteq next.forgotten
        /\ \A key \in RateKeys \ next.forgotten :
             CountOf(next.store, key) = CountOf(acc.store, key) + (IF key = Key(s, k) THEN Amount(r, k) ELSE 0)
        /\ next.ok => CountOf(acc.store, Key(s, k)) + Amount(r, k) <= RateLimit[<<s, k>>]
    BY <1>1, <1>2, <2>1, <2>2, IncrementOK
  <2>4. \A key : CountOf(acc.store, key) \in Nat
    BY CountIs DEF AccOK, StoreOK
  <2>5. ASSUME NEW key \in RateKeys \ next.forgotten PROVE CountOf(acc.store, key) <= CountOf(next.store, key)
    BY <1>1, <2>3, <2>4
  <2> QED
    BY <1>2, <1>4, <2>3, <2>5
<1> QED
  BY <1>3, <1>4

\* The values of Take's recursion up to m.
Counting(g, r, m) ==
  g = [i \in 0..m |-> IF i = 0 THEN [store |-> counters, ok |-> TRUE, forgotten |-> {}]
                      ELSE StepOf(r, i, g[i - 1])]

\* The recursion is well founded.
LEMMA CountingExists ==
  ASSUME NEW n \in Nat, NEW r
  PROVE  \E g : Counting(g, r, n)
<1> DEFINE Bad == {m \in 0..n : ~ \E g : Counting(g, r, m)}
           start == [store |-> counters, ok |-> TRUE, forgotten |-> {}]
<1> SUFFICES ASSUME Bad # {} PROVE FALSE
  OBVIOUS
<1>1. PICK m \in Bad : \A k \in Bad : m <= k
  <2>1. Bad \in SUBSET Nat
    OBVIOUS
  <2> HIDE DEF Bad
  <2> QED
    BY <2>1, LeastNat
<1>2. m # 0
  <2>1. Counting([i \in 0..0 |-> start], r, 0)
    BY DEF Counting
  <2> QED
    BY <2>1
<1>3. m - 1 \in 0..n /\ m - 1 \notin Bad
  BY <1>1, <1>2
<1>4. PICK g : Counting(g, r, m - 1)
  BY <1>3
<1> DEFINE h == [i \in 0..m |-> IF i = m THEN StepOf(r, m, g[m - 1]) ELSE g[i]]
<1>5. \A i \in 0..m : h[i] = IF i = 0 THEN start ELSE StepOf(r, i, h[i - 1])
  <2>1. g = [i \in 0..(m - 1) |-> IF i = 0 THEN start ELSE StepOf(r, i, g[i - 1])]
    BY <1>4 DEF Counting
  <2> TAKE i \in 0..m
  <2>2. CASE i = m
    <3>1. h[i] = StepOf(r, m, g[m - 1]) /\ h[i - 1] = g[m - 1]
      BY <1>2, <2>2
    <3> QED
      BY <1>2, <2>2, <3>1
  <2>3. CASE i # m
    <3>1. i \in 0..(m - 1)
      BY <2>3
    <3>2. g[i] = IF i = 0 THEN start ELSE StepOf(r, i, g[i - 1])
      BY <2>1, <3>1
    <3>3. h[i] = g[i] /\ (i # 0 => h[i - 1] = g[i - 1])
      BY <2>3, <3>1
    <3> HIDE DEF h, start
    <3> QED
      BY <3>2, <3>3
  <2> QED
    BY <2>2, <2>3
<1>6. Counting(h, r, m)
  <2>1. h = [i \in 0..m |-> h[i]]
    OBVIOUS
  <2> HIDE DEF h
  <2> QED
    BY <1>5, <2>1 DEF Counting
<1> QED
  BY <1>6

\* A request adds to its counters and takes from none but the forgotten; it is admitted
\* when each of its ceilings had room for it.
LEMMA TakeOK ==
  ASSUME second \in Nat, StoreOK(counters), NEW r \in LegacyIds, NEW t, t = Take(r)
  PROVE  /\ AccOK(t)
         /\ \A key \in RateKeys \ t.forgotten : CountOf(counters, key) <= CountOf(t.store, key)
         /\ t.ok => \A s \in Scoping(r), k \in Kinds :
              RateLimit[<<s, k>>] # NoRate /\ Key(s, k) \notin t.forgotten =>
                /\ CountOf(counters, Key(s, k)) + Amount(r, k) <= CountOf(t.store, Key(s, k))
                /\ CountOf(counters, Key(s, k)) + Amount(r, k) <= RateLimit[<<s, k>>]
<1> DEFINE last == 2 * Len(ScopesFor[r])
<1>1. last \in Nat
  BY Places
<1> DEFINE start == [store |-> counters, ok |-> TRUE, forgotten |-> {}]
           g == CHOOSE f : f = [i \in 0..last |-> IF i = 0 THEN start ELSE StepOf(r, i, f[i - 1])]
<1>2. t = g[last]
  BY DEF Take
<1>3. g = [i \in 0..last |-> IF i = 0 THEN start ELSE StepOf(r, i, g[i - 1])]
  <2>1. \E f : Counting(f, r, last)
    <3> HIDE DEF last
    <3> QED
      BY <1>1, CountingExists
  <2>2. \E f : f = [i \in 0..last |-> IF i = 0 THEN start ELSE StepOf(r, i, f[i - 1])]
    BY <2>1 DEF Counting
  <2> QED
    BY <2>2
<1>4. g[0] = start /\ \A i \in 1..last : g[i] = StepOf(r, i, g[i - 1])
  <2> HIDE DEF g, last
  <2>1. 0 \in 0..last /\ \A i \in 1..last : i \in 0..last /\ i # 0
    BY <1>1
  <2> QED
    BY <1>3, <2>1
<1> HIDE DEF g
\* What the first i ceilings do.
<1> DEFINE Sound(i) ==
      /\ AccOK(g[i])
      /\ \A key \in RateKeys \ g[i].forgotten : CountOf(counters, key) <= CountOf(g[i].store, key)
      /\ g[i].ok => \A j \in 1..i :
           RateLimit[<<ScopeAt(r, j), KindAt(j)>>] # NoRate
             /\ Key(ScopeAt(r, j), KindAt(j)) \notin g[i].forgotten =>
             /\ CountOf(counters, Key(ScopeAt(r, j), KindAt(j))) + Amount(r, KindAt(j))
                  <= CountOf(g[i].store, Key(ScopeAt(r, j), KindAt(j)))
             /\ CountOf(counters, Key(ScopeAt(r, j), KindAt(j))) + Amount(r, KindAt(j))
                  <= RateLimit[<<ScopeAt(r, j), KindAt(j)>>]
<1>5. Sound(0)
  <2>1. g[0].store = counters /\ g[0].ok = TRUE /\ g[0].forgotten = {}
    BY <1>4
  <2>2. AccOK(g[0])
    BY <1>4, <2>1 DEF AccOK
  <2>3. \A key : CountOf(counters, key) \in Nat
    BY CountIs DEF StoreOK
  <2> HIDE DEF start
  <2> QED
    BY <2>1, <2>2, <2>3
<1>6. ASSUME NEW i \in 1..last, Sound(i - 1) PROVE Sound(i)
  <2> DEFINE acc == g[i - 1]
             next == g[i]
             s == ScopeAt(r, i)
             k == KindAt(i)
  <2>0. i \in 1..(2 * Len(ScopesFor[r])) /\ i \in Nat
    BY <1>1
  <2>1. AccOK(acc) /\ next = StepOf(r, i, acc)
    BY <1>4, <1>6
  <2>2. /\ AccOK(next) /\ acc.forgotten \subseteq next.forgotten
        /\ next.ok => acc.ok
        /\ \A key \in RateKeys \ next.forgotten : CountOf(acc.store, key) <= CountOf(next.store, key)
        /\ next.ok /\ RateLimit[<<s, k>>] # NoRate =>
             /\ CountOf(acc.store, Key(s, k)) + Amount(r, k) <= RateLimit[<<s, k>>]
             /\ Key(s, k) \notin next.forgotten =>
                  CountOf(next.store, Key(s, k)) = CountOf(acc.store, Key(s, k)) + Amount(r, k)
    <3> HIDE DEF acc, next, s, k
    <3>1. s = ScopeAt(r, i) /\ k = KindAt(i)
      BY DEF s, k
    <3> QED
      BY <2>0, <2>1, <3>1, StepOK
  <2>3. \A key : CountOf(counters, key) \in Nat /\ CountOf(acc.store, key) \in Nat /\ CountOf(next.store, key) \in Nat
    BY <2>1, <2>2, CountIs DEF AccOK, StoreOK
  <2>4. ASSUME NEW key \in RateKeys \ next.forgotten
        PROVE  CountOf(counters, key) <= CountOf(acc.store, key) /\ CountOf(acc.store, key) <= CountOf(next.store, key)
               /\ CountOf(counters, key) <= CountOf(next.store, key)
    <3>1. CountOf(counters, key) <= CountOf(acc.store, key)
      BY <1>6, <2>2
    <3>2. CountOf(acc.store, key) <= CountOf(next.store, key)
      BY <2>2
    <3> QED
      BY <2>3, <3>1, <3>2
  <2>5. ASSUME next.ok, NEW j \in 1..i, NEW sj, NEW kj, sj = ScopeAt(r, j), kj = KindAt(j),
               RateLimit[<<sj, kj>>] # NoRate, Key(sj, kj) \notin next.forgotten
        PROVE  /\ CountOf(counters, Key(sj, kj)) + Amount(r, kj) <= CountOf(next.store, Key(sj, kj))
               /\ CountOf(counters, Key(sj, kj)) + Amount(r, kj) <= RateLimit[<<sj, kj>>]
    <3>0. j \in 1..last
      BY <1>1
    <3>1. sj \in RateScopes /\ kj \in Kinds /\ BucketOf(sj) \in Nat /\ Amount(r, kj) \in Nat
      BY <2>5, <3>0, Places, BucketNat, AmountNat
    <3>2. Key(sj, kj) \in RateKeys \ next.forgotten
      BY <2>5, <3>1 DEF Key, RateKeys
    <3>3. RateLimit[<<sj, kj>>] \in Nat
      BY <2>5, <3>1, LegacyAssumption
    <3>4. CASE j = i
      <4>1. sj = s /\ kj = k
        BY <2>5, <3>4
      <4>2. /\ CountOf(acc.store, Key(sj, kj)) + Amount(r, kj) <= RateLimit[<<sj, kj>>]
            /\ CountOf(next.store, Key(sj, kj)) = CountOf(acc.store, Key(sj, kj)) + Amount(r, kj)
        BY <2>2, <2>5, <4>1
      <4>3. CountOf(counters, Key(sj, kj)) <= CountOf(acc.store, Key(sj, kj))
        BY <2>4, <3>2
      <4>4. /\ CountOf(counters, Key(sj, kj)) \in Nat /\ CountOf(acc.store, Key(sj, kj)) \in Nat
            /\ CountOf(next.store, Key(sj, kj)) \in Nat
        BY <2>3
      <4> QED
        BY <3>1, <3>3, <4>2, <4>3, <4>4
    <3>5. CASE j # i
      <4>1. j \in 1..(i - 1) /\ acc.ok
        BY <2>0, <2>2, <2>5, <3>5
      <4>2. Key(sj, kj) \notin acc.forgotten
        BY <2>2, <3>2
      <4>3. /\ CountOf(counters, Key(sj, kj)) + Amount(r, kj) <= CountOf(acc.store, Key(sj, kj))
            /\ CountOf(counters, Key(sj, kj)) + Amount(r, kj) <= RateLimit[<<sj, kj>>]
        BY <1>6, <2>5, <4>1, <4>2
      <4>4. CountOf(acc.store, Key(sj, kj)) <= CountOf(next.store, Key(sj, kj))
        BY <2>4, <3>2
      <4>5. /\ CountOf(counters, Key(sj, kj)) \in Nat /\ CountOf(acc.store, Key(sj, kj)) \in Nat
            /\ CountOf(next.store, Key(sj, kj)) \in Nat
        BY <2>3
      <4> QED
        BY <3>1, <4>3, <4>4, <4>5
    <3> QED
      BY <3>4, <3>5
  <2> HIDE DEF acc
  <2> QED
    BY <2>2, <2>4, <2>5
<1>7. Sound(last)
  <2> DEFINE Bad == {m \in 0..last : ~Sound(m)}
  <2> SUFFICES Bad = {}
    BY <1>1
  <2> SUFFICES ASSUME Bad # {} PROVE FALSE
    OBVIOUS
  <2>1. PICK m \in Bad : \A k \in Bad : m <= k
    <3>1. Bad \in SUBSET Nat
      BY <1>1
    <3> HIDE DEF Bad
    <3> QED
      BY <3>1, LeastNat
  <2> HIDE DEF Sound, last
  <2>2. m # 0
    BY <1>5, <2>1
  <2>3. m \in 1..last /\ m - 1 \in 0..last
    BY <1>1, <2>1, <2>2
  <2>4. m - 1 \notin Bad
    BY <2>1, <2>3
  <2>5. Sound(m - 1)
    BY <2>3, <2>4
  <2> QED
    BY <1>6, <2>1, <2>3, <2>5
<1>8. ASSUME t.ok, NEW s \in Scoping(r), NEW k \in Kinds,
             RateLimit[<<s, k>>] # NoRate, Key(s, k) \notin t.forgotten
      PROVE  /\ CountOf(counters, Key(s, k)) + Amount(r, k) <= CountOf(t.store, Key(s, k))
             /\ CountOf(counters, Key(s, k)) + Amount(r, k) <= RateLimit[<<s, k>>]
  <2>1. PICK j \in 1..last : ScopeAt(r, j) = s /\ KindAt(j) = k
    BY Places
  <2> QED
    BY <1>2, <1>7, <1>8, <2>1
<1> QED
  BY <1>2, <1>7, <1>8

(***************************************************************************)
(* Steps.                                                                  *)
(***************************************************************************)

\* What a request brings to a bucket it was admitted under.
Share(key) ==
  [r \in LegacyIds |->
     IF [who |-> r, scope |-> key.scope, bucket |-> key.bucket] \in admitted
     THEN Amount(r, key.kind) ELSE 0]

LEMMA SharesNat ==
  ASSUME NEW key \in RateKeys
  PROVE  /\ LegacyCount \in Nat /\ AdmittedIn(key) = Sum(Share(key), LegacyCount)
         /\ \A r \in 1..LegacyCount : Share(key)[r] \in Nat
         /\ AdmittedIn(key) \in Nat
<1>1. LegacyCount \in Nat
  BY LegacyAssumption
<1>2. AdmittedIn(key) = Sum(Share(key), LegacyCount)
  BY DEF AdmittedIn, Share
<1>3. key.kind \in Kinds
  BY DEF RateKeys
<1>4. \A r \in 1..LegacyCount : Share(key)[r] \in Nat
  BY <1>3, AmountNat DEF Share, LegacyIds
<1>5. Sum(Share(key), LegacyCount) \in Nat
  <2>1. LegacyCount \in 0..LegacyCount
    BY <1>1
  <2> QED
    BY <1>1, <1>4, <2>1, SumFacts
<1> QED
  BY <1>1, <1>2, <1>4, <1>5

\* Who is admitted brings his amount to the buckets of his scopes, and to no other.
LEMMA AdmitRaises ==
  ASSUME LegacyInv, NEW r \in LegacyIds, waits[r] = "new", NEW key \in RateKeys,
         admitted' = admitted \cup {[who |-> r, scope |-> s, bucket |-> BucketOf(s)] : s \in Scoping(r)}
  PROVE  /\ AdmittedIn(key)' <= AdmittedIn(key) + Amount(r, key.kind)
         /\ ~(key.scope \in Scoping(r) /\ key.bucket = BucketOf(key.scope)) => AdmittedIn(key)' <= AdmittedIn(key)
         /\ AdmittedIn(key)' \in Nat
<1> DEFINE f == Share(key)
           h == [q \in LegacyIds |->
                   IF [who |-> q, scope |-> key.scope, bucket |-> key.bucket] \in admitted'
                   THEN Amount(q, key.kind) ELSE 0]
           mine == key.scope \in Scoping(r) /\ key.bucket = BucketOf(key.scope)
<1>1. /\ LegacyCount \in Nat /\ AdmittedIn(key) = Sum(f, LegacyCount)
      /\ \A q \in 1..LegacyCount : f[q] \in Nat
  BY SharesNat
<1>2. AdmittedIn(key)' = Sum(h, LegacyCount)
  BY DEF AdmittedIn
<1>3. key.kind \in Kinds /\ Amount(r, key.kind) \in Nat
  BY AmountNat DEF RateKeys
<1>4. \A q \in 1..LegacyCount : h[q] \in Nat
  BY <1>3, AmountNat DEF LegacyIds
<1>5. ASSUME NEW q \in 1..LegacyCount, q # r PROVE h[q] = f[q]
  <2>1. [who |-> q, scope |-> key.scope, bucket |-> key.bucket] \in admitted'
          <=> [who |-> q, scope |-> key.scope, bucket |-> key.bucket] \in admitted
    BY <1>5
  <2> QED
    BY <2>1 DEF Share, LegacyIds
<1>6. r \in 1..LegacyCount /\ f[r] = 0
  <2>1. [who |-> r, scope |-> key.scope, bucket |-> key.bucket] \notin admitted
    BY DEF LegacyInv
  <2> QED
    BY <2>1 DEF Share, LegacyIds
<1>7. h[r] <= Amount(r, key.kind)
  BY <1>3, <1>6 DEF LegacyIds
<1>8. ~mine => h[r] = 0
  <2>1. [who |-> r, scope |-> key.scope, bucket |-> key.bucket] \notin admitted
    BY DEF LegacyInv
  <2>2. ~mine => [who |-> r, scope |-> key.scope, bucket |-> key.bucket] \notin admitted'
    BY <2>1
  <2> QED
    BY <2>2
<1> HIDE DEF f, h, mine
<1>9. Sum(h, LegacyCount) <= Sum(f, LegacyCount) + Amount(r, key.kind)
  <2>1. \A q \in 1..LegacyCount : f[q] \in Nat /\ h[q] \in Nat
    BY <1>1, <1>4
  <2>2. \A q \in 1..LegacyCount : q # r => h[q] <= f[q]
    BY <1>5, <2>1
  <2>3. h[r] <= f[r] + Amount(r, key.kind)
    BY <1>3, <1>4, <1>6, <1>7
  <2> QED
    BY <1>1, <1>3, <1>6, <2>1, <2>2, <2>3, SumGrowth
<1>10. ~mine => Sum(h, LegacyCount) <= Sum(f, LegacyCount)
  <2> SUFFICES ASSUME ~mine PROVE Sum(h, LegacyCount) <= Sum(f, LegacyCount)
    OBVIOUS
  <2>1. \A q \in 1..LegacyCount : f[q] \in Nat /\ h[q] \in Nat /\ h[q] <= f[q]
    BY <1>1, <1>4, <1>5, <1>6, <1>8
  <2> QED
    BY <1>1, <2>1, SumMonotone
<1>11. Sum(h, LegacyCount) \in Nat
  <2>1. LegacyCount \in 0..LegacyCount
    BY <1>1
  <2> QED
    BY <1>1, <1>4, <2>1, SumFacts
<1> QED
  BY <1>1, <1>2, <1>9, <1>10, <1>11 DEF mine

LEMMA CheckSyncStep ==
  ASSUME LegacyInv, NEW r \in LegacyIds, CheckSync(r)
  PROVE  LegacyInv'
<1> DEFINE t == Take(r)
<1>0. second \in 0..LegacyClockMax /\ second \in Nat
  BY LegacyAssumption DEF LegacyInv, LegacyTypes
<1>1. /\ waits[r] = "new" /\ counters' = t.store /\ evicted' = evicted \cup t.forgotten
      /\ UNCHANGED <<second, failedAt, chain>>
  BY DEF CheckSync
<1>2. \/ /\ t.ok /\ waits' = [waits EXCEPT ![r] = "budget"]
         /\ admitted' = admitted \cup {[who |-> r, scope |-> s, bucket |-> BucketOf(s)] : s \in Scoping(r)}
         /\ UNCHANGED <<reply, row>>
      \/ /\ ~t.ok /\ waits' = [waits EXCEPT ![r] = "done"] /\ admitted' = admitted
         /\ reply' = [reply EXCEPT ![r] = 429] /\ row' = [row EXCEPT ![r] = "none"]
  BY DEF CheckSync, Close
<1> HIDE DEF t
<1>3. /\ AccOK(t)
      /\ \A key \in RateKeys \ t.forgotten : CountOf(counters, key) <= CountOf(t.store, key)
      /\ t.ok => \A s \in Scoping(r), k \in Kinds :
           RateLimit[<<s, k>>] # NoRate /\ Key(s, k) \notin t.forgotten =>
             /\ CountOf(counters, Key(s, k)) + Amount(r, k) <= CountOf(t.store, Key(s, k))
             /\ CountOf(counters, Key(s, k)) + Amount(r, k) <= RateLimit[<<s, k>>]
  BY <1>0, TakeOK DEF LegacyInv, t
<1>4. StoreOK(counters)'
  <2>1. StoreOK(t.store)
    BY <1>3 DEF AccOK
  <2> QED
    BY <1>1, <2>1 DEF StoreOK, Distinct
<1>5. LegacyTypes'
  <2>1. evicted' \subseteq RateKeys
    BY <1>1, <1>3 DEF AccOK, LegacyInv, LegacyTypes
  <2>2. admitted' \subseteq [who : LegacyIds, scope : RateScopes, bucket : Nat]
    <3>1. \A s \in Scoping(r) : s \in RateScopes /\ BucketOf(s) \in Nat
      BY <1>0, BucketNat DEF RateScopes
    <3> QED
      BY <1>2, <3>1 DEF LegacyInv, LegacyTypes
  <2>3. waits' \in [LegacyIds -> Phases]
    BY <1>2 DEF LegacyInv, LegacyTypes, Phases
  <2>4. reply' \in [LegacyIds -> {0, 200, 401, 404, 412, 429, 500, 502}]
        /\ row' \in [LegacyIds -> {"none", "success", "error", "timeout"}]
    <3>1. /\ reply \in [LegacyIds -> {0, 200, 401, 404, 412, 429, 500, 502}]
          /\ row \in [LegacyIds -> {"none", "success", "error", "timeout"}]
      BY DEF LegacyInv, LegacyTypes
    <3>2. CASE UNCHANGED <<reply, row>>
      BY <3>1, <3>2
    <3>3. CASE reply' = [reply EXCEPT ![r] = 429] /\ row' = [row EXCEPT ![r] = "none"]
      BY <3>1, <3>3
    <3> QED
      BY <1>2, <3>2, <3>3
  <2> QED
    BY <1>1, <2>1, <2>2, <2>3, <2>4 DEF LegacyInv, LegacyTypes
<1>6. \A p \in admitted' : waits'[p.who] # "new"
  <2>1. waits'[r] # "new" /\ \A q \in LegacyIds : q # r => waits'[q] = waits[q]
    BY <1>2 DEF LegacyInv, LegacyTypes
  <2>2. \A p \in admitted : p.who \in LegacyIds /\ waits[p.who] # "new"
    BY DEF LegacyInv, LegacyTypes
  <2>3. \A p \in admitted' : p \in admitted \/ p.who = r
    BY <1>2
  <2> QED
    BY <2>1, <2>2, <2>3
<1>7. ASSUME NEW key \in RateKeys, RateLimit[<<key.scope, key.kind>>] # NoRate, key \notin evicted'
      PROVE  AdmittedIn(key)' <= CountOf(t.store, key) /\ AdmittedIn(key)' <= RateLimit[<<key.scope, key.kind>>]
  <2> DEFINE count == CountOf(counters, key)
             after == CountOf(t.store, key)
             limit == RateLimit[<<key.scope, key.kind>>]
             sum == AdmittedIn(key)
  <2>1. key \notin evicted /\ key \notin t.forgotten
    BY <1>1, <1>7
  <2>2. sum <= count /\ sum <= limit
    BY <1>7, <2>1 DEF LegacyInv, Admissions, StillCounts
  <2>3. count <= after
    BY <1>3, <2>1
  <2>4. key.scope \in RateScopes /\ key.kind \in Kinds /\ Amount(r, key.kind) \in Nat
    BY AmountNat DEF RateKeys
  <2>5. limit \in Nat
    BY <1>7, <2>4, LegacyAssumption
  <2>6. count \in Nat /\ after \in Nat
    BY <1>3, CountIs DEF AccOK, StoreOK, LegacyInv
  <2>7. sum \in Nat
    BY SharesNat
  <2>8. CASE ~t.ok
    <3>1. AdmittedIn(key)' = sum
      BY <1>2, <2>8 DEF AdmittedIn
    <3> HIDE DEF count, after, limit, sum
    <3> QED
      BY <2>2, <2>3, <2>5, <2>6, <2>7, <3>1 DEF after, limit
  <2>9. CASE t.ok
    <3>1. /\ AdmittedIn(key)' <= sum + Amount(r, key.kind)
          /\ ~(key.scope \in Scoping(r) /\ key.bucket = BucketOf(key.scope)) => AdmittedIn(key)' <= sum
          /\ AdmittedIn(key)' \in Nat
      BY <1>1, <1>2, <2>9, AdmitRaises
    <3>2. CASE key.scope \in Scoping(r) /\ key.bucket = BucketOf(key.scope)
      <4>1. key = Key(key.scope, key.kind)
        BY <3>2 DEF RateKeys, Key
      <4>2. count + Amount(r, key.kind) <= after /\ count + Amount(r, key.kind) <= limit
        BY <1>3, <1>7, <2>1, <2>4, <2>9, <3>2, <4>1
      <4> DEFINE new == AdmittedIn(key)'
                 amount == Amount(r, key.kind)
      <4>3. new <= sum + amount /\ new \in Nat /\ amount \in Nat
            /\ count + amount <= after /\ count + amount <= limit
        BY <2>4, <3>1, <4>2
      <4> HIDE DEF count, after, limit, sum, new, amount
      <4>4. new <= after /\ new <= limit
        BY <2>2, <2>5, <2>6, <2>7, <4>3
      <4> QED
        BY <4>4 DEF new, after, limit
    <3>3. CASE ~(key.scope \in Scoping(r) /\ key.bucket = BucketOf(key.scope))
      <4> DEFINE new == AdmittedIn(key)'
      <4>1. new <= sum /\ new \in Nat
        BY <3>1, <3>3
      <4> HIDE DEF count, after, limit, sum, new
      <4>2. new <= after /\ new <= limit
        BY <2>2, <2>3, <2>5, <2>6, <2>7, <4>1
      <4> QED
        BY <4>2 DEF new, after, limit
    <3> QED
      BY <3>2, <3>3
  <2> QED
    BY <1>3, <2>8, <2>9 DEF AccOK
<1>8. Admissions'
  BY <1>1, <1>7 DEF Admissions, StillCounts
<1> QED
  BY <1>4, <1>5, <1>6, <1>8 DEF LegacyInv

\* Steps that touch neither the counters nor what was admitted.
LEMMA CountersStay ==
  ASSUME LegacyInv, LegacyTypes', UNCHANGED <<counters, admitted, evicted>>,
         \A r \in LegacyIds : waits[r] # "new" => waits'[r] # "new"
  PROVE  LegacyInv'
<1>1. StoreOK(counters)'
  BY DEF LegacyInv, StoreOK, Distinct
<1>2. \A key \in RateKeys : AdmittedIn(key)' = AdmittedIn(key)
  BY DEF AdmittedIn
<1>3. Admissions'
  BY <1>2 DEF LegacyInv, Admissions, StillCounts
<1>4. \A p \in admitted' : waits'[p.who] # "new"
  <2>1. \A p \in admitted : p.who \in LegacyIds /\ waits[p.who] # "new"
    BY DEF LegacyInv, LegacyTypes
  <2> QED
    BY <2>1
<1> QED
  BY <1>1, <1>3, <1>4 DEF LegacyInv

LegacyStatuses == {0, 200, 401, 404, 412, 429, 500, 502}
Records == {"none", "success", "error", "timeout"}

LEMMA CloseKeeps ==
  ASSUME LegacyInv, NEW r \in LegacyIds, NEW status \in LegacyStatuses, NEW record \in Records,
         Close(r, status, record), UNCHANGED <<second, failedAt, chain, counters, admitted, evicted>>
  PROVE  LegacyInv'
<1>1. /\ reply \in [LegacyIds -> LegacyStatuses] /\ row \in [LegacyIds -> Records]
      /\ waits \in [LegacyIds -> Phases]
  BY DEF LegacyInv, LegacyTypes, LegacyStatuses, Records
<1>2. reply' \in [LegacyIds -> LegacyStatuses] /\ row' \in [LegacyIds -> Records]
  BY <1>1 DEF Close
<1>3. waits' \in [LegacyIds -> Phases] /\ \A q \in LegacyIds : waits[q] # "new" => waits'[q] # "new"
  BY <1>1 DEF Close, Phases
<1>4. LegacyTypes'
  BY <1>2, <1>3 DEF LegacyInv, LegacyTypes, LegacyStatuses, Records
<1> QED
  BY <1>3, <1>4, CountersStay

\* A request goes on to its next await.
LEMMA OnKeeps ==
  ASSUME LegacyInv, NEW r \in LegacyIds, NEW next \in {"budget", "dispatch", "calling"},
         waits' = [waits EXCEPT ![r] = next],
         chain' \in [LegacyIds -> SUBSET Nat],
         \A q \in LegacyIds : chain'[q] \subseteq 0..Len(Chain[Wanted[q]]),
         UNCHANGED <<second, failedAt, counters, reply, row, admitted, evicted>>
  PROVE  LegacyInv'
<1>1. waits \in [LegacyIds -> Phases]
  BY DEF LegacyInv, LegacyTypes
<1>2. waits' \in [LegacyIds -> Phases] /\ \A q \in LegacyIds : waits[q] # "new" => waits'[q] # "new"
  BY <1>1 DEF Phases
<1>3. LegacyTypes'
  BY <1>2 DEF LegacyInv, LegacyTypes
<1> QED
  BY <1>2, <1>3, CountersStay

LEMMA LegacyStep == LegacyInv /\ [LegacyNext]_legacyVars => LegacyInv'
<1> SUFFICES ASSUME LegacyInv, [LegacyNext]_legacyVars PROVE LegacyInv'
  OBVIOUS
<1>0. /\ chain \in [LegacyIds -> SUBSET Nat] /\ \A q \in LegacyIds : chain[q] \subseteq 0..Len(Chain[Wanted[q]])
      /\ second \in 0..LegacyClockMax /\ LegacyClockMax \in Nat /\ second \in Nat
      /\ failedAt \in [LegacyModels -> Nat \cup {Cold}]
  BY LegacyAssumption DEF LegacyInv, LegacyTypes
<1>1. CASE LegacyTick
  <2>1. second' \in 0..LegacyClockMax
    BY <1>0, <1>1 DEF LegacyTick
  <2>2. UNCHANGED <<counters, failedAt, waits, chain, reply, row, admitted, evicted>>
    BY <1>1 DEF LegacyTick
  <2>3. LegacyTypes'
    BY <2>1, <2>2 DEF LegacyInv, LegacyTypes
  <2> QED
    BY <2>2, <2>3, CountersStay
<1>2. ASSUME NEW r \in LegacyIds, KnockOut(r) PROVE LegacyInv'
  <2>1. 401 \in LegacyStatuses /\ 404 \in LegacyStatuses /\ "none" \in Records
    BY DEF LegacyStatuses, Records
  <2> QED
    BY <1>2, <2>1, CloseKeeps DEF KnockOut
<1>3. ASSUME NEW r \in LegacyIds, Budget(r) PROVE LegacyInv'
  <2>1. 412 \in LegacyStatuses /\ "none" \in Records
    BY DEF LegacyStatuses, Records
  <2>2. CASE waits' = [waits EXCEPT ![r] = "dispatch"] /\ UNCHANGED <<reply, row>>
    BY <1>0, <1>3, <2>2, OnKeeps DEF Budget
  <2>3. CASE Close(r, 412, "none")
    BY <1>3, <2>1, <2>3, CloseKeeps DEF Budget
  <2> QED
    BY <1>3, <2>2, <2>3 DEF Budget
<1>4. ASSUME NEW r \in LegacyIds, DispatchChain(r) PROVE LegacyInv'
  <2> DEFINE fit == {i \in ChainFor(r) : Candidate(r, i) \in FitsIn[r]}
  <2>1. /\ waits' = [waits EXCEPT ![r] = "calling"] /\ chain' = [chain EXCEPT ![r] = fit]
        /\ UNCHANGED <<second, failedAt, counters, reply, row, admitted, evicted>>
    BY <1>4 DEF DispatchChain
  <2>2. fit \subseteq 0..Len(Chain[Wanted[r]])
    BY DEF ChainFor
  <2>3. \A i, j : i..j \subseteq Int
    OBVIOUS
  <2>4. fit \subseteq Nat
    <3>1. Wanted[r] \in LegacyModels
      BY LegacyAssumption
    <3>2. Chain[Wanted[r]] \in Seq(LegacyModels)
      BY <3>1, LegacyAssumption
    <3>3. 0..Len(Chain[Wanted[r]]) \subseteq Nat
      BY <3>2, LenProperties
    <3> QED
      BY <2>2, <3>3
  <2> HIDE DEF fit
  <2>5. /\ chain' \in [LegacyIds -> SUBSET Nat]
        /\ \A q \in LegacyIds : chain'[q] \subseteq 0..Len(Chain[Wanted[q]])
    BY <1>0, <2>1, <2>2, <2>4
  <2> QED
    BY <2>1, <2>5, OnKeeps
<1>5. ASSUME NEW r \in LegacyIds, NoneLeft(r) PROVE LegacyInv'
  <2>1. 502 \in LegacyStatuses /\ "error" \in Records /\ "timeout" \in Records
    BY DEF LegacyStatuses, Records
  <2>2. PICK status \in {"error", "timeout"} : Close(r, 502, status)
    BY <1>5 DEF NoneLeft
  <2>3. UNCHANGED <<second, failedAt, chain, counters, admitted, evicted>> /\ status \in Records
    BY <1>5, <2>1 DEF NoneLeft
  <2> QED
    BY <2>1, <2>2, <2>3, CloseKeeps
<1>6. ASSUME NEW r \in LegacyIds, NEW status \in {200, 500}, Respond(r, status) PROVE LegacyInv'
  <2>1. status \in LegacyStatuses /\ "success" \in Records
    BY DEF LegacyStatuses, Records
  <2> QED
    BY <1>6, <2>1, CloseKeeps DEF Respond
<1>7. ASSUME NEW r \in LegacyIds, NEW class \in Classes, Raised(r, class) PROVE LegacyInv'
  <2>1. CASE class \in TriggersOf(Asked(r), Wanted[r])
    <3>1. /\ failedAt' = [failedAt EXCEPT ![Asked(r)] = second]
          /\ chain' = [chain EXCEPT ![r] = @ \ {AskedAt(r)}]
          /\ UNCHANGED <<second, waits, reply, row, counters, admitted, evicted>>
      BY <1>7, <2>1 DEF Raised
    <3>2. failedAt' \in [LegacyModels -> Nat \cup {Cold}]
      BY <1>0, <3>1
    <3>3. /\ chain' \in [LegacyIds -> SUBSET Nat]
          /\ \A q \in LegacyIds : chain'[q] \subseteq 0..Len(Chain[Wanted[q]])
      BY <1>0, <3>1
    <3>4. LegacyTypes'
      BY <3>1, <3>2, <3>3 DEF LegacyInv, LegacyTypes
    <3> QED
      BY <3>1, <3>4, CountersStay
  <2>2. CASE class \notin TriggersOf(Asked(r), Wanted[r])
    <3>1. PICK status \in {"error", IF class = "timeout" THEN class ELSE "error"} : Close(r, 502, status)
      BY <1>7, <2>2 DEF Raised
    <3>2. 502 \in LegacyStatuses /\ status \in Records
      BY DEF LegacyStatuses, Records
    <3>3. UNCHANGED <<second, failedAt, chain, counters, admitted, evicted>>
      BY <1>7, <2>2 DEF Raised
    <3> QED
      BY <3>1, <3>2, <3>3, CloseKeeps
  <2> QED
    BY <2>1, <2>2
<1>8. CASE UNCHANGED legacyVars
  <2>1. LegacyTypes' /\ UNCHANGED <<counters, admitted, evicted, waits>>
    BY <1>8 DEF legacyVars, LegacyInv, LegacyTypes
  <2> QED
    BY <2>1, CountersStay
<1> QED
  BY <1>1, <1>2, <1>3, <1>4, <1>5, <1>6, <1>7, <1>8, CheckSyncStep DEF LegacyNext

LEMMA LegacyStart == LegacyInit => LegacyInv
<1> SUFFICES ASSUME LegacyInit PROVE LegacyInv
  OBVIOUS
<1>1. counters = <<>> /\ admitted = {} /\ evicted = {} /\ second = 0
  BY DEF LegacyInit
<1>2. MaxBuckets \in Nat \ {0} /\ 0 \in 0..LegacyClockMax
  BY LegacyAssumption
<1>3. StoreOK(counters)
  <2>1. Len(<<>>) = 0 /\ \A T : <<>> \in Seq(T)
    OBVIOUS
  <2> QED
    BY <1>1, <1>2, <2>1 DEF StoreOK, Distinct
<1>4. LegacyTypes
  <2>1. second \in 0..LegacyClockMax /\ admitted = {} /\ evicted = {}
    BY <1>1, <1>2
  <2>2. /\ failedAt \in [LegacyModels -> Nat \cup {Cold}] /\ waits \in [LegacyIds -> Phases]
        /\ reply \in [LegacyIds -> {0, 200, 401, 404, 412, 429, 500, 502}]
    BY DEF LegacyInit, Phases
  <2>3. row \in [LegacyIds -> {"none", "success", "error", "timeout"}]
    BY DEF LegacyInit
  <2>4. chain \in [LegacyIds -> SUBSET Nat] /\ \A q \in LegacyIds : chain[q] = {}
    BY DEF LegacyInit
  <2> QED
    BY <2>1, <2>2, <2>3, <2>4 DEF LegacyTypes
<1>5. Admissions
  <2> SUFFICES ASSUME NEW key \in RateKeys, StillCounts(key)
               PROVE  /\ AdmittedIn(key) <= CountOf(counters, key)
                      /\ AdmittedIn(key) <= RateLimit[<<key.scope, key.kind>>]
    BY DEF Admissions
  <2> DEFINE z == Share(key)
  <2>1. LegacyCount \in Nat /\ AdmittedIn(key) = Sum(z, LegacyCount)
    BY SharesNat
  <2>2. \A r \in 1..LegacyCount : z[r] = 0
    BY <1>1 DEF Share, LegacyIds
  <2> HIDE DEF z
  <2>3. AdmittedIn(key) = 0
    BY <2>1, <2>2, SumOfZeros
  <2>4. CountOf(counters, key) \in Nat
    BY <1>3, CountIs DEF StoreOK
  <2>5. RateLimit[<<key.scope, key.kind>>] \in Nat
    BY LegacyAssumption DEF RateKeys, StillCounts
  <2> QED
    BY <2>3, <2>4, <2>5
<1> QED
  BY <1>1, <1>3, <1>4, <1>5 DEF LegacyInv

LEMMA LegacyInvHolds == LegacySpec => []LegacyInv
<1> QED
  BY LegacyStart, LegacyStep, PTL DEF LegacySpec

(***************************************************************************)
(* LegacyTypeOK: the shape of the state; the store is bounded.             *)
(***************************************************************************)
THEOREM LegacyTypesCorrect == LegacySpec => []LegacyTypeOK
<1>1. LegacyInv => LegacyTypeOK
  BY DEF LegacyInv, LegacyTypes, StoreOK, LegacyTypeOK
<1> QED
  BY <1>1, LegacyInvHolds, PTL

(***************************************************************************)
(* CeilingPerBucket: what was admitted under a bucket that the store has   *)
(* not forgotten stays within its ceiling, whatever the scopes, limits,    *)
(* windows and the size of the store (check_sync, InMemoryCounterStore).   *)
(***************************************************************************)
THEOREM CeilingsCorrect == LegacySpec => []CeilingPerBucket
<1>1. LegacyInv => CeilingPerBucket
  <2> SUFFICES ASSUME LegacyInv, NEW p \in admitted, NEW k \in Kinds, NEW key,
                      key = [scope |-> p.scope, kind |-> k, bucket |-> p.bucket],
                      RateLimit[<<p.scope, k>>] # NoRate, key \notin evicted
               PROVE  AdmittedIn(key) <= RateLimit[<<p.scope, k>>]
    BY DEF CeilingPerBucket
  <2>1. key \in RateKeys /\ key.scope = p.scope /\ key.kind = k
    BY DEF LegacyInv, LegacyTypes, RateKeys
  <2>2. StillCounts(key)
    BY <2>1 DEF StillCounts
  <2> QED
    BY <2>1, <2>2 DEF LegacyInv, Admissions
<1> QED
  BY <1>1, LegacyInvHolds, PTL

=============================================================================
