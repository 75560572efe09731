----------------------------- MODULE RoutePlane -----------------------------
(***************************************************************************)
(* Logical routes of the routing control plane: versioned configurations,  *)
(* publication, rollback, the resolution of an alias against the spend of  *)
(* its models, and the spend that a response adds later.  Nothing in the   *)
(* program reports the health of a model, so every model counts as healthy.*)
(* Each call of the plane is one action; a request resolves its alias,     *)
(* calls a model and charges it in three of them.                          *)
(***************************************************************************)
EXTENDS Integers, Sequences, FiniteSets

CONSTANTS
  Aliases,          \* route names
  Models,
  Configs,          \* bound: validated configurations that editors save
  Reported,         \* the names a provider may report having served a model under
  Requests,         \* bound: requests through the plane at one time
  Cost,             \* bound: the highest cost of a request
  MaxSpend,         \* bound: spend that is counted up
  MaxPlaneRoutes,   \* bound: routes created
  MaxPlaneVersions, \* bound: versions of a route
  NoRow

PlaneIds == 1..MaxPlaneRoutes
Numbers == 1..MaxPlaneVersions

\* primaries: quality_models, the scheduled and the default model; windowed: the
\* models with a service window.
ConfigType == [alias : Aliases, primaries : SUBSET Models, fallbacks : Seq(Models),
               budget : Nat \ {0}, windowed : SUBSET Models]

ASSUME PlaneAssumption ==
  /\ Configs \subseteq ConfigType
  /\ Reported \in [Models -> SUBSET Models]
  /\ Cost \in Nat /\ MaxSpend \in Nat /\ IsFiniteSet(Requests)
  /\ MaxPlaneRoutes \in Nat /\ MaxPlaneVersions \in Nat \ {0}
  /\ NoRow \notin Configs

VARIABLES
  plane,         \* rows of logical_routes: alias, draft, published (0 for NULL)
  config,        \* rows of route_versions
  publications,  \* rows of route_publications
  modelSpend,    \* route_model_spend of this month, by alias and model
  request        \* the alias a request has resolved, and its candidates

planeVars == <<plane, config, publications, modelSpend, request>>

PlaneRow == [alias : Aliases, draft : Numbers, published : 0..MaxPlaneVersions]
Pending == [alias : Aliases, candidates : SUBSET Models]

ASSUME NoRowAssumption == NoRow \notin PlaneRow \cup Pending

Made == {r \in PlaneIds : plane[r] # NoRow}
Free(a, r) == \A q \in Made \ {r} : plane[q].alias # a

PlaneInit ==
  /\ plane = [r \in PlaneIds |-> NoRow]
  /\ config = [r \in PlaneIds |-> [v \in Numbers |-> NoRow]]
  /\ publications = [r \in PlaneIds |-> {}]
  /\ modelSpend = [a \in Aliases |-> [m \in Models |-> 0]]
  /\ request = [q \in Requests |-> NoRow]

CreateLogical(r, c) ==
  /\ r \notin Made
  /\ Free(c.alias, r)
  /\ plane' = [plane EXCEPT ![r] = [alias |-> c.alias, draft |-> 1, published |-> 0]]
  /\ config' = [config EXCEPT ![r][1] = c]
  /\ UNCHANGED <<publications, modelSpend, request>>

\* The name of the draft replaces the name of the route at once; a name that is
\* taken rolls the transaction back.
UpdateLogical(r, c) ==
  LET v == plane[r].draft + 1 IN
  /\ r \in Made /\ v \in Numbers
  /\ Free(c.alias, r)
  /\ plane' = [plane EXCEPT ![r].alias = c.alias, ![r].draft = v]
  /\ config' = [config EXCEPT ![r][v] = c]
  /\ UNCHANGED <<publications, modelSpend, request>>

PublishLogical(r) ==
  /\ r \in Made
  /\ plane' = [plane EXCEPT ![r].published = plane[r].draft]
  /\ publications' = [publications EXCEPT ![r] = @ \cup {plane[r].draft}]
  /\ UNCHANGED <<config, modelSpend, request>>

\* Mutant: the version before the published one, by arithmetic.
VersionBefore(r) == {v \in Numbers : v = plane[r].published - 1}

Earlier(r) == {v \in publications[r] : v < plane[r].published}

Rollback(r) ==
  /\ r \in Made /\ plane[r].published # 0
  /\ \E v \in Earlier(r) :
       /\ \A w \in Earlier(r) : w <= v
       /\ plane' = [plane EXCEPT ![r].published = v]
  /\ UNCHANGED <<config, publications, modelSpend, request>>

\* Mutant: a model may reach its budget and go on.
AffordableAtBudget(a, c, m) == modelSpend[a][m] <= c.budget

Affordable(a, c, m) == modelSpend[a][m] < c.budget

\* The first candidate that is eligible and, of those with a service window, open.
\* What follows it in candidate_models was not asked for its window.
FirstIn(chain, good) ==
  \E i \in 1..Len(chain) :
    /\ chain[i] \in good
    /\ \A j \in 1..(i - 1) : chain[j] \notin good

\* resolve_alias; primary is what tier and schedule ask for.  A request that
\* nothing is eligible for is answered with 404 and leaves no trace.
Resolve(q, r) ==
  /\ request[q] = NoRow
  /\ r \in Made /\ plane[r].published # 0
  /\ LET c == config[r][plane[r].published] IN
       \E primary \in c.primaries, closed \in SUBSET c.windowed :
         LET a == plane[r].alias
             chain == <<primary>> \o c.fallbacks
             all == {chain[i] : i \in 1..Len(chain)}
             good == {m \in all : Affordable(a, c, m)}
         IN /\ FirstIn(chain, good \ closed)
            /\ request' = [request EXCEPT ![q] = [alias |-> a, candidates |-> good]]
  /\ UNCHANGED <<plane, config, publications, modelSpend>>

\* The response is charged to the name the provider reports, under the alias the
\* request came with.
Charge(q, m, name, cost) ==
  /\ request[q] # NoRow
  /\ m \in request[q].candidates /\ name \in Reported[m]
  /\ modelSpend[request[q].alias][name] + cost <= MaxSpend
  /\ modelSpend' = [modelSpend EXCEPT ![request[q].alias][name] = @ + cost]
  /\ request' = [request EXCEPT ![q] = NoRow]
  /\ UNCHANGED <<plane, config, publications>>

\* All candidates failed, or recording raised.
Uncharged(q) ==
  /\ request[q] # NoRow
  /\ request' = [request EXCEPT ![q] = NoRow]
  /\ UNCHANGED <<plane, config, publications, modelSpend>>

\* The rows of a past month are not read any more.
NewMonth ==
  /\ modelSpend' = [a \in Aliases |-> [m \in Models |-> 0]]
  /\ UNCHANGED <<plane, config, publications, request>>

PlaneNext ==
  \/ \E r \in PlaneIds, c \in Configs : CreateLogical(r, c) \/ UpdateLogical(r, c)
  \/ \E r \in PlaneIds : PublishLogical(r) \/ Rollback(r)
  \/ \E q \in Requests, r \in PlaneIds : Resolve(q, r)
  \/ \E q \in Requests, m, name \in Models, cost \in 1..Cost : Charge(q, m, name, cost)
  \/ \E q \in Requests : Uncharged(q)
  \/ NewMonth

PlaneSpec == PlaneInit /\ [][PlaneNext]_planeVars

-----------------------------------------------------------------------------
(* Properties *)

\* Type invariant; the alias of a row is the one of its draft, and what is
\* published has a configuration.
PlaneTypeOK ==
  /\ plane \in [PlaneIds -> PlaneRow \cup {NoRow}]
  /\ config \in [PlaneIds -> [Numbers -> Configs \cup {NoRow}]]
  /\ publications \in [PlaneIds -> SUBSET Numbers]
  /\ modelSpend \in [Aliases -> [Models -> Nat]]
  /\ request \in [Requests -> Pending \cup {NoRow}]
  /\ \A r \in Made :
       /\ \A v \in 1..plane[r].draft : config[r][v] # NoRow
       /\ plane[r].alias = config[r][plane[r].draft].alias

\* "Roll back to the most recent version that was ACTUALLY published": no order
\* of edits, publishes and rollbacks serves a version nobody published, not even
\* one whose number lies between two that were (rollback_route).
ServedWasPublished ==
  \A r \in Made : plane[r].published # 0 => plane[r].published \in publications[r]

\* The monthly budget is looked at when an alias is resolved and charged when the
\* response is there: a model passes the highest budget by no more than what the
\* requests can cost that resolved before.  Of models that a provider reports under
\* another name nothing of the kind holds (resolve_alias, record_model_spend).
Uncounted(a, m) ==
  {q \in Requests :
     request[q] # NoRow /\ request[q].alias = a /\ m \in request[q].candidates}

OvershootIsInFlight ==
  \A a \in Aliases, m \in Models :
    modelSpend[a][m] > 0 /\ (\A o \in Models : m \in Reported[o] <=> o = m)
    => \E c \in Configs :
         modelSpend[a][m] + Cost * Cardinality(Uncounted(a, m))
           < c.budget + Cost * Cardinality(Requests)
=============================================================================
