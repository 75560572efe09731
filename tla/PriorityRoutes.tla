--------------------------- MODULE PriorityRoutes ---------------------------
(***************************************************************************)
(* The ordered routes of the administration: drafts and the version that   *)
(* is published, and the decision that picks the targets that are open at  *)
(* an instant of their time zone, below their ceiling of the month and     *)
(* healthy.  Spend and health are kept by the name of a route, and the     *)
(* name changes with the draft.                                            *)
(***************************************************************************)
EXTENDS Integers, Sequences

CONSTANTS
  PrIds,        \* bound: routes that are created
  PrNames,      \* names of routes
  PrModels,     \* models of targets
  PrBodies,     \* what administrators send: sequences of targets
  PrCosts,      \* costs of an answer
  DayLength,    \* minutes of a day
  MonthLength,  \* days of a month
  Instants,     \* minutes since the first of a month, UTC, that are asked for
  MaxMonth,     \* the last month an instant is in, in any time zone
  Demands,      \* sets of capabilities
  Statuses,     \* of an answer
  SafeStatuses, \* those a fallback may follow
  MaxChains,    \* bound: versions of a route
  MaxPrSpend,   \* bound: spend of a model in a month
  NoPr          \* no route, no version, no decision

ASSUME PriorityAssumption ==
  /\ DayLength \in Nat \ {0} /\ MonthLength \in Nat \ {0} /\ Instants \subseteq Nat
  /\ MaxMonth \in Nat /\ MaxChains \in Nat \ {0} /\ MaxPrSpend \in Nat /\ PrCosts \subseteq Nat
  /\ \A t \in Instants : (t \div DayLength) \div MonthLength <= MaxMonth
  /\ \A targets \in PrBodies : \A i \in DOMAIN targets : targets[i].priority \in Int
  /\ NoPr \notin Nat
  /\ NoPr \notin [name : PrNames, draft : 1..MaxChains, published : 1..MaxChains \cup {NoPr},
                  status : {"draft", "active"}]

VARIABLES
  ordered,    \* priority_routes, by id
  drafts,     \* priority_route_versions, by id and version
  monthly,    \* priority_route_spend
  sick,       \* priority_route_health: targets that are not healthy
  decided     \* the last decision

priorityVars == <<ordered, drafts, monthly, sick, decided>>

MonthAt(t) == (t \div DayLength) \div MonthLength

PriorityInit ==
  /\ ordered = [r \in PrIds |-> NoPr] /\ drafts = [r \in PrIds |-> <<>>]
  /\ monthly = [k \in PrNames \X PrModels \X (0..MaxMonth) |-> 0]
  /\ sick = {} /\ decided = NoPr

-----------------------------------------------------------------------------
(* Targets *)

\* _validate; days of the week are left out.
Usable(targets) ==
  /\ targets # <<>>
  /\ \A i \in DOMAIN targets :
       /\ targets[i].priority > 0 /\ targets[i].ceiling > 0
       /\ targets[i].fallback # {} /\ targets[i].fallback \subseteq SafeStatuses
  /\ \A i, j \in DOMAIN targets : targets[i].priority = targets[j].priority => i = j

\* The chain: the targets by their priorities, of which no two have the same.
Priorities(targets) == {targets[i].priority : i \in DOMAIN targets}
Ordered(targets) ==
  [p \in Priorities(targets) |->
     targets[CHOOSE i \in DOMAIN targets : targets[i].priority = p]]

Foremost(priorities) == CHOOSE p \in priorities : \A q \in priorities : p <= q

\* From the first minute until before the last: the usual 00:00 to 23:59 has no last
\* minute of the day, and a start that is the end means all day.
OpenAt(minute, from, to) ==
  IF from < to THEN from <= minute /\ minute < to ELSE from <= minute \/ minute < to

\* The month is the target's, whereas spend is of the month record_spend is told.
EligibleTarget(name, target, at, capabilities) ==
  LET local == at + target.zone IN
    /\ target.enabled
    /\ OpenAt(local % DayLength, target.from, target.to)
    /\ monthly[<<name, target.model, MonthAt(local)>>] < target.ceiling
    /\ <<name, target.model>> \notin sick
    /\ target.needs \subseteq capabilities

-----------------------------------------------------------------------------
(* Operations *)

NamedElsewhere(name, r) == \E s \in PrIds \ {r} : ordered[s] # NoPr /\ ordered[s].name = name

Create(r, name, targets) ==
  /\ ordered[r] = NoPr /\ Usable(targets) /\ ~NamedElsewhere(name, r)
  /\ ordered' = [ordered EXCEPT ![r] =
       [name |-> name, draft |-> 1, published |-> NoPr, status |-> "draft"]]
  /\ drafts' = [drafts EXCEPT ![r] = <<[name |-> name, targets |-> Ordered(targets)]>>]
  /\ UNCHANGED <<monthly, sick, decided>>

\* The published version stays, and answers to the new name.  A name that is taken is
\* rolled back, 500.
Redraft(r, name, targets) ==
  /\ ordered[r] # NoPr /\ Usable(targets) /\ ~NamedElsewhere(name, r)
  /\ ordered[r].draft < MaxChains
  /\ ordered' = [ordered EXCEPT ![r] = [name |-> name, draft |-> @.draft + 1,
                                        published |-> @.published, status |-> "draft"]]
  /\ drafts' = [drafts EXCEPT ![r] = Append(@, [name |-> name, targets |-> Ordered(targets)])]
  /\ UNCHANGED <<monthly, sick, decided>>

PublishOrdered(r) ==
  /\ ordered[r] # NoPr
  /\ ordered' = [ordered EXCEPT ![r] = [name |-> @.name, draft |-> @.draft,
                                        published |-> @.draft, status |-> "active"]]
  /\ UNCHANGED <<drafts, monthly, sick, decided>>

\* No target that is eligible: 422.
DecideChain(r, at, capabilities) ==
  /\ ordered[r] # NoPr /\ ordered[r].published # NoPr
  /\ LET chain == drafts[r][ordered[r].published].targets
         open == {p \in DOMAIN chain : EligibleTarget(ordered[r].name, chain[p], at, capabilities)}
     IN /\ open # {}
        /\ decided' = [route |-> r, version |-> ordered[r].published,
                       targets |-> [p \in open |-> chain[p]], selected |-> Foremost(open)]
  /\ UNCHANGED <<ordered, drafts, monthly, sick>>

\* The next one of those that were eligible then.
FallBack(status) ==
  /\ decided # NoPr
  /\ status \in decided.targets[decided.selected].fallback
  /\ LET later == {p \in DOMAIN decided.targets : p > decided.selected}
     IN later # {} /\ decided' = [decided EXCEPT !.selected = Foremost(later)]
  /\ UNCHANGED <<ordered, drafts, monthly, sick>>

RecordSpend(name, model, cost, at) ==
  /\ monthly[<<name, model, MonthAt(at)>>] + cost <= MaxPrSpend
  /\ monthly' = [monthly EXCEPT ![<<name, model, MonthAt(at)>>] = @ + cost]
  /\ UNCHANGED <<ordered, drafts, sick, decided>>

SetHealth(name, model, healthy) ==
  /\ sick' = IF healthy THEN sick \ {<<name, model>>} ELSE sick \cup {<<name, model>>}
  /\ UNCHANGED <<ordered, drafts, monthly, decided>>

PriorityNext ==
  \/ \E r \in PrIds, name \in PrNames, targets \in PrBodies :
       Create(r, name, targets) \/ Redraft(r, name, targets)
  \/ \E r \in PrIds : PublishOrdered(r)
  \/ \E r \in PrIds, at \in Instants, capabilities \in Demands : DecideChain(r, at, capabilities)
  \/ \E status \in Statuses : FallBack(status)
  \/ \E name \in PrNames, model \in PrModels, cost \in PrCosts, at \in Instants :
       RecordSpend(name, model, cost, at)
  \/ \E name \in PrNames, model \in PrModels, healthy \in BOOLEAN :
       SetHealth(name, model, healthy)

PrioritySpec == PriorityInit /\ [][PriorityNext]_priorityVars

-----------------------------------------------------------------------------
(* Properties *)

\* Type invariant: a name is of one route and of its last draft, what is published is a
\* draft that was kept, and a decision has targets of a version that was published, by
\* their priorities.
PriorityTypeOK ==
  /\ monthly \in [PrNames \X PrModels \X (0..MaxMonth) -> 0..MaxPrSpend]
  /\ sick \subseteq PrNames \X PrModels
  /\ \A r \in PrIds : ordered[r] # NoPr =>
       /\ ordered[r].draft = Len(drafts[r]) /\ ordered[r].name = drafts[r][Len(drafts[r])].name
       /\ ordered[r].published \in 1..Len(drafts[r]) \cup {NoPr}
       /\ ~NamedElsewhere(ordered[r].name, r)
  /\ decided # NoPr =>
       LET chain == drafts[decided.route][decided.version].targets IN
         /\ decided.version <= ordered[decided.route].published
         /\ decided.selected \in DOMAIN decided.targets
         /\ \A p \in DOMAIN decided.targets :
              p \in DOMAIN chain /\ chain[p] = decided.targets[p] /\ chain[p].priority = p
=============================================================================
