---------------------------- MODULE RouteStudio ----------------------------
(***************************************************************************)
(* Routes of the Route Studio: drafts, published versions, archive, and    *)
(* the applications that name a route as their default.  The handlers of   *)
(* the console do not await inside a call of the store, so a call is one   *)
(* action; between two calls of an editor anybody may change the route he  *)
(* has open.  The proxy reads the same table for every request.            *)
(***************************************************************************)
EXTENDS Integers

CONSTANTS
  Names,       \* route names
  Targets,     \* lists of targets
  Editors,     \* people with a route open in the Studio
  Clients,     \* applications
  MaxRoutes,   \* bound: routes created
  MaxDrafts,   \* bound: versions of a route
  NoRoute, NoTargets, NoName

StudioIds == 1..MaxRoutes
Drafts == 1..MaxDrafts

ASSUME StudioAssumption ==
  /\ MaxRoutes \in Nat /\ MaxDrafts \in Nat \ {0}
  /\ NoTargets \notin Targets /\ NoName \notin Names

VARIABLES
  created,    \* routes created so far; ids are random, here 1, 2, ...
  studio,     \* rows of pc_routes
  versions,   \* rows of pc_route_versions
  opened,     \* the answer an editor works from
  default     \* default_route of an application, rows of pc_apps

studioVars == <<created, studio, versions, opened, default>>

StudioRow == [name : Names, draft : Drafts, published : 0..MaxDrafts,
              status : {"draft", "active", "archived"}, targets : Targets]
Snapshot == [route : StudioIds, draft : Drafts, targets : Targets]

ASSUME NoRouteAssumption == NoRoute \notin StudioRow \cup Snapshot

Exists(r) == studio[r] # NoRoute

\* published_route_by_name
Published(n, r) == Exists(r) /\ studio[r].name = n /\ studio[r].status = "active"
Live(n) == {studio[r].targets : r \in {q \in StudioIds : Published(n, q)}}

\* route_dependencies
Blocked(r) == \E c \in Clients : default[c] = studio[r].name

StudioInit ==
  /\ created = 0
  /\ studio = [r \in StudioIds |-> NoRoute]
  /\ versions = [r \in StudioIds |-> [v \in Drafts |-> NoTargets]]
  /\ opened = [e \in Editors |-> NoRoute]
  /\ default = [c \in Clients |-> NoName]

\* The name is UNIQUE; a name that is taken ends the call with an IntegrityError.
CreateStudioRoute(n, t) ==
  LET r == created + 1 IN
  /\ r \in StudioIds
  /\ \A q \in StudioIds : Exists(q) => studio[q].name # n
  /\ created' = r
  /\ studio' = [studio EXCEPT ![r] = [name |-> n, draft |-> 1, published |-> 0,
                                      status |-> "draft", targets |-> t]]
  /\ versions' = [versions EXCEPT ![r][1] = t]
  /\ UNCHANGED <<opened, default>>

DuplicateRoute(r, n) == Exists(r) /\ CreateStudioRoute(n, studio[r].targets)

\* GET of the route, before it is edited
OpenRoute(e, r) ==
  /\ Exists(r)
  /\ opened' = [opened EXCEPT ![e] = [route |-> r, draft |-> studio[r].draft,
                                      targets |-> studio[r].targets]]
  /\ UNCHANGED <<created, studio, versions, default>>

\* Mutant: drafts are numbered from the published version.
AfterPublished(r) == studio[r].published + 1

NextDraft(r) == studio[r].draft + 1

\* Mutant: the row keeps its status, and what is saved is live at once.
SavedInPlace(r, t) ==
  [studio EXCEPT ![r].draft = NextDraft(r), ![r].targets = t]

Saved(r, t) ==
  [studio EXCEPT ![r].draft = NextDraft(r), ![r].status = "draft", ![r].targets = t]

Save(r, t) ==
  /\ Exists(r) /\ NextDraft(r) \in Drafts
  /\ studio' = Saved(r, t)
  /\ versions' = [versions EXCEPT ![r][NextDraft(r)] = t]

\* update_route with expected_version; the editor goes on from the answer.
SaveOpened(e, t) ==
  /\ opened[e] # NoRoute
  /\ LET r == opened[e].route IN
       /\ Save(r, t)
       /\ opened[e].draft = studio[r].draft
       /\ opened' = [opened EXCEPT ![e] = [route |-> r, draft |-> NextDraft(r),
                                           targets |-> t]]
  /\ UNCHANGED <<created, default>>

\* update_route without it
SaveBlindly(r, t) == Save(r, t) /\ UNCHANGED <<created, opened, default>>

Publish(r) ==
  /\ Exists(r)
  /\ studio' = [studio EXCEPT ![r].published = studio[r].draft, ![r].status = "active"]
  /\ UNCHANGED <<created, versions, opened, default>>

Archive(r) ==
  /\ Exists(r)
  /\ ~ Blocked(r)
  /\ studio' = [studio EXCEPT ![r].status = "archived"]
  /\ UNCHANGED <<created, versions, opened, default>>

Restored == "draft"

Restore(r) ==
  /\ Exists(r) /\ studio[r].status = "archived"
  /\ studio' = [studio EXCEPT ![r].status = Restored]
  /\ UNCHANGED <<created, versions, opened, default>>

DeleteRoute(r, confirmation) ==
  /\ Exists(r) /\ studio[r].status = "archived" /\ confirmation = studio[r].name
  /\ studio' = [studio EXCEPT ![r] = NoRoute]
  /\ versions' = [versions EXCEPT ![r] = [v \in Drafts |-> NoTargets]]
  /\ UNCHANGED <<created, opened, default>>

\* Any name will do, of a route or not.
CreateApplication(c, n) ==
  /\ default[c] = NoName
  /\ default' = [default EXCEPT ![c] = n]
  /\ UNCHANGED <<created, studio, versions, opened>>

StudioNext ==
  \/ \E n \in Names, t \in Targets : CreateStudioRoute(n, t)
  \/ \E r \in StudioIds, n \in Names : DuplicateRoute(r, n) \/ DeleteRoute(r, n)
  \/ \E e \in Editors, r \in StudioIds : OpenRoute(e, r)
  \/ \E e \in Editors, t \in Targets : SaveOpened(e, t)
  \/ \E r \in StudioIds, t \in Targets : SaveBlindly(r, t)
  \/ \E r \in StudioIds : Publish(r) \/ Archive(r) \/ Restore(r)
  \/ \E c \in Clients, n \in Names : CreateApplication(c, n)

StudioSpec == StudioInit /\ [][StudioNext]_studioVars

-----------------------------------------------------------------------------
(* Properties *)

\* Type invariant; names are unique, so a name is live in one route at most.
StudioTypeOK ==
  /\ created \in 0..MaxRoutes
  /\ studio \in [StudioIds -> StudioRow \cup {NoRoute}]
  /\ versions \in [StudioIds -> [Drafts -> Targets \cup {NoTargets}]]
  /\ opened \in [Editors -> Snapshot \cup {NoRoute}]
  /\ default \in [Clients -> Names \cup {NoName}]
  /\ \A q, r \in StudioIds :
       Exists(q) /\ Exists(r) /\ studio[q].name = studio[r].name => q = r

\* The proxy reads the column targets, which the drafts are saved to as well.  Of
\* an active route it is all the same the published version as it was stored: no
\* order of saves, publishes, archives and restores puts a draft into the traffic
\* that nobody published (update_route, restore_route, published_route_by_name).
LiveIsPublished ==
  \A r \in StudioIds :
    Exists(r) /\ studio[r].status = "active" =>
      /\ studio[r].published # 0
      /\ studio[r].targets = versions[r][studio[r].published]

\* An editor whose version number is still the one of the row is looking at what
\* the row holds, so a save that passes the comparison overwrites nothing he has
\* not seen ("a stale Studio snapshot cannot silently overwrite newer changes").
VersionTellsContent ==
  \A e \in Editors :
    opened[e] # NoRoute =>
      LET r == opened[e].route IN
      Exists(r) /\ studio[r].draft = opened[e].draft
        => studio[r].targets = opened[e].targets

\* "`draft`: editable and isolated from live traffic": saving a draft changes
\* nothing for the requests that name the route.
DraftIsIsolated ==
  [][\A e \in Editors, t \in Targets, n \in Names :
       SaveOpened(e, t) => Live(n)' = Live(n)]_studioVars
=============================================================================
