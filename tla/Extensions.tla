----------------------------- MODULE Extensions -----------------------------
(***************************************************************************)
(* Settings of the product console: keys, budgets, alerts, environments,   *)
(* views, checks, snapshots, archives and an audit log, on one connection  *)
(* that the store of the Studio writes through as well.  The driver opens  *)
(* a transaction with the first change and ends it with commit(), whose    *)
(* ever the changes are.  An operation is a sequence of statements without *)
(* an await, but the process may die between any two.                      *)
(***************************************************************************)
EXTENDS Naturals, Sequences

CONSTANTS
  Apps,        \* applications
  PxKeys,      \* bound: keys that are issued
  EnvNames,    \* environments
  PxScopes,    \* budgets
  PxLimits,    \* amounts of a budget
  MaxAlerts,   \* bound: alerts
  Sheets,      \* views, provider checks, snapshots and archives
  NoPx         \* no row, no key

ASSUME ExtensionsAssumption ==
  /\ MaxAlerts \in Nat
  /\ NoPx \notin PxKeys \cup PxLimits \cup [app : Apps, active : BOOLEAN]

VARIABLES
  view,       \* the tables, as the connection sees them
  disk,       \* the tables, as committed
  unended,    \* a transaction is open
  todo,       \* the statements that are left of an operation
  bundle,     \* the last export
  lastRotated, \* history: by application, the key of its last rotation
  nameTaken   \* history: an environment's name was taken since the last commit

pxVars == <<view, disk, unended, todo, bundle, lastRotated, nameTaken>>

\* defaults: environments that say they are the default.  audit: keys that px_audit
\* has a record of; its other records decide nothing.
Tables ==
  [keys : [PxKeys -> [app : Apps, active : BOOLEAN] \cup {NoPx}],
   limits : [PxScopes -> PxLimits \cup {NoPx}], alerts : 0..MaxAlerts,
   envs : SUBSET EnvNames, defaults : SUBSET EnvNames,
   sheets : SUBSET Sheets, audit : SUBSET PxKeys]

PxInit ==
  /\ view = [keys |-> [k \in PxKeys |-> NoPx], limits |-> [s \in PxScopes |-> NoPx],
             alerts |-> 0, envs |-> {}, defaults |-> {}, sheets |-> {}, audit |-> {}]
  /\ disk = view
  /\ unended = FALSE /\ todo = <<>>
  /\ bundle = [alerts |-> 0, limits |-> [s \in PxScopes |-> NoPx]]
  /\ lastRotated = [a \in Apps |-> NoPx]
  /\ nameTaken = FALSE

-----------------------------------------------------------------------------
(* Statements *)

Statement(do, on, of) == [do |-> do, on |-> on, of |-> of]

AllStatements ==
  [do : {"revokeAll", "revoke", "key", "budget", "alert", "noDefault", "env", "default",
         "sheet", "audit", "commit"},
   on : PxKeys \cup Apps \cup PxScopes \cup EnvNames \cup Sheets \cup {NoPx},
   of : Apps \cup PxLimits \cup {NoPx}]

Commit == Statement("commit", NoPx, NoPx)
Audit(resource) == Statement("audit", resource, NoPx)

Active(db, app) == {k \in PxKeys : db.keys[k] # NoPx /\ db.keys[k].app = app /\ db.keys[k].active}

\* UPDATE ... WHERE status='active'
Revoked(db, keys) ==
  [db EXCEPT !.keys = [k \in PxKeys |-> IF k \in keys /\ db.keys[k] # NoPx
                                        THEN [db.keys[k] EXCEPT !.active = FALSE]
                                        ELSE db.keys[k]]]

Effect(db, s) ==
  CASE s.do = "revokeAll" -> Revoked(db, Active(db, s.on))
    [] s.do = "revoke"     -> Revoked(db, {s.on})
    [] s.do = "key"        -> [db EXCEPT !.keys[s.on] = [app |-> s.of, active |-> TRUE]]
    [] s.do = "budget"     -> [db EXCEPT !.limits[s.on] = s.of]
    [] s.do = "alert"      -> [db EXCEPT !.alerts = @ + 1]
    [] s.do = "noDefault" -> [db EXCEPT !.defaults = {}]
    [] s.do = "env"        -> [db EXCEPT !.envs = @ \cup {s.on}]
    [] s.do = "default"    -> [db EXCEPT !.envs = @ \cup {s.on}, !.defaults = @ \cup {s.on}]
    [] s.do = "sheet"      -> [db EXCEPT !.sheets = @ \cup {s.on}]
    [] s.do = "audit"      -> [db EXCEPT !.audit = @ \cup ({s.on} \cap PxKeys)]

\* A name that is taken: the INSERT changes nothing, and leaves the transaction open.
Taken(s) == s.do \in {"env", "default"} /\ s.on \in view.envs

Execute ==
  /\ todo # <<>>
  /\ LET s == Head(todo) IN
       /\ s.do # "commit" /\ ~Taken(s)
       /\ view' = Effect(view, s)
       /\ todo' = Tail(todo)
  /\ unended' = TRUE
  /\ UNCHANGED <<disk, bundle, lastRotated, nameTaken>>

New(app) == {k \in PxKeys : disk.keys[k] = NoPx /\ view.keys[k] # NoPx /\ view.keys[k].app = app}

EndTransaction ==
  /\ disk' = view /\ unended' = FALSE /\ nameTaken' = FALSE
  /\ lastRotated' = [a \in Apps |-> IF New(a) = {} THEN lastRotated[a] ELSE CHOOSE k \in New(a) : TRUE]
  /\ UNCHANGED <<view, bundle>>

CommitNext ==
  /\ todo # <<>> /\ Head(todo) = Commit
  /\ todo' = Tail(todo)
  /\ EndTransaction

\* sqlite3.IntegrityError, which no handler expects: 500.
EnvironmentRefused ==
  /\ todo # <<>> /\ Taken(Head(todo))
  /\ unended' = TRUE /\ todo' = <<>> /\ nameTaken' = TRUE
  /\ UNCHANGED <<view, disk, bundle, lastRotated>>

\* What is open is rolled back when the file is opened again.
ConsoleDies ==
  /\ view' = disk /\ unended' = FALSE /\ todo' = <<>> /\ nameTaken' = FALSE
  /\ UNCHANGED <<disk, bundle, lastRotated>>

\* Any operation of the Studio, which has the same connection.
StudioCommits ==
  /\ todo = <<>>
  /\ EndTransaction /\ UNCHANGED todo

-----------------------------------------------------------------------------
(* Operations *)

Begin(statements) ==
  /\ todo = <<>> /\ todo' = statements
  /\ UNCHANGED <<view, disk, unended, bundle, nameTaken>>

Change(statements) == Begin(statements) /\ UNCHANGED lastRotated

\* Mutant: the old keys go for good before there is a new one.
OldFirst(app, k) ==
  <<Statement("revokeAll", app, NoPx), Commit, Statement("key", k, app), Audit(k), Commit>>

Rotation(app, k) ==
  <<Statement("revokeAll", app, NoPx), Statement("key", k, app), Audit(k), Commit>>

RotatePx(app, k) == view.keys[k] = NoPx /\ Change(Rotation(app, k))

\* A key that is not active: 404, after the commit.
RevokePx(k) ==
  /\ Begin(<<Statement("revoke", k, NoPx), Commit>>
             \o IF view.keys[k] # NoPx /\ view.keys[k].active THEN <<Audit(k), Commit>> ELSE <<>>)
  /\ lastRotated' = [a \in Apps |-> IF lastRotated[a] = k THEN NoPx ELSE lastRotated[a]]

Limit(scope, usd) == <<Statement("budget", scope, usd), Commit, Audit(scope), Commit>>
Alert == <<Statement("alert", NoPx, NoPx), Commit>>

SetLimit(scope, usd) == Change(Limit(scope, usd))

AddAlert == view.alerts < MaxAlerts /\ Change(Alert)

CreateEnvironment(n, default) ==
  Change(IF default
         THEN <<Statement("noDefault", NoPx, NoPx), Statement("default", n, NoPx), Commit>>
         ELSE <<Statement("env", n, NoPx), Commit>>)

\* Views and snapshots are not audited.
SaveSheet(x, audited) ==
  Change(<<Statement("sheet", x, NoPx), Commit>> \o IF audited THEN <<Audit(x), Commit>> ELSE <<>>)

RollBackSheet(x) == x \in view.sheets /\ Change(<<Audit(x), Commit>>)

ExportBundle ==
  /\ todo = <<>>
  /\ bundle' = [alerts |-> view.alerts, limits |-> view.limits]
  /\ UNCHANGED <<view, disk, unended, todo, lastRotated, nameTaken>>

\* Item by item: what precedes one that is refused stays.
ImportBundle(scope, usable) ==
  /\ view.alerts + bundle.alerts <= MaxAlerts
  /\ Change((IF bundle.alerts > 0 THEN Alert ELSE <<>>)
              \o IF usable /\ bundle.limits[scope] # NoPx THEN Limit(scope, bundle.limits[scope]) ELSE <<>>)

PxNext ==
  \/ Execute \/ CommitNext \/ EnvironmentRefused \/ ConsoleDies \/ StudioCommits
  \/ \E app \in Apps, k \in PxKeys : RotatePx(app, k)
  \/ \E k \in PxKeys : RevokePx(k)
  \/ \E scope \in PxScopes, usd \in PxLimits : SetLimit(scope, usd)
  \/ AddAlert
  \/ \E n \in EnvNames, default \in BOOLEAN : CreateEnvironment(n, default)
  \/ \E x \in Sheets : SaveSheet(x, TRUE) \/ SaveSheet(x, FALSE) \/ RollBackSheet(x)
  \/ ExportBundle
  \/ \E scope \in PxScopes, usable \in BOOLEAN : ImportBundle(scope, usable)

PxSpec == PxInit /\ [][PxNext]_pxVars

-----------------------------------------------------------------------------
(* Properties *)

\* Type invariant; what is not open is on disk.
PxTypeOK ==
  /\ view \in Tables /\ disk \in Tables
  /\ unended \in BOOLEAN /\ nameTaken \in BOOLEAN /\ (~unended => view = disk)
  /\ todo \in Seq(AllStatements)
  /\ lastRotated \in [Apps -> PxKeys \cup {NoPx}]

\* The file has exactly one active key of an application that has rotated its key, the
\* last one, until somebody asks to revoke that one, and an audit record of each key,
\* wherever a process dies and whose commit it is that makes a change last; a default
\* environment is never one of two, and a transaction is left open only by a name that
\* was taken (rotate_key, create_environment, ProductConsoleStore's commits).
KeyAfterRotation ==
  /\ \A a \in Apps : lastRotated[a] # NoPx => Active(disk, a) = {lastRotated[a]}
  /\ \A k \in PxKeys : disk.keys[k] # NoPx => k \in disk.audit
  /\ \A m, n \in disk.defaults : m = n
  /\ todo = <<>> /\ unended => nameTaken
=============================================================================
