--------------------------- MODULE LocalServices ---------------------------
(***************************************************************************)
(* The service manager of the console: uvicorn children on fixed ports.    *)
(* One lock, and the event loop that waits in start, let only one call of  *)
(* the manager go on at a time; children, strangers on a port and crashes  *)
(* of the console come in between.                                         *)
(***************************************************************************)
EXTENDS Integers, FiniteSets

CONSTANTS
  Services,
  MaxChildren,  \* bound: children spawned
  NoChild, NoService

Children == 1..MaxChildren

ASSUME ServiceAssumption ==
  MaxChildren \in Nat /\ NoChild \notin Children /\ NoService \notin Services

VARIABLES
  console,    \* whether the console runs
  spawned,    \* children so far
  child,      \* what became of a child: service, life
  managed,    \* _processes
  stranger,   \* services whose port a process holds that the manager did not spawn:
              \* another program, or a worker that outlived its killed supervisor
  starting,   \* the service start waits in, and for what
  owner       \* history: children the running console has spawned

serviceVars == <<console, spawned, child, managed, stranger, starting, owner>>

Child == [service : Services, life : {"booting", "serving", "dead"}]
Idling == [service |-> NoService, waits |-> "for nothing"]

Alive(p) == p <= spawned /\ child[p].life # "dead"
PortOpen(s) ==
  s \in stranger \/ \E p \in 1..spawned : child[p].service = s /\ child[p].life = "serving"

\* _reap
Reaped(s) == IF managed[s] # NoChild /\ ~ Alive(managed[s])
             THEN [managed EXCEPT ![s] = NoChild] ELSE managed

ServicesInit ==
  /\ console = TRUE /\ spawned = 0 /\ child = <<>>
  /\ managed = [s \in Services |-> NoChild]
  /\ stranger \in SUBSET Services
  /\ starting = Idling
  /\ owner = {}

Ready == console /\ starting = Idling

\* Popen, for the table of processes as _reap left it
Spawn(s, table) ==
  /\ spawned < MaxChildren
  /\ spawned' = spawned + 1
  /\ child' = [p \in 1..(spawned + 1) |->
                 IF p <= spawned THEN child[p] ELSE [service |-> s, life |-> "booting"]]
  /\ managed' = [table EXCEPT ![s] = spawned + 1]
  /\ owner' = owner \cup {spawned + 1}
  /\ starting' = [service |-> s, waits |-> "for the child"]

\* start.  A service in the table is answered with its status, and nothing changes.
StartService(s) ==
  /\ Ready /\ Reaped(s)[s] = NoChild
  /\ IF PortOpen(s)
     THEN /\ managed' = Reaped(s)
          /\ starting' = [service |-> s, waits |-> "for the port"]
          /\ UNCHANGED <<spawned, child, owner>>
     ELSE Spawn(s, Reaped(s))
  /\ UNCHANGED <<console, stranger>>

WaitsFor(s, what) == console /\ starting = [service |-> s, waits |-> what]

PortFreed(s) ==
  /\ WaitsFor(s, "for the port") /\ ~ PortOpen(s)
  /\ Spawn(s, managed)
  /\ UNCHANGED <<console, stranger>>

\* The deadline passes, or Popen raises: "already in use by an unmanaged process".
StartRefused(s) ==
  /\ WaitsFor(s, "for the port")
  /\ starting' = Idling
  /\ UNCHANGED <<console, spawned, child, managed, stranger, owner>>

\* The port answers, be it a stranger's who was faster; the child is still alive.
StartSucceeds(s) ==
  /\ WaitsFor(s, "for the child") /\ PortOpen(s) /\ Alive(managed[s])
  /\ starting' = Idling
  /\ UNCHANGED <<console, spawned, child, managed, stranger, owner>>

\* terminate, wait, kill, wait.  A supervisor that has to be killed may leave workers.
Killed(p) == [child EXCEPT ![p].life = "dead"]
Survivors(p) == {stranger} \cup
  (IF child[p].life = "serving" THEN {stranger \cup {child[p].service}} ELSE {})

\* Mutant: the entry goes, the child stays.
Forgotten(p) == child

Terminated(p) == Killed(p)

\* The child has exited, or the deadline passes and it is ended; then it is reaped.
StartFails(s) ==
  LET p == managed[s] IN
  /\ WaitsFor(s, "for the child")
  /\ IF Alive(p) THEN child' = Terminated(p) /\ stranger' \in Survivors(p)
     ELSE UNCHANGED <<child, stranger>>
  /\ managed' = [managed EXCEPT ![s] = NoChild]
  /\ starting' = Idling
  /\ UNCHANGED <<console, spawned, owner>>

StopService(s) ==
  LET p == managed[s] IN
  /\ Ready /\ p # NoChild
  /\ IF Alive(p) THEN child' = Terminated(p) /\ stranger' \in Survivors(p)
     ELSE UNCHANGED <<child, stranger>>
  /\ managed' = [managed EXCEPT ![s] = NoChild]
  /\ UNCHANGED <<console, spawned, starting, owner>>

\* status: the only other call that writes the table
ReadStatus(s) ==
  /\ Ready /\ managed' = Reaped(s)
  /\ UNCHANGED <<console, spawned, child, stranger, starting, owner>>

\* The end of the lifespan; it follows the last call, and stop_all every child.
ShutDown ==
  /\ Ready /\ \A s \in Services : managed[s] = NoChild
  /\ console' = FALSE
  /\ UNCHANGED <<spawned, child, managed, stranger, starting, owner>>

\* The console is killed.  Its children have sessions of their own and go on.
CrashConsole ==
  /\ console /\ console' = FALSE
  /\ managed' = [s \in Services |-> NoChild]
  /\ starting' = Idling
  /\ owner' = {}
  /\ UNCHANGED <<spawned, child, stranger>>

RestartConsole ==
  /\ ~ console /\ console' = TRUE /\ owner' = {}
  /\ UNCHANGED <<spawned, child, managed, stranger, starting>>

ChildServes(p) ==
  /\ p <= spawned /\ child[p].life = "booting" /\ ~ PortOpen(child[p].service)
  /\ child' = [child EXCEPT ![p].life = "serving"]
  /\ UNCHANGED <<console, spawned, managed, stranger, starting, owner>>

ChildExits(p) ==
  /\ Alive(p) /\ child' = Killed(p)
  /\ UNCHANGED <<console, spawned, managed, stranger, starting, owner>>

StrangerComes(s) ==
  /\ ~ PortOpen(s) /\ stranger' = stranger \cup {s}
  /\ UNCHANGED <<console, spawned, child, managed, starting, owner>>

StrangerGoes(s) ==
  /\ s \in stranger /\ stranger' = stranger \ {s}
  /\ UNCHANGED <<console, spawned, child, managed, starting, owner>>

ServicesNext ==
  \/ \E s \in Services :
       \/ StartService(s) \/ PortFreed(s) \/ StartRefused(s) \/ StartSucceeds(s)
       \/ StartFails(s) \/ StopService(s) \/ ReadStatus(s)
       \/ StrangerComes(s) \/ StrangerGoes(s)
  \/ ShutDown \/ CrashConsole \/ RestartConsole
  \/ \E p \in Children : ChildServes(p) \/ ChildExits(p)

ServicesSpec == ServicesInit /\ [][ServicesNext]_serviceVars

-----------------------------------------------------------------------------
(* Properties *)

\* Type invariant.
ServicesTypeOK ==
  /\ console \in BOOLEAN /\ spawned \in 0..MaxChildren
  /\ child \in [1..spawned -> Child]
  /\ managed \in [Services -> 1..spawned \cup {NoChild}]
  /\ stranger \subseteq Services /\ owner \subseteq 1..spawned
  /\ starting \in [service : Services \cup {NoService},
                   waits : {"for nothing", "for the port", "for the child"}]

\* A child that runs is in the table of the console that spawned it, under its service,
\* so that stop finds it, and a service has one child at most: no start that fails, no
\* stop, no crash of a child or stranger on its port takes away the entry of one that
\* runs (start, stop, _reap).  It is about the processes the console has spawned.  The
\* workers of a supervisor that stop or a failed start had to kill are not: they go on,
\* hold the port as strangers, and no call of the manager ends them.
ChildIsManaged ==
  \A p \in owner : Alive(p) => managed[child[p].service] = p
=============================================================================
