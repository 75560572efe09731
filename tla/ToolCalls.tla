----------------------------- MODULE ToolCalls -----------------------------
(***************************************************************************)
(* MCP governance: a tool call passes the gate (MCPPolicyEngine.before_call*)
(* up to its first await), the look-up of the hosts in its arguments, the  *)
(* tool ceilings one ledger query at a time; then its driver runs the tool *)
(* and reports the outcome (after_call).  Between these steps other calls  *)
(* take theirs, and administrators change servers, policies, ceilings and  *)
(* approvals.  All stores share one SQLite connection, used on the event   *)
(* loop only; the ledger is a database of its own.                         *)
(***************************************************************************)
EXTENDS Integers, Sequences, NatSums

CONSTANTS
  N,            \* tool-call attempts, 1..N
  Call,         \* [caller, scopes, server, tool, args] of an attempt
  NotMapping,   \* attempts whose arguments are no JSON object
  OffSchema,    \* attempts whose arguments fail the input_schema
  Servers,
  Inventory,    \* <<server, tool>> pairs a registration brings
  Disabled,     \* those registered with enabled = false
  PolicySlots,  \* the [scope, server, tool] policies are made for
  Offers,       \* bound: the <<slot, effect>> pairs that are made
  DefaultEffect,
  BudgetSlots,  \* bound: the [scope, server, tool] ceilings are set for
  Ceilings,     \* bound: [limit, window] a ceiling is set to
  Costs,        \* bound: costs a driver reports
  TTL,          \* ttl_seconds of the ApprovalGate
  Wild,         \* None, as a server or tool selector
  NoPolicy, NoCeiling, NoApproval, NoRow,
  MaxClock      \* bound: the last instant of the clock

Attempts == 1..N
Kinds == {"user", "team", "project", "global"}
Effects == {"deny", "approval", "allow"}
Rows == [decision : {"denied", "approval_required", "allowed", "approved"},
         status : {"blocked", "completed", "failed"}, cost : Costs \cup {0},
         at : 0..MaxClock]

ASSUME CallAssumption ==
  /\ N \in Nat
  /\ \A a \in Attempts : Call[a].scopes \in Seq([kind : Kinds, key : STRING])
ASSUME SlotAssumption ==
  /\ \A p \in PolicySlots \cup BudgetSlots : p.scope.kind \in Kinds
  /\ DefaultEffect \in Effects
  /\ Ceilings \subseteq [limit : Nat, window : Nat]
  /\ Costs \subseteq Nat
  /\ TTL \in Nat /\ MaxClock \in Nat
ASSUME NullAssumption ==
  /\ NoPolicy \notin Effects
  /\ NoCeiling \notin Ceilings
  /\ NoApproval \notin Attempts
  /\ NoRow \notin Rows

VARIABLES
  clock,
  server,    \* status of a server
  open,      \* whether the connection is inside an implicit transaction
  policy,    \* effect of the policy of a slot
  ceiling,   \* hard limit and window of a slot
  approval,  \* approval request an attempt made, and when
  stage,     \* where an attempt is
  via,       \* the approval it consumed
  todo,      \* ceilings it has yet to be held against
  audit,     \* its audit row
  ledger,    \* attempts whose cost is in the ledger
  barred     \* history: ceilings used up when it arrived, and ever since

admin == <<server, policy, ceiling>>
vars == <<clock, server, open, policy, ceiling, approval, stage, via, todo,
          audit, ledger, barred>>

InScopes(s, a) == \E i \in 1..Len(Call[a].scopes) : Call[a].scopes[i] = s
ToolOf(a) == <<Call[a].server, Call[a].tool>>

-----------------------------------------------------------------------------
(* Policy resolution: PolicyEvaluator.decide *)

ScopeRank(p) ==
  CASE p.scope.kind = "user" -> 3
    [] p.scope.kind = "team" -> 2
    [] p.scope.kind = "project" -> 1
    [] p.scope.kind = "global" -> 0

ToolRank(p) ==
  IF p.server = Wild THEN 1 ELSE IF p.tool = Wild THEN 2 ELSE 3

\* Mutant: the scope does not outweigh the selector.
ScoreFlat(p) == ScopeRank(p) + ToolRank(p)

Score(p) == ScopeRank(p) * 10 + ToolRank(p)

Precedence(e) ==
  CASE e = "deny" -> 0 [] e = "approval" -> 1 [] e = "allow" -> 2

Candidates(a) ==
  {p \in PolicySlots :
     /\ policy[p] # NoPolicy
     /\ p.scope.kind = "global" \/ InScopes(p.scope, a)
     /\ p.server \in {Wild, Call[a].server}
     /\ p.tool \in {Wild, Call[a].tool}}

Winners(a) ==
  {p \in Candidates(a) : \A q \in Candidates(a) : Score(q) <= Score(p)}

Decision(a) ==
  IF Candidates(a) = {} THEN DefaultEffect
  ELSE CHOOSE e \in {policy[p] : p \in Winners(a)} :
         \A p \in Winners(a) : Precedence(e) <= Precedence(policy[p])

-----------------------------------------------------------------------------
(* Ceilings: ToolBudgetService over the shared ledger *)

\* record_usage writes the first scope of a call into the row, and no other.
Charged(a, s) ==
  \/ s.kind = "global"
  \/ Call[a].scopes # <<>> /\ Call[a].scopes[1] = s

\* spend_since, for the tool of the attempt a
Spend(a, s, since) ==
  Sum([i \in Attempts |->
         IF /\ i \in ledger /\ Charged(i, s)
            /\ ToolOf(i) = ToolOf(a) /\ audit[i].at >= since
         THEN audit[i].cost ELSE 0], N)

\* _scope_matched_budgets: by scope alone; a global ceiling is paired with the
\* first scope of the caller.
Matched(a) ==
  {b \in BudgetSlots :
     /\ ceiling[b] # NoCeiling
     /\ Call[a].scopes # <<>>
     /\ b.scope.kind = "global" \/ InScopes(b.scope, a)}

SeenAs(b, a) == IF b.scope.kind = "global" THEN Call[a].scopes[1] ELSE b.scope

\* The snapshot check() takes before its first query.
Checks(a) ==
  {[slot |-> b, limit |-> ceiling[b].limit, scope |-> SeenAs(b, a),
    since |-> clock - ceiling[b].window] : b \in Matched(a)}

\* Mutant: a spend equal to the limit passes.
ReachedPast(a, c) == Spend(a, c.scope, c.since) > c.limit

Reached(a, c) == Spend(a, c.scope, c.since) >= c.limit

\* History: the ceilings that hold the tool's spend for the caller at this moment.
UsedUp(a) ==
  {b \in Matched(a) :
     Spend(a, SeenAs(b, a), clock - ceiling[b].window) >= ceiling[b].limit}

-----------------------------------------------------------------------------
(* Approvals: ApprovalGate over ApprovalStore *)

\* The key an approval is looked up by: caller, server, tool and args_hash.
SameCall(r, a) ==
  /\ Call[r].caller = Call[a].caller /\ Call[r].args = Call[a].args
  /\ ToolOf(r) = ToolOf(a)

Usable(a) ==
  {r \in Attempts : /\ SameCall(r, a)
                    /\ approval[r].status = "approved"
                    /\ clock <= approval[r].asked + TTL}

\* Most recent first; among those of one second the random id decides.
Newest(S) == {r \in S : \A q \in S : approval[q].asked <= approval[r].asked}

\* approve, reject: only a pending request, whatever its age
Answer(r, verdict) ==
  /\ approval[r].status = "pending"
  /\ approval' = [approval EXCEPT ![r].status = verdict]
  /\ open' = FALSE
  /\ UNCHANGED <<clock, admin, stage, via, todo, audit, ledger, barred>>

ExpireStale ==
  /\ approval' = [r \in Attempts |->
       IF approval[r].status = "pending" /\ approval[r].asked + TTL < clock
       THEN [approval[r] EXCEPT !.status = "expired"] ELSE approval[r]]
  /\ open' = FALSE
  /\ UNCHANGED <<clock, admin, stage, via, todo, audit, ledger, barred>>

-----------------------------------------------------------------------------
(* before_call *)

Init ==
  /\ clock = 0
  /\ server = [s \in Servers |-> "absent"]
  /\ open = FALSE
  /\ policy = [p \in PolicySlots |-> NoPolicy]
  /\ ceiling = [b \in BudgetSlots |-> NoCeiling]
  /\ approval = [a \in Attempts |-> [status |-> "none", asked |-> 0]]
  /\ stage = [a \in Attempts |-> "new"]
  /\ via = [a \in Attempts |-> NoApproval]
  /\ todo = [a \in Attempts |-> {}]
  /\ audit = [a \in Attempts |-> NoRow]
  /\ ledger = {}
  /\ barred = [a \in Attempts |-> {}]

Row(decision, status, cost) ==
  [decision |-> decision, status |-> status, cost |-> cost, at |-> clock]

\* AuditStore.append commits, and with it whatever transaction was open.
WriteRow(a, row) == audit' = [audit EXCEPT ![a] = row] /\ open' = FALSE

Goes(a, s) == stage' = [stage EXCEPT ![a] = s]

Retired(a) == server[Call[a].server] = "retired"
Known(a) == server[Call[a].server] = "active" /\ ToolOf(a) \in Inventory
Shut(a) == Retired(a) \/ (Known(a) /\ ToolOf(a) \in Disabled)
Admitted(a) ==
  Known(a) /\ ToolOf(a) \notin Disabled /\ a \notin NotMapping \cup OffSchema

\* Attempts are numbered in the order in which they arrive.
Arrives(a) ==
  stage[a] = "new" /\ \A b \in Attempts : b < a => stage[b] # "new"

\* 404 and 422 are raised without an audit row.
Bounce(a) ==
  /\ Arrives(a)
  /\ a \in NotMapping \/ ~(Shut(a) \/ Admitted(a))
  /\ Goes(a, "over")
  /\ UNCHANGED <<clock, admin, open, approval, via, todo, audit, ledger, barred>>

Deny(a) ==
  /\ Arrives(a)
  /\ \/ Shut(a) /\ a \notin NotMapping
     \/ Admitted(a) /\ Decision(a) = "deny"
  /\ Goes(a, "over")
  /\ WriteRow(a, Row("denied", "blocked", 0))
  /\ UNCHANGED <<clock, admin, approval, via, todo, ledger, barred>>

\* Past the gate: to the look-up of the hosts, the first await.
Enter(a) ==
  /\ Goes(a, "screening")
  /\ barred' = [barred EXCEPT ![a] = UsedUp(a)]
  /\ UNCHANGED <<clock, admin, todo, audit, ledger>>

Allow(a) ==
  /\ Arrives(a) /\ Admitted(a) /\ Decision(a) = "allow"
  /\ Enter(a)
  /\ UNCHANGED <<open, approval, via>>

NeedsApproval(a) ==
  Arrives(a) /\ Admitted(a) /\ Decision(a) = "approval"

\* Mutant: the approval is found but not marked.
ConsumeForgets(a) ==
  /\ NeedsApproval(a) /\ ~open
  /\ \E r \in Newest(Usable(a)) : via' = [via EXCEPT ![a] = r]
  /\ Enter(a)
  /\ UNCHANGED <<open, approval>>

\* consume_approved: found and consumed in one transaction
Consume(a) ==
  /\ NeedsApproval(a) /\ ~open
  /\ \E r \in Newest(Usable(a)) :
       /\ approval' = [approval EXCEPT ![r].status = "consumed"]
       /\ via' = [via EXCEPT ![a] = r]
  /\ Enter(a)
  /\ UNCHANGED open

\* Nothing to consume: a new request, whether or not one is pending.
Ask(a) ==
  /\ NeedsApproval(a) /\ ~open
  /\ Usable(a) = {} /\ Candidates(a) # {}
  /\ approval' = [approval EXCEPT ![a] = [status |-> "pending", asked |-> clock]]
  /\ Goes(a, "over")
  /\ WriteRow(a, Row("approval_required", "blocked", 0))
  /\ UNCHANGED <<clock, admin, via, todo, ledger, barred>>

\* get_policy(None), when approval is the default effect: PolicyNotFoundError
AskWithoutPolicy(a) ==
  /\ NeedsApproval(a) /\ ~open
  /\ Usable(a) = {} /\ Candidates(a) = {}
  /\ Goes(a, "over")
  /\ UNCHANGED <<clock, admin, open, approval, via, todo, audit, ledger, barred>>

\* BEGIN IMMEDIATE inside an open transaction: OperationalError, rolled back
Locked(a) ==
  /\ NeedsApproval(a) /\ open
  /\ Goes(a, "over")
  /\ open' = FALSE
  /\ UNCHANGED <<clock, admin, approval, via, todo, audit, ledger, barred>>

Block(a) ==
  /\ Goes(a, "over")
  /\ WriteRow(a, Row("denied", "blocked", 0))
  /\ todo' = [todo EXCEPT ![a] = {}]
  /\ barred' = [barred EXCEPT ![a] = {}]
  /\ UNCHANGED <<clock, admin, approval, via, ledger>>

ScreenBlocks(a) == stage[a] = "screening" /\ Block(a)

\* With nothing left to be held against, before_call returns.
Proceed(a, checks) ==
  /\ todo' = [todo EXCEPT ![a] = checks]
  /\ Goes(a, IF checks = {} THEN "running" ELSE "checking")
  /\ UNCHANGED <<clock, admin, open, approval, via, audit, ledger, barred>>

Screen(a) == stage[a] = "screening" /\ Proceed(a, Checks(a))

CheckCeiling(a) ==
  /\ stage[a] = "checking"
  /\ \E c \in todo[a] :
       IF Reached(a, c) THEN Block(a) ELSE Proceed(a, todo[a] \ {c})

-----------------------------------------------------------------------------
(* after_call *)

\* Mutant: what a failed call cost is recorded too.
FinishRecordsAll(a, status, cost) ==
  /\ stage[a] = "running"
  /\ Goes(a, "recording")
  /\ WriteRow(a, Row("allowed", status, cost))
  /\ UNCHANGED <<clock, admin, approval, via, todo, ledger, barred>>

Finish(a, status, cost) ==
  /\ stage[a] = "running"
  /\ Goes(a, IF status = "completed" THEN "recording" ELSE "over")
  /\ WriteRow(a, Row(IF via[a] = NoApproval THEN "allowed" ELSE "approved",
                   status, cost))
  /\ UNCHANGED <<clock, admin, approval, via, todo, ledger, barred>>

Record(a) ==
  /\ stage[a] = "recording"
  /\ ledger' = ledger \cup {a}
  /\ Goes(a, "over")
  /\ UNCHANGED <<clock, admin, open, approval, via, todo, audit, barred>>

RecordFails(a) ==
  /\ stage[a] = "recording"
  /\ Goes(a, "over")
  /\ UNCHANGED <<clock, admin, open, approval, via, todo, audit, ledger, barred>>

\* The driver's task is cancelled at an await, or its tool never returns.
Cancel(a) ==
  /\ stage[a] \in {"screening", "checking", "running", "recording"}
  /\ Goes(a, IF stage[a] = "recording" THEN "late" ELSE "over")
  /\ todo' = [todo EXCEPT ![a] = {}]
  /\ barred' = [barred EXCEPT ![a] = {}]
  /\ UNCHANGED <<clock, admin, open, approval, via, audit, ledger>>

\* The thread that inserts the row outlives its awaiter, if it got to start.
RecordLate(a) ==
  /\ stage[a] = "late"
  /\ \E done \in {{}, {a}} : ledger' = ledger \cup done
  /\ Goes(a, "over")
  /\ UNCHANGED <<clock, admin, open, approval, via, todo, audit, barred>>

-----------------------------------------------------------------------------
(* Administration *)

idle == <<clock, approval, stage, via, todo, audit, ledger>>

Register(s) ==
  /\ server[s] = "absent"
  /\ server' = [server EXCEPT ![s] = "active"]
  /\ open' = FALSE
  /\ UNCHANGED <<idle, policy, ceiling, barred>>

\* The IntegrityError leaves the transaction of the INSERT open.
RegisterAgain(s) ==
  /\ server[s] # "absent"
  /\ open' = TRUE
  /\ UNCHANGED <<idle, admin, barred>>

Retire(s) ==
  /\ server[s] # "absent"
  /\ server' = [server EXCEPT ![s] = "retired"]
  /\ open' = FALSE
  /\ UNCHANGED <<idle, policy, ceiling, barred>>

CreatePolicy(p, e) ==
  /\ <<p, e>> \in Offers /\ policy[p] = NoPolicy
  /\ policy' = [policy EXCEPT ![p] = e]
  /\ open' = FALSE
  /\ UNCHANGED <<idle, server, ceiling, barred>>

DeletePolicy(p) ==
  /\ policy' = [policy EXCEPT ![p] = NoPolicy]
  /\ open' = FALSE
  /\ UNCHANGED <<idle, server, ceiling, barred>>

CreateCeiling(b, c) ==
  /\ ceiling[b] = NoCeiling
  /\ ceiling' = [ceiling EXCEPT ![b] = c]
  /\ open' = FALSE
  /\ UNCHANGED <<idle, server, policy, barred>>

DeleteCeiling(b) ==
  /\ ceiling' = [ceiling EXCEPT ![b] = NoCeiling]
  /\ barred' = [a \in Attempts |-> barred[a] \ {b}]
  /\ open' = FALSE
  /\ UNCHANGED <<idle, server, policy>>

\* barred forgets what the window has moved past.
Tick ==
  /\ clock < MaxClock
  /\ clock' = clock + 1
  /\ UNCHANGED <<admin, open, approval, stage, via, todo, audit, ledger>>
  /\ barred' = [a \in Attempts |-> barred[a] \cap UsedUp(a)']

AllOver ==
  /\ \A a \in Attempts : stage[a] = "over"
  /\ UNCHANGED vars

Next ==
  \/ \E a \in Attempts :
       \/ Bounce(a) \/ Deny(a) \/ Allow(a) \/ Consume(a) \/ Ask(a)
       \/ AskWithoutPolicy(a) \/ Locked(a)
       \/ ScreenBlocks(a) \/ Screen(a) \/ CheckCeiling(a)
       \/ \E status \in {"completed", "failed"}, cost \in Costs :
            Finish(a, status, cost)
       \/ Record(a) \/ RecordFails(a) \/ Cancel(a) \/ RecordLate(a)
       \/ \E verdict \in {"approved", "rejected"} : Answer(a, verdict)
  \/ ExpireStale
  \/ \E s \in Servers : Register(s) \/ RegisterAgain(s) \/ Retire(s)
  \/ \E p \in PolicySlots :
       DeletePolicy(p) \/ \E e \in Effects : CreatePolicy(p, e)
  \/ \E b \in BudgetSlots :
       DeleteCeiling(b) \/ \E c \in Ceilings : CreateCeiling(b, c)
  \/ Tick
  \/ AllOver

Spec == Init /\ [][Next]_vars

-----------------------------------------------------------------------------
(* Properties *)

Stages == {"new", "screening", "checking", "running", "recording",
           "late", "over"}
Answers == {"none", "pending", "approved", "rejected", "consumed", "expired"}
Checklist == [slot : BudgetSlots, limit : Nat,
              scope : [kind : Kinds, key : STRING], since : Int]

\* The shape of the state, and that a row of the ledger is the cost of a call
\* whose audit row says completed (after_call appends it first).
TypeOK ==
  /\ clock \in 0..MaxClock
  /\ server \in [Servers -> {"absent", "active", "retired"}]
  /\ open \in BOOLEAN
  /\ policy \in [PolicySlots -> Effects \cup {NoPolicy}]
  /\ ceiling \in [BudgetSlots -> Ceilings \cup {NoCeiling}]
  /\ approval \in [Attempts -> [status : Answers, asked : 0..MaxClock]]
  /\ stage \in [Attempts -> Stages]
  /\ via \in [Attempts -> Attempts \cup {NoApproval}]
  /\ todo \in [Attempts -> SUBSET Checklist]
  /\ audit \in [Attempts -> Rows \cup {NoRow}]
  /\ ledger \in SUBSET {a \in Attempts :
                        audit[a] # NoRow /\ audit[a].status = "completed"}
  /\ barred \in [Attempts -> SUBSET BudgetSlots]

\* Every cost in the ledger is that of a call whose audit row says completed, through
\* failed inserts, cancellations and late reports between the two databases
\* (GovernanceEngine.record, ToolBudgetService.record_usage).  The reverse does not
\* hold: a completed call may have cost nothing that a ceiling counts.
CostsWereCompleted ==
  \A a \in ledger : audit[a] # NoRow /\ audit[a].status = "completed"

\* An approval lets one call in, once, the call it was asked for, after it was
\* approved and before it expires (consume_approved and its callers).
Permit == INSTANCE OneTimePermit WITH
  Calls <- Attempts, Alike <- [r \in Attempts |-> {a \in Attempts : SameCall(r, a)}],
  Life <- TTL, NoPermit <- NoApproval, permit <- approval
OneTime == Permit!Spec

\* More specific: by the scope first, then by the selector.
Above(p, q) ==
  \/ ScopeRank(p) > ScopeRank(q)
  \/ ScopeRank(p) = ScopeRank(q) /\ ToolRank(p) > ToolRank(q)

\* A call gets past the gate only if every policy that denies it is overruled by
\* a more specific one that does not, and without an approval only if every
\* policy that asks for one is overruled by a more specific one that allows it
\* (PolicyEvaluator.decide and the branches of before_call on its effect).
PolicyHonoured ==
  [][\A a \in Attempts : stage[a] = "new" /\ stage'[a] = "screening" =>
       \A p \in Candidates(a) :
         /\ policy[p] = "deny" =>
              \E q \in Candidates(a) : policy[q] # "deny" /\ Above(q, p)
         /\ policy[p] = "approval" /\ via'[a] = NoApproval =>
              \E q \in Candidates(a) : policy[q] = "allow" /\ Above(q, p)]_vars

\* A ceiling that was used up when a call arrived, and has been since, is not
\* passed: the call does not run, however long the look-up of its hosts and its
\* queries take, and whoever records meanwhile (ToolBudgetService.check).
NoStartAtCeiling == \A a \in Attempts : stage[a] = "running" => barred[a] = {}
=============================================================================
