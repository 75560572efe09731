------------------------------ MODULE Approvals ------------------------------
(***************************************************************************)
(* Decisions people take in the enterprise platform and in the governance  *)
(* service: approvals by vote, tool runs that need one, recommendations.   *)
(* A call is one action: one process, one connection, no await.  A process *)
(* that dies before the row of the audit has committed the rest.           *)
(***************************************************************************)
EXTENDS Integers, FiniteSets

CONSTANTS
  ApprovalIds,  \* one for each idempotency key of a tenant
  Actors,
  Quorums,      \* bound: approvals_required
  ApprovalEnds, \* bound: expires_at
  ToolRuns,     \* one for each idempotency key
  Advice,       \* recommendations
  AskClockMax,  \* bound: the last instant
  NoApproval

ApprovalRow == [requester : Actors, required : Quorums, expires : ApprovalEnds,
                state : {"pending", "approved", "rejected", "expired"}]

ASSUME ApprovalAssumption ==
  /\ Quorums \subseteq Nat \ {0} /\ ApprovalEnds \subseteq Nat /\ AskClockMax \in Nat
  /\ NoApproval \notin ApprovalRow

VARIABLES
  askClock,
  approval,   \* rows of approval
  votes,      \* rows of approval_vote: who said what
  needsIt,    \* tool_policy: whether the tool asks for an approval
  toolRun,    \* state of the rows of tool_run
  cleared,    \* history: runs that an administrator approved, or that needed no one
  advice,     \* state of the rows of object
  audited     \* rows of audit that say approved, by recommendation

approvalVars == <<askClock, approval, votes, needsIt, toolRun, cleared, advice, audited>>

Vote == [actor : Actors, says : {"approve", "reject"}]

ApprovalsInit ==
  /\ askClock = 0
  /\ approval = [a \in ApprovalIds |-> NoApproval]
  /\ votes = [a \in ApprovalIds |-> {}]
  /\ needsIt = TRUE
  /\ toolRun = [r \in ToolRuns |-> "none"] /\ cleared = {}
  /\ advice = [o \in Advice |-> "none"] /\ audited = {}

CreateApproval(a, requester, required, expires) ==
  /\ approval[a] = NoApproval /\ expires > askClock
  /\ approval' = [approval EXCEPT ![a] = [requester |-> requester, required |-> required,
                                          expires |-> expires, state |-> "pending"]]
  /\ UNCHANGED <<askClock, votes, needsIt, toolRun, cleared, advice, audited>>

\* Mutant: requesters vote on what they asked for.
AnyActor(a, actor) == TRUE

MayVote(a, actor) == actor # approval[a].requester

\* INSERT OR IGNORE: the first word of an actor stands.
Cast(a, actor, says) ==
  IF \E v \in votes[a] : v.actor = actor THEN votes[a]
  ELSE votes[a] \cup {[actor |-> actor, says |-> says]}

For(ballots) == {v \in ballots : v.says = "approve"}

\* decide, in time: a rejection counts even of one who has approved before.
Decide(a, actor, says) ==
  /\ approval[a] # NoApproval /\ approval[a].expires > askClock
  /\ MayVote(a, actor) /\ approval[a].state = "pending"
  /\ LET ballots == Cast(a, actor, says) IN
       /\ votes' = [votes EXCEPT ![a] = ballots]
       /\ approval' = [approval EXCEPT ![a].state =
            IF says = "reject" THEN "rejected"
            ELSE IF Cardinality(For(ballots)) >= approval[a].required THEN "approved"
            ELSE "pending"]
  /\ UNCHANGED <<askClock, needsIt, toolRun, cleared, advice, audited>>

\* decide, too late: by anybody, and whatever had been decided
DecideLate(a) ==
  /\ approval[a] # NoApproval /\ approval[a].expires <= askClock
  /\ approval' = [approval EXCEPT ![a].state = "expired"]
  /\ UNCHANGED <<askClock, votes, needsIt, toolRun, cleared, advice, audited>>

\* define_tool_policy
DefinePolicy(asks) ==
  /\ needsIt' = asks
  /\ UNCHANGED <<askClock, approval, votes, toolRun, cleared, advice, audited>>

RequestTool(r) ==
  /\ toolRun[r] = "none"
  /\ toolRun' = [toolRun EXCEPT ![r] = IF needsIt THEN "awaiting_approval" ELSE "approved"]
  /\ cleared' = IF needsIt THEN cleared ELSE cleared \cup {r}
  /\ UNCHANGED <<askClock, approval, votes, needsIt, advice, audited>>

ApproveTool(r) ==
  /\ toolRun[r] = "awaiting_approval"
  /\ toolRun' = [toolRun EXCEPT ![r] = "approved"]
  /\ cleared' = cleared \cup {r}
  /\ UNCHANGED <<askClock, approval, votes, needsIt, advice, audited>>

CompleteTool(r) ==
  /\ toolRun[r] = "approved"
  /\ toolRun' = [toolRun EXCEPT ![r] = "completed"]
  /\ UNCHANGED <<askClock, approval, votes, needsIt, cleared, advice, audited>>

\* propose; reliability_decision, which commits twice, and may die in between
Propose(o) ==
  /\ advice[o] = "none"
  /\ advice' = [advice EXCEPT ![o] = "proposed"]
  /\ UNCHANGED <<askClock, approval, votes, needsIt, toolRun, cleared, audited>>

DecideReliability(o) ==
  /\ advice[o] = "none"
  /\ advice' = [advice EXCEPT ![o] = "awaiting_approval"]
  /\ UNCHANGED <<askClock, approval, votes, needsIt, toolRun, cleared, audited>>

\* approve: the UPDATE asks for 'proposed', the audit for nothing.
ApproveAdvice(o) ==
  /\ advice' = [advice EXCEPT ![o] = IF @ = "proposed" THEN "approved" ELSE @]
  /\ audited' = audited \cup {o}
  /\ UNCHANGED <<askClock, approval, votes, needsIt, toolRun, cleared>>

\* rollback, from any state
RollBackAdvice(o) ==
  /\ advice[o] # "none"
  /\ advice' = [advice EXCEPT ![o] = "rolled_back"]
  /\ UNCHANGED <<askClock, approval, votes, needsIt, toolRun, cleared, audited>>

AskTick ==
  /\ askClock < AskClockMax /\ askClock' = askClock + 1
  /\ UNCHANGED <<approval, votes, needsIt, toolRun, cleared, advice, audited>>

ApprovalsNext ==
  \/ \E a \in ApprovalIds :
       \/ \E requester \in Actors, q \in Quorums, e \in ApprovalEnds :
            CreateApproval(a, requester, q, e)
       \/ \E actor \in Actors, says \in {"approve", "reject"} : Decide(a, actor, says)
       \/ DecideLate(a)
  \/ \E asks \in BOOLEAN : DefinePolicy(asks)
  \/ \E r \in ToolRuns : RequestTool(r) \/ ApproveTool(r) \/ CompleteTool(r)
  \/ \E o \in Advice :
       Propose(o) \/ DecideReliability(o) \/ ApproveAdvice(o) \/ RollBackAdvice(o)
  \/ AskTick

ApprovalsSpec == ApprovalsInit /\ [][ApprovalsNext]_approvalVars

-----------------------------------------------------------------------------
(* Properties *)

\* Type invariant.
ApprovalsTypeOK ==
  /\ askClock \in Nat /\ needsIt \in BOOLEAN
  /\ approval \in [ApprovalIds -> ApprovalRow \cup {NoApproval}]
  /\ votes \in [ApprovalIds -> SUBSET Vote]
  /\ toolRun \in [ToolRuns -> {"none", "awaiting_approval", "approved", "completed"}]
  /\ cleared \subseteq ToolRuns /\ audited \subseteq Advice
  /\ advice \in [Advice ->
       {"none", "proposed", "awaiting_approval", "approved", "rolled_back"}]

\* What is approved was approved by as many people as it asked for, none of whom had
\* asked for it: no repeated vote, change of mind or vote of the requester counts
\* (decide).  A tool run that is over was approved, or asked for before its tool
\* needed an approval (request_tool, complete_tool).  Calls come whole, in any order.
ApprovedByOthers ==
  /\ \A a \in ApprovalIds :
       approval[a] # NoApproval /\ approval[a].state = "approved" =>
         /\ approval[a].required <=
              Cardinality({x \in Actors : [actor |-> x, says |-> "approve"] \in votes[a]})
         /\ \A v \in votes[a] : v.actor # approval[a].requester
  /\ \A r \in ToolRuns : toolRun[r] = "completed" => r \in cleared
=============================================================================
