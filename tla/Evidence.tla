------------------------------ MODULE Evidence ------------------------------
(***************************************************************************)
(* Incidents of the console.  The incident of a request is built when      *)
(* somebody asks for it: four events, each committed alone, every time he  *)
(* asks.  Others append events of any time.                                *)
(***************************************************************************)
EXTENDS Integers, Sequences, FiniteSets

CONSTANTS
  Incidents,       \* requests with a row in pc_activity
  FailedRequests,  \* those it says have failed
  Costly,          \* those above a dollar
  MaxEvents,       \* bound: rows of incident_evidence
  AddedEvents,     \* bound: what others add to an incident
  MaxAdded,        \* bound: how often
  NoExplanation

ASSUME EvidenceAssumption ==
  /\ FailedRequests \subseteq Incidents /\ Costly \subseteq Incidents
  /\ MaxEvents \in Nat /\ MaxAdded \in Nat
  /\ \A e \in AddedEvents : e.at \in Nat

VARIABLES
  evidence,   \* incident_evidence, by event_id
  building,   \* what is left to append of the incident the console builds
  explained,  \* history: by incident, what the console said when it had first built it
  saidLast,   \* by incident, what the console has said of it last
  foreign     \* history: incidents that somebody has added to

evidenceVars ==
  <<evidence, building, explained, saidLast, foreign>>

EvidenceInit ==
  /\ evidence = <<>> /\ building = <<>>
  /\ explained = [i \in Incidents |-> NoExplanation]
  /\ saidLast = [i \in Incidents |-> NoExplanation]
  /\ foreign = {}

-----------------------------------------------------------------------------
(* Incidents *)

\* summary stands for the text, about for what _fix reads out of kind and text.
Event(i, at, about, outcome, severity, summary) ==
  [incident |-> i, at |-> at, about |-> about, outcome |-> outcome, severity |-> severity,
   summary |-> summary]

FourEvents(i) ==
  LET weight == IF i \in FailedRequests THEN "critical" ELSE "info"
      result == IF i \in FailedRequests THEN "failed" ELSE "completed"
  IN <<Event(i, 0, "request", result, weight, "reason"),
       Event(i, 1, "route", "selected", "info", "selection"),
       Event(i, 2, "provider", result, weight, "reason"),
       Event(i, 3, "cost", "recorded", IF i \in Costly THEN "warning" ELSE "info", "cost")>>

\* Mutant: in the order they came.
AsTheyCame(rows, j, k) == j < k

\* ORDER BY timestamp, event_id.  rows: incident_evidence
InTime(rows, j, k) ==
  rows[j].at < rows[k].at \/ (rows[j].at = rows[k].at /\ j < k)

\* The events of an incident, by event_id; the first and the last of some in time
Timeline(rows, i) == {k \in 1..Len(rows) : rows[k].incident = i}
FirstOf(rows, events) == CHOOSE k \in events : \A j \in events \ {k} : InTime(rows, k, j)
LastOf(rows, events) == CHOOSE k \in events : \A j \in events \ {k} : InTime(rows, j, k)

\* The first of these words that is anywhere in the timeline.
Fix(rows, events) ==
  LET has(word) == \E k \in events : rows[k].about = word
  IN IF has("rate") THEN "limits"
     ELSE IF has("cost") THEN "budget"
     ELSE IF has("auth") THEN "credential"
     ELSE IF has("timeout") THEN "health" ELSE "inspect"

\* The first critical event, or the last of all.
Impact(rows, events) ==
  LET critical == {k \in events : rows[k].severity = "critical"}
  IN IF critical = {} THEN rows[LastOf(rows, events)].summary
     ELSE rows[FirstOf(rows, critical)].summary

Explanation(rows, events) ==
  [status |-> IF \E k \in events : rows[k].outcome = "recovered"
              THEN "recovered" ELSE "active",
   impact |-> Impact(rows, events), fix |-> Fix(rows, events)]

Explain(i, rows) == saidLast' = [saidLast EXCEPT ![i] = Explanation(rows, Timeline(rows, i))]

\* GET /v1/console/incidents/from-request/{request_id}
AskFromRequest(i) ==
  /\ building = <<>> /\ Len(evidence) + 4 <= MaxEvents
  /\ building' = FourEvents(i)
  /\ UNCHANGED <<evidence, explained, saidLast, foreign>>

\* The last append is followed by the explanation.
BuildNext ==
  /\ building # <<>>
  /\ evidence' = Append(evidence, Head(building))
  /\ building' = Tail(building)
  /\ LET i == Head(building).incident IN
       IF building' # <<>> THEN UNCHANGED <<explained, saidLast>>
       ELSE /\ Explain(i, evidence')
            /\ explained' = IF explained[i] = NoExplanation
                            THEN [explained EXCEPT ![i] = saidLast'[i]] ELSE explained
  /\ UNCHANGED foreign

\* GET /v1/console/incidents/{incident_id}
AskIncident(i) ==
  /\ building = <<>> /\ Timeline(evidence, i) # {}
  /\ Explain(i, evidence)
  /\ UNCHANGED <<evidence, building, explained, foreign>>

\* POST /v1/console/incidents/events
AddEvent(i, e) ==
  /\ building = <<>> /\ Len(evidence) < MaxEvents
  /\ Cardinality({k \in 1..Len(evidence) : evidence[k].summary = "other"}) < MaxAdded
  /\ evidence' = Append(evidence, Event(i, e.at, e.about, e.outcome, e.severity, "other"))
  /\ foreign' = foreign \cup {i}
  /\ UNCHANGED <<building, explained, saidLast>>

\* What is appended stays.
ConsoleStops ==
  /\ building' = <<>>
  /\ UNCHANGED <<evidence, explained, saidLast, foreign>>

EvidenceNext ==
  \/ \E i \in Incidents : AskFromRequest(i) \/ AskIncident(i)
  \/ \E i \in Incidents, e \in AddedEvents : AddEvent(i, e)
  \/ BuildNext \/ ConsoleStops

EvidenceSpec == EvidenceInit /\ [][EvidenceNext]_evidenceVars

-----------------------------------------------------------------------------
(* Properties *)

Explanations ==
  [status : {"recovered", "active"},
   impact : {"reason", "selection", "cost", "other"},
   fix : {"limits", "budget", "credential", "health", "inspect"}]

\* Type invariant.
EvidenceTypeOK ==
  /\ Len(evidence) <= MaxEvents /\ Len(building) <= 4
  /\ explained \in [Incidents -> Explanations \cup {NoExplanation}]
  /\ saidLast \in [Incidents -> Explanations \cup {NoExplanation}]
  /\ foreign \subseteq Incidents

\* Asking again for the incident of a request, which writes its four events again, a
\* death of the console in the middle of them, and the explanation of what is there
\* then, do not change what is said of it, unless somebody adds an event
\* (incident_from_request, IncidentTimelineStore.explain).
ExplainedAlike ==
  \A i \in Incidents :
    explained[i] # NoExplanation /\ i \notin foreign => saidLast[i] = explained[i]
=============================================================================
