--------------------------- MODULE Compatibility ---------------------------
(***************************************************************************)
(* The compatibility lab: a run reads a connection, asks its provider two  *)
(* or seven questions, one after the other, and stores what it made of the *)
(* answers.  The connection may be edited while a run waits, and others    *)
(* may run at the same time.                                               *)
(***************************************************************************)
EXTENDS Naturals

CONSTANTS
  Runs,          \* bound: runs
  Extra,         \* questions but the two of the discovery endpoint
  MaxEdits,      \* bound: edits of the connection
  NoRun

ASSUME CompatibilityAssumption ==
  /\ Extra \in Nat /\ MaxEdits \in Nat

VARIABLES
  edits,      \* the connection, by number of its edits
  checking,   \* by run, what it has heard
  results     \* compatibility_runs, by run

compatVars == <<edits, checking, results>>

CompatInit ==
  /\ edits = 0
  /\ checking = [r \in Runs |-> NoRun] /\ results = [r \in Runs |-> NoRun]

EditConnection ==
  /\ edits < MaxEdits /\ edits' = edits + 1
  /\ UNCHANGED <<checking, results>>

\* The configuration is read once, with the key; some types have the first two only.
BeginCheck(r, questions) ==
  /\ checking[r] = NoRun /\ results[r] = NoRun
  /\ checking' = [checking EXCEPT ![r] =
       [of |-> edits, asked |-> questions, answered |-> 0, passed |-> 0, admitted |-> TRUE]]
  /\ UNCHANGED <<edits, results>>

\* Authentication passes with any answer that is no error; the model discovery is the
\* same request again and passes if it names a model.  The others ask for what comes
\* with one model, the first of the answer, or of the store, or a made-up one.  One
\* that fails is not the end of the run.
ProbeAnswers(r, passes) ==
  /\ checking[r] # NoRun /\ checking[r].answered < checking[r].asked
  /\ checking' = [checking EXCEPT
       ![r].answered = @ + 1,
       ![r].passed = IF passes THEN @ + 1 ELSE @,
       ![r].admitted = IF checking[r].answered = 0 THEN passes ELSE @]
  /\ UNCHANGED <<edits, results>>

\* An answer of another shape than a list of models raises what the run does not catch;
\* and the process may die.  Nothing is stored.
CheckLost(r) ==
  /\ checking[r] # NoRun /\ checking[r].answered < checking[r].asked
  /\ checking' = [checking EXCEPT ![r] = NoRun]
  /\ UNCHANGED <<edits, results>>

\* round(): a half goes to the even neighbour.
Percent(part, whole) ==
  LET floor == (part * 100) \div whole
      rest == (part * 100) % whole
  IN IF 2 * rest > whole \/ (2 * rest = whole /\ floor % 2 = 1) THEN floor + 1 ELSE floor

Scored(c) ==
  [of |-> c.of, score |-> Percent(c.passed, c.asked),
   status |-> CASE c.passed = c.asked -> "ready"
                [] c.passed < c.asked /\ ~c.admitted -> "blocked"
                [] OTHER -> "degraded"]

SaveCheck(r) ==
  /\ checking[r] # NoRun /\ checking[r].answered = checking[r].asked
  /\ results' = [results EXCEPT ![r] = Scored(checking[r])]
  /\ checking' = [checking EXCEPT ![r] = NoRun]
  /\ UNCHANGED edits

\* Probes that somebody has measured elsewhere, one at least, each of another
\* capability; the authentication need not be among them.
ImportCheck(r, asked, passed, admitted) ==
  /\ checking[r] = NoRun /\ results[r] = NoRun
  /\ asked > 0 /\ passed <= asked /\ (~admitted => passed < asked)
  /\ results' = [results EXCEPT ![r] =
       Scored([of |-> edits, asked |-> asked, passed |-> passed, admitted |-> admitted])]
  /\ UNCHANGED <<edits, checking>>

CompatNext ==
  \/ EditConnection
  \/ \E r \in Runs, questions \in {2, 2 + Extra} : BeginCheck(r, questions)
  \/ \E r \in Runs, passes \in BOOLEAN : ProbeAnswers(r, passes)
  \/ \E r \in Runs : CheckLost(r) \/ SaveCheck(r)
  \/ \E r \in Runs, passed \in 0..2, admitted \in BOOLEAN : ImportCheck(r, 2, passed, admitted)

CompatSpec == CompatInit /\ [][CompatNext]_compatVars

-----------------------------------------------------------------------------
(* Properties *)

\* Type invariant: a result is of the connection as it was when the run began or later,
\* and one that is ready has a score of 100.
CompatTypeOK ==
  /\ edits \in 0..MaxEdits
  /\ \A r \in Runs : checking[r] # NoRun => checking[r].passed <= checking[r].answered
  /\ \A r \in Runs : results[r] # NoRun =>
       /\ results[r].of \in 0..edits /\ results[r].score \in 0..100
       /\ results[r].status = "ready" => results[r].score = 100
=============================================================================
