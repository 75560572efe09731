----------------------------- MODULE RouteChain -----------------------------
(***************************************************************************)
(* A managed route: the walk of a request over its candidate models        *)
(* (_run_candidate_chain), the retries of a candidate (_retry_on_timeout,  *)
(* _retry_transient), the cooldown table all requests of the route share   *)
(* (CostStore.set_model_cooldown, model_in_cooldown, record_success), the  *)
(* session a conversation is bound by, and the death of a live stream.     *)
(*                                                                         *)
(* A request awaits only while a provider is called or a retry is put off; *)
(* what it does from one answer to the next call is one action.            *)
(***************************************************************************)
EXTENDS Integers, Sequences

CONSTANTS
  Requests,      \* requests to the route
  Models,        \* models its targets name
  Chain,         \* the candidates of a request, best first
  Streaming,     \* requests with "stream": true
  Sessions,      \* conversations
  Session,       \* the conversation of a request
  Errors,        \* bound: kinds of error answers, out of Kinds
  Fallback,      \* kinds of answer in the route's fallback_statuses
  Retries,       \* retries of a target
  Base,          \* its cooldown in seconds
  Dynamic,       \* whether that cooldown may be shortened and may climb
  Ladder,        \* cooldown_ladder
  LadderOn,      \* cooldown_dynamic
  ShortPark,     \* _TIMEOUT_COOLDOWN_SECONDS, and the 60 of _cooldown_decision
  ModelPark,     \* _MODEL_LEVEL_COOLDOWN_SECONDS
  TerminalPark,  \* TERMINAL_COOLDOWN_SECONDS
  StickyTTL,     \* _STICKY_TTL_SECONDS
  NoModel,       \* None
  MaxClock       \* bound: the last instant of the clock

\* Error answers by what _cooldown_decision tells apart: 400 with a context-length
\* body, other statuses that blame the request, 429, 502-504, other 5xx, a body
\* that says the model is gone, 401/403/404 without one, any other status.
Kinds == {"context", "request", "limited", "overload", "broken", "gone",
          "entitlement", "other"}
Answers == {"ok"} \cup Errors

\* "transport" is an exception without a status; a timeout and the death of a
\* stream have a rule of their own.
Failures == Errors \cup {"transport"}
Reasons == Failures \cup {"timeout", "mid_stream"}

ASSUME ChainAssumption ==
  \A r \in Requests : Chain[r] \in Seq(Models) /\ Len(Chain[r]) >= 1
ASSUME RouteAssumption ==
  /\ Streaming \subseteq Requests
  /\ Session \in [Requests -> Sessions]
  /\ Errors \subseteq Kinds
  /\ Fallback \subseteq Errors
  /\ Retries \in [Models -> Nat]
  /\ Base \in [Models -> Nat]
  /\ Dynamic \in [Models -> BOOLEAN]
  /\ LadderOn \in BOOLEAN
  /\ NoModel \notin Models
ASSUME TimeAssumption ==
  /\ Ladder \in Seq(Nat) /\ Len(Ladder) >= 1
  /\ {ShortPark, ModelPark, TerminalPark, StickyTTL, MaxClock} \subseteq Nat

VARIABLES
  clock,    \* int(time.time())
  table,    \* model_cooldowns of the route; until = 0 stands for no row
  sticky,   \* _sticky_sessions: the model of a conversation
  bound,    \* and when it was bound
  stage,    \* where a request is
  list,     \* its candidates
  at,       \* the index of the one at hand
  tries,    \* retries of that one so far
  kept,     \* the answer a retry loop holds, or "none"
  result,   \* what the client gets; "error" is the proxy's own 502
  server,   \* the model that served it
  seen      \* history: the kinds of failure a model was held to account for

vars == <<clock, table, sticky, bound, stage, list, at, tries, kept, result,
          server, seen>>

NoRow == [until |-> 0, strikes |-> 0, reason |-> "none"]

Stages == {"idle", "ready", "calling", "timed", "blip", "streaming", "done"}

Lesser(a, b) == IF a <= b THEN a ELSE b
Greater(a, b) == IF a >= b THEN a ELSE b
-----------------------------------------------------------------------------
(***************************************************************************)
(* The cooldown table.                                                     *)
(***************************************************************************)
Cooling(t, m) == t[m].until > clock

\* set_model_cooldown(route, m, seconds, reason, count_strike) on table t.  A
\* strike climbs the ladder, and where there are strikes the ladder is a floor.
Park(t, m, seconds, reason, strike) ==
  LET n == IF LadderOn THEN t[m].strikes + (IF strike THEN 1 ELSE 0) ELSE 0
      rung == IF n = 0 THEN 1 ELSE Ladder[Lesser(n, Len(Ladder))]
  IN  [t EXCEPT ![m] = [until |-> clock + Greater(1, Greater(seconds, rung)),
                        strikes |-> n, reason |-> reason]]

\* record_success and clear_cooldown delete the row.
Reset(t, m) == [t EXCEPT ![m] = NoRow]

\* model_in_cooldown, asked of each of ms, deletes the rows that are over.
Lookup(t, ms) ==
  [m \in Models |-> IF m \in ms /\ ~Cooling(t, m) THEN NoRow ELSE t[m]]

\* Seconds and strike for each kind of failure (_cooldown_decision).
Seconds(m, failure) ==
  CASE failure = "gone" -> TerminalPark
    [] failure = "entitlement" -> Lesser(Base[m], ModelPark)
    [] failure \in {"limited", "overload"} -> Lesser(Base[m], ShortPark)
    [] failure = "broken" /\ Dynamic[m] -> Lesser(Base[m], ShortPark)
    [] OTHER -> Base[m]

Strikes(m, failure) == failure \in {"broken", "other", "transport"} /\ Dynamic[m]

\* Mutant: statuses that blame the request park the model as well.
BlamesAll(t, m, failure) == Park(t, m, Seconds(m, failure), failure, Strikes(m, failure))

\* Statuses that blame the request leave the model alone.
Blame(t, m, failure) ==
  IF failure \in {"context", "request"} THEN t
  ELSE Park(t, m, Seconds(m, failure), failure, Strikes(m, failure))

\* Mutant: a stall costs the whole cooldown of the target.
StallsLong(t, m, reason) == Park(t, m, Base[m], reason, Dynamic[m])

\* A timeout and a stream that dies are no verdict on the model.
Stall(t, m, reason) ==
  Park(t, m, IF Dynamic[m] THEN Lesser(Base[m], ShortPark) ELSE Base[m], reason, FALSE)

Account(m, failure) ==
  seen' = IF failure \in {"context", "request"} THEN seen
          ELSE [seen EXCEPT ![m] = @ \cup {failure}]
-----------------------------------------------------------------------------
(***************************************************************************)
(* The walk.                                                               *)
(***************************************************************************)
Candidate(r) == list[r][at[r]]
IsLast(r) == at[r] = Len(list[r])

\* Mutant: the last candidate is skipped like the others.
SkipsLast(l, k, j, t) ==
  /\ j \in k..Len(l)
  /\ ~Cooling(t, l[j])
  /\ \A i \in k..(j - 1) : Cooling(t, l[i])

\* From position k of candidates l the loop stops at j: candidates that cool
\* down are skipped, the last one is tried regardless.
Turns(l, k, j, t) ==
  /\ j \in k..Len(l)
  /\ j = Len(l) \/ ~Cooling(t, l[j])
  /\ \A i \in k..(j - 1) : Cooling(t, l[i])

\* The request calls the next candidate from position k on.
Call(r, k, t) ==
  \E j \in k..Len(list[r]) :
    /\ Turns(list[r], k, j, t)
    /\ at' = [at EXCEPT ![r] = j]
    /\ table' = Lookup(t, {list[r][i] : i \in k..j})
    /\ tries' = [tries EXCEPT ![r] = 0]
    /\ kept' = [kept EXCEPT ![r] = "none"]
    /\ stage' = [stage EXCEPT ![r] = "calling"]
    /\ UNCHANGED <<result, server, sticky, bound>>

\* The chain ends with an answer of m, or with the proxy's own error.  A
\* finished answer binds the conversation to the model (_finalize_route_response).
Finish(r, answer, m, t) ==
  /\ result' = [result EXCEPT ![r] = answer]
  /\ server' = [server EXCEPT ![r] = m]
  /\ table' = t
  /\ stage' = [stage EXCEPT ![r] =
                 IF answer = "ok" /\ r \in Streaming THEN "streaming" ELSE "done"]
  /\ IF answer = "ok"
     THEN /\ sticky' = [sticky EXCEPT ![Session[r]] = m]
          /\ bound' = [bound EXCEPT ![Session[r]] = clock]
     ELSE UNCHANGED <<sticky, bound>>
  /\ UNCHANGED <<at, tries, kept>>

\* Mutant: a candidate that fails ends the walk.
GivesUp(r, answer, m, t) == Finish(r, answer, m, t)

\* The candidate has failed and the table is t: on to the next one, and with
\* none left the client gets the failure.
MoveOn(r, answer, m, t) ==
  \/ ~IsLast(r) /\ Call(r, at[r] + 1, t)
  \/ IsLast(r) /\ Finish(r, answer, m, t)

\* One more attempt at the same candidate; a spent window of the candidate
\* (chain_deadline) forbids it, and may be spent at any time.
Retry(r, kind, answer) ==
  /\ tries[r] < Retries[Candidate(r)]
  /\ tries' = [tries EXCEPT ![r] = @ + 1]
  /\ kept' = [kept EXCEPT ![r] = answer]
  /\ stage' = [stage EXCEPT ![r] = kind]
  /\ UNCHANGED <<table, sticky, bound, at, result, server, seen>>
-----------------------------------------------------------------------------
Init ==
  /\ clock = 0
  /\ table = [m \in Models |-> NoRow]
  /\ sticky = [s \in Sessions |-> NoModel]
  /\ bound = [s \in Sessions |-> 0]
  /\ stage = [r \in Requests |-> "idle"]
  /\ list = [r \in Requests |-> Chain[r]]
  /\ at = [r \in Requests |-> 1]
  /\ tries = [r \in Requests |-> 0]
  /\ kept = [r \in Requests |-> "none"]
  /\ result = [r \in Requests |-> "none"]
  /\ server = [r \in Requests |-> NoModel]
  /\ seen = [m \in Models |-> {}]

\* _prepare_route_request: a conversation stays with its model while that is a
\* candidate and does not cool down.
Prepare(r) ==
  LET s == Session[r]
      m == sticky[s]
      fresh == m # NoModel /\ clock - bound[s] <= StickyTTL
      offered == fresh /\ m \in {Chain[r][i] : i \in 1..Len(Chain[r])}
  IN  /\ stage[r] = "idle"
      /\ stage' = [stage EXCEPT ![r] = "ready"]
      /\ sticky' = IF fresh THEN sticky ELSE [sticky EXCEPT ![s] = NoModel]
      /\ list' = IF offered /\ ~Cooling(table, m) THEN [list EXCEPT ![r] = <<m>>] ELSE list
      /\ table' = IF offered THEN Lookup(table, {m}) ELSE table
      /\ UNCHANGED <<clock, bound, at, tries, kept, result, server, seen>>

\* The hold is placed and the walk begins.
Begin(r) ==
  /\ stage[r] = "ready"
  /\ Call(r, 1, table)
  /\ UNCHANGED <<clock, list, seen>>

\* An answer outside fallback_statuses serves the request, be it a success or
\* not, and clears the model's record; a 400 about the context length does not.
Serve(r) ==
  /\ stage[r] = "calling"
  /\ \E a \in Answers \ (Fallback \cup {"context"}) :
       Finish(r, a, Candidate(r), Reset(table, Candidate(r)))
  /\ UNCHANGED <<clock, list, seen>>

Overflow(r) ==
  /\ stage[r] = "calling"
  /\ "context" \in Errors \ Fallback
  /\ MoveOn(r, "context", NoModel, table)
  /\ UNCHANGED <<clock, list, seen>>

\* A fallback status.  502, 503 and 504 are retried first.
Refuse(r) ==
  /\ stage[r] = "calling"
  /\ \E a \in Fallback :
       \/ a = "overload" /\ Retry(r, "blip", a)
       \/ /\ MoveOn(r, a, NoModel, Blame(table, Candidate(r), a))
          /\ Account(Candidate(r), a)
  /\ UNCHANGED <<clock, list>>

\* The call raises.  With a status the failure is judged like an answer, whatever
\* fallback_statuses says.
Raise(r) ==
  /\ stage[r] = "calling"
  /\ \E f \in Failures :
       /\ IF f = "transport"
          THEN MoveOn(r, "error", NoModel, Blame(table, Candidate(r), f))
          ELSE MoveOn(r, f, Candidate(r), Blame(table, Candidate(r), f))
       /\ Account(Candidate(r), f)
  /\ UNCHANGED <<clock, list>>

\* No attempt of the candidate has been answered in time.
GiveUpOnTime(r) ==
  \/ /\ IsLast(r)
     /\ Finish(r, "error", NoModel, table)
     /\ UNCHANGED seen
  \/ /\ ~IsLast(r)
     /\ Call(r, at[r] + 1, Stall(table, Candidate(r), "timeout"))
     /\ Account(Candidate(r), "timeout")

Timeout(r) ==
  /\ stage[r] = "calling"
  /\ Retry(r, "timed", "none") \/ GiveUpOnTime(r)
  /\ UNCHANGED <<clock, list>>

\* A retry after a timeout.  Whatever it answers is the answer of the chain;
\* only 502, 503 and 504 are tried again.
RetryTimed(r) ==
  /\ stage[r] = "timed"
  /\ \/ /\ Finish(r, "ok", Candidate(r), Reset(table, Candidate(r)))
        /\ UNCHANGED seen
     \/ \E a \in Errors :
          \/ a = "overload" /\ Retry(r, "timed", a)
          \/ Finish(r, a, Candidate(r), table) /\ UNCHANGED seen
  /\ UNCHANGED <<clock, list>>

\* The retry times out or raises.  An earlier answer is served after all if this
\* is not the last candidate, or if only the window ended the retries.
RetryTimedFails(r) ==
  /\ stage[r] = "timed"
  /\ \/ Retry(r, "timed", kept[r])
     \/ kept[r] = "none" /\ GiveUpOnTime(r)
     \/ /\ kept[r] # "none"
        /\ ~IsLast(r) \/ tries[r] < Retries[Candidate(r)]
        /\ Finish(r, kept[r], Candidate(r), table)
        /\ UNCHANGED seen
     \/ /\ kept[r] # "none" /\ IsLast(r)
        /\ Finish(r, "error", NoModel, table)
        /\ UNCHANGED seen
  /\ UNCHANGED <<clock, list>>

\* A retry after 502, 503 or 504.  A success serves; the row of the model stays.
RetryBlip(r) ==
  /\ stage[r] = "blip"
  /\ \/ Finish(r, "ok", Candidate(r), table) /\ UNCHANGED seen
     \/ \E a \in Errors :
          \/ a = "overload" /\ Retry(r, "blip", a)
          \/ /\ MoveOn(r, a, NoModel, Blame(table, Candidate(r), a))
             /\ Account(Candidate(r), a)
  /\ UNCHANGED <<clock, list>>

\* The retry times out, or raises.
RetryBlipFails(r) ==
  /\ stage[r] = "blip"
  /\ \/ /\ IsLast(r)
        /\ Finish(r, "error", NoModel, table)
        /\ UNCHANGED seen
     \/ ~IsLast(r) /\ Retry(r, "blip", kept[r])
     \/ /\ ~IsLast(r)
        /\ MoveOn(r, kept[r], NoModel, Blame(table, Candidate(r), kept[r]))
        /\ Account(Candidate(r), kept[r])
  /\ UNCHANGED <<clock, list>>

\* The stream is read to its end, or the client leaves.
StreamOver(r) ==
  /\ stage[r] = "streaming"
  /\ stage' = [stage EXCEPT ![r] = "done"]
  /\ UNCHANGED <<clock, table, sticky, bound, list, at, tries, kept, result,
                 server, seen>>

\* The stream dies.  Its first chunk is on the wire before anything can fail, so
\* no other candidate can take over: the client gets an error event.
StreamDies(r) ==
  /\ stage[r] = "streaming"
  /\ stage' = [stage EXCEPT ![r] = "done"]
  /\ result' = [result EXCEPT ![r] = "error"]
  /\ table' = Stall(table, server[r], "mid_stream")
  /\ Account(server[r], "mid_stream")
  /\ UNCHANGED <<clock, sticky, bound, list, at, tries, kept, server>>

\* DELETE .../cooldowns in the console.
ClearCooldown(m) ==
  /\ table[m] # NoRow
  /\ table' = Reset(table, m)
  /\ UNCHANGED <<clock, sticky, bound, stage, list, at, tries, kept, result,
                 server, seen>>

Tick ==
  /\ clock < MaxClock
  /\ clock' = clock + 1
  /\ UNCHANGED <<table, sticky, bound, stage, list, at, tries, kept, result,
                 server, seen>>

\* Nothing is left to do in this instance.
AllOver == (\A r \in Requests : stage[r] = "done") /\ UNCHANGED vars

Attempt(r) ==
  \/ Serve(r) \/ Overflow(r) \/ Refuse(r) \/ Raise(r) \/ Timeout(r)
  \/ RetryTimed(r) \/ RetryTimedFails(r) \/ RetryBlip(r) \/ RetryBlipFails(r)

Next ==
  \/ \E r \in Requests :
       Prepare(r) \/ Begin(r) \/ Attempt(r) \/ StreamOver(r) \/ StreamDies(r)
  \/ \E m \in Models : ClearCooldown(m)
  \/ Tick
  \/ AllOver

Spec == Init /\ [][Next]_vars

\* Timeouts end every call, the idle limit every stream, and the loop runs what
\* is ready.  Nothing makes requests arrive or the clock move.
Fairness ==
  \A r \in Requests :
    WF_vars(Begin(r)) /\ WF_vars(Attempt(r)) /\ WF_vars(StreamOver(r) \/ StreamDies(r))

FairSpec == Spec /\ Fairness
-----------------------------------------------------------------------------
TypeOK ==
  /\ clock \in Nat
  /\ table \in [Models -> [until : Nat, strikes : Nat, reason : Reasons \cup {"none"}]]
  /\ sticky \in [Sessions -> Models \cup {NoModel}]
  /\ bound \in [Sessions -> Nat]
  /\ stage \in [Requests -> Stages]
  /\ list \in [Requests -> Seq(Models)]
  /\ \A r \in Requests : at[r] \in 1..Len(list[r])
  /\ tries \in [Requests -> Nat]
  /\ kept \in [Requests -> Errors \cup {"none"}]
  /\ result \in [Requests -> Answers \cup {"none", "error"}]
  /\ server \in [Requests -> Models \cup {NoModel}]
  /\ seen \in [Models -> SUBSET Reasons]

\* One bad request does not darken the route: a model is parked only after it
\* failed some request in a way that is the provider's doing, however the
\* requests' calls and retries overlap (the comment above _cooldown_decision).
ParkedForCause ==
  \A m \in Models : table[m] # NoRow => table[m].reason \in seen[m]

\* A slow request does not cost an hour of the best model: timeouts, rate limits
\* and overloads, by whichever requests and in whichever order, never park a
\* model for longer than the short time (the comments on the timeout branch).
ShortStalls ==
  \A m \in Models :
    Dynamic[m] /\ seen[m] \subseteq {"limited", "overload", "timeout", "mid_stream"}
      => table[m].until <= clock + Greater(1, ShortPark)

\* The client sees a failure the route would fall back from only when there was
\* nothing left to fall back to (_run_candidate_chain).  Retries after a timeout
\* are the exception, see RetryTakesItsPath.
FailsAtTheEnd ==
  [][\A r \in Requests :
       stage[r] \in {"calling", "blip"} /\ stage'[r] = "done"
         /\ result'[r] \in Fallback \cup {"error"} => IsLast(r)]_vars

\* Every request gets an answer, with any of its models parked by others at any
\* time: the last candidate is never skipped.
Answered == \A r \in Requests : stage[r] = "ready" ~> stage[r] = "done"
-----------------------------------------------------------------------------
(***************************************************************************)
(* What the repository says of the chain, and the code does not do.        *)
(***************************************************************************)

\* docs/CONFIGURATION.md: a target that fails repeatedly escalates through the
\* ladder, a successful call resets the strike count.  So does the operator;
\* nothing else is said to.
LadderClimbs ==
  [][\A m \in Models :
       table'[m].strikes < table[m].strikes =>
         \/ ClearCooldown(m)
         \/ \E r \in Requests : result[r] = "none" /\ result'[r] = "ok" /\ server'[r] = m]_vars

\* The comment in _run_candidate_chain: a real answer to a retry after a timeout
\* goes back to the normal status-code path, which falls back from it.
RetryTakesItsPath ==
  [][\A r \in Requests :
       stage[r] = "timed" /\ stage'[r] = "done" /\ result'[r] \in Fallback => IsLast(r)]_vars
=============================================================================
