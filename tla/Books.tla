------------------------------- MODULE Books -------------------------------
(***************************************************************************)
(* What a request leaves behind: a row of cost_records, a trace, a row of  *)
(* pc_activity.  A row is inserted by a thread the request waits for; the  *)
(* trace and the activity follow without an await.  A live stream leaves   *)
(* its row when its generator is closed, by its end, by a provider that    *)
(* breaks off, or by a client that goes.  Rows and traces have the id of   *)
(* the request: a later one replaces an earlier one.                       *)
(***************************************************************************)
EXTENDS Naturals

CONSTANTS
  BookIds,     \* bound: requests
  Managed,     \* those with the key of an application, which a route serves
  MaxTokens,   \* bound: output of an answer
  NoLine       \* no row, no trace

ASSUME BookAssumption ==
  /\ Managed \subseteq BookIds
  /\ MaxTokens \in Nat \ {0}

VARIABLES
  place,     \* the await a request is at
  produced,  \* output its provider has sent
  usage,     \* output the provider says it has sent, as far as the gateway was told
  draft,     \* the row that is being inserted
  ledger,    \* cost_records
  trace,     \* telemetry_requests: the status
  activity,  \* pc_activity: the requests with a row
  received,     \* what the client got
  gaps       \* history: requests of which a write failed

bookVars == <<place, produced, usage, draft, ledger, trace, activity, received, gaps>>

\* "hit", "plain", "noting", "legacy" and "closing" wait for the insert.
BookStages == {"new", "walking", "offered", "streaming",
               "hit", "plain", "noting", "legacy", "closing", "done"}
Waiting == {"hit", "plain", "noting", "legacy", "closing"}

\* empty: what _finalize_route_response says of a success without output tokens
Lines == [status : {"success", "error", "timeout"}, empty : BOOLEAN,
          routed : BOOLEAN, hit : BOOLEAN]

\* status 0: nothing yet.  whole: all the provider had to say
Told == [status : {0, 200, 401, 412, 429, 502}, whole : BOOLEAN, left : BOOLEAN]

BookInit ==
  /\ place = [r \in BookIds |-> "new"]
  /\ produced = [r \in BookIds |-> 0] /\ usage = [r \in BookIds |-> 0]
  /\ draft = [r \in BookIds |-> NoLine]
  /\ ledger = [r \in BookIds |-> NoLine]
  /\ trace = [r \in BookIds |-> NoLine]
  /\ activity = {}
  /\ received = [r \in BookIds |-> [status |-> 0, whole |-> FALSE, left |-> FALSE]]
  /\ gaps = {}

Go(r, s) == place' = [place EXCEPT ![r] = s]

\* The row a request of a route leaves, by the status of its response.
RouteLine(code, tokens) ==
  [status |-> IF code < 400 THEN "success" ELSE "error",
   empty |-> code < 400 /\ tokens = 0, routed |-> TRUE, hit |-> FALSE]

\* A row without a route: of a legacy request, or of one whose route raised.
PlainLine(status) == [status |-> status, empty |-> FALSE, routed |-> FALSE, hit |-> FALSE]

HitLine == [status |-> "success", empty |-> FALSE, routed |-> TRUE, hit |-> TRUE]

Write(r, line, s) == draft' = [draft EXCEPT ![r] = line] /\ Go(r, s)

\* from_response
TraceOf(code) ==
  CASE code < 300 -> "success" [] code = 429 -> "rate_limited" [] OTHER -> "error"

\* A trace that cannot be written is logged and forgotten.
EmitTrace(r, status) ==
  \/ trace' = [trace EXCEPT ![r] = status] /\ UNCHANGED gaps
  \/ gaps' = gaps \cup {r} /\ UNCHANGED trace

\* The message of a timeout has "timed out" in it.
FailureTraces == {"error", "timeout"}

Answered(r, code, whole) ==
  received' = [received EXCEPT ![r].status = code, ![r].whole = whole]

-----------------------------------------------------------------------------
(* Before a provider is called *)

\* A plan that fails and a hold that is refused return before any book is opened.
RefuseManaged(r, code) ==
  /\ place[r] = "new" /\ r \in Managed
  /\ Answered(r, code, TRUE) /\ Go(r, "done")
  /\ UNCHANGED <<produced, usage, draft, ledger, trace, activity, gaps>>

\* 401, 404, 429 and 412 of a legacy request are traced.
RefuseLegacy(r, code) ==
  /\ place[r] = "new" /\ r \notin Managed
  /\ Answered(r, code, TRUE) /\ Go(r, "done")
  /\ EmitTrace(r, TraceOf(code))
  /\ UNCHANGED <<produced, usage, draft, ledger, activity>>

\* An answer of the cache: a row, no trace.
TakeFromCache(r) ==
  /\ place[r] = "new" /\ r \in Managed
  /\ Answered(r, 200, TRUE) /\ Write(r, HitLine, "hit")
  /\ UNCHANGED <<produced, usage, ledger, trace, activity, gaps>>

Walk(r) ==
  /\ place[r] = "new" /\ Go(r, "walking")
  /\ UNCHANGED <<produced, usage, draft, ledger, trace, activity, received, gaps>>

-----------------------------------------------------------------------------
(* An answer in one piece *)

\* The walk, or what follows it, raises: the trace first, then the row.
Raise(r, line) ==
  /\ Answered(r, 502, FALSE)
  /\ Write(r, line, "noting")

WalkRaises(r) ==
  /\ place[r] = "walking"
  /\ \E failure \in FailureTraces :
       /\ EmitTrace(r, failure)
       /\ Raise(r, PlainLine(IF r \in Managed THEN "error" ELSE failure))
  /\ UNCHANGED <<produced, usage, ledger, activity>>

\* The provider reports its tokens or not.
AnswerPlain(r, code, tokens, tells) ==
  /\ place[r] = "walking" /\ r \in Managed
  /\ produced' = [produced EXCEPT ![r] = tokens]
  /\ usage' = [usage EXCEPT ![r] = IF tells THEN tokens ELSE 0]
  /\ Answered(r, code, TRUE)
  /\ Write(r, RouteLine(code, usage'[r]), "plain")
  /\ UNCHANGED <<ledger, trace, activity, gaps>>

\* Legacy: a success whatever the status of the response, and whether it is a stream
\* or not.
AnswerLegacy(r, code) ==
  /\ place[r] = "walking" /\ r \notin Managed
  /\ Answered(r, code, TRUE)
  /\ Write(r, PlainLine("success"), "legacy")
  /\ UNCHANGED <<produced, usage, ledger, trace, activity, gaps>>

-----------------------------------------------------------------------------
(* A live stream *)

\* A chunk: with output or without, with the usage so far or without.
HearChunk(r, text, tells) ==
  /\ produced' = [produced EXCEPT ![r] = IF text THEN @ + 1 ELSE @]
  /\ usage' = [usage EXCEPT ![r] = IF tells THEN produced'[r] ELSE @]

\* The walk waits for the first chunk, and hands over a generator.
OfferStream(r, text, tells) ==
  /\ place[r] = "walking" /\ r \in Managed
  /\ HearChunk(r, text, tells) /\ Go(r, "offered")
  /\ UNCHANGED <<draft, ledger, trace, activity, received, gaps>>

SendFirst(r) ==
  /\ place[r] = "offered"
  /\ Answered(r, 200, FALSE) /\ Go(r, "streaming")
  /\ UNCHANGED <<produced, usage, draft, ledger, trace, activity, gaps>>

SendChunk(r, text, tells) ==
  /\ place[r] = "streaming" /\ produced[r] < MaxTokens
  /\ HearChunk(r, text, tells)
  /\ UNCHANGED <<place, draft, ledger, trace, activity, received, gaps>>

\* Mutant: the response keeps the status it was sent with.
StatusAsSent == 200

\* The response of a stream that breaks off is marked as failed, for its row.
BrokenStatus == 502

\* The client is told of a failure after the first chunk within the stream.
BreakOff(r) ==
  /\ place[r] = "streaming"
  /\ Write(r, RouteLine(BrokenStatus, usage[r]), "closing")
  /\ UNCHANGED <<produced, usage, ledger, trace, activity, received, gaps>>

EndStream(r) ==
  /\ place[r] = "streaming"
  /\ Answered(r, 200, TRUE)
  /\ Write(r, RouteLine(200, usage[r]), "closing")
  /\ UNCHANGED <<produced, usage, ledger, trace, activity, gaps>>

-----------------------------------------------------------------------------
(* The client goes *)

Gone(r) == received' = [received EXCEPT ![r].left = TRUE]

\* A generator that was never started has no finally.
LeaveUnheard(r) ==
  /\ place[r] = "offered"
  /\ Gone(r) /\ Go(r, "done")
  /\ UNCHANGED <<produced, usage, draft, ledger, trace, activity, gaps>>

\* The row is written as if the stream had ended here.
LeaveStream(r) ==
  /\ place[r] = "streaming"
  /\ Gone(r)
  /\ Write(r, RouteLine(200, usage[r]), "closing")
  /\ UNCHANGED <<produced, usage, ledger, trace, activity, gaps>>

\* x-gateway-cancel-on-disconnect: the request ends at the await it is at.  An insert
\* may be in its thread already, or not; nothing that would have followed happens.
CancelRequest(r) ==
  /\ place[r] \in {"walking", "hit", "plain", "noting", "legacy"}
  /\ Gone(r) /\ Go(r, "done")
  /\ ledger' \in {ledger} \cup
       (IF place[r] \in Waiting THEN {[ledger EXCEPT ![r] = draft[r]]} ELSE {})
  /\ draft' = [draft EXCEPT ![r] = NoLine]
  /\ UNCHANGED <<produced, usage, trace, activity, gaps>>

-----------------------------------------------------------------------------
(* After the insert *)

\* It lands, or fails, which is logged and forgotten; the insert of a stream whose
\* client has gone may be cancelled.
Insert(r, lands) ==
  /\ place[r] \in Waiting
  /\ ledger' = IF lands THEN [ledger EXCEPT ![r] = draft[r]] ELSE ledger

Closed(r, lands) ==
  /\ place[r] \in {"hit", "noting", "closing"}
  /\ Insert(r, lands)
  /\ gaps' = IF lands THEN gaps ELSE gaps \cup {r}
  /\ draft' = [draft EXCEPT ![r] = NoLine] /\ Go(r, "done")
  /\ UNCHANGED <<produced, usage, trace, activity, received>>

Missing(r, lands, traced) == gaps' = IF lands /\ traced THEN gaps ELSE gaps \cup {r}

LegacyBooked(r, lands, traced) ==
  /\ place[r] = "legacy"
  /\ Insert(r, lands)
  /\ trace' = IF traced THEN [trace EXCEPT ![r] = TraceOf(received[r].status)] ELSE trace
  /\ Missing(r, lands, traced)
  /\ draft' = [draft EXCEPT ![r] = NoLine] /\ Go(r, "done")
  /\ UNCHANGED <<produced, usage, activity, received>>

\* A trace, and an activity if the request succeeded.
Booked(r, lands, traced) ==
  /\ Insert(r, lands)
  /\ \E a \in {activity, activity \cup {r}} :
       activity' = IF received[r].status < 400 THEN a ELSE activity
  /\ Missing(r, lands, traced)

PlainBooked(r, lands, traced) ==
  /\ place[r] = "plain"
  /\ Booked(r, lands, traced)
  /\ trace' = IF traced THEN [trace EXCEPT ![r] = TraceOf(received[r].status)] ELSE trace
  /\ draft' = [draft EXCEPT ![r] = NoLine] /\ Go(r, "done")
  /\ UNCHANGED <<produced, usage, received>>

\* A cache_ttl that is no number raises when all of this is done: the request fails,
\* and is traced and recorded again.
PlainGarbled(r, lands, traced) ==
  /\ place[r] = "plain" /\ received[r].status < 400
  /\ Booked(r, lands, traced)
  /\ trace' = IF traced THEN [trace EXCEPT ![r] = "error"] ELSE trace
  /\ Raise(r, PlainLine("error"))
  /\ UNCHANGED <<produced, usage>>

BookNext ==
  \/ \E r \in BookIds : Walk(r) \/ TakeFromCache(r) \/ WalkRaises(r)
  \/ \E r \in BookIds : RefuseManaged(r, 412)
  \/ \E r \in BookIds, code \in {401, 429} : RefuseLegacy(r, code)
  \/ \E r \in BookIds, code \in {200, 502}, tokens \in 0..MaxTokens, tells \in BOOLEAN :
       AnswerPlain(r, code, tokens, tells)
  \/ \E r \in BookIds, code \in {200, 502} : AnswerLegacy(r, code)
  \/ \E r \in BookIds, text, tells \in BOOLEAN : OfferStream(r, text, tells) \/ SendChunk(r, text, tells)
  \/ \E r \in BookIds : SendFirst(r) \/ BreakOff(r) \/ EndStream(r)
  \/ \E r \in BookIds : LeaveUnheard(r) \/ LeaveStream(r) \/ CancelRequest(r)
  \/ \E r \in BookIds, lands, traced \in BOOLEAN :
       LegacyBooked(r, lands, traced) \/ PlainBooked(r, lands, traced) \/ PlainGarbled(r, lands, traced)
  \/ \E r \in BookIds, lands \in BOOLEAN : Closed(r, lands)

BookSpec == BookInit /\ [][BookNext]_bookVars

-----------------------------------------------------------------------------
(* Properties *)

\* Type invariant.
BookTypeOK ==
  /\ place \in [BookIds -> BookStages]
  /\ produced \in [BookIds -> 0..MaxTokens] /\ usage \in [BookIds -> 0..MaxTokens]
  /\ draft \in [BookIds -> Lines \cup {NoLine}]
  /\ ledger \in [BookIds -> Lines \cup {NoLine}]
  /\ trace \in [BookIds -> {"success", "error", "timeout", "rate_limited", NoLine}]
  /\ activity \subseteq BookIds
  /\ received \in [BookIds -> Told]
  /\ gaps \subseteq BookIds

\* usage_by_period
CountsAsSuccess(line) == line.status = "success" /\ ~line.empty

Served(r) == received[r].status < 400 /\ received[r].whole /\ produced[r] > 0

HasEnded(r) == place[r] = "done" /\ ~received[r].left /\ r \notin gaps

\* A request of an application that has ended, with its client there and all its writes
\* done, is counted as a success by the usage page only if the client had a whole
\* answer with output in it, also if a stream broke off after it had reported usage or
\* an answer was taken back after it was recorded; one that is not counted had none,
\* if the provider reported all its output.  Its trace, where it has one, says what its
\* row says (_wrapped_stream, _finalize_route_response, _record_chain_failure).
CountedAsServed ==
  \A r \in Managed : HasEnded(r) /\ ledger[r] # NoLine /\ ~ledger[r].hit =>
    /\ CountsAsSuccess(ledger[r]) => Served(r)
    /\ usage[r] = produced[r] /\ Served(r) => CountsAsSuccess(ledger[r])
    /\ trace[r] # NoLine => (trace[r] = "success" <=> ledger[r].status = "success")
=============================================================================
