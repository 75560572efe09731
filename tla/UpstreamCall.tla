---------------------------- MODULE UpstreamCall ----------------------------
(***************************************************************************)
(* Calls of the direct transport of one worker to providers whose api_mode *)
(* is codex_responses.  Such a provider is asked at /responses; a model it *)
(* says has no endpoint there is asked at /chat/completions in the same    *)
(* attempt, and the worker remembers that for a while.  A stream is handed *)
(* on chunk by chunk.  Every await lets the other calls go on.             *)
(***************************************************************************)
EXTENDS Integers, FiniteSets, Sequences

CONSTANTS
  Offered,      \* models of these providers
  Calls,        \* attempts of requests
  Ttl,          \* _ENDPOINT_AFFINITY_TTL_SECONDS
  Learnable,    \* _ENDPOINT_AFFINITY_MAX
  Chunks,       \* bound: chunks of a stream at one endpoint
  UpClockMax,   \* bound: the last instant
  NoModel

ASSUME UpstreamAssumption ==
  /\ Ttl \in Nat /\ Learnable \in Nat \ {0} /\ Chunks \in Nat \ {0}
  /\ UpClockMax \in Nat /\ NoModel \notin Offered

VARIABLES
  upClock,
  gone,       \* models that /responses has no endpoint for at the moment
  learned,    \* keys of _endpoint_affinity, oldest insertion first
  stamp,      \* their instants
  asked,      \* the model of a call
  streams,    \* whether its client wants a stream
  leg,        \* where a call is
  out,        \* the legs its chunks, or its answer, came from, in order
  turnedAway  \* history: the last instant /responses turned a call away

upVars == <<upClock, gone, learned, stamp, asked, streams, leg, out, turnedAway>>
memory == <<learned, stamp, turnedAway>>

Legs == {"idle", "responses", "chat", "done", "failed", "broken"}
Over == {"done", "failed", "broken"}

UpInit ==
  /\ upClock = 0
  /\ gone \in SUBSET Offered
  /\ learned = <<>>
  /\ stamp = [m \in Offered |-> 0]
  /\ asked = [p \in Calls |-> NoModel]
  /\ streams = [p \in Calls |-> FALSE]
  /\ leg = [p \in Calls |-> "idle"]
  /\ out = [p \in Calls |-> <<>>]
  /\ turnedAway = [m \in Offered |-> 0 - Ttl - 1]

Learned == {learned[i] : i \in 1..Len(learned)}

\* Mutant: what was learned once holds for ever.
EverKnown(m) == m \in Learned

\* _known_endpoint; a stale entry is dropped as it is found.
Known(m) == m \in Learned /\ upClock - stamp[m] <= Ttl

Drop(m) ==
  IF m \in Learned /\ ~ Known(m)
  THEN LET k == CHOOSE i \in 1..Len(learned) : learned[i] = m
       IN  [i \in 1..(Len(learned) - 1) |-> learned[IF i < k THEN i ELSE i + 1]]
  ELSE learned

BeginCall(p, m, stream) ==
  /\ leg[p] = "idle"
  /\ asked' = [asked EXCEPT ![p] = m]
  /\ streams' = [streams EXCEPT ![p] = stream]
  /\ leg' = [leg EXCEPT ![p] = IF Known(m) THEN "chat" ELSE "responses"]
  /\ learned' = Drop(m)
  /\ UNCHANGED <<upClock, gone, stamp, out, turnedAway>>

\* _remember_endpoint: a key that is there keeps its place, and the leading ones go.
Remember(m) ==
  LET all == IF m \in Learned THEN learned ELSE Append(learned, m)
      over == IF Len(all) > Learnable THEN Len(all) - Learnable ELSE 0
  IN  SubSeq(all, over + 1, Len(all))

\* Mutant: whatever error of /responses is answered with the other endpoint.
SwitchAtError(p, refusal) == leg[p] = "responses"

\* _responses_endpoint_unavailable, before anything is out
Switches(p, refusal) == leg[p] = "responses" /\ refusal /\ out[p] = <<>>

\* An error: the refusal of a model that has no endpoint at /responses, which comes
\* instead of the first chunk, or any other, a timeout, an answer that cannot be
\* read.  Unless the call turns to the other endpoint it is over: for the chain to
\* go on (failed), or with its stream broken (MidStreamFailure).
Error(p, refusal) ==
  LET m == asked[p] IN
  /\ leg[p] \in {"responses", "chat"}
  /\ refusal => leg[p] = "responses" /\ out[p] = <<>> /\ m \in gone
  /\ IF Switches(p, refusal)
     THEN /\ leg' = [leg EXCEPT ![p] = "chat"]
          /\ learned' = Remember(m)
          /\ stamp' = [stamp EXCEPT ![m] = upClock]
          /\ turnedAway' = [turnedAway EXCEPT ![m] = upClock]
     ELSE /\ leg' = [leg EXCEPT ![p] = IF out[p] = <<>> THEN "failed" ELSE "broken"]
          /\ UNCHANGED memory
  /\ UNCHANGED <<upClock, gone, asked, streams, out>>

Emit(p) == out' = [out EXCEPT ![p] = Append(@, leg[p])]

\* A chunk.  Of /responses only text, reasoning and tool calls are passed on; at
\* /chat/completions whatever comes.
Chunk(p) ==
  /\ streams[p] /\ Len(SelectSeq(out[p], LAMBDA from : from = leg[p])) < Chunks
  /\ \/ leg[p] = "responses" /\ asked[p] \notin gone
     \/ leg[p] = "chat"
  /\ Emit(p)
  /\ UNCHANGED <<upClock, gone, memory, asked, streams, leg>>

\* response.completed or response.incomplete: what it carries itself, a tool call or a
\* refusal, counts.  A stream that has brought nothing is a 502.
StreamCompletes(p, content) ==
  /\ leg[p] = "responses" /\ streams[p] /\ asked[p] \notin gone
  /\ IF content \/ out[p] # <<>>
     THEN leg' = [leg EXCEPT ![p] = "done"] /\ Emit(p)
     ELSE leg' = [leg EXCEPT ![p] = "failed"] /\ UNCHANGED out
  /\ UNCHANGED <<upClock, gone, memory, asked, streams>>

\* A stream of either leg just ends.  One that ends before its first chunk is a 502.
StreamEnds(p) ==
  /\ streams[p] /\ leg[p] \in {"responses", "chat"}
  /\ leg' = [leg EXCEPT ![p] = IF out[p] = <<>> THEN "failed" ELSE "done"]
  /\ UNCHANGED <<upClock, gone, memory, asked, streams, out>>

\* The answer of /responses; an empty one is a 502.
ResponsesAnswers(p, content) ==
  /\ leg[p] = "responses" /\ ~ streams[p] /\ asked[p] \notin gone
  /\ IF content THEN leg' = [leg EXCEPT ![p] = "done"] /\ Emit(p)
     ELSE leg' = [leg EXCEPT ![p] = "failed"] /\ UNCHANGED out
  /\ UNCHANGED <<upClock, gone, memory, asked, streams>>

\* The answer of /chat/completions, as it is
ChatAnswers(p) ==
  /\ leg[p] = "chat" /\ ~ streams[p]
  /\ leg' = [leg EXCEPT ![p] = "done"] /\ Emit(p)
  /\ UNCHANGED <<upClock, gone, memory, asked, streams>>

\* The slot is free for the next attempt.
Forget(p) ==
  /\ leg[p] \in Over
  /\ leg' = [leg EXCEPT ![p] = "idle"]
  /\ asked' = [asked EXCEPT ![p] = NoModel]
  /\ streams' = [streams EXCEPT ![p] = FALSE]
  /\ out' = [out EXCEPT ![p] = <<>>]
  /\ UNCHANGED <<upClock, gone, memory>>

\* A provider moves a model from one endpoint to the other.
Move(m) ==
  /\ gone' = IF m \in gone THEN gone \ {m} ELSE gone \cup {m}
  /\ UNCHANGED <<upClock, memory, asked, streams, leg, out>>

UpTick ==
  /\ upClock < UpClockMax
  /\ upClock' = upClock + 1
  /\ UNCHANGED <<gone, memory, asked, streams, leg, out>>

UpNext ==
  \/ \E p \in Calls, m \in Offered, b \in BOOLEAN : BeginCall(p, m, b)
  \/ \E p \in Calls : Chunk(p) \/ StreamEnds(p) \/ ChatAnswers(p) \/ Forget(p)
  \/ \E p \in Calls, b \in BOOLEAN :
       Error(p, b) \/ StreamCompletes(p, b) \/ ResponsesAnswers(p, b)
  \/ \E m \in Offered : Move(m)
  \/ UpTick

UpSpec == UpInit /\ [][UpNext]_upVars

-----------------------------------------------------------------------------
(* Properties *)

\* Type invariant; the memory is bounded and holds a model once.
UpTypeOK ==
  /\ upClock \in Nat /\ gone \subseteq Offered
  /\ learned \in Seq(Offered) /\ Len(learned) <= Learnable
  /\ Cardinality(Learned) = Len(learned)
  /\ stamp \in [Offered -> Nat] /\ turnedAway \in [Offered -> Int]
  /\ asked \in [Calls -> Offered \cup {NoModel}]
  /\ streams \in [Calls -> BOOLEAN]
  /\ leg \in [Calls -> Legs]
  /\ out \in [Calls -> Seq({"responses", "chat"})]
  /\ \A p \in Calls : (leg[p] = "idle") <=> (asked[p] = NoModel)

\* A client never gets one stream from two endpoints: once a chunk of /responses
\* is out, no error makes the attempt go on at /chat/completions (stream_chunks:
\* "never to a same-attempt endpoint switch (mixed stream)").
NeverMixed ==
  \A p \in Calls : \A i, j \in 1..Len(out[p]) : out[p][i] = out[p][j]

\* /responses is passed over only for a model that it turned away at most Ttl before,
\* in this call or in another one of the worker, however the calls,
\* the eviction of old entries and the moves of the provider interleave
\* (_known_endpoint, _remember_endpoint).
SkipsForCause ==
  [][\A p \in Calls :
       leg[p] # "chat" /\ leg'[p] = "chat"
         => upClock - turnedAway'[asked'[p]] <= Ttl]_upVars
=============================================================================
