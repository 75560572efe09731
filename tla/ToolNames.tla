----------------------------- MODULE ToolNames -----------------------------
(***************************************************************************)
(* Tool names of one request on their way to the provider and back.  Some  *)
(* providers refuse a colon, so each attempt at /chat/completions rewrites *)
(* the names and restores them in the answer.  The payload of an attempt   *)
(* is a shallow copy of the body: the names are rewritten in the tools and *)
(* messages all attempts of the request share.  /responses gets the names  *)
(* as they are then.                                                       *)
(***************************************************************************)
EXTENDS Naturals, Sequences

CONSTANTS
  ToolLabels,   \* tool names
  Underscored,  \* each of them with "_" for ":"
  Bodies,       \* bound: what requests bring: tools, and names of calls they replay
  Thinkers,     \* BOOLEAN: whether models that want reasoning back are among the candidates
  Attempts      \* bound: attempts at a request, by retry or with the next candidate

ASSUME ToolNamesAssumption ==
  /\ Underscored \in [ToolLabels -> ToolLabels]
  /\ \A n \in ToolLabels : Underscored[Underscored[n]] = Underscored[n]
  /\ \A b \in Bodies : b.tools \in Seq(ToolLabels) /\ b.replayed \in Seq(ToolLabels)
  /\ Thinkers \subseteq BOOLEAN /\ Attempts \in Nat

VARIABLES
  brought,   \* the body as the client sent it
  body,      \* the body the attempts share
  padded,    \* whether the replayed turns carry reasoning_content
  pass,      \* where the request is
  attempts,  \* attempts begun
  restored,  \* tool_name_map of the attempt
  heard,     \* names the client is told, by the tool the model called
  reused     \* history: this attempt found names that an earlier one had rewritten

toolVars == <<brought, body, padded, pass, attempts, restored, heard, reused>>

Stages == {"ready", "chat", "responses", "stream", "done", "failed"}
HasColon(n) == Underscored[n] # n
NoMap == [n \in {} |-> n]

ToolInit ==
  /\ brought \in Bodies
  /\ body = brought
  /\ padded = FALSE /\ pass = "ready" /\ attempts = 0
  /\ restored = NoMap /\ heard = {} /\ reused = FALSE

\* The names in the order they are looked at.
NamesIn(b) == b.tools \o b.replayed

Rewritten(b) ==
  [tools |-> [k \in 1..Len(b.tools) |-> Underscored[b.tools[k]]],
   replayed |-> [k \in 1..Len(b.replayed) |-> Underscored[b.replayed[k]]]]

\* _collect_tool_name_map: of names that are written alike, the first one counts.
MapOf(b) ==
  LET names == NamesIn(b)
      coloned == {i \in DOMAIN names : HasColon(names[i])}
      first(n) == CHOOSE i \in coloned :
                    /\ Underscored[names[i]] = n
                    /\ \A j \in coloned : Underscored[names[j]] = n => i <= j
  IN [n \in {Underscored[names[i]] : i \in coloned} |-> names[first(n)]]

\* An attempt at /chat/completions.  A model that wants its reasoning back has the
\* replayed turns padded, in place too.
AskChat(thinker) ==
  /\ restored' = MapOf(body)
  /\ reused' = (body # brought)
  /\ body' = Rewritten(body)
  /\ padded' = (padded \/ thinker)
  /\ pass' = "chat"

BeginChat(thinker) ==
  /\ pass = "ready" /\ attempts < Attempts
  /\ AskChat(thinker)
  /\ attempts' = attempts + 1
  /\ UNCHANGED <<brought, heard>>

BeginResponses ==
  /\ pass = "ready" /\ attempts < Attempts
  /\ pass' = "responses" /\ attempts' = attempts + 1
  /\ reused' = (body # brought)
  /\ restored' = NoMap
  /\ UNCHANGED <<brought, body, padded, heard>>

\* The model has no endpoint there: the other one, in the same attempt.
NoEndpoint(thinker) ==
  /\ pass = "responses"
  /\ AskChat(thinker)
  /\ UNCHANGED <<brought, attempts, heard>>

\* The attempt failed before anything was out.
AttemptFails ==
  /\ pass \in {"chat", "responses"}
  /\ pass' = IF attempts < Attempts THEN "ready" ELSE "failed"
  /\ UNCHANGED <<brought, body, padded, attempts, restored, heard, reused>>

\* Mutant: the names of the answer as they are.
AsAnswered(n) == n

\* _restore_tool_names
Original(n) == IF n \in DOMAIN restored THEN restored[n] ELSE n

\* The model calls some of its tools.
TellCalls(ks) == heard' = heard \cup {[tool |-> k, name |-> Original(body.tools[k])] : k \in ks}

\* An answer, with calls or without.
AnswerCalls(ks) ==
  /\ pass \in {"chat", "responses"}
  /\ TellCalls(ks)
  /\ pass' = "done"
  /\ UNCHANGED <<brought, body, padded, attempts, restored, reused>>

\* A chunk of a stream, with a call: restored on its own.
ChunkCalls(k) ==
  /\ pass \in {"chat", "responses", "stream"}
  /\ TellCalls({k})
  /\ pass' = "stream"
  /\ UNCHANGED <<brought, body, padded, attempts, restored, reused>>

\* The stream ends, or breaks: nothing else may continue it.
StreamOver ==
  /\ pass = "stream"
  /\ pass' \in {"done", "failed"}
  /\ UNCHANGED <<brought, body, padded, attempts, restored, heard, reused>>

ToolNext ==
  \/ \E thinker \in Thinkers : BeginChat(thinker) \/ NoEndpoint(thinker)
  \/ BeginResponses \/ AttemptFails \/ StreamOver
  \/ \E ks \in SUBSET (1..Len(body.tools)) : AnswerCalls(ks)
  \/ \E k \in 1..Len(body.tools) : ChunkCalls(k)

ToolSpec == ToolInit /\ [][ToolNext]_toolVars

-----------------------------------------------------------------------------
(* Properties *)

\* Type invariant.
ToolNamesTypeOK ==
  /\ brought \in Bodies
  /\ Len(body.tools) = Len(brought.tools) /\ NamesIn(body) \in Seq(ToolLabels)
  /\ padded \in BOOLEAN /\ reused \in BOOLEAN
  /\ pass \in Stages /\ attempts \in 0..Attempts
  /\ DOMAIN restored \subseteq ToolLabels /\ NamesIn(brought) \in Seq(ToolLabels)
  /\ heard \subseteq [tool : 1..Len(brought.tools), name : ToolLabels]

\* Two names of the request that are written alike at the provider.
Collides(k) ==
  LET names == NamesIn(brought)
      tool == brought.tools[k]
  IN \E i \in DOMAIN names : names[i] # tool /\ Underscored[names[i]] = Underscored[tool]

\* A client is told of the tool the model called, under the name it gave it, in an
\* answer and in a stream, over either endpoint and after a change of the endpoint.
\* Two things only take a name from it: another name of the request that is written
\* alike, and an earlier attempt, whose rewriting of the shared body this one takes for
\* the names of the client; it is told that rewriting then (_collect_tool_name_map,
\* forward, stream_chunks).
NamesComeBack ==
  \A h \in heard :
    \/ h.name = brought.tools[h.tool]
    \/ Collides(h.tool)
    \/ reused /\ h.name = Underscored[brought.tools[h.tool]]
=============================================================================
