---------------------------- MODULE Transcripts ----------------------------
(***************************************************************************)
(* A conversation over the Messages API: what the client says goes through *)
(* anthropic_to_openai to a provider's /chat/completions, or on through    *)
(* _responses_input_from_messages to its /responses, and the answer comes  *)
(* back through _responses_to_chat and openai_to_anthropic.  The client    *)
(* repeats all of it in every request.  Texts, arguments and results are   *)
(* left out, and the system prompt, which goes elsewhere; what is kept is  *)
(* which block stands where.  The blocks of a message are a function over  *)
(* positions, and what a provider is sent is a set of items, each with     *)
(* its place: the message (at), which of the messages that became of it    *)
(* (half, nth for a result), and where in that one (nth).                  *)
(***************************************************************************)
EXTENDS Naturals, Sequences, FiniteSets

CONSTANTS
  CallIds,      \* ids that providers give their tool calls
  Outputs,      \* bound: outputs of /responses
  ChatCalls,    \* bound: the ids of the calls in an answer of /chat/completions
  MaxItems,     \* bound: items of an output, calls of an answer
  MaxMessages,  \* bound: messages of the conversation
  NoId          \* no id: of a block that has none, or of a call the provider leaves unnamed

ItemKinds == {"text", "reasoning", "call", "opaque"}

ASSUME TranscriptAssumption ==
  /\ Outputs \subseteq Seq([kind : ItemKinds, id : CallIds \cup {NoId}])
  /\ ChatCalls \subseteq Seq(CallIds)
  /\ \A o \in Outputs \cup ChatCalls : Len(o) <= MaxItems
  /\ MaxItems \in Nat /\ MaxMessages \in Nat /\ NoId \notin CallIds \cup Nat

VARIABLES
  spoken,    \* messages of the client's conversation
  turn,      \* whose move it is
  api,       \* the endpoint the request went to
  sent,      \* what the provider was sent
  stopped,   \* the stop reason of the last answer
  dropped    \* history: messages whose calls the client has left unanswered

transcriptVars == <<spoken, turn, api, sent, stopped, dropped>>

\* A call without an id is numbered within its answer.
Ids == CallIds \cup Nat

Plain(kind) == [kind |-> kind, id |-> NoId]
Stops == {"none", "end_turn", "max_tokens", "tool_use"}

TranscriptInit ==
  /\ spoken = <<>> /\ turn = "client" /\ api = "none" /\ sent = {}
  /\ stopped = "none" /\ dropped = {}

PlacesOf(blocks, kind) == {n \in DOMAIN blocks : blocks[n].kind = kind}
IdsOf(blocks, kind) == [n \in PlacesOf(blocks, kind) |-> blocks[n].id]

\* The calls the client has to answer.
Due == IF spoken = <<>> THEN <<>> ELSE IdsOf(spoken[Len(spoken)].blocks, "tool_use")

Say(role, blocks) == spoken' = Append(spoken, [role |-> role, blocks |-> blocks])

\* The client asks, whatever it was asked itself.
AskAnew ==
  /\ turn = "client" /\ Len(spoken) < MaxMessages
  /\ Say("user", [n \in {0} |-> Plain("text")])
  /\ dropped' = IF DOMAIN Due = {} THEN dropped ELSE dropped \cup {Len(spoken)}
  /\ turn' = "gateway"
  /\ UNCHANGED <<api, sent, stopped>>

\* The results in the places of the calls, in any order; pictures before and after them.
ResultOrders ==
  {p \in [DOMAIN Due -> DOMAIN Due] : \A n \in DOMAIN Due : \E k \in DOMAIN Due : p[k] = n}
Remarks == SUBSET {0, MaxItems + 1}

ReturnResults(order, remarks) ==
  /\ turn = "client" /\ Len(spoken) < MaxMessages /\ DOMAIN Due # {}
  /\ Say("user", [n \in remarks \cup DOMAIN Due |->
                    IF n \in remarks THEN Plain("image")
                    ELSE [kind |-> "tool_result", id |-> Due[order[n]]]])
  /\ turn' = "gateway"
  /\ UNCHANGED <<api, sent, stopped, dropped>>

\* anthropic_to_openai, a message: results become messages of their own, then all other
\* blocks of the message one more; an assistant message keeps one text and its calls.
ToOpenAI(k) ==
  LET blocks == spoken[k].blocks
      results == PlacesOf(blocks, "tool_result")
      rest == DOMAIN blocks \ results
  IN IF spoken[k].role = "user"
     THEN {[role |-> "tool", at |-> k, half |-> 0, nth |-> n, id |-> blocks[n].id,
            calls |-> <<>>, text |-> {}] : n \in results}
            \cup {[role |-> "user", at |-> k, half |-> 1, nth |-> 0, id |-> NoId,
                   calls |-> <<>>, text |-> rest] : n \in rest}
     ELSE {[role |-> "assistant", at |-> k, half |-> 0, nth |-> 0, id |-> NoId,
            calls |-> IdsOf(blocks, "tool_use"), text |-> PlacesOf(blocks, "text")]}

Chat == UNION {ToOpenAI(k) : k \in 1..Len(spoken)}

ItemOf(kind, c, id, nth) ==
  [kind |-> kind, id |-> id, at |-> c.at, half |-> c.half, nth |-> nth]
TextOf(c) == ItemOf("text", c, NoId, 1)
CallItems(c) == {ItemOf("call", c, c.calls[n], 1 + n) : n \in DOMAIN c.calls}
OutputOf(c) == ItemOf("output", c, c.id, c.nth)

\* Mutant: the narration of a turn after its calls.
TextLast(c, thinking) ==
  CallItems(c) \cup (IF thinking THEN {ItemOf("reasoning", c, NoId, 0)} ELSE {})
    \cup {TextOf([c EXCEPT !.half = 1]) : n \in c.text}

\* A turn with calls: reasoning for the families that want it back, text if there is
\* any, then the calls.
CallTurn(c, thinking) ==
  CallItems(c) \cup (IF thinking THEN {ItemOf("reasoning", c, NoId, 0)} ELSE {})
    \cup {TextOf(c) : n \in c.text}

\* _responses_input_from_messages, a message
ToInput(c, thinking) ==
  CASE c.role = "tool" -> {OutputOf(c)}
    [] c.role = "assistant" /\ DOMAIN c.calls # {} -> CallTurn(c, thinking)
    [] OTHER -> {TextOf(c)}

\* The same message at /chat/completions, spelled out.
ToChatItems(c) ==
  IF c.role = "tool" THEN {OutputOf(c)}
  ELSE CallItems(c) \cup {TextOf(c) : n \in c.text}

\* A request, to one of the candidates of its route.
SendToResponses(thinking) ==
  /\ turn = "gateway"
  /\ sent' = UNION {ToInput(c, thinking) : c \in Chat}
  /\ api' = "responses" /\ turn' = "provider"
  /\ UNCHANGED <<spoken, stopped, dropped>>

SendToChat ==
  /\ turn = "gateway"
  /\ sent' = UNION {ToChatItems(c) : c \in Chat}
  /\ api' = "chat" /\ turn' = "provider"
  /\ UNCHANGED <<spoken, stopped, dropped>>

\* _responses_to_chat: an id, or the number of the calls before it.
CallIdsOf(out) ==
  [n \in PlacesOf(out, "call") |->
     IF out[n].id = NoId THEN Cardinality({k \in PlacesOf(out, "call") : k < n}) ELSE out[n].id]

HasItem(out, kind) == PlacesOf(out, kind) # {}

\* _codex_chat_is_empty
IsEmptyReply(out) == ~HasItem(out, "text") /\ ~HasItem(out, "call") /\ ~HasItem(out, "reasoning")

FinishOf(out, status) ==
  IF HasItem(out, "call") THEN "tool_calls" ELSE IF status = "incomplete" THEN "length" ELSE "stop"

StopFor(finish) ==
  CASE finish = "tool_calls" -> "tool_use"
    [] finish = "length" -> "max_tokens"
    [] OTHER -> "end_turn"

\* openai_to_anthropic: the text, the calls; reasoning is not told.  There is always a
\* block.
ToAnthropic(text, calls) ==
  [n \in DOMAIN calls \cup (IF text \/ DOMAIN calls = {} THEN {0} ELSE {}) |->
     IF n \in DOMAIN calls THEN [kind |-> "tool_use", id |-> calls[n]]
     ELSE Plain(IF text THEN "text" ELSE "blank")]

Hear(text, calls, finish) ==
  /\ Say("assistant", ToAnthropic(text, calls))
  /\ stopped' = StopFor(finish)
  /\ turn' = "client"
  /\ UNCHANGED <<api, sent, dropped>>

AnswerOfResponses(out, status) ==
  /\ turn = "provider" /\ api = "responses"
  /\ ~IsEmptyReply(out)
  /\ Hear(HasItem(out, "text"), CallIdsOf(out), FinishOf(out, status))

\* A provider of chat completions says itself why it stopped.
AnswerOfChat(text, calls, finish) ==
  /\ turn = "provider" /\ api = "chat"
  /\ Hear(text, calls, finish)

\* An error, or an empty reply, which is one: the next candidate, or the client again.
NotAnswered ==
  /\ turn = "provider"
  /\ turn' = "gateway"
  /\ UNCHANGED <<spoken, api, sent, stopped, dropped>>

TranscriptNext ==
  \/ AskAnew
  \/ \E order \in ResultOrders, remarks \in Remarks : ReturnResults(order, remarks)
  \/ \E thinking \in BOOLEAN : SendToResponses(thinking)
  \/ SendToChat
  \/ \E out \in Outputs, status \in {"completed", "incomplete"} : AnswerOfResponses(out, status)
  \/ \E text \in BOOLEAN, calls \in ChatCalls, finish \in {"stop", "tool_calls", "length"} :
       AnswerOfChat(text, calls, finish)
  \/ NotAnswered

TranscriptSpec == TranscriptInit /\ [][TranscriptNext]_transcriptVars

-----------------------------------------------------------------------------
(* Properties *)

BlockKinds == {"text", "image", "blank", "tool_use", "tool_result"}

\* Type invariant.
TranscriptTypeOK ==
  /\ \A k \in 1..Len(spoken) :
       /\ spoken[k].role \in {"user", "assistant"}
       /\ DOMAIN spoken[k].blocks \subseteq 0..(MaxItems + 1)
       /\ \A n \in DOMAIN spoken[k].blocks :
            spoken[k].blocks[n] \in [kind : BlockKinds, id : Ids \cup {NoId}]
  /\ turn \in {"client", "gateway", "provider"}
  /\ api \in {"none", "chat", "responses"}
  /\ sent \subseteq [kind : {"text", "reasoning", "call", "output"}, id : Ids \cup {NoId},
                     at : 1..Len(spoken), half : {0, 1}, nth : Nat]
  /\ stopped \in Stops
  /\ dropped \subseteq 1..Len(spoken)

Before(x, y) ==
  \/ x.at < y.at
  \/ x.at = y.at /\ x.half < y.half
  \/ x.at = y.at /\ x.half = y.half /\ x.nth < y.nth

\* Of the items nothing but calls and results is between the two.
Together(items, x, y) ==
  /\ Before(x, y)
  /\ \A z \in items : Before(x, z) /\ Before(z, y) => z.kind \in {"call", "output"}

\* Through both conversions every result follows the call it answers, and every call
\* the client has answered is followed by its result, with nothing but calls and
\* results in between: whatever the client puts around the results, whichever ids the
\* calls have, in every later request, to either endpoint.  A provider refuses the
\* whole conversation otherwise (_responses_input_from_messages,
\* _tool_result_to_openai_message).
PairsSurvive ==
  /\ \A y \in sent : y.kind = "output" =>
       \E x \in sent : x.kind = "call" /\ x.id = y.id /\ Together(sent, x, y)
  /\ \A x \in sent : x.kind = "call" /\ x.at \notin dropped =>
       \E y \in sent : y.kind = "output" /\ y.id = x.id /\ Together(sent, x, y)
=============================================================================
