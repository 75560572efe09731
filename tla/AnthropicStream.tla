-------------------------- MODULE AnthropicStream --------------------------
(***************************************************************************)
(* Streams of the Messages API: /v1/messages translates the chunks of a    *)
(* chat completion one by one.  The endpoint opens and closes the text     *)
(* block, number 0, itself; the adapter opens a block per tool call and    *)
(* keeps, for all streams of the worker, which ones it has to close.       *)
(***************************************************************************)
EXTENDS Integers, FiniteSets

CONSTANTS
  Messages,   \* message ids of the streams
  MaxTools,   \* bound: tool calls of an answer
  MaxFrames   \* bound: times a client is told of one block

Text == 0
Blocks == 0..MaxTools
Reasons == {"stop", "tool_calls", "length"}
NoReason == "none"

ASSUME AnthropicAssumption == MaxTools \in Nat \ {0} /\ MaxFrames \in Nat \ {0}

VARIABLES
  upstream,    \* whether the provider numbers the tool calls of a stream: chat
               \* completions do, what is made of /responses does not
  streaming,   \* where a stream is
  openBlocks,  \* _open_block_indexes
  begun,       \* tool calls the provider has begun
  lastEvent,   \* the finish reason of the last chunk
  said,        \* history: the finish reason the provider gave
  trailed,     \* history: a chunk came after it
  starts,      \* history: content_block_start frames the client got, by block
  stops,       \* history: content_block_stop frames
  astray,      \* history: a delta for a block that was not open
  told         \* history: the stop reason of message_delta

anthropicVars == <<upstream, streaming, openBlocks, begun, lastEvent, said, trailed,
                   starts, stops, astray, told>>

NoFrames == [b \in Blocks |-> 0]

AnthropicInit ==
  /\ upstream \in [Messages -> {"numbered", "unnumbered"}]
  /\ streaming = [s \in Messages |-> "no"]
  /\ openBlocks = [s \in Messages |-> {}]
  /\ begun = [s \in Messages |-> {}]
  /\ lastEvent = [s \in Messages |-> NoReason]
  /\ said = [s \in Messages |-> NoReason]
  /\ trailed = [s \in Messages |-> FALSE]
  /\ starts = [s \in Messages |-> NoFrames]
  /\ stops = [s \in Messages |-> NoFrames]
  /\ astray = [s \in Messages |-> FALSE]
  /\ told = [s \in Messages |-> NoReason]

IsOpenFor(s, b) == starts[s][b] > stops[s][b]

\* message_start and the text block, before the upstream is read
BeginMessage(s) ==
  /\ streaming[s] = "no"
  /\ streaming' = [streaming EXCEPT ![s] = "yes"]
  /\ starts' = [starts EXCEPT ![s][Text] = 1]
  /\ UNCHANGED <<upstream, openBlocks, begun, lastEvent, said, trailed, stops, astray,
                 told>>

\* A chunk that was read before the provider gave its reason
Chunked(s) ==
  /\ streaming[s] = "yes" /\ said[s] = NoReason
  /\ lastEvent' = [lastEvent EXCEPT ![s] = NoReason]
  /\ UNCHANGED <<upstream, streaming, said, trailed, stops, told>>

TextDelta(s) ==
  /\ Chunked(s)
  /\ astray' = [astray EXCEPT ![s] = @ \/ ~ IsOpenFor(s, Text)]
  /\ UNCHANGED <<openBlocks, begun, starts>>

\* Mutant: the block is announced and not written down.
Unrecorded(s, b) == openBlocks[s]

Recorded(s, b) == openBlocks[s] \cup {b}

\* A delta of a tool call; one with an id or a name announces its block.
ToolDelta(s, b, announces) ==
  /\ Chunked(s)
  /\ begun' = [begun EXCEPT ![s] = @ \cup {b}]
  /\ openBlocks' = IF announces THEN [openBlocks EXCEPT ![s] = Recorded(s, b)]
                   ELSE openBlocks
  /\ starts' = IF announces THEN [starts EXCEPT ![s][b] = @ + 1] ELSE starts
  /\ astray' = [astray EXCEPT ![s] = @ \/ ~ (announces \/ IsOpenFor(s, b))]

\* Chat completions name a call in its first delta, and number them.
NumberedCall(s, b) ==
  /\ upstream[s] = "numbered"
  /\ ToolDelta(s, b, b \notin begun[s])

\* _stream_responses gives every delta an id, and none a number but 0: the first
\* block it is for all of them.
UnnumberedCall(s) ==
  /\ upstream[s] = "unnumbered" /\ starts[s][1] < MaxFrames
  /\ ToolDelta(s, 1, TRUE)

GiveReason(s, reason) ==
  /\ streaming[s] = "yes" /\ said[s] = NoReason
  /\ said' = [said EXCEPT ![s] = reason]
  /\ lastEvent' = [lastEvent EXCEPT ![s] = reason]
  /\ UNCHANGED <<upstream, streaming, openBlocks, begun, trailed, starts, stops, astray,
                 told>>

\* The usage in a chunk of its own, without choices
Trail(s) ==
  /\ streaming[s] = "yes" /\ said[s] # NoReason /\ upstream[s] = "numbered"
  /\ lastEvent' = [lastEvent EXCEPT ![s] = NoReason]
  /\ trailed' = [trailed EXCEPT ![s] = TRUE]
  /\ UNCHANGED <<upstream, streaming, openBlocks, begun, said, starts, stops, astray, told>>

ToClose(s) == openBlocks[s]

StopReason(reason) ==
  CASE reason = "tool_calls" -> "tool_use" [] reason = "length" -> "max_tokens"
    [] OTHER -> "end_turn"

\* _anthropic_stream: "hold on to the last real event"
LastReal(s) == lastEvent[s]

\* The upstream ends, with a reason or without: the endpoint closes the text block,
\* the adapter its own, then message_delta and message_stop.
EndMessage(s) ==
  /\ streaming[s] = "yes"
  /\ streaming' = [streaming EXCEPT ![s] = "stopped"]
  /\ stops' = [stops EXCEPT ![s] =
       [b \in Blocks |-> @[b] + (IF b = Text THEN 1 ELSE 0)
                              + (IF b \in ToClose(s) THEN 1 ELSE 0)]]
  /\ openBlocks' = [openBlocks EXCEPT ![s] = {}]
  /\ told' = [told EXCEPT ![s] = StopReason(LastReal(s))]
  /\ UNCHANGED <<upstream, begun, lastEvent, said, trailed, starts, astray>>

\* The upstream breaks: event: error, and no stop of anything.  Or the client goes:
\* the generator is closed where it is.  Nobody takes the blocks out of the table.
BreakMessage(s, how) ==
  /\ streaming[s] = "yes"
  /\ streaming' = [streaming EXCEPT ![s] = how]
  /\ UNCHANGED <<upstream, openBlocks, begun, lastEvent, said, trailed, starts, stops,
                 astray, told>>

AnthropicNext ==
  \E s \in Messages :
    \/ BeginMessage(s) \/ TextDelta(s) \/ Trail(s) \/ EndMessage(s) \/ UnnumberedCall(s)
    \/ \E b \in Blocks \ {Text} : NumberedCall(s, b)
    \/ \E reason \in Reasons : GiveReason(s, reason)
    \/ \E how \in {"error", "gone"} : BreakMessage(s, how)

AnthropicSpec == AnthropicInit /\ [][AnthropicNext]_anthropicVars

-----------------------------------------------------------------------------
(* Properties *)

\* Type invariant.
AnthropicTypeOK ==
  /\ upstream \in [Messages -> {"numbered", "unnumbered"}]
  /\ streaming \in [Messages -> {"no", "yes", "stopped", "error", "gone"}]
  /\ openBlocks \in [Messages -> SUBSET Blocks] /\ begun \in [Messages -> SUBSET Blocks]
  /\ lastEvent \in [Messages -> Reasons \cup {NoReason}]
  /\ said \in [Messages -> Reasons \cup {NoReason}]
  /\ trailed \in [Messages -> BOOLEAN] /\ astray \in [Messages -> BOOLEAN]
  /\ starts \in [Messages -> [Blocks -> Nat]] /\ stops \in [Messages -> [Blocks -> Nat]]
  /\ told \in [Messages -> {NoReason, "tool_use", "max_tokens", "end_turn"}]

\* A client can parse what it gets: no delta outside an open block, no stop of a
\* block that is not open, and before message_stop one stop for every block it was
\* told of, whatever other streams do with the table of the adapter; a block is
\* announced once, when the provider numbers its calls.  The turn is closed with the
\* reason the provider ended it for, unless a chunk came after the one that gave it: a
\* turn that asks for a tool does not end the session (openai_sse_to_anthropic_sse,
\* _anthropic_stream).
FramesParse ==
  \A s \in Messages :
    /\ ~ astray[s]
    /\ \A b \in Blocks :
         /\ stops[s][b] = IF streaming[s] = "stopped" /\ starts[s][b] > 0 THEN 1 ELSE 0
         /\ upstream[s] = "numbered" => starts[s][b] <= 1
    /\ streaming[s] = "stopped" /\ ~ trailed[s] => told[s] = StopReason(said[s])
=============================================================================
