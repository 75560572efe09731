------------------------- MODULE ThoughtSignatures -------------------------
(***************************************************************************)
(* Gemini signs its tool calls and wants the signatures back when a client *)
(* replays the turn; the clients drop them.  Each worker of the gateway    *)
(* keeps the signatures it has seen in two bounded dictionaries, by id and *)
(* by function and arguments, and in a table all workers share.  A replay  *)
(* may come to another worker, with an id of the client's own making or    *)
(* with none, with the arguments spelled differently, or after a restart.  *)
(* Calls without an id share the empty one.                                *)
(***************************************************************************)
EXTENDS Integers, FiniteSets, Sequences

CONSTANTS
  ToolUses,    \* tool calls of the provider; a signature is named by its call
  Functions,   \* what a call asks: function and arguments
  What,        \* of a call
  ToolOf,      \* the name of the function that is asked
  SigIds,      \* ids of calls, but the empty one
  Given,       \* the id the provider gives a call
  Blank,       \* the empty id
  Unnamed,     \* no id at all
  SigWorkers,
  Cap,         \* signatures a dictionary holds before it is halved (512)
  Newest,      \* rows whose arguments are compared parsed (50)
  MaxReplays   \* bound: replays that the table answers

ASSUME SignatureAssumption ==
  /\ What \in [ToolUses -> Functions]
  /\ Given \in [ToolUses -> SigIds \cup {Blank, Unnamed}]
  /\ Blank \notin SigIds /\ Unnamed \notin SigIds \cup {Blank}
  /\ Cap \in Nat \ {0} /\ Newest \in Nat /\ MaxReplays \in Nat

VARIABLES
  byId,      \* _thought_signatures of a worker: [key, sig], oldest insertion first
  byFn,      \* _thought_signatures_by_fn, likewise
  table,     \* calls whose rows are in thought_signatures
  seen,      \* calls the provider has made, in the order of created_at
  replays,   \* replays the table has answered
  filed,     \* history: what a signature put under an id was given for, <<id, function>>
  strayed    \* history: keys of byFn of a worker that a replay with an astray id filled

sigVars == <<byId, byFn, table, seen, replays, filed, strayed>>

\* A call's function and arguments, as the provider spelled them or otherwise
Spelled(c, same) == <<What[c], same>>

\* The id of the row of a call
RowId(c) == IF Given[c] = Unnamed THEN Blank ELSE Given[c]

Seen == {seen[i] : i \in 1..Len(seen)}

\* An id under which something else was filed than a call asks
Astray(c, id) == \E f \in Functions \ {What[c]} : <<id, f>> \in filed

SigInit ==
  /\ byId = [w \in SigWorkers |-> <<>>]
  /\ byFn = [w \in SigWorkers |-> <<>>]
  /\ table = {}
  /\ seen = <<>>
  /\ replays = 0
  /\ filed = {}
  /\ strayed = [w \in SigWorkers |-> {}]

Has(dict, key) == \E i \in 1..Len(dict) : dict[i].key = key
At(dict, key) ==
  {dict[i].sig : i \in {j \in 1..Len(dict) : dict[j].key = key}}

\* An assignment to a key that is there keeps its place.
Put(dict, k, s) ==
  IF Has(dict, k)
  THEN [i \in 1..Len(dict) |->
          IF dict[i].key = k THEN [dict[i] EXCEPT !.sig = s] ELSE dict[i]]
  ELSE Append(dict, [key |-> k, sig |-> s])

Half(dict) ==
  LET gone == IF Len(dict) > Cap \div 2 THEN Len(dict) - Cap \div 2 ELSE 0
  IN  SubSeq(dict, gone + 1, Len(dict))

\* The table with the row of a call, which takes the place of one with the same key
WithRow(c) ==
  {d \in table : RowId(d) # RowId(c) \/ What[d] # What[c]} \cup {c}

\* _capture_thought_signatures, for a stream after _reassemble_and_capture.  The row
\* is written if the database allows (_persist_signature).
Capture(w, c, persisted) ==
  LET ids == IF Given[c] = Unnamed THEN byId[w] ELSE Put(byId[w], Given[c], c)
      fns == Put(byFn[w], Spelled(c, TRUE), c)
      full == Len(ids) > Cap \/ Len(fns) > Cap
  IN
  /\ c \notin Seen
  /\ seen' = Append(seen, c)
  /\ byId' = [byId EXCEPT ![w] = IF full THEN Half(ids) ELSE ids]
  /\ byFn' = [byFn EXCEPT ![w] = IF full THEN Half(fns) ELSE fns]
  /\ table' = IF persisted THEN WithRow(c) ELSE table
  /\ filed' = filed \cup {<<RowId(c), What[c]>>}
  /\ strayed' = [strayed EXCEPT ![w] = @ \ {Spelled(c, TRUE)}]
  /\ UNCHANGED replays

\* The newest of the rows of the calls at the positions of a set
Latest(rows) == {seen[i] : i \in {j \in rows : \A k \in rows : k <= j}}

RowsOf(f) == {i \in 1..Len(seen) : seen[i] \in table /\ What[seen[i]] = f}

\* _sig_lookup_raw: any row with the id, the empty one too, or else the newest of the
\* function and arguments as they are spelled
InTable(c, id, same) ==
  LET rows == {d \in table : RowId(d) = id} IN
  IF rows # {} THEN rows ELSE IF same THEN Latest(RowsOf(What[c])) ELSE {}

\* The newest rows of the function a call asks for
NewestRows(c) ==
  LET rows == {i \in 1..Len(seen) :
                 seen[i] \in table /\ ToolOf[What[seen[i]]] = ToolOf[What[c]]}
  IN  {i \in rows : Cardinality({j \in rows : j > i}) < Newest}

\* _sig_lookup_json: by the parsed arguments
InParsed(c) == Latest(RowsOf(What[c]) \cap NewestRows(c))

\* Mutant: only the memory is asked, as it was before the signatures were stored.
Memory(c, id, same) == {}

Stored(c, id, same) ==
  IF InTable(c, id, same) # {} THEN InTable(c, id, same) ELSE InParsed(c)

\* The dictionaries' part of _lookup_signature; the empty id is not asked for here.
Remembered(w, c, id, same) ==
  IF id # Blank /\ Has(byId[w], id) THEN At(byId[w], id)
  ELSE At(byFn[w], Spelled(c, same))

\* The signatures a replayed call may be sent with, at most one
SentWith(w, c, id, same) ==
  IF Remembered(w, c, id, same) # {} THEN Remembered(w, c, id, same)
  ELSE Stored(c, id, same)

\* _restore_thought_signatures.  What the table had goes into both dictionaries.
Replay(w, c, id, same) ==
  /\ c \in Seen /\ replays < MaxReplays
  /\ Remembered(w, c, id, same) = {}
  /\ \E found \in Stored(c, id, same) :
       /\ byId' = [byId EXCEPT ![w] = IF id = Blank THEN @ ELSE Put(@, id, found)]
       /\ byFn' = [byFn EXCEPT ![w] = Put(@, Spelled(c, same), found)]
       /\ filed' = filed \cup {<<id, What[found]>>}
  /\ strayed' = IF Astray(c, id)
                THEN [strayed EXCEPT ![w] = @ \cup {Spelled(c, same)}] ELSE strayed
  /\ replays' = replays + 1
  /\ UNCHANGED <<table, seen>>

SigRestart(w) ==
  /\ byId' = [byId EXCEPT ![w] = <<>>]
  /\ byFn' = [byFn EXCEPT ![w] = <<>>]
  /\ strayed' = [strayed EXCEPT ![w] = {}]
  /\ UNCHANGED <<table, seen, replays, filed>>

SigNext ==
  \/ \E w \in SigWorkers, c \in ToolUses, b \in BOOLEAN : Capture(w, c, b)
  \/ \E w \in SigWorkers, c \in ToolUses, id \in SigIds \cup {Blank}, same \in BOOLEAN :
       Replay(w, c, id, same)
  \/ \E w \in SigWorkers : SigRestart(w)

SigSpec == SigInit /\ [][SigNext]_sigVars

-----------------------------------------------------------------------------
(* Properties *)

\* Type invariant: the dictionaries map each key once.
SigTypeOK ==
  /\ \A w \in SigWorkers :
       /\ byId[w] \in Seq([key : SigIds \cup {Blank}, sig : ToolUses])
       /\ byFn[w] \in Seq([key : Functions \X BOOLEAN, sig : ToolUses])
       /\ \A i, j \in 1..Len(byId[w]) : byId[w][i].key = byId[w][j].key => i = j
       /\ \A i, j \in 1..Len(byFn[w]) : byFn[w][i].key = byFn[w][j].key => i = j
       /\ strayed[w] \subseteq Functions \X BOOLEAN
  /\ replays \in 0..MaxReplays /\ table \subseteq Seen /\ Seen \subseteq ToolUses
  /\ filed \subseteq (SigIds \cup {Blank}) \X Functions

\* Whichever worker, restart or eviction came between, a replayed call goes out with a
\* signature as soon as the table has a row of its function and arguments, if it comes
\* with that row's id or the provider's spelling.  It goes out with the signature of
\* another function or other arguments only if something else was filed under its id,
\* as happens to the empty id, or if a replay with such an id has left that signature
\* in the worker's memory, where only a capture of the same call or the worker's end
\* takes it away (_lookup_signature).
SignatureComesBack ==
  \A w \in SigWorkers, c \in Seen, id \in SigIds \cup {Blank}, same \in BOOLEAN :
    LET sigs == SentWith(w, c, id, same) IN
    /\ (\E d \in table : What[d] = What[c] /\ (same \/ RowId(d) = id)) => sigs # {}
    /\ \A sig \in sigs :
         What[sig] = What[c] \/ Astray(c, id) \/ Spelled(c, same) \in strayed[w]
=============================================================================
