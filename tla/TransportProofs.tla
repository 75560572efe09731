------------------------------ MODULE TransportProofs ------------------------------
(***************************************************************************)
(* Theorems about the way to a provider and back: the token pair of Codex, *)
(* the attempts and the stream of one call, the registry of connections,   *)
(* the frames an Anthropic client is sent, the thought signatures kept     *)
(* between two turns, the names of tools, and the conversation as the      *)
(* providers are sent it. The components share nothing: each part below    *)
(* has an inductive invariant and theorems of its own.                     *)
(***************************************************************************)
EXTENDS CodexTokens, UpstreamCall, Connections, AnthropicStream, ThoughtSignatures, ToolNames, Transcripts,
        NatSumLemmas, FiniteSetTheorems, SequenceTheorems

-----------------------------------------------------------------------------
(* CodexTokens *)

\* A worker or the console has a pair in hand only if there is a row.
RowWhenBusy ==
  \A p \in Refreshers : phase[p] \in {"asking", "granted", "loading"} => stored # NoPair

\* Refresh tokens are of the pairs that were minted.
TokensMinted ==
  /\ \A t \in redeemed : t <= minted
  /\ stored # NoPair => stored.refresh <= minted
  /\ \A p \in Writers : phase[p] \in {"asking", "granted"} => got[p].refresh <= minted

\* Where the server rotates, the token a writer was granted is its own: nobody has
\* redeemed it, and neither the row nor another writer has it.
OwnToken ==
  IF rotates
  THEN \A p \in Writers : phase[p] = "granted" =>
         /\ got[p].refresh \notin redeemed
         /\ stored # NoPair => stored.refresh # got[p].refresh
         /\ \A q \in Writers \ {p} :
              phase[q] \in {"asking", "granted"} => got[q].refresh # got[p].refresh
  ELSE redeemed = {}

\* The successor of a spent token is with a worker or with the console, not with a login.
HeirInHand ==
  stored # NoPair /\ stored.refresh \in redeemed =>
    mislaid \/ \E p \in Refreshers : phase[p] = "granted"

CodexInv == CodexTypeOK /\ RowWhenBusy /\ TokensMinted /\ OwnToken /\ HeirInHand

LEMMA CodexInitOK == CodexInit => CodexInv
<1> SUFFICES ASSUME CodexInit PROVE CodexInv
  OBVIOUS
<1>1. CodexTypeOK
  <2>1. /\ phase \in [Writers -> {"down", "idle", "asking", "granted", "loading"}]
        /\ \A p \in Writers : phase[p] \in {"down", "idle"}
    BY DEF CodexInit
  <2>2. /\ minted \in 0..MaxPairs /\ carried \in [Workers -> 0..MaxPairs]
    BY CodexAssumption DEF CodexInit
  <2>3. \A w \in Workers : w \in Writers
    BY DEF Writers, Refreshers
  <2> QED
    BY <2>1, <2>2, <2>3 DEF CodexInit, CodexTypeOK
<1>2. RowWhenBusy /\ TokensMinted /\ OwnToken /\ HeirInHand
  BY DEF CodexInit, RowWhenBusy, TokensMinted, OwnToken, HeirInHand, Refreshers, Writers
<1> QED
  BY <1>1, <1>2 DEF CodexInv

LEMMA StartWorkerStep ==
  ASSUME CodexInv, NEW w \in Workers, StartWorker(w)
  PROVE  CodexInv'
<1> USE DEF CodexInv
<1>1. CodexTypeOK'
  BY CodexAssumption DEF StartWorker, StoredAccess, CodexTypeOK, RowWhenBusy, Refreshers, Writers, PairIds, Pairs
<1>2. RowWhenBusy'
  BY CodexAssumption DEF StartWorker, StoredAccess, CodexTypeOK, RowWhenBusy, Refreshers, Writers, PairIds, Pairs
<1>3. TokensMinted'
  BY CodexAssumption DEF StartWorker, StoredAccess, CodexTypeOK, RowWhenBusy, TokensMinted, Refreshers, Writers, PairIds, Pairs
<1>4. OwnToken'
  BY CodexAssumption DEF StartWorker, StoredAccess, CodexTypeOK, RowWhenBusy, TokensMinted, OwnToken, Refreshers, Writers, PairIds, Pairs
<1>5. HeirInHand'
  BY CodexAssumption DEF StartWorker, StoredAccess, CodexTypeOK, RowWhenBusy, TokensMinted, OwnToken, HeirInHand, Refreshers, Writers, PairIds, Pairs
<1> QED
  BY <1>1, <1>2, <1>3, <1>4, <1>5

LEMMA ReloadStep ==
  ASSUME CodexInv, NEW w \in Workers, Reload(w)
  PROVE  CodexInv'
<1> USE DEF CodexInv
<1>1. CodexTypeOK'
  BY CodexAssumption DEF Reload, StoredAccess, CodexTypeOK, RowWhenBusy, Refreshers, Writers, PairIds, Pairs
<1>2. RowWhenBusy'
  BY CodexAssumption DEF Reload, StoredAccess, CodexTypeOK, RowWhenBusy, Refreshers, Writers, PairIds, Pairs
<1>3. TokensMinted'
  BY CodexAssumption DEF Reload, StoredAccess, CodexTypeOK, RowWhenBusy, TokensMinted, Refreshers, Writers, PairIds, Pairs
<1>4. OwnToken'
  BY CodexAssumption DEF Reload, StoredAccess, CodexTypeOK, RowWhenBusy, TokensMinted, OwnToken, Refreshers, Writers, PairIds, Pairs
<1>5. HeirInHand'
  BY CodexAssumption DEF Reload, StoredAccess, CodexTypeOK, RowWhenBusy, TokensMinted, OwnToken, HeirInHand, Refreshers, Writers, PairIds, Pairs
<1> QED
  BY <1>1, <1>2, <1>3, <1>4, <1>5

LEMMA ResolveFreshStep ==
  ASSUME CodexInv, NEW w \in Workers, ResolveFresh(w)
  PROVE  CodexInv'
<1> USE DEF CodexInv
<1>1. CodexTypeOK'
  BY CodexAssumption DEF ResolveFresh, CodexTypeOK, RowWhenBusy, Refreshers, Writers, PairIds, Pairs
<1>2. RowWhenBusy'
  BY CodexAssumption DEF ResolveFresh, CodexTypeOK, RowWhenBusy, Refreshers, Writers, PairIds, Pairs
<1>3. TokensMinted'
  BY CodexAssumption DEF ResolveFresh, CodexTypeOK, RowWhenBusy, TokensMinted, Refreshers, Writers, PairIds, Pairs
<1>4. OwnToken'
  BY CodexAssumption DEF ResolveFresh, CodexTypeOK, RowWhenBusy, TokensMinted, OwnToken, Refreshers, Writers, PairIds, Pairs
<1>5. HeirInHand'
  BY CodexAssumption DEF ResolveFresh, CodexTypeOK, RowWhenBusy, TokensMinted, OwnToken, HeirInHand, Refreshers, Writers, PairIds, Pairs
<1> QED
  BY <1>1, <1>2, <1>3, <1>4, <1>5

LEMMA ResolveAgingStep ==
  ASSUME CodexInv, NEW w \in Workers, ResolveAging(w)
  PROVE  CodexInv'
<1> USE DEF CodexInv
<1>1. CodexTypeOK'
  BY CodexAssumption DEF ResolveAging, Ask, CodexTypeOK, RowWhenBusy, Refreshers, Writers, PairIds, Pairs
<1>2. RowWhenBusy'
  BY CodexAssumption DEF ResolveAging, Ask, CodexTypeOK, RowWhenBusy, Refreshers, Writers, PairIds, Pairs
<1>3. TokensMinted'
  BY CodexAssumption DEF ResolveAging, Ask, CodexTypeOK, RowWhenBusy, TokensMinted, Refreshers, Writers, PairIds, Pairs
<1>4. OwnToken'
  BY CodexAssumption DEF ResolveAging, Ask, CodexTypeOK, RowWhenBusy, TokensMinted, OwnToken, Refreshers, Writers, PairIds, Pairs
<1>5. HeirInHand'
  BY CodexAssumption DEF ResolveAging, Ask, CodexTypeOK, RowWhenBusy, TokensMinted, OwnToken, HeirInHand, Refreshers, Writers, PairIds, Pairs
<1> QED
  BY <1>1, <1>2, <1>3, <1>4, <1>5

LEMMA LoadAgainStep ==
  ASSUME CodexInv, NEW w \in Workers, LoadAgain(w)
  PROVE  CodexInv'
<1> USE DEF CodexInv
<1>1. CodexTypeOK'
  BY CodexAssumption DEF LoadAgain, Reread, CodexTypeOK, RowWhenBusy, Refreshers, Writers, PairIds, Pairs
<1>2. RowWhenBusy'
  BY CodexAssumption DEF LoadAgain, Reread, CodexTypeOK, RowWhenBusy, Refreshers, Writers, PairIds, Pairs
<1>3. TokensMinted'
  BY CodexAssumption DEF LoadAgain, Reread, CodexTypeOK, RowWhenBusy, TokensMinted, Refreshers, Writers, PairIds, Pairs
<1>4. OwnToken'
  BY CodexAssumption DEF LoadAgain, Reread, CodexTypeOK, RowWhenBusy, TokensMinted, OwnToken, Refreshers, Writers, PairIds, Pairs
<1>5. HeirInHand'
  BY CodexAssumption DEF LoadAgain, Reread, CodexTypeOK, RowWhenBusy, TokensMinted, OwnToken, HeirInHand, Refreshers, Writers, PairIds, Pairs
<1> QED
  BY <1>1, <1>2, <1>3, <1>4, <1>5

LEMMA RefreshByHandStep ==
  ASSUME CodexInv, NEW c \in Consoles, RefreshByHand(c)
  PROVE  CodexInv'
<1> USE DEF CodexInv
<1>1. CodexTypeOK'
  BY CodexAssumption DEF RefreshByHand, Ask, CodexTypeOK, RowWhenBusy, Refreshers, Writers, PairIds, Pairs
<1>2. RowWhenBusy'
  BY CodexAssumption DEF RefreshByHand, Ask, CodexTypeOK, RowWhenBusy, Refreshers, Writers, PairIds, Pairs
<1>3. TokensMinted'
  BY CodexAssumption DEF RefreshByHand, Ask, CodexTypeOK, RowWhenBusy, TokensMinted, Refreshers, Writers, PairIds, Pairs
<1>4. OwnToken'
  BY CodexAssumption DEF RefreshByHand, Ask, CodexTypeOK, RowWhenBusy, TokensMinted, OwnToken, Refreshers, Writers, PairIds, Pairs
<1>5. HeirInHand'
  BY CodexAssumption DEF RefreshByHand, Ask, CodexTypeOK, RowWhenBusy, TokensMinted, OwnToken, HeirInHand, Refreshers, Writers, PairIds, Pairs
<1> QED
  BY <1>1, <1>2, <1>3, <1>4, <1>5

LEMMA GrantedStep ==
  ASSUME CodexInv, NEW p \in Refreshers, Granted(p)
  PROVE  CodexInv'
<1> USE DEF CodexInv
<1>1. CodexTypeOK'
  <2> DEFINE pair == [access |-> minted + 1, refresh |-> IF rotates THEN minted + 1 ELSE got[p].refresh]
  <2>1. p \in Writers /\ phase[p] = "asking" /\ got[p] \in Pairs /\ minted \in Nat /\ minted < MaxPairs
    BY DEF Granted, CodexTypeOK, Writers
  <2>2. minted + 1 \in PairIds /\ minted + 1 \in 0..MaxPairs
    BY <2>1, CodexAssumption DEF PairIds
  <2>3. got[p].refresh \in PairIds
    BY <2>1 DEF Pairs
  <2>4. pair \in Pairs
    BY <2>2, <2>3 DEF Pairs
  <2>5. pair # NoPair
    BY <2>4, CodexAssumption
  <2>6. got' = [got EXCEPT ![p] = pair]
    BY DEF Granted
  <2>7. got' \in [Writers -> Pairs \cup {NoPair}] /\ redeemed' \subseteq PairIds
    BY <2>3, <2>4, <2>6 DEF Granted, CodexTypeOK
  <2>8. \A q \in Writers : phase'[q] \in {"asking", "granted"} => got'[q] # NoPair
    <3> HIDE DEF pair
    <3>1. \A q \in Writers : q # p => got'[q] = got[q] /\ phase'[q] = phase[q]
      BY <2>6 DEF Granted, CodexTypeOK
    <3>2. got'[p] = pair
      BY <2>1, <2>6 DEF CodexTypeOK
    <3> QED
      BY <2>5, <3>1, <3>2 DEF CodexTypeOK
  <2> HIDE DEF pair
  <2> QED
    BY <2>1, <2>2, <2>7, <2>8, CodexAssumption DEF Granted, CodexTypeOK, Writers, Refreshers
<1>2. RowWhenBusy'
  BY CodexAssumption DEF Granted, CodexTypeOK, RowWhenBusy, Refreshers, Writers, PairIds, Pairs
<1>3. TokensMinted'
  BY CodexAssumption DEF Granted, CodexTypeOK, RowWhenBusy, TokensMinted, Refreshers, Writers, PairIds, Pairs
<1>4. OwnToken'
  <2>1. CASE ~rotates
    BY <2>1 DEF Granted, OwnToken
  <2>2. CASE rotates
    <3> SUFFICES ASSUME NEW r \in Writers, phase'[r] = "granted"
                 PROVE  /\ got'[r].refresh \notin redeemed'
                        /\ stored # NoPair => stored.refresh # got'[r].refresh
                        /\ \A q \in Writers \ {r} :
                             phase'[q] \in {"asking", "granted"} => got'[q].refresh # got'[r].refresh
      BY <2>2 DEF Granted, OwnToken
    <3>1. /\ p \in Writers /\ minted \in Nat
          /\ got'[p].refresh = minted + 1 /\ stored' = stored
          /\ redeemed' = redeemed \cup {got[p].refresh}
          /\ \A q \in Writers \ {p} : got'[q] = got[q] /\ phase'[q] = phase[q]
      BY <2>2, CodexAssumption DEF Granted, CodexTypeOK, Writers
    <3>2. \A t \in redeemed \cup {got[p].refresh} : t \in Nat /\ t <= minted
      BY <3>1, CodexAssumption DEF Granted, CodexTypeOK, TokensMinted, Pairs, PairIds
    <3>3. \A q \in Writers : phase[q] \in {"asking", "granted"} => got[q].refresh \in Nat /\ got[q].refresh <= minted
      BY <3>1, CodexAssumption DEF CodexTypeOK, TokensMinted, Pairs, PairIds
    <3>4. stored # NoPair => stored.refresh \in Nat /\ stored.refresh <= minted
      BY <3>1, CodexAssumption DEF CodexTypeOK, TokensMinted, Pairs, PairIds
    <3>5. CASE r = p
      BY <3>1, <3>2, <3>3, <3>4, <3>5
    <3>6. CASE r # p
      <4>1. phase[r] = "granted" /\ got'[r] = got[r]
        BY <3>1, <3>6
      <4>2. got[r].refresh \notin redeemed /\ got[p].refresh # got[r].refresh
        BY <2>2, <3>1, <3>6, <4>1 DEF OwnToken, Granted
      <4> QED
        BY <2>2, <3>1, <3>3, <3>6, <4>1, <4>2 DEF OwnToken
    <3> QED
      BY <3>5, <3>6
  <2> QED
    BY <2>1, <2>2 DEF CodexTypeOK
<1>5. HeirInHand'
  BY CodexAssumption DEF Granted, CodexTypeOK, RowWhenBusy, TokensMinted, OwnToken, HeirInHand, Refreshers, Writers, PairIds, Pairs
<1> QED
  BY <1>1, <1>2, <1>3, <1>4, <1>5

LEMMA RefusedStep ==
  ASSUME CodexInv, NEW p \in Refreshers, NEW taken \in BOOLEAN, Refused(p, taken)
  PROVE  CodexInv'
<1> USE DEF CodexInv
<1>1. CodexTypeOK'
  BY CodexAssumption DEF Refused, After, CodexTypeOK, RowWhenBusy, Refreshers, Writers, PairIds, Pairs
<1>2. RowWhenBusy'
  BY CodexAssumption DEF Refused, After, CodexTypeOK, RowWhenBusy, Refreshers, Writers, PairIds, Pairs
<1>3. TokensMinted'
  BY CodexAssumption DEF Refused, After, CodexTypeOK, RowWhenBusy, TokensMinted, Refreshers, Writers, PairIds, Pairs
<1>4. OwnToken'
  BY CodexAssumption DEF Refused, After, CodexTypeOK, RowWhenBusy, TokensMinted, OwnToken, Refreshers, Writers, PairIds, Pairs
<1>5. HeirInHand'
  BY CodexAssumption DEF Refused, After, CodexTypeOK, RowWhenBusy, TokensMinted, OwnToken, HeirInHand, Refreshers, Writers, PairIds, Pairs
<1> QED
  BY <1>1, <1>2, <1>3, <1>4, <1>5

LEMMA LoginStep ==
  ASSUME CodexInv, NEW l \in Logins, Login(l)
  PROVE  CodexInv'
<1> USE DEF CodexInv
<1>1. CodexTypeOK'
  BY CodexAssumption DEF Login, CodexTypeOK, RowWhenBusy, Refreshers, Writers, PairIds, Pairs
<1>2. RowWhenBusy'
  BY CodexAssumption DEF Login, CodexTypeOK, RowWhenBusy, Refreshers, Writers, PairIds, Pairs
<1>3. TokensMinted'
  BY CodexAssumption DEF Login, CodexTypeOK, RowWhenBusy, TokensMinted, Refreshers, Writers, PairIds, Pairs
<1>4. OwnToken'
  BY CodexAssumption DEF Login, CodexTypeOK, RowWhenBusy, TokensMinted, OwnToken, Refreshers, Writers, PairIds, Pairs
<1>5. HeirInHand'
  BY CodexAssumption DEF Login, CodexTypeOK, RowWhenBusy, TokensMinted, OwnToken, HeirInHand, Refreshers, Writers, PairIds, Pairs
<1> QED
  BY <1>1, <1>2, <1>3, <1>4, <1>5

LEMMA PasteTokensStep ==
  ASSUME CodexInv, PasteTokens
  PROVE  CodexInv'
<1> USE DEF CodexInv
<1>1. CodexTypeOK'
  BY CodexAssumption DEF PasteTokens, CodexTypeOK, RowWhenBusy, Refreshers, Writers, PairIds, Pairs
<1>2. RowWhenBusy'
  BY CodexAssumption DEF PasteTokens, CodexTypeOK, RowWhenBusy, Refreshers, Writers, PairIds, Pairs
<1>3. TokensMinted'
  BY CodexAssumption DEF PasteTokens, CodexTypeOK, RowWhenBusy, TokensMinted, Refreshers, Writers, PairIds, Pairs
<1>4. OwnToken'
  BY CodexAssumption DEF PasteTokens, CodexTypeOK, RowWhenBusy, TokensMinted, OwnToken, Refreshers, Writers, PairIds, Pairs
<1>5. HeirInHand'
  BY CodexAssumption DEF PasteTokens, CodexTypeOK, RowWhenBusy, TokensMinted, OwnToken, HeirInHand, Refreshers, Writers, PairIds, Pairs
<1> QED
  BY <1>1, <1>2, <1>3, <1>4, <1>5

LEMMA SavePairStep ==
  ASSUME CodexInv, NEW p \in Writers, SavePair(p)
  PROVE  CodexInv'
<1> USE DEF CodexInv
<1>1. CodexTypeOK'
  BY CodexAssumption DEF SavePair, After, ToStore, CodexTypeOK, RowWhenBusy, Refreshers, Writers, PairIds, Pairs
<1>2. RowWhenBusy'
  BY CodexAssumption DEF SavePair, After, ToStore, CodexTypeOK, RowWhenBusy, Refreshers, Writers, PairIds, Pairs
<1>3. TokensMinted'
  BY CodexAssumption DEF SavePair, After, ToStore, CodexTypeOK, RowWhenBusy, TokensMinted, Refreshers, Writers, PairIds, Pairs
<1>4. OwnToken'
  BY CodexAssumption DEF SavePair, After, ToStore, CodexTypeOK, RowWhenBusy, TokensMinted, OwnToken, Refreshers, Writers, PairIds, Pairs
<1>5. HeirInHand'
  BY CodexAssumption DEF SavePair, After, ToStore, CodexTypeOK, RowWhenBusy, TokensMinted, OwnToken, HeirInHand, Refreshers, Writers, PairIds, Pairs
<1> QED
  BY <1>1, <1>2, <1>3, <1>4, <1>5

LEMMA DieStep ==
  ASSUME CodexInv, NEW p \in Writers, Die(p)
  PROVE  CodexInv'
<1> USE DEF CodexInv
<1>1. CodexTypeOK'
  BY CodexAssumption DEF Die, CodexTypeOK, RowWhenBusy, Refreshers, Writers, PairIds, Pairs
<1>2. RowWhenBusy'
  BY CodexAssumption DEF Die, CodexTypeOK, RowWhenBusy, Refreshers, Writers, PairIds, Pairs
<1>3. TokensMinted'
  BY CodexAssumption DEF Die, CodexTypeOK, RowWhenBusy, TokensMinted, Refreshers, Writers, PairIds, Pairs
<1>4. OwnToken'
  BY CodexAssumption DEF Die, CodexTypeOK, RowWhenBusy, TokensMinted, OwnToken, Refreshers, Writers, PairIds, Pairs
<1>5. HeirInHand'
  BY CodexAssumption DEF Die, CodexTypeOK, RowWhenBusy, TokensMinted, OwnToken, HeirInHand, Refreshers, Writers, PairIds, Pairs
<1> QED
  BY <1>1, <1>2, <1>3, <1>4, <1>5

LEMMA AgeStep ==
  ASSUME CodexInv, NEW t \in PairIds, Age(t)
  PROVE  CodexInv'
<1> USE DEF CodexInv
<1>1. CodexTypeOK'
  BY CodexAssumption DEF Age, CodexTypeOK, RowWhenBusy, Refreshers, Writers, PairIds, Pairs
<1>2. RowWhenBusy'
  BY CodexAssumption DEF Age, CodexTypeOK, RowWhenBusy, Refreshers, Writers, PairIds, Pairs
<1>3. TokensMinted'
  BY CodexAssumption DEF Age, CodexTypeOK, RowWhenBusy, TokensMinted, Refreshers, Writers, PairIds, Pairs
<1>4. OwnToken'
  BY CodexAssumption DEF Age, CodexTypeOK, RowWhenBusy, TokensMinted, OwnToken, Refreshers, Writers, PairIds, Pairs
<1>5. HeirInHand'
  BY CodexAssumption DEF Age, CodexTypeOK, RowWhenBusy, TokensMinted, OwnToken, HeirInHand, Refreshers, Writers, PairIds, Pairs
<1> QED
  BY <1>1, <1>2, <1>3, <1>4, <1>5

LEMMA CodexInvariance == CodexSpec => []CodexInv
<1>1. CodexInv /\ [CodexNext]_codexVars => CodexInv'
  <2> SUFFICES ASSUME CodexInv, [CodexNext]_codexVars PROVE CodexInv'
    OBVIOUS
  <2>1. CASE UNCHANGED codexVars
    BY <2>1 DEF codexVars, CodexInv, CodexTypeOK, RowWhenBusy, TokensMinted, OwnToken, HeirInHand
  <2>2. CASE CodexNext
    BY <2>2, StartWorkerStep, ReloadStep, ResolveFreshStep, ResolveAgingStep, LoadAgainStep, RefreshByHandStep,
       GrantedStep, RefusedStep, LoginStep, PasteTokensStep, SavePairStep, DieStep, AgeStep DEF CodexNext
  <2> QED
    BY <2>1, <2>2
<1> QED
  BY CodexInitOK, <1>1, PTL DEF CodexSpec

\* The row, the pairs in hand and the registries of the workers are what they should be,
\* for any number of workers, calls of the console and sign-ins.
THEOREM CodexTypesCorrect == CodexSpec => []CodexTypeOK
<1>1. CodexInv => CodexTypeOK
  BY DEF CodexInv
<1> QED
  BY CodexInvariance, <1>1, PTL

\* Processes that refresh at the same time never make the connection unusable, however
\* many they are: whoever spends the refresh token of the row holds its successor.
THEOREM StoredUsable == CodexSpec => []StoredIsUsable
<1>1. CodexInv => StoredIsUsable
  BY DEF CodexInv, HeirInHand, StoredIsUsable, Writers
<1> QED
  BY CodexInvariance, <1>1, PTL

-----------------------------------------------------------------------------
(* UpstreamCall *)

\* The types without the size of Learned
CallTypes ==
  /\ upClock \in Nat /\ gone \subseteq Offered
  /\ learned \in Seq(Offered) /\ Len(learned) <= Learnable
  /\ stamp \in [Offered -> Nat] /\ turnedAway \in [Offered -> Int]
  /\ asked \in [Calls -> Offered \cup {NoModel}]
  /\ streams \in [Calls -> BOOLEAN]
  /\ leg \in [Calls -> Legs]
  /\ out \in [Calls -> Seq({"responses", "chat"})]
  /\ \A p \in Calls : (leg[p] = "idle") <=> (asked[p] = NoModel)

LearnedOnce == \A i, j \in 1..Len(learned) : learned[i] = learned[j] => i = j

\* What the worker remembers of a model is when it was turned away last.
StampsTrue == \A i \in 1..Len(learned) : stamp[learned[i]] = turnedAway[learned[i]]

\* What is out came from the endpoint the call is at.
OutOfLeg ==
  \A p \in Calls :
    /\ leg[p] = "idle" => out[p] = <<>>
    /\ leg[p] \in {"responses", "chat"} => \A i \in 1..Len(out[p]) : out[p][i] = leg[p]

UpInv == CallTypes /\ LearnedOnce /\ StampsTrue /\ OutOfLeg /\ NeverMixed

\* A sequence without repetition has as many members as places.
LEMMA MembersOfOnce ==
  ASSUME CallTypes, LearnedOnce
  PROVE  Cardinality(Learned) = Len(learned)
<1> DEFINE n == Len(learned)
           f == [i \in 1..n |-> learned[i]]
<1>1. n \in Nat
  BY DEF CallTypes
<1>2. f \in Bijection(1..n, Learned)
  <2>1. f \in [1..n -> Learned]
    BY DEF Learned
  <2>2. \A i, j \in 1..n : f[i] = f[j] => i = j
    BY DEF LearnedOnce
  <2>3. \A m \in Learned : \E i \in 1..n : f[i] = m
    BY DEF Learned
  <2> HIDE DEF f
  <2> QED
    BY <2>1, <2>2, <2>3 DEF Bijection, Injection, Surjection, IsInjective
<1>3. IsFiniteSet(1..n) /\ Cardinality(1..n) = n
  <2>1. 1 \in Int /\ n \in Int /\ (IF 1 > n THEN 0 ELSE n - 1 + 1) = n
    BY <1>1
  <2> HIDE DEF n
  <2> QED
    BY <2>1, FS_Interval
<1> HIDE DEF n
<1> QED
  BY <1>1, <1>2, <1>3, FS_Bijection DEF ExistsBijection, n

LEMMA UpInitOK == UpInit => UpInv
BY UpstreamAssumption DEF UpInit, UpInv, CallTypes, LearnedOnce, StampsTrue, OutOfLeg, NeverMixed, Legs

\* Dropping a model and remembering one keep a sequence of models that occur once.
LEMMA DropShape ==
  ASSUME CallTypes, LearnedOnce, NEW m \in Offered
  PROVE  /\ Drop(m) \in Seq(Offered) /\ Len(Drop(m)) <= Len(learned)
         /\ \A i, j \in 1..Len(Drop(m)) : Drop(m)[i] = Drop(m)[j] => i = j
         /\ \A i \in 1..Len(Drop(m)) : Drop(m)[i] \in Learned
<1>1. CASE ~ (m \in Learned /\ ~ Known(m))
  <2>1. Drop(m) = learned
    BY <1>1 DEF Drop
  <2>2. \A i \in 1..Len(learned) : learned[i] \in Learned
    BY DEF Learned
  <2> QED
    BY <2>1, <2>2 DEF CallTypes, LearnedOnce
<1>2. CASE m \in Learned /\ ~ Known(m)
  <2> DEFINE k == CHOOSE i \in 1..Len(learned) : learned[i] = m
             n == Len(learned)
             d == [i \in 1..(n - 1) |-> learned[IF i < k THEN i ELSE i + 1]]
  <2>1. Drop(m) = d
    BY <1>2 DEF Drop
  <2>2. k \in 1..n /\ learned[k] = m /\ n \in Nat
    <3>1. \E i \in 1..n : learned[i] = m
      BY <1>2 DEF Learned
    <3> QED
      BY <3>1 DEF CallTypes
  <2> HIDE DEF k
  <2>3. \A i \in 1..(n - 1) : (IF i < k THEN i ELSE i + 1) \in 1..n
    BY <2>2
  <2>4. \A i \in 1..n : learned[i] \in Offered /\ learned[i] \in Learned
    BY DEF CallTypes, Learned
  <2>5. d \in Seq(Offered) /\ Len(d) = n - 1
    BY <2>2, <2>3, <2>4
  <2>6. \A i, j \in 1..(n - 1) : d[i] = d[j] => i = j
    <3> SUFFICES ASSUME NEW i \in 1..(n - 1), NEW j \in 1..(n - 1), d[i] = d[j] PROVE i = j
      OBVIOUS
    <3>1. (IF i < k THEN i ELSE i + 1) = (IF j < k THEN j ELSE j + 1)
      BY <2>3 DEF LearnedOnce
    <3> QED
      BY <2>2, <3>1
  <2>7. \A i \in 1..(n - 1) : d[i] \in Learned
    BY <2>3, <2>4
  <2> HIDE DEF d
  <2> QED
    BY <2>1, <2>2, <2>5, <2>6, <2>7
<1> QED
  BY <1>1, <1>2

LEMMA RememberShape ==
  ASSUME CallTypes, LearnedOnce, NEW m \in Offered
  PROVE  /\ Remember(m) \in Seq(Offered) /\ Len(Remember(m)) <= Learnable
         /\ \A i, j \in 1..Len(Remember(m)) : Remember(m)[i] = Remember(m)[j] => i = j
         /\ \A i \in 1..Len(Remember(m)) : Remember(m)[i] \in Learned \cup {m}
<1> DEFINE all == IF m \in Learned THEN learned ELSE Append(learned, m)
           over == IF Len(all) > Learnable THEN Len(all) - Learnable ELSE 0
<1>1. /\ all \in Seq(Offered)
      /\ \A i, j \in 1..Len(all) : all[i] = all[j] => i = j
      /\ \A i \in 1..Len(all) : all[i] \in Learned \cup {m}
  <2>1. CASE m \in Learned
    BY <2>1 DEF CallTypes, LearnedOnce, Learned
  <2>2. CASE m \notin Learned
    <3>1. /\ all = Append(learned, m) /\ Len(all) = Len(learned) + 1 /\ Len(learned) \in Nat
          /\ all[Len(learned) + 1] = m /\ \A i \in 1..Len(learned) : all[i] = learned[i]
      BY <2>2 DEF CallTypes
    <3>2. all \in Seq(Offered)
      BY <3>1 DEF CallTypes
    <3>3. \A i \in 1..Len(learned) : learned[i] # m /\ learned[i] \in Learned
      BY <2>2 DEF Learned
    <3> HIDE DEF all
    <3> QED
      BY <3>1, <3>2, <3>3 DEF LearnedOnce
  <2> QED
    BY <2>1, <2>2
<1> HIDE DEF all
<1>2. /\ Len(all) \in Nat /\ over \in Nat /\ over <= Len(all) /\ Len(all) - over <= Learnable
  BY <1>1, UpstreamAssumption
<1>3. Remember(m) = SubSeq(all, over + 1, Len(all))
  BY DEF Remember, all
<1> HIDE DEF over
<1>4. /\ Remember(m) \in Seq(Offered) /\ Len(Remember(m)) = Len(all) - over
      /\ \A i \in 1..(Len(all) - over) : Remember(m)[i] = all[over + i]
  <2>1. Remember(m) = [i \in 1..(Len(all) - over) |-> all[over + i]]
    BY <1>1, <1>2, <1>3
  <2>2. \A i \in 1..(Len(all) - over) : all[over + i] \in Offered
    BY <1>1, <1>2
  <2>3. Len(all) - over \in Nat
    BY <1>2
  <2> QED
    BY <2>1, <2>2, <2>3
<1>5. \A i \in 1..(Len(all) - over) : over + i \in 1..Len(all)
  BY <1>2
<1> DEFINE r == Remember(m)
           n == Len(all) - over
<1>6. n \in Nat /\ n <= Learnable /\ r \in Seq(Offered) /\ Len(r) = n
  BY <1>2, <1>4
<1>7. \A i \in 1..n : r[i] = all[over + i] /\ over + i \in 1..Len(all)
  BY <1>4, <1>5
<1> HIDE DEF r, n
<1>8. \A i, j \in 1..n : r[i] = r[j] => i = j
  <2> SUFFICES ASSUME NEW i \in 1..n, NEW j \in 1..n, r[i] = r[j] PROVE i = j
    OBVIOUS
  <2>1. over + i = over + j
    BY <1>1, <1>7
  <2> QED
    BY <1>2, <1>6, <2>1
<1>9. \A i \in 1..n : r[i] \in Learned \cup {m}
  BY <1>1, <1>7
<1> QED
  BY <1>6, <1>8, <1>9 DEF r

\* What is out of a call that is at an endpoint stays of that endpoint.
LEMMA Emitted ==
  ASSUME CallTypes, OutOfLeg, NEW p \in Calls, leg[p] \in {"responses", "chat"}, Emit(p)
  PROVE  /\ out' \in [Calls -> Seq({"responses", "chat"})]
         /\ \A i \in 1..Len(out'[p]) : out'[p][i] = leg[p]
         /\ \A q \in Calls \ {p} : out'[q] = out[q]
<1>1. /\ out[p] \in Seq({"responses", "chat"}) /\ out' = [out EXCEPT ![p] = Append(out[p], leg[p])]
      /\ Append(out[p], leg[p]) \in Seq({"responses", "chat"})
  BY DEF CallTypes, Emit
<1>2. out' \in [Calls -> Seq({"responses", "chat"})] /\ out'[p] = Append(out[p], leg[p])
  BY <1>1 DEF CallTypes
<1>3. \A i \in 1..Len(out[p]) : out[p][i] = leg[p]
  BY DEF OutOfLeg
<1> QED
  BY <1>1, <1>2, <1>3 DEF CallTypes

LEMMA ChunkStep ==
  ASSUME UpInv, NEW p \in Calls, Chunk(p)
  PROVE  UpInv'
<1> USE DEF UpInv
<1>1. CallTypes'
  BY UpstreamAssumption DEF Chunk, Emit, memory, CallTypes, Legs, OutOfLeg
<1>2. LearnedOnce'
  BY DEF Chunk, Emit, memory, LearnedOnce
<1>3. StampsTrue'
  BY DEF Chunk, Emit, memory, StampsTrue
<1>4. OutOfLeg'
  BY DEF Chunk, Emit, memory, CallTypes, OutOfLeg, Legs
<1>5. NeverMixed'
  BY DEF Chunk, Emit, memory, CallTypes, OutOfLeg, NeverMixed, Legs
<1> QED
  BY <1>1, <1>2, <1>3, <1>4, <1>5

LEMMA StreamEndsStep ==
  ASSUME UpInv, NEW p \in Calls, StreamEnds(p)
  PROVE  UpInv'
<1> USE DEF UpInv
<1>1. CallTypes'
  BY UpstreamAssumption DEF StreamEnds, memory, CallTypes, Legs, OutOfLeg
<1>2. LearnedOnce'
  BY DEF StreamEnds, memory, LearnedOnce
<1>3. StampsTrue'
  BY DEF StreamEnds, memory, StampsTrue
<1>4. OutOfLeg'
  BY DEF StreamEnds, memory, CallTypes, OutOfLeg, Legs
<1>5. NeverMixed'
  BY DEF StreamEnds, memory, CallTypes, OutOfLeg, NeverMixed, Legs
<1> QED
  BY <1>1, <1>2, <1>3, <1>4, <1>5

LEMMA ChatAnswersStep ==
  ASSUME UpInv, NEW p \in Calls, ChatAnswers(p)
  PROVE  UpInv'
<1> USE DEF UpInv
<1>1. CallTypes'
  BY UpstreamAssumption DEF ChatAnswers, Emit, memory, CallTypes, Legs, OutOfLeg
<1>2. LearnedOnce'
  BY DEF ChatAnswers, Emit, memory, LearnedOnce
<1>3. StampsTrue'
  BY DEF ChatAnswers, Emit, memory, StampsTrue
<1>4. OutOfLeg'
  BY DEF ChatAnswers, Emit, memory, CallTypes, OutOfLeg, Legs
<1>5. NeverMixed'
  BY DEF ChatAnswers, Emit, memory, CallTypes, OutOfLeg, NeverMixed, Legs
<1> QED
  BY <1>1, <1>2, <1>3, <1>4, <1>5

LEMMA ForgetStep ==
  ASSUME UpInv, NEW p \in Calls, Forget(p)
  PROVE  UpInv'
<1> USE DEF UpInv
<1>1. CallTypes'
  BY UpstreamAssumption DEF Forget, Over, memory, CallTypes, Legs, OutOfLeg
<1>2. LearnedOnce'
  BY DEF Forget, Over, memory, LearnedOnce
<1>3. StampsTrue'
  BY DEF Forget, Over, memory, StampsTrue
<1>4. OutOfLeg'
  BY DEF Forget, Over, memory, CallTypes, OutOfLeg, Legs
<1>5. NeverMixed'
  BY DEF Forget, Over, memory, CallTypes, OutOfLeg, NeverMixed, Legs
<1> QED
  BY <1>1, <1>2, <1>3, <1>4, <1>5

LEMMA StreamCompletesStep ==
  ASSUME UpInv, NEW p \in Calls, NEW b \in BOOLEAN, StreamCompletes(p, b)
  PROVE  UpInv'
<1> USE DEF UpInv
<1>1. leg[p] = "responses" /\ UNCHANGED <<upClock, gone, learned, stamp, turnedAway, asked, streams>>
  BY DEF StreamCompletes, memory
<1>2. /\ leg' \in [Calls -> Legs] /\ leg'[p] \in {"done", "failed"}
      /\ \A q \in Calls \ {p} : leg'[q] = leg[q]
  BY DEF StreamCompletes, CallTypes, Legs
<1>3. /\ out' \in [Calls -> Seq({"responses", "chat"})]
      /\ \A i \in 1..Len(out'[p]) : out'[p][i] = leg[p]
      /\ \A q \in Calls \ {p} : out'[q] = out[q]
  <2>1. CASE Emit(p)
    BY <1>1, <2>1, Emitted
  <2>2. CASE UNCHANGED out
    BY <1>1, <2>2 DEF CallTypes, OutOfLeg
  <2> QED
    BY <2>1, <2>2 DEF StreamCompletes
<1>4. CallTypes'
  BY <1>1, <1>2, <1>3 DEF CallTypes
<1>5. OutOfLeg'
  <2> SUFFICES ASSUME NEW q \in Calls
               PROVE  /\ leg'[q] = "idle" => out'[q] = <<>>
                      /\ leg'[q] \in {"responses", "chat"} =>
                           \A i \in 1..Len(out'[q]) : out'[q][i] = leg'[q]
    BY DEF OutOfLeg
  <2>1. CASE q = p
    BY <1>2, <2>1
  <2>2. CASE q # p
    BY <1>2, <1>3, <2>2 DEF OutOfLeg
  <2> QED
    BY <2>1, <2>2
<1>6. NeverMixed'
  <2> SUFFICES ASSUME NEW q \in Calls, NEW i \in 1..Len(out'[q]), NEW j \in 1..Len(out'[q])
               PROVE  out'[q][i] = out'[q][j]
    BY DEF NeverMixed
  <2> QED
    BY <1>3 DEF NeverMixed
<1> QED
  BY <1>1, <1>4, <1>5, <1>6 DEF LearnedOnce, StampsTrue

LEMMA ResponsesAnswersStep ==
  ASSUME UpInv, NEW p \in Calls, NEW b \in BOOLEAN, ResponsesAnswers(p, b)
  PROVE  UpInv'
<1> USE DEF UpInv
<1>1. leg[p] = "responses" /\ UNCHANGED <<upClock, gone, learned, stamp, turnedAway, asked, streams>>
  BY DEF ResponsesAnswers, memory
<1>2. /\ leg' \in [Calls -> Legs] /\ leg'[p] \in {"done", "failed"}
      /\ \A q \in Calls \ {p} : leg'[q] = leg[q]
  BY DEF ResponsesAnswers, CallTypes, Legs
<1>3. /\ out' \in [Calls -> Seq({"responses", "chat"})]
      /\ \A i \in 1..Len(out'[p]) : out'[p][i] = leg[p]
      /\ \A q \in Calls \ {p} : out'[q] = out[q]
  <2>1. CASE Emit(p)
    BY <1>1, <2>1, Emitted
  <2>2. CASE UNCHANGED out
    BY <1>1, <2>2 DEF CallTypes, OutOfLeg
  <2> QED
    BY <2>1, <2>2 DEF ResponsesAnswers
<1>4. CallTypes'
  BY <1>1, <1>2, <1>3 DEF CallTypes
<1>5. OutOfLeg'
  <2> SUFFICES ASSUME NEW q \in Calls
               PROVE  /\ leg'[q] = "idle" => out'[q] = <<>>
                      /\ leg'[q] \in {"responses", "chat"} =>
                           \A i \in 1..Len(out'[q]) : out'[q][i] = leg'[q]
    BY DEF OutOfLeg
  <2>1. CASE q = p
    BY <1>2, <2>1
  <2>2. CASE q # p
    BY <1>2, <1>3, <2>2 DEF OutOfLeg
  <2> QED
    BY <2>1, <2>2
<1>6. NeverMixed'
  <2> SUFFICES ASSUME NEW q \in Calls, NEW i \in 1..Len(out'[q]), NEW j \in 1..Len(out'[q])
               PROVE  out'[q][i] = out'[q][j]
    BY DEF NeverMixed
  <2> QED
    BY <1>3 DEF NeverMixed
<1> QED
  BY <1>1, <1>4, <1>5, <1>6 DEF LearnedOnce, StampsTrue

LEMMA MoveStep ==
  ASSUME UpInv, NEW m \in Offered, Move(m)
  PROVE  UpInv'
<1> USE DEF UpInv
<1>1. CallTypes'
  BY UpstreamAssumption DEF Move, memory, CallTypes, Legs, OutOfLeg
<1>2. LearnedOnce'
  BY DEF Move, memory, LearnedOnce
<1>3. StampsTrue'
  BY DEF Move, memory, StampsTrue
<1>4. OutOfLeg'
  BY DEF Move, memory, CallTypes, OutOfLeg, Legs
<1>5. NeverMixed'
  BY DEF Move, memory, CallTypes, OutOfLeg, NeverMixed, Legs
<1> QED
  BY <1>1, <1>2, <1>3, <1>4, <1>5

LEMMA UpTickStep ==
  ASSUME UpInv, UpTick
  PROVE  UpInv'
<1> USE DEF UpInv
<1>1. CallTypes'
  BY UpstreamAssumption DEF UpTick, memory, CallTypes, Legs, OutOfLeg
<1>2. LearnedOnce'
  BY DEF UpTick, memory, LearnedOnce
<1>3. StampsTrue'
  BY DEF UpTick, memory, StampsTrue
<1>4. OutOfLeg'
  BY DEF UpTick, memory, CallTypes, OutOfLeg, Legs
<1>5. NeverMixed'
  BY DEF UpTick, memory, CallTypes, OutOfLeg, NeverMixed, Legs
<1> QED
  BY <1>1, <1>2, <1>3, <1>4, <1>5

LEMMA BeginCallStep ==
  ASSUME UpInv, NEW p \in Calls, NEW m \in Offered, NEW b \in BOOLEAN, BeginCall(p, m, b)
  PROVE  UpInv'
<1> USE DEF UpInv
<1>1. /\ learned' \in Seq(Offered) /\ Len(learned') <= Learnable
      /\ \A i \in 1..Len(learned') : learned'[i] \in Learned
  BY DropShape, UpstreamAssumption DEF BeginCall, CallTypes
<1>2. CallTypes'
  BY <1>1, UpstreamAssumption DEF BeginCall, CallTypes, Legs
<1>3. LearnedOnce'
  BY DropShape DEF BeginCall, LearnedOnce
<1>4. StampsTrue'
  BY <1>1 DEF BeginCall, StampsTrue, Learned
<1>5. OutOfLeg' /\ NeverMixed'
  BY DEF BeginCall, CallTypes, OutOfLeg, NeverMixed
<1> QED
  BY <1>2, <1>3, <1>4, <1>5

LEMMA ErrorStep ==
  ASSUME UpInv, NEW p \in Calls, NEW b \in BOOLEAN, Error(p, b)
  PROVE  UpInv'
<1> USE DEF UpInv
<1> DEFINE m == asked[p]
<1>1. m \in Offered
  BY DEF Error, CallTypes
<1>2. OutOfLeg' /\ NeverMixed'
  BY DEF Error, Switches, CallTypes, OutOfLeg, NeverMixed
<1>3. CASE Switches(p, b)
  <2>1. /\ learned' = Remember(m)
        /\ stamp' = [stamp EXCEPT ![m] = upClock]
        /\ turnedAway' = [turnedAway EXCEPT ![m] = upClock]
    BY <1>3 DEF Error
  <2>2. CallTypes'
    <3>1. leg' \in [Calls -> Legs] /\ leg'[p] = "chat" /\ \A q \in Calls : q # p => leg'[q] = leg[q]
      BY <1>3 DEF Error, CallTypes, Legs
    <3>2. \A q \in Calls : (leg'[q] = "idle") <=> (leg[q] = "idle")
      BY <3>1 DEF Error
    <3> QED
      BY <1>1, <2>1, <3>1, <3>2, RememberShape DEF Error, CallTypes
  <2>3. LearnedOnce'
    BY <1>1, <2>1, RememberShape DEF LearnedOnce
  <2>4. StampsTrue'
    <3> SUFFICES ASSUME NEW i \in 1..Len(learned') PROVE stamp'[learned'[i]] = turnedAway'[learned'[i]]
      BY DEF StampsTrue
    <3>1. learned'[i] \in Learned \cup {m}
      BY <1>1, <2>1, RememberShape
    <3>2. \A n \in Learned : n \in Offered /\ stamp[n] = turnedAway[n]
      BY DEF Learned, StampsTrue, CallTypes
    <3> QED
      BY <1>1, <2>1, <3>1, <3>2 DEF CallTypes
  <2> QED
    BY <1>2, <2>2, <2>3, <2>4
<1>4. CASE ~ Switches(p, b)
  <2>1. UNCHANGED memory
    BY <1>4 DEF Error
  <2>2. CallTypes'
    BY <1>4, <2>1 DEF Error, CallTypes, Legs, memory
  <2> QED
    BY <1>2, <2>1, <2>2 DEF memory, LearnedOnce, StampsTrue
<1> QED
  BY <1>3, <1>4

LEMMA UpInvariance == UpSpec => []UpInv
<1>1. UpInv /\ [UpNext]_upVars => UpInv'
  <2> SUFFICES ASSUME UpInv, [UpNext]_upVars PROVE UpInv'
    OBVIOUS
  <2>1. CASE UNCHANGED upVars
    BY <2>1 DEF upVars, UpInv, CallTypes, LearnedOnce, StampsTrue, OutOfLeg, NeverMixed
  <2>2. CASE UpNext
    BY <2>2, BeginCallStep, ChunkStep, StreamEndsStep, ChatAnswersStep, ForgetStep, ErrorStep, StreamCompletesStep,
       ResponsesAnswersStep, MoveStep, UpTickStep DEF UpNext
  <2> QED
    BY <2>1, <2>2
<1> QED
  BY UpInitOK, <1>1, PTL DEF UpSpec

\* The memory of the worker is bounded and holds a model once, however the calls
\* interleave and entries are evicted.
THEOREM UpTypesCorrect == UpSpec => []UpTypeOK
<1>1. UpInv => UpTypeOK
  BY MembersOfOnce DEF UpInv, CallTypes, UpTypeOK
<1> QED
  BY UpInvariance, <1>1, PTL

\* No client gets a stream that two endpoints wrote, whatever fails and when.
THEOREM StreamsNeverMixed == UpSpec => []NeverMixed
<1>1. UpInv => NeverMixed
  BY DEF UpInv
<1> QED
  BY UpInvariance, <1>1, PTL

\* A call passes over /responses only for a model that was turned away there within
\* Ttl: what the worker remembers of a model is always the last refusal of it.
THEOREM SkippedForCause == UpSpec => SkipsForCause
<1>1. UpInv /\ [UpNext]_upVars =>
        [\A p \in Calls :
           leg[p] # "chat" /\ leg'[p] = "chat"
             => upClock - turnedAway'[asked'[p]] <= Ttl]_upVars
  <2> SUFFICES ASSUME UpInv, UpNext, NEW p \in Calls, leg[p] # "chat", leg'[p] = "chat"
               PROVE  upClock - turnedAway'[asked'[p]] <= Ttl
    OBVIOUS
  <2> USE DEF UpInv
  <2>1. ASSUME NEW q \in Calls, NEW m \in Offered, NEW b \in BOOLEAN, BeginCall(q, m, b)
        PROVE  upClock - turnedAway'[asked'[p]] <= Ttl
    <3>1. q = p /\ Known(m) /\ asked'[p] = m /\ turnedAway' = turnedAway
      BY <2>1 DEF BeginCall, CallTypes
    <3> QED
      BY <3>1 DEF Known, Learned, StampsTrue
  <2>2. ASSUME NEW q \in Calls, NEW b \in BOOLEAN, Error(q, b)
        PROVE  upClock - turnedAway'[asked'[p]] <= Ttl
    <3>1. q = p /\ Switches(q, b) /\ asked'[p] = asked[p] /\ asked[p] \in Offered
      BY <2>2 DEF Error, CallTypes
    <3>2. turnedAway'[asked[p]] = upClock
      BY <2>2, <3>1 DEF Error, CallTypes
    <3> QED
      BY <3>1, <3>2, UpstreamAssumption DEF CallTypes
  <2>3. ASSUME NEW q \in Calls, Chunk(q) \/ StreamEnds(q) \/ ChatAnswers(q) \/ Forget(q)
        PROVE  FALSE
    BY <2>3 DEF Chunk, StreamEnds, ChatAnswers, Forget, CallTypes, memory
  <2>4. ASSUME NEW q \in Calls, NEW b \in BOOLEAN, StreamCompletes(q, b) \/ ResponsesAnswers(q, b)
        PROVE  FALSE
    BY <2>4 DEF StreamCompletes, ResponsesAnswers, CallTypes
  <2>5. ASSUME NEW m \in Offered, Move(m) \/ UpTick
        PROVE  FALSE
    BY <2>5 DEF Move, UpTick
  <2>6. CASE UpTick
    BY <2>6 DEF UpTick
  <2> QED
    BY <2>1, <2>2, <2>3, <2>4, <2>5, <2>6 DEF UpNext
<1> QED
  BY UpInvariance, <1>1, PTL DEF UpSpec, SkipsForCause

-----------------------------------------------------------------------------
(* Connections *)

\* Connections are never removed: what a sync or a reload has begun with is there.
StillThere ==
  /\ \A s \in Syncs : syncing[s] # NoSync => conn[syncing[s]] # NoConn
  /\ \A w \in Proxies : reload[w] # NoReload => \A x \in reload[w].left : conn[x[1]] # NoConn

Named(c) == <<c, conn[c].slug>>

\* What the database says of the connections a worker has read already
ReadOf(left) == {conn[c] : c \in {d \in Rows : conn[d].models # {} /\ Named(d) \notin left}}

\* A reload that no poke follows and none has missed has read what is stored: a write
\* after it began would have sent a poke, and that one cannot have arrived here.
ReadsTrue ==
  \A w \in Proxies :
    reload[w] # NoReload /\ pokes = 0 /\ ~ missed[w] =>
      /\ \A x \in reload[w].left : x = Named(x[1])
      /\ reload[w].built = ReadOf(reload[w].left)

ConnInv == ConnTypeOK /\ StillThere /\ ReadsTrue /\ StaleHasCause

LEMMA ConnInitOK == ConnInit => ConnInv
<1> SUFFICES ASSUME ConnInit PROVE ConnInv
  OBVIOUS
<1>1. pokes = 0 /\ 0 \in 0..MaxPokes
  BY ConnAssumption DEF ConnInit
<1> QED
  BY <1>1 DEF ConnInit, ConnInv, ConnTypeOK, Rows, StillThere, ReadsTrue, StaleHasCause

LEMMA Poked ==
  ASSUME ConnTypeOK, Poke
  PROVE  pokes' \in 0..MaxPokes /\ pokes' > 0
<1>1. pokes \in 0..MaxPokes /\ pokes < MaxPokes /\ pokes' = pokes + 1 /\ MaxPokes \in Nat
  BY ConnAssumption DEF ConnTypeOK, Poke
<1> QED
  BY <1>1

\* A write of one row, followed by a poke
LEMMA WriteOK ==
  ASSUME ConnInv, NEW c \in Connections, NEW row \in Endpoint, conn' = [conn EXCEPT ![c] = row],
         SlugFree(row.slug, c), Poke,
         syncing' \in [Syncs -> Connections \cup {NoSync}],
         \A s \in Syncs : syncing'[s] \in {syncing[s], NoSync},
         UNCHANGED <<registry, reload, missed, direct>>
  PROVE  ConnInv'
<1> USE DEF ConnInv
<1>1. row # NoConn
  BY ConnAssumption
<1>2. conn' \in [Connections -> Endpoint \cup {NoConn}] /\ conn'[c] = row
      /\ \A d \in Connections : d # c => conn'[d] = conn[d]
  BY DEF ConnTypeOK
<1>3. \A d \in Connections : conn[d] # NoConn => conn'[d] # NoConn
  BY <1>1, <1>2
<1>4. pokes' \in 0..MaxPokes /\ pokes' > 0
  BY Poked
<1>5. \A d, e \in Rows' : conn'[d].slug = conn'[e].slug => d = e
  BY <1>2 DEF ConnTypeOK, Rows, SlugFree
<1>6. ConnTypeOK'
  BY <1>2, <1>4, <1>5 DEF ConnTypeOK
<1>7. StillThere'
  <2>1. \A s \in Syncs : syncing'[s] # NoSync => conn'[syncing'[s]] # NoConn
    BY <1>3 DEF StillThere, ConnTypeOK
  <2>2. ASSUME NEW w \in Proxies, reload[w] # NoReload, NEW x \in reload[w].left PROVE conn'[x[1]] # NoConn
    <3>1. x[1] \in Connections
      BY <2>2 DEF ConnTypeOK, Reading
    <3> QED
      BY <1>3, <2>2, <3>1 DEF StillThere
  <2> QED
    BY <2>1, <2>2 DEF StillThere
<1>8. ReadsTrue' /\ StaleHasCause'
  BY <1>4 DEF ReadsTrue, StaleHasCause
<1> QED
  BY <1>6, <1>7, <1>8

LEMMA CreateConnectionStep ==
  ASSUME ConnInv, NEW c \in Connections, NEW slug \in Slugs, NEW url \in Urls, CreateConnection(c, slug, url)
  PROVE  ConnInv'
<1> DEFINE row == [slug |-> slug, url |-> url, models |-> {}]
<1>1. row \in Endpoint /\ row.slug = slug
  BY DEF Endpoint
<1>2. syncing' = syncing /\ syncing \in [Syncs -> Connections \cup {NoSync}]
  BY DEF CreateConnection, ConnInv, ConnTypeOK
<1>3. /\ conn' = [conn EXCEPT ![c] = row] /\ SlugFree(slug, c) /\ Poke
      /\ UNCHANGED <<registry, reload, missed, direct>>
  BY DEF CreateConnection
<1> HIDE DEF row
<1> QED
  BY <1>1, <1>2, <1>3, WriteOK

LEMMA UpdateConnectionStep ==
  ASSUME ConnInv, NEW c \in Connections, NEW slug \in Slugs, NEW url \in Urls, UpdateConnection(c, slug, url)
  PROVE  ConnInv'
<1> DEFINE row == [conn[c] EXCEPT !.slug = slug, !.url = url]
<1>1. conn[c] \in Endpoint
  BY DEF UpdateConnection, ConnInv, ConnTypeOK
<1>2. row \in Endpoint /\ row.slug = slug
  BY <1>1 DEF Endpoint
<1>3. syncing' = syncing /\ syncing \in [Syncs -> Connections \cup {NoSync}]
  BY DEF UpdateConnection, ConnInv, ConnTypeOK
<1>4. /\ conn' = [conn EXCEPT ![c] = row] /\ SlugFree(slug, c) /\ Poke
      /\ UNCHANGED <<registry, reload, missed, direct>>
  BY <1>1 DEF UpdateConnection, TellProxy, ConnInv, ConnTypeOK
<1> HIDE DEF row
<1> QED
  BY <1>2, <1>3, <1>4, WriteOK

LEMMA SyncSucceedsStep ==
  ASSUME ConnInv, NEW s \in Syncs, NEW models \in SUBSET Found, SyncSucceeds(s, models)
  PROVE  ConnInv'
<1>1. PICK c \in Connections : c = syncing[s] /\ conn[c] \in Endpoint /\ conn[c] # NoConn
  BY DEF SyncSucceeds, ConnInv, ConnTypeOK, StillThere
<1> DEFINE row == [conn[c] EXCEPT !.models = conn[c].models \cup models]
<1>2. row \in Endpoint /\ row.slug = conn[c].slug
  BY <1>1 DEF Endpoint
<1>3. /\ syncing' \in [Syncs -> Connections \cup {NoSync}]
      /\ \A t \in Syncs : syncing'[t] \in {syncing[t], NoSync}
  BY DEF SyncSucceeds, SyncOver, ConnInv, ConnTypeOK
<1>4. conn' = [conn EXCEPT ![c] = row] /\ Poke /\ UNCHANGED <<registry, reload, missed, direct>>
  BY <1>1 DEF SyncSucceeds, Catalog, ConnInv, ConnTypeOK
<1>5. SlugFree(conn[c].slug, c)
  BY <1>1 DEF SlugFree, ConnInv, ConnTypeOK, Rows
<1> HIDE DEF row
<1> QED
  BY <1>2, <1>3, <1>4, <1>5, WriteOK

LEMMA SyncOnlyStep ==
  ASSUME ConnInv, NEW s \in Syncs, SyncFails(s) \/ \E c \in Connections : BeginSync(s, c)
  PROVE  ConnInv'
<1> USE DEF ConnInv
<1>1. /\ UNCHANGED <<conn, pokes, registry, reload, missed, direct>>
      /\ syncing' \in [Syncs -> Connections \cup {NoSync}]
      /\ \A t \in Syncs : syncing'[t] # NoSync => syncing'[t] = syncing[t] \/ conn[syncing'[t]] # NoConn
  BY DEF SyncFails, SyncOver, BeginSync, ConnTypeOK
<1>2. ConnTypeOK'
  BY <1>1 DEF ConnTypeOK, Rows
<1>3. StillThere'
  BY <1>1 DEF StillThere
<1>4. ReadsTrue' /\ StaleHasCause'
  BY <1>1 DEF ReadsTrue, ReadOf, Named, Rows, StaleHasCause, Persisted
<1> QED
  BY <1>2, <1>3, <1>4

\* The rows stand: what is true of the readings with the names of now is true after.
LEMMA ReadsTrueAfter ==
  ASSUME UNCHANGED conn,
         \A v \in Proxies : reload'[v] # NoReload /\ pokes' = 0 /\ ~ missed'[v] =>
           /\ \A x \in reload'[v].left : x = Named(x[1])
           /\ reload'[v].built = ReadOf(reload'[v].left)
  PROVE  ReadsTrue'
<1>1. /\ \A c : Named(c)' = Named(c) /\ Rows' = Rows
      /\ \A left : ReadOf(left) = {conn'[c] : c \in {d \in Rows' : conn'[d].models # {} /\ Named(d)' \notin left}}
  BY DEF Named, Rows, ReadOf
<1> QED
  BY <1>1 DEF ReadsTrue, ReadOf

LEMMA PersistedType ==
  ASSUME ConnTypeOK
  PROVE  Persisted \in SUBSET Endpoint
BY DEF ConnTypeOK, Persisted, Rows

LEMMA StartProxyStep ==
  ASSUME ConnInv, NEW w \in Proxies, StartProxy(w)
  PROVE  ConnInv'
<1> USE DEF ConnInv
<1>1. ConnTypeOK'
  BY PersistedType DEF StartProxy, ConnTypeOK, Rows
<1>2. StillThere'
  BY DEF StartProxy, StillThere
<1>3. ReadsTrue'
  <2>1. \A v \in Proxies : reload'[v] # NoReload => v # w /\ missed'[v] = missed[v]
    BY DEF StartProxy, ConnTypeOK
  <2>2. UNCHANGED <<conn, pokes, reload>>
    BY DEF StartProxy
  <2> QED
    BY <2>1, <2>2, ReadsTrueAfter DEF ReadsTrue
<1>4. StaleHasCause'
  <2>1. Persisted' = Persisted /\ registry'[w] = Persisted
    BY DEF StartProxy, Persisted, Rows, ConnTypeOK
  <2>2. \A v \in Proxies : v # w => /\ registry'[v] = registry[v] /\ missed'[v] = missed[v]
                                  /\ v \in direct' <=> v \in direct
    BY DEF StartProxy, ConnTypeOK
  <2> QED
    BY <2>1, <2>2 DEF StartProxy, StaleHasCause
<1> QED
  BY <1>1, <1>2, <1>3, <1>4

\* A reload begins with the names of all rows.
LEMMA BegunReading ==
  ASSUME ConnInv, NEW w \in Proxies, BeginReload(w)
  PROVE  /\ reload' \in [Proxies -> Reading \cup {NoReload}] /\ reload'[w] # NoReload
         /\ reload'[w].built = ReadOf(reload'[w].left)
         /\ \A x \in reload'[w].left : x = Named(x[1]) /\ conn[x[1]] # NoConn
         /\ \A v \in Proxies : v # w => reload'[v] = reload[v]
<1> DEFINE read == [left |-> {<<c, conn[c].slug>> : c \in Rows}, built |-> {}]
<1>1. read \in Reading
  BY DEF Reading, ConnInv, ConnTypeOK, Rows, Endpoint
<1>2. read # NoReload
  BY <1>1, ConnAssumption
<1>3. read.built = ReadOf(read.left)
  BY DEF ReadOf, Named, Rows
<1>4. \A x \in read.left : x = Named(x[1]) /\ conn[x[1]] # NoConn
  BY DEF Named, Rows
<1>5. reload' = [reload EXCEPT ![w] = read]
  BY DEF BeginReload
<1> HIDE DEF read
<1> QED
  BY <1>1, <1>2, <1>3, <1>4, <1>5 DEF ConnInv, ConnTypeOK

LEMMA PokeArrivesStep ==
  ASSUME ConnInv, NEW w \in Proxies, PokeArrives(w)
  PROVE  ConnInv'
<1> USE DEF ConnInv
<1>1. /\ pokes' \in 0..MaxPokes /\ UNCHANGED <<conn, syncing, registry, direct>> /\ reload[w] = NoReload
      /\ missed' = [v \in Proxies |-> v # w]
  <2>1. pokes \in 0..MaxPokes /\ pokes > 0 /\ pokes' = pokes - 1 /\ MaxPokes \in Nat
    BY ConnAssumption DEF ConnTypeOK, PokeArrives
  <2> QED
    BY <2>1 DEF PokeArrives
<1>2. missed' \in [Proxies -> BOOLEAN] /\ \A v \in Proxies : v # w => missed'[v]
  BY <1>1
<1>3. CASE BeginReload(w)
  <2>1. ConnTypeOK'
    BY <1>1, <1>2, <1>3, BegunReading DEF ConnTypeOK, Rows
  <2>2. StillThere'
    BY <1>1, <1>3, BegunReading DEF StillThere
  <2>3. ReadsTrue'
    <3>1. /\ \A x \in reload'[w].left : x = Named(x[1])
          /\ reload'[w].built = ReadOf(reload'[w].left)
      BY <1>3, BegunReading
    <3> QED
      BY <1>1, <1>2, <3>1, ReadsTrueAfter
  <2>4. StaleHasCause'
    BY <1>2, <1>3, BegunReading DEF StaleHasCause
  <2> QED
    BY <2>1, <2>2, <2>3, <2>4
<1>4. CASE w \notin direct /\ UNCHANGED reload
  <2>1. ConnTypeOK' /\ StillThere'
    BY <1>1, <1>2, <1>4 DEF ConnTypeOK, StillThere, Rows
  <2>2. ReadsTrue'
    BY <1>1, <1>2, <1>4 DEF ReadsTrue
  <2>3. StaleHasCause'
    BY <1>1, <1>2, <1>4 DEF StaleHasCause
  <2> QED
    BY <2>1, <2>2, <2>3
<1> QED
  BY <1>3, <1>4 DEF PokeArrives

LEMMA PokeLostStep ==
  ASSUME ConnInv, PokeLost
  PROVE  ConnInv'
<1> USE DEF ConnInv
<1>1. /\ pokes' \in 0..MaxPokes /\ missed' \in [Proxies -> BOOLEAN]
      /\ \A w \in Proxies : missed'[w]
      /\ UNCHANGED <<conn, syncing, registry, reload, direct>>
  <2>1. pokes \in 0..MaxPokes /\ pokes > 0 /\ pokes' = pokes - 1 /\ MaxPokes \in Nat
    BY ConnAssumption DEF ConnTypeOK, PokeLost
  <2> QED
    BY <2>1 DEF PokeLost
<1>2. ConnTypeOK' /\ StillThere'
  BY <1>1 DEF ConnTypeOK, StillThere, Rows
<1>3. ReadsTrue' /\ StaleHasCause'
  BY <1>1 DEF ReadsTrue, StaleHasCause
<1> QED
  BY <1>2, <1>3

LEMMA HealStep ==
  ASSUME ConnInv, NEW w \in Proxies, NEW m \in Found, Heal(w, m)
  PROVE  ConnInv'
<1> USE DEF ConnInv
<1>1. /\ BeginReload(w) /\ missed' = [missed EXCEPT ![w] = FALSE]
      /\ UNCHANGED <<conn, syncing, pokes, registry, direct>>
  BY DEF Heal
<1>2. missed' \in [Proxies -> BOOLEAN] /\ \A v \in Proxies : v # w => missed'[v] = missed[v]
  BY <1>1 DEF ConnTypeOK
<1>3. ConnTypeOK'
  BY <1>1, <1>2, BegunReading DEF ConnTypeOK, Rows
<1>4. StillThere'
  BY <1>1, BegunReading DEF StillThere
<1>6. ReadsTrue'
  <2> SUFFICES ASSUME NEW v \in Proxies, reload'[v] # NoReload, pokes' = 0, ~ missed'[v]
               PROVE  /\ \A x \in reload'[v].left : x = Named(x[1])
                      /\ reload'[v].built = ReadOf(reload'[v].left)
    BY <1>1, ReadsTrueAfter
  <2> QED
    BY <1>1, <1>2, BegunReading DEF ReadsTrue
<1>7. StaleHasCause'
  <2>1. Persisted' = Persisted
    BY <1>1 DEF Persisted, Rows
  <2> QED
    BY <1>1, <1>2, <2>1, BegunReading DEF StaleHasCause
<1> QED
  BY <1>3, <1>4, <1>6, <1>7

LEMMA ReadConnectionStep ==
  ASSUME ConnInv, NEW w \in Proxies, NEW c \in Connections, NEW slug \in Slugs, ReadConnection(w, c, slug)
  PROVE  ConnInv'
<1> USE DEF ConnInv
<1> DEFINE left == reload[w].left
           built == reload[w].built
           made == [slug |-> slug, url |-> conn[c].url, models |-> conn[c].models]
<1>1. /\ reload[w] # NoReload /\ reload[w] \in Reading /\ <<c, slug>> \in left
      /\ UNCHANGED <<conn, syncing, pokes, registry, missed, direct>>
  BY DEF ReadConnection, ConnTypeOK
<1>2. conn[c] # NoConn /\ conn[c] \in Endpoint
  <2>1. <<c, slug>>[1] = c
    OBVIOUS
  <2>2. conn[c] # NoConn
    BY <1>1, <2>1 DEF StillThere
  <2> QED
    BY <2>2 DEF ConnTypeOK
<1>3. PICK l \in SUBSET (Connections \X Slugs), b \in SUBSET Endpoint :
        /\ l = left \ {<<c, slug>>}
        /\ b = IF conn[c].models = {} THEN built ELSE {e \in built : e.slug # slug} \cup {made}
        /\ reload' = [reload EXCEPT ![w] = [reload[w] EXCEPT !.left = l, !.built = b]]
  <2>1. left \in SUBSET (Connections \X Slugs) /\ built \in SUBSET Endpoint /\ made \in Endpoint
        /\ reload[w] = [left |-> left, built |-> built]
    BY <1>1, <1>2 DEF Reading, Endpoint
  <2> DEFINE l == left \ {<<c, slug>>}
             b == IF conn[c].models = {} THEN built ELSE {e \in built : e.slug # slug} \cup {made}
  <2>2. l \in SUBSET (Connections \X Slugs) /\ b \in SUBSET Endpoint
    BY <2>1
  <2>3. reload' = [reload EXCEPT ![w] = [reload[w] EXCEPT !.left = l, !.built = b]]
    BY <2>1 DEF ReadConnection, ConnTypeOK
  <2> HIDE DEF l, b
  <2> QED
    BY <2>2, <2>3 DEF l, b
<1>4. PICK read \in Reading : /\ reload' = [reload EXCEPT ![w] = read] /\ read # NoReload
                            /\ read.left = l /\ read.built = b
  <2>1. [reload[w] EXCEPT !.left = l, !.built = b] \in Reading
    BY <1>1 DEF Reading
  <2>2. /\ [reload[w] EXCEPT !.left = l, !.built = b].left = l
        /\ [reload[w] EXCEPT !.left = l, !.built = b].built = b
    BY <1>1 DEF Reading
  <2> QED
    BY <1>3, <2>1, <2>2, ConnAssumption
<1>5. /\ reload'[w].left = l /\ reload'[w].built = b /\ reload'[w] # NoReload
      /\ reload' \in [Proxies -> Reading \cup {NoReload}]
      /\ \A v \in Proxies : v # w => reload'[v] = reload[v]
  BY <1>4 DEF ConnTypeOK
<1>6. ConnTypeOK'
  BY <1>1, <1>5 DEF ConnTypeOK, Rows
<1>7. StillThere'
  BY <1>1, <1>3, <1>5 DEF StillThere
<1>8. /\ \A d : Named(d)' = Named(d) /\ Rows' = Rows /\ Persisted' = Persisted
      /\ \A k : ReadOf(k) = {conn'[d] : d \in {e \in Rows' : conn'[e].models # {} /\ Named(e)' \notin k}}
  BY <1>1 DEF Named, Rows, ReadOf, Persisted
<1>9. ReadsTrue'
  <2> SUFFICES ASSUME NEW v \in Proxies, reload'[v] # NoReload, pokes = 0, ~ missed[v]
               PROVE  /\ \A x \in reload'[v].left : x = Named(x[1])
                      /\ reload'[v].built = ReadOf(reload'[v].left)
    BY <1>1, <1>8 DEF ReadsTrue, ReadOf
  <2>1. CASE v # w
    BY <1>5, <2>1 DEF ReadsTrue
  <2>2. CASE v = w
    <3>1. /\ \A x \in left : x = Named(x[1])
          /\ built = ReadOf(left)
      BY <1>1, <2>2 DEF ReadsTrue
    <3>2. slug = conn[c].slug /\ <<c, slug>> = Named(c) /\ made = conn[c] /\ c \in Rows
      <4>1. <<c, slug>> = Named(c)
        BY <1>1, <3>1
      <4> QED
        BY <1>2, <4>1 DEF Named, Endpoint, Rows
    <3>3. \A d \in Rows : Named(d) \notin l <=> Named(d) \notin left \/ d = c
      BY <1>3, <3>2 DEF Named
    <3>4. \A e \in built : e.slug # slug
      <4> SUFFICES ASSUME NEW d \in Rows, Named(d) \notin left PROVE conn[d].slug # slug
        BY <3>1 DEF ReadOf
      <4>1. d # c
        BY <1>1, <3>2
      <4> QED
        BY <3>2, <4>1 DEF ConnTypeOK
    <3>5. b = ReadOf(l)
      <4>1. CASE conn[c].models = {}
        BY <1>3, <3>1, <3>3, <4>1 DEF ReadOf
      <4>2. CASE conn[c].models # {}
        <5>1. b = built \cup {conn[c]}
          BY <1>3, <3>2, <3>4, <4>2
        <5>2. ReadOf(l) = ReadOf(left) \cup {conn[c]}
          BY <3>2, <3>3, <4>2 DEF ReadOf
        <5> QED
          BY <3>1, <5>1, <5>2
      <4> QED
        BY <4>1, <4>2
    <3>6. \A x \in l : x = Named(x[1])
      BY <1>3, <3>1
    <3> QED
      BY <1>5, <2>2, <3>5, <3>6
  <2> QED
    BY <2>1, <2>2
<1>10. StaleHasCause'
  BY <1>1, <1>5, <1>8 DEF StaleHasCause
<1> QED
  BY <1>6, <1>7, <1>9, <1>10

LEMMA ReloadEndsStep ==
  ASSUME ConnInv, NEW w \in Proxies, Install(w) \/ ReloadFails(w)
  PROVE  ConnInv'
<1> USE DEF ConnInv
<1>1. /\ UNCHANGED <<conn, syncing, pokes, direct>> /\ reload[w] # NoReload /\ reload[w] \in Reading
      /\ reload' = [reload EXCEPT ![w] = NoReload]
  BY DEF Install, ReloadFails, ConnTypeOK
<1>2. /\ reload' \in [Proxies -> Reading \cup {NoReload}]
      /\ \A v \in Proxies : v # w => reload'[v] = reload[v]
      /\ reload'[w] = NoReload
  BY <1>1 DEF ConnTypeOK
<1>3. /\ missed' \in [Proxies -> BOOLEAN] /\ registry' \in [Proxies -> SUBSET Endpoint]
      /\ \A v \in Proxies : v # w => missed'[v] = missed[v] /\ registry'[v] = registry[v]
  BY <1>1 DEF Install, ReloadFails, ConnTypeOK, Reading
<1>4. ConnTypeOK' /\ StillThere'
  BY <1>1, <1>2, <1>3 DEF ConnTypeOK, StillThere, Rows
<1>5. /\ \A d : Named(d)' = Named(d) /\ Rows' = Rows /\ Persisted' = Persisted
      /\ \A k : ReadOf(k) = {conn'[d] : d \in {e \in Rows' : conn'[e].models # {} /\ Named(e)' \notin k}}
  BY <1>1 DEF Named, Rows, ReadOf, Persisted
<1>6. ReadsTrue'
  <2> SUFFICES ASSUME NEW v \in Proxies, reload'[v] # NoReload, pokes = 0, ~ missed'[v]
               PROVE  /\ \A x \in reload'[v].left : x = Named(x[1])
                      /\ reload'[v].built = ReadOf(reload'[v].left)
    BY <1>1, <1>5 DEF ReadsTrue, ReadOf
  <2> QED
    BY <1>2, <1>3 DEF ReadsTrue
<1>7. registry'[w] = Persisted \/ pokes > 0 \/ missed'[w]
  <2>1. CASE Install(w)
    <3>1. reload[w].left = {} /\ registry'[w] = reload[w].built /\ missed' = missed
      BY <2>1 DEF Install, ConnTypeOK
    <3>2. pokes = 0 /\ ~ missed[w] => reload[w].built = ReadOf({})
      BY <1>1, <3>1 DEF ReadsTrue
    <3>3. ReadOf({}) = Persisted
      BY DEF ReadOf, Persisted
    <3>4. pokes = 0 \/ pokes > 0
      BY ConnAssumption DEF ConnTypeOK
    <3> QED
      BY <3>1, <3>2, <3>3, <3>4
  <2>2. CASE ReloadFails(w)
    BY <2>2 DEF ReloadFails, ConnTypeOK
  <2> QED
    BY <2>1, <2>2
<1>8. StaleHasCause'
  BY <1>1, <1>2, <1>3, <1>5, <1>7 DEF StaleHasCause
<1> QED
  BY <1>4, <1>6, <1>8

LEMMA ConnInvariance == ConnSpec => []ConnInv
<1>1. ConnInv /\ [ConnNext]_connVars => ConnInv'
  <2> SUFFICES ASSUME ConnInv, [ConnNext]_connVars PROVE ConnInv'
    OBVIOUS
  <2>1. CASE UNCHANGED connVars
    <3>1. UNCHANGED <<conn, syncing, pokes, direct, registry, reload, missed>>
      BY <2>1 DEF connVars
    <3>2. ConnTypeOK' /\ StillThere'
      BY <3>1 DEF ConnInv, ConnTypeOK, StillThere, Rows
    <3>3. ReadsTrue'
      BY <3>1, ReadsTrueAfter DEF ConnInv, ReadsTrue
    <3>4. StaleHasCause'
      BY <3>1 DEF ConnInv, StaleHasCause, Persisted, Rows
    <3> QED
      BY <3>2, <3>3, <3>4 DEF ConnInv
  <2>2. CASE ConnNext
    BY <2>2, CreateConnectionStep, UpdateConnectionStep, SyncSucceedsStep, SyncOnlyStep, StartProxyStep,
       PokeArrivesStep, PokeLostStep, HealStep, ReadConnectionStep, ReloadEndsStep DEF ConnNext
  <2> QED
    BY <2>1, <2>2
<1> QED
  BY ConnInitOK, <1>1, PTL DEF ConnSpec

\* Rows, registries and what is read of them are what they should be; slugs are unique.
THEOREM ConnTypesCorrect == ConnSpec => []ConnTypeOK
<1>1. ConnInv => ConnTypeOK
  BY DEF ConnInv
<1> QED
  BY ConnInvariance, <1>1, PTL

\* No write falls between two reads of a reload and is forgotten, for any number of
\* workers, connections and syncs: a registry that differs from the rows has a reason.
THEOREM StaleRegistryHasCause == ConnSpec => []StaleHasCause
<1>1. ConnInv => StaleHasCause
  BY DEF ConnInv
<1> QED
  BY ConnInvariance, <1>1, PTL

-----------------------------------------------------------------------------
(* AnthropicStream *)

\* What one stream has been told: its text block once, another block when the provider
\* began it; the adapter has those down until the stream is stopped.
FramesOf(s) ==
  /\ ~ astray[s] /\ Text \notin begun[s]
  /\ streaming[s] = "no" => begun[s] = {}
  /\ starts[s][Text] = IF streaming[s] = "no" THEN 0 ELSE 1
  /\ \A b \in Blocks \ {Text} : starts[s][b] > 0 <=> b \in begun[s]
  /\ upstream[s] = "numbered" => \A b \in Blocks : starts[s][b] <= 1
  /\ streaming[s] # "stopped" => openBlocks[s] = begun[s]
  /\ \A b \in Blocks :
       stops[s][b] = IF streaming[s] = "stopped" /\ starts[s][b] > 0 THEN 1 ELSE 0
  /\ trailed[s] \/ lastEvent[s] = said[s]
  /\ streaming[s] = "stopped" /\ ~ trailed[s] => told[s] = StopReason(said[s])

AnthropicInv == AnthropicTypeOK /\ \A s \in Messages : FramesOf(s)

LEMMA BlocksFact ==
  /\ Text \in Blocks /\ 1 \in Blocks \ {Text} /\ \A b \in Blocks : b \in Nat
BY AnthropicAssumption DEF Blocks, Text

LEMMA AnthropicInitOK == AnthropicInit => AnthropicInv
<1> SUFFICES ASSUME AnthropicInit PROVE AnthropicInv
  OBVIOUS
<1>1. NoFrames \in [Blocks -> Nat] /\ \A b \in Blocks : NoFrames[b] = 0
  BY DEF NoFrames
<1>2. AnthropicTypeOK
  BY <1>1 DEF AnthropicInit, AnthropicTypeOK
<1>3. ASSUME NEW s \in Messages PROVE FramesOf(s)
  <2>1. /\ starts[s] = NoFrames /\ stops[s] = NoFrames /\ streaming[s] = "no"
        /\ openBlocks[s] = {} /\ begun[s] = {} /\ lastEvent[s] = said[s] /\ ~ astray[s]
    BY DEF AnthropicInit
  <2> QED
    BY <1>1, <2>1, BlocksFact DEF FramesOf
<1> QED
  BY <1>2, <1>3 DEF AnthropicInv

\* What a step leaves of a stream alone, it leaves in order.
LEMMA OthersKept ==
  ASSUME NEW t \in Messages, FramesOf(t), upstream' = upstream, streaming'[t] = streaming[t],
         openBlocks'[t] = openBlocks[t], begun'[t] = begun[t], lastEvent'[t] = lastEvent[t],
         said'[t] = said[t], trailed'[t] = trailed[t], starts'[t] = starts[t],
         stops'[t] = stops[t], astray'[t] = astray[t], told'[t] = told[t]
  PROVE  FramesOf(t)'
BY DEF FramesOf, StopReason

LEMMA BeginMessageStep ==
  ASSUME AnthropicInv, NEW s \in Messages, BeginMessage(s)
  PROVE  AnthropicInv'
<1> USE DEF AnthropicInv
<1>1. /\ streaming' = [streaming EXCEPT ![s] = "yes"] /\ streaming[s] = "no"
      /\ starts' = [starts EXCEPT ![s] = [starts[s] EXCEPT ![Text] = 1]]
      /\ UNCHANGED <<upstream, openBlocks, begun, lastEvent, said, trailed, stops, astray, told>>
  BY DEF BeginMessage
<1>2. /\ starts' \in [Messages -> [Blocks -> Nat]] /\ starts'[s][Text] = 1
      /\ \A b \in Blocks \ {Text} : starts'[s][b] = starts[s][b]
      /\ \A t \in Messages \ {s} : starts'[t] = starts[t]
  BY <1>1, BlocksFact DEF AnthropicTypeOK
<1>3. /\ streaming' \in [Messages -> {"no", "yes", "stopped", "error", "gone"}] /\ streaming'[s] = "yes"
      /\ \A t \in Messages \ {s} : streaming'[t] = streaming[t]
  BY <1>1 DEF AnthropicTypeOK
<1>4. AnthropicTypeOK'
  BY <1>1, <1>2, <1>3 DEF AnthropicTypeOK
<1>5. FramesOf(s)'
  <2>1. FramesOf(s) /\ (upstream[s] = "numbered" => \A b \in Blocks : starts'[s][b] <= 1)
    BY <1>2 DEF FramesOf
  <2> QED
    BY <1>1, <1>2, <1>3, <2>1 DEF FramesOf
<1>6. \A t \in Messages \ {s} : FramesOf(t)'
  BY <1>1, <1>2, <1>3, OthersKept
<1> QED
  BY <1>4, <1>5, <1>6

\* The steps that only say something of the turn: text, a reason, a trailing chunk, the
\* upstream breaks.
LEMMA ReasonStep ==
  ASSUME AnthropicInv, NEW s \in Messages,
         \/ TextDelta(s) \/ Trail(s)
         \/ \E reason \in Reasons : GiveReason(s, reason)
         \/ \E how \in {"error", "gone"} : BreakMessage(s, how)
  PROVE  AnthropicInv'
<1> USE DEF AnthropicInv
<1>1. streaming[s] = "yes" /\ UNCHANGED <<upstream, openBlocks, begun, starts, stops, told>>
  BY DEF TextDelta, Chunked, Trail, GiveReason, BreakMessage
<1>2. starts[s][Text] = 1 /\ stops[s][Text] = 0 /\ ~ astray[s]
  BY <1>1, BlocksFact DEF FramesOf
<1>3. /\ streaming' \in [Messages -> {"no", "yes", "stopped", "error", "gone"}]
      /\ streaming'[s] \in {"yes", "error", "gone"}
      /\ \A t \in Messages \ {s} : streaming'[t] = streaming[t]
  <2>1. \/ streaming' = streaming
        \/ \E how \in {"error", "gone"} : streaming' = [streaming EXCEPT ![s] = how]
    BY DEF TextDelta, Chunked, Trail, GiveReason, BreakMessage
  <2>2. streaming \in [Messages -> {"no", "yes", "stopped", "error", "gone"}]
    BY DEF AnthropicTypeOK
  <2>3. CASE streaming' = streaming
    BY <1>1, <2>2, <2>3
  <2>4. ASSUME NEW how \in {"error", "gone"}, streaming' = [streaming EXCEPT ![s] = how]
        PROVE  /\ streaming' \in [Messages -> {"no", "yes", "stopped", "error", "gone"}]
               /\ streaming'[s] \in {"yes", "error", "gone"}
               /\ \A t \in Messages \ {s} : streaming'[t] = streaming[t]
    BY <2>2, <2>4
  <2> QED
    BY <2>1, <2>3, <2>4
<1>4. /\ lastEvent' \in [Messages -> Reasons \cup {NoReason}] /\ said' \in [Messages -> Reasons \cup {NoReason}]
      /\ trailed' \in [Messages -> BOOLEAN]
      /\ \A t \in Messages \ {s} : lastEvent'[t] = lastEvent[t] /\ said'[t] = said[t] /\ trailed'[t] = trailed[t]
  <2>1. CASE TextDelta(s) \/ Trail(s)
    BY <2>1 DEF TextDelta, Chunked, Trail, AnthropicTypeOK
  <2>2. CASE \E reason \in Reasons : GiveReason(s, reason)
    BY <2>2 DEF GiveReason, AnthropicTypeOK
  <2>3. CASE \E how \in {"error", "gone"} : BreakMessage(s, how)
    BY <2>3 DEF BreakMessage, AnthropicTypeOK
  <2> QED
    BY <2>1, <2>2, <2>3
<1>5. trailed'[s] \/ lastEvent'[s] = said'[s]
  BY DEF TextDelta, Chunked, Trail, GiveReason, BreakMessage, AnthropicTypeOK, FramesOf
<1>6. /\ astray' \in [Messages -> BOOLEAN] /\ ~ astray'[s]
      /\ \A t \in Messages \ {s} : astray'[t] = astray[t]
  BY <1>2 DEF TextDelta, Chunked, IsOpenFor, Trail, GiveReason, BreakMessage, AnthropicTypeOK
<1>7. AnthropicTypeOK'
  BY <1>1, <1>3, <1>4, <1>6 DEF AnthropicTypeOK
<1>8. FramesOf(s)'
  BY <1>1, <1>3, <1>5, <1>6 DEF FramesOf
<1>9. \A t \in Messages \ {s} : FramesOf(t)'
  BY <1>1, <1>3, <1>4, <1>6, OthersKept
<1> QED
  BY <1>7, <1>8, <1>9

\* A delta of a tool call whose block is new or announced
LEMMA ToolDeltaStep ==
  ASSUME AnthropicInv, NEW s \in Messages, NEW b \in Blocks \ {Text}, NEW announces \in BOOLEAN,
         ToolDelta(s, b, announces),
         upstream[s] = "numbered" => (announces <=> b \notin begun[s]),
         b \notin begun[s] => announces
  PROVE  AnthropicInv'
<1> USE DEF AnthropicInv
<1>1. /\ streaming[s] = "yes" /\ said[s] = NoReason
      /\ lastEvent' = [lastEvent EXCEPT ![s] = NoReason]
      /\ UNCHANGED <<upstream, streaming, said, trailed, stops, told>>
      /\ begun' = [begun EXCEPT ![s] = begun[s] \cup {b}]
  BY DEF ToolDelta, Chunked
<1>2. /\ begun' \in [Messages -> SUBSET Blocks] /\ begun'[s] = begun[s] \cup {b}
      /\ lastEvent' \in [Messages -> Reasons \cup {NoReason}] /\ lastEvent'[s] = said'[s]
      /\ \A t \in Messages \ {s} : begun'[t] = begun[t] /\ lastEvent'[t] = lastEvent[t]
  BY <1>1 DEF AnthropicTypeOK
<1>3. /\ openBlocks' \in [Messages -> SUBSET Blocks] /\ openBlocks'[s] = begun'[s]
      /\ \A t \in Messages \ {s} : openBlocks'[t] = openBlocks[t]
  <2>1. openBlocks[s] = begun[s]
    BY <1>1 DEF FramesOf
  <2>2. CASE announces
    BY <1>2, <2>1, <2>2 DEF ToolDelta, Recorded, AnthropicTypeOK
  <2>3. CASE ~ announces
    BY <1>2, <2>1, <2>3 DEF ToolDelta, AnthropicTypeOK
  <2> QED
    BY <2>2, <2>3
<1>4. /\ starts' \in [Messages -> [Blocks -> Nat]]
      /\ starts'[s][b] = IF announces THEN starts[s][b] + 1 ELSE starts[s][b]
      /\ \A c \in Blocks \ {b} : starts'[s][c] = starts[s][c]
      /\ \A t \in Messages \ {s} : starts'[t] = starts[t]
  <2>1. starts[s] \in [Blocks -> Nat] /\ starts[s][b] \in Nat
    BY DEF AnthropicTypeOK
  <2>2. CASE announces
    <3>1. starts' = [starts EXCEPT ![s] = [starts[s] EXCEPT ![b] = starts[s][b] + 1]]
      BY <2>2 DEF ToolDelta
    <3> QED
      BY <2>1, <2>2, <3>1 DEF AnthropicTypeOK
  <2>3. CASE ~ announces
    BY <2>3 DEF ToolDelta, AnthropicTypeOK
  <2> QED
    BY <2>2, <2>3
<1>5. starts[s][b] \in Nat /\ stops[s][b] = 0 /\ (starts[s][b] > 0 <=> b \in begun[s])
  BY <1>1 DEF AnthropicTypeOK, FramesOf
<1>6. starts'[s][b] > 0 /\ (upstream[s] = "numbered" => starts'[s][b] <= 1)
  <2>1. upstream[s] = "numbered" => starts[s][b] <= 1
    BY DEF FramesOf
  <2> QED
    BY <1>4, <1>5, <2>1
<1>7. /\ astray' \in [Messages -> BOOLEAN] /\ ~ astray'[s]
      /\ \A t \in Messages \ {s} : astray'[t] = astray[t]
  <2>1. announces \/ IsOpenFor(s, b)
    BY <1>5 DEF IsOpenFor
  <2>2. ~ astray[s]
    BY DEF FramesOf
  <2> QED
    BY <2>1, <2>2 DEF ToolDelta, AnthropicTypeOK
<1>8. AnthropicTypeOK'
  BY <1>1, <1>2, <1>3, <1>4, <1>7 DEF AnthropicTypeOK
<1>9. FramesOf(s)'
  <2>1. starts[s][Text] = 1 /\ Text \notin begun[s] /\ Text # b
    BY <1>1 DEF FramesOf
  <2>2. \A c \in Blocks \ {Text} : starts'[s][c] > 0 <=> c \in begun'[s]
    BY <1>2, <1>4, <1>6 DEF FramesOf
  <2>3. upstream[s] = "numbered" => \A c \in Blocks : starts'[s][c] <= 1
    BY <1>4, <1>6 DEF FramesOf
  <2>4. \A c \in Blocks : stops'[s][c] = 0
    BY <1>1 DEF FramesOf
  <2>5. starts'[s][Text] = 1 /\ Text \notin begun'[s]
    BY <1>2, <1>4, <2>1, BlocksFact
  <2> QED
    BY <1>1, <1>2, <1>3, <1>7, <2>2, <2>3, <2>4, <2>5 DEF FramesOf
<1>10. \A t \in Messages \ {s} : FramesOf(t)'
  BY <1>1, <1>2, <1>3, <1>4, <1>7, OthersKept
<1> QED
  BY <1>8, <1>9, <1>10

LEMMA EndMessageStep ==
  ASSUME AnthropicInv, NEW s \in Messages, EndMessage(s)
  PROVE  AnthropicInv'
<1> USE DEF AnthropicInv
<1>1. /\ streaming[s] = "yes" /\ streaming' = [streaming EXCEPT ![s] = "stopped"]
      /\ openBlocks' = [openBlocks EXCEPT ![s] = {}]
      /\ told' = [told EXCEPT ![s] = StopReason(lastEvent[s])]
      /\ UNCHANGED <<upstream, begun, lastEvent, said, trailed, starts, astray>>
  BY DEF EndMessage, LastReal
<1>2. /\ streaming' \in [Messages -> {"no", "yes", "stopped", "error", "gone"}] /\ streaming'[s] = "stopped"
      /\ openBlocks' \in [Messages -> SUBSET Blocks]
      /\ told' \in [Messages -> {NoReason, "tool_use", "max_tokens", "end_turn"}] /\ told'[s] = StopReason(lastEvent[s])
      /\ \A t \in Messages \ {s} : /\ streaming'[t] = streaming[t] /\ openBlocks'[t] = openBlocks[t]
                                  /\ told'[t] = told[t]
  <2>1. StopReason(lastEvent[s]) \in {"tool_use", "max_tokens", "end_turn"}
    BY DEF StopReason
  <2> QED
    BY <1>1, <2>1 DEF AnthropicTypeOK
<1>3. /\ stops' \in [Messages -> [Blocks -> Nat]]
      /\ \A b \in Blocks : stops'[s][b] = IF starts[s][b] > 0 THEN 1 ELSE 0
      /\ \A t \in Messages \ {s} : stops'[t] = stops[t]
  <2> DEFINE closed == [b \in Blocks |-> stops[s][b] + (IF b = Text THEN 1 ELSE 0)
                                         + (IF b \in openBlocks[s] THEN 1 ELSE 0)]
  <2>1. ASSUME NEW b \in Blocks PROVE closed[b] = IF starts[s][b] > 0 THEN 1 ELSE 0
    <3>1. stops[s][b] = 0 /\ starts[s][b] \in Nat
      BY <1>1 DEF FramesOf, AnthropicTypeOK
    <3>2. CASE b = Text
      BY <1>1, <3>1, <3>2 DEF FramesOf
    <3>3. CASE b # Text
      BY <1>1, <3>1, <3>3 DEF FramesOf
    <3> QED
      BY <3>2, <3>3
  <2>2. closed \in [Blocks -> Nat]
    BY <2>1
  <2>3. stops' = [stops EXCEPT ![s] = closed]
    BY DEF EndMessage, ToClose
  <2> HIDE DEF closed
  <2> QED
    BY <2>1, <2>2, <2>3 DEF AnthropicTypeOK
<1>4. AnthropicTypeOK'
  BY <1>1, <1>2, <1>3 DEF AnthropicTypeOK
<1>5. FramesOf(s)'
  <2>1. ~ trailed[s] => told'[s] = StopReason(said[s])
    BY <1>2 DEF FramesOf
  <2> QED
    BY <1>1, <1>2, <1>3, <2>1 DEF FramesOf, StopReason
<1>6. \A t \in Messages \ {s} : FramesOf(t)'
  BY <1>1, <1>2, <1>3, OthersKept
<1> QED
  BY <1>4, <1>5, <1>6

LEMMA AnthropicInvariance == AnthropicSpec => []AnthropicInv
<1>1. AnthropicInv /\ [AnthropicNext]_anthropicVars => AnthropicInv'
  <2> SUFFICES ASSUME AnthropicInv, [AnthropicNext]_anthropicVars PROVE AnthropicInv'
    OBVIOUS
  <2>1. CASE UNCHANGED anthropicVars
    BY <2>1, OthersKept DEF anthropicVars, AnthropicInv, AnthropicTypeOK
  <2>2. ASSUME NEW s \in Messages, NEW b \in Blocks \ {Text}, NumberedCall(s, b) PROVE AnthropicInv'
    BY <2>2, ToolDeltaStep DEF NumberedCall
  <2>3. ASSUME NEW s \in Messages, UnnumberedCall(s) PROVE AnthropicInv'
    BY <2>3, BlocksFact, ToolDeltaStep DEF UnnumberedCall
  <2> QED
    BY <2>1, <2>2, <2>3, BeginMessageStep, ReasonStep, EndMessageStep DEF AnthropicNext
<1> QED
  BY AnthropicInitOK, <1>1, PTL DEF AnthropicSpec

\* The tables of the adapter, and what a client was sent, are of their types.
THEOREM AnthropicTypesCorrect == AnthropicSpec => []AnthropicTypeOK
<1>1. AnthropicInv => AnthropicTypeOK
  BY DEF AnthropicInv
<1> QED
  BY AnthropicInvariance, <1>1, PTL

\* For any number of streams that share the table of the adapter, and of tool calls: a
\* client never gets a delta, or a stop, of a block that is not open, and a turn is
\* closed with the reason the provider ended it for.
THEOREM ClientsCanParse == AnthropicSpec => []FramesParse
<1>1. AnthropicInv => FramesParse
  BY DEF AnthropicInv, FramesOf, FramesParse
<1> QED
  BY AnthropicInvariance, <1>1, PTL

-----------------------------------------------------------------------------
(* ThoughtSignatures *)

IdKeys == SigIds \cup {Blank}
FnKeys == Functions \X BOOLEAN

\* What may be in the dictionary of ids: what was filed under the id.
FiledUnder == {p \in IdKeys \X ToolUses : <<p[1], What[p[2]]>> \in filed}

\* What may be in a worker's other dictionary: what the key asks, or what has strayed.
AskedOrStrayed(w) == {p \in FnKeys \X ToolUses : What[p[2]] = p[1][1] \/ p[1] \in strayed[w]}

\* A dictionary has each key once, with a signature that a relation allows it.
DictOK(d, K, G) ==
  /\ d \in Seq([key : K, sig : ToolUses])
  /\ \A i, j \in 1..Len(d) : d[i].key = d[j].key => i = j
  /\ \A i \in 1..Len(d) : <<d[i].key, d[i].sig>> \in G

SigShapes ==
  /\ byId \in [SigWorkers -> Seq([key : IdKeys, sig : ToolUses])]
  /\ byFn \in [SigWorkers -> Seq([key : FnKeys, sig : ToolUses])]
  /\ seen \in Seq(ToolUses) /\ replays \in 0..MaxReplays
  /\ filed \subseteq IdKeys \X Functions
  /\ strayed \in [SigWorkers -> SUBSET FnKeys]

\* The rows in the table are of calls the provider made, filed under their ids.
RowsFiled ==
  /\ table \subseteq Seen
  /\ \A c \in table : <<RowId(c), What[c]>> \in filed

SigInv ==
  /\ SigShapes /\ RowsFiled
  /\ \A w \in SigWorkers : DictOK(byId[w], IdKeys, FiledUnder)
  /\ \A w \in SigWorkers : DictOK(byFn[w], FnKeys, AskedOrStrayed(w))

LEMMA EmptyOK == \A K, G : DictOK(<<>>, K, G)
<1>1. Len(<<>>) = 0
  OBVIOUS
<1> QED
  BY <1>1 DEF DictOK

\* A dictionary may have what a wider relation allows.
LEMMA WiderOK ==
  ASSUME NEW K, NEW G, NEW H, NEW d, DictOK(d, K, G), G \subseteq H
  PROVE  DictOK(d, K, H)
BY DEF DictOK

LEMMA AtOK ==
  ASSUME NEW K, NEW G, NEW d, DictOK(d, K, G), NEW key, NEW sig \in At(d, key)
  PROVE  sig \in ToolUses /\ <<key, sig>> \in G
<1>1. PICK i \in 1..Len(d) : d[i].key = key /\ sig = d[i].sig
  BY DEF At
<1>2. d[i] \in [key : K, sig : ToolUses]
  BY ElementOfSeq DEF DictOK
<1> QED
  BY <1>1, <1>2 DEF DictOK

\* An assignment leaves the other keys' signatures.
LEMMA PutOK ==
  ASSUME NEW K, NEW G, NEW H, NEW d, DictOK(d, K, G), NEW k \in K, NEW s \in ToolUses,
         <<k, s>> \in H,
         \A l \in K, t \in ToolUses : l # k /\ <<l, t>> \in G => <<l, t>> \in H
  PROVE  DictOK(Put(d, k, s), K, H)
<1>1. d \in Seq([key : K, sig : ToolUses]) /\ Len(d) \in Nat
  BY DEF DictOK
<1>0. \A i \in 1..Len(d) : d[i] \in [key : K, sig : ToolUses]
  BY <1>1, ElementOfSeq
<1>9. \A i \in 1..Len(d) : d[i].key # k => <<d[i].key, d[i].sig>> \in H
  <2> TAKE i \in 1..Len(d)
  <2> HAVE d[i].key # k
  <2>1. d[i].key \in K /\ d[i].sig \in ToolUses
    BY <1>0
  <2>2. <<d[i].key, d[i].sig>> \in G
    BY DEF DictOK
  <2> QED
    BY <2>1, <2>2
<1>2. CASE Has(d, k)
  <2> DEFINE e == [i \in 1..Len(d) |-> IF d[i].key = k THEN [d[i] EXCEPT !.sig = s] ELSE d[i]]
  <2>1. Put(d, k, s) = e
    BY <1>2 DEF Put
  <2>2. \A i \in 1..Len(d) : /\ e[i] \in [key : K, sig : ToolUses]
                             /\ e[i].key = d[i].key
                             /\ e[i].sig = IF d[i].key = k THEN s ELSE d[i].sig
    <3> TAKE i \in 1..Len(d)
    <3>1. d[i] \in [key : K, sig : ToolUses]
      BY <1>0
    <3>2. CASE d[i].key = k
      <4>1. e[i] = [d[i] EXCEPT !.sig = s]
        BY <3>2
      <4> HIDE DEF e
      <4> QED
        BY <3>1, <3>2, <4>1
    <3>3. CASE d[i].key # k
      <4>1. e[i] = d[i]
        BY <3>3
      <4> HIDE DEF e
      <4> QED
        BY <3>1, <3>3, <4>1
    <3> QED
      BY <3>2, <3>3
  <2>3. e \in Seq([key : K, sig : ToolUses]) /\ Len(e) = Len(d)
    <3>1. e \in [1..Len(d) -> [key : K, sig : ToolUses]]
      BY <2>2
    <3> HIDE DEF e
    <3> QED
      BY <1>1, <3>1
  <2> HIDE DEF e
  <2>4. \A i \in 1..Len(e) : <<e[i].key, e[i].sig>> \in H
    <3> TAKE i \in 1..Len(e)
    <3>1. i \in 1..Len(d)
      BY <2>3
    <3>2. CASE d[i].key = k
      BY <2>2, <3>1, <3>2
    <3>3. CASE d[i].key # k
      BY <1>9, <2>2, <3>1, <3>3
    <3> QED
      BY <3>2, <3>3
  <2>5. \A i, j \in 1..Len(e) : e[i].key = e[j].key => i = j
    BY <2>2, <2>3 DEF DictOK
  <2> QED
    BY <2>1, <2>3, <2>4, <2>5 DEF DictOK
<1>3. CASE ~ Has(d, k)
  <2> DEFINE r == [key |-> k, sig |-> s]
  <2>1. Put(d, k, s) = Append(d, r) /\ r \in [key : K, sig : ToolUses] /\ r.key = k /\ r.sig = s
    BY <1>3 DEF Put
  <2>2. \A i \in 1..Len(d) : d[i].key # k
    BY <1>3 DEF Has
  <2> HIDE DEF r
  <2>3. /\ Append(d, r) \in Seq([key : K, sig : ToolUses]) /\ Len(Append(d, r)) = Len(d) + 1
        /\ \A i \in 1..Len(d) : Append(d, r)[i] = d[i]
        /\ Append(d, r)[Len(d) + 1] = r
    BY <1>1, <2>1
  <2>4. \A i \in 1..(Len(d) + 1) : i \in 1..Len(d) \/ i = Len(d) + 1
    BY <1>1
  <2>5. \A i \in 1..Len(Append(d, r)) : <<Append(d, r)[i].key, Append(d, r)[i].sig>> \in H
    <3> TAKE i \in 1..Len(Append(d, r))
    <3>1. CASE i \in 1..Len(d)
      BY <1>9, <2>2, <2>3, <3>1
    <3>2. CASE i = Len(d) + 1
      BY <2>1, <2>3, <3>2
    <3> QED
      BY <2>3, <2>4, <3>1, <3>2
  <2>6. \A i, j \in 1..Len(Append(d, r)) : Append(d, r)[i].key = Append(d, r)[j].key => i = j
    BY <2>1, <2>2, <2>3, <2>4 DEF DictOK
  <2> QED
    BY <2>1, <2>3, <2>5, <2>6 DEF DictOK
<1> QED
  BY <1>2, <1>3

LEMMA HalfOK ==
  ASSUME NEW K, NEW G, NEW d, DictOK(d, K, G)
  PROVE  DictOK(Half(d), K, G)
<1>1. d \in Seq([key : K, sig : ToolUses]) /\ Len(d) \in Nat
  BY DEF DictOK
<1>2. PICK g \in Nat : Half(d) = SubSeq(d, g + 1, Len(d)) /\ g <= Len(d)
  <2> DEFINE half == Cap \div 2
             g == IF Len(d) > half THEN Len(d) - half ELSE 0
  <2>1. half \in Nat
    BY SignatureAssumption
  <2>2. Half(d) = SubSeq(d, g + 1, Len(d))
    BY DEF Half
  <2> HIDE DEF half
  <2>3. g \in Nat /\ g <= Len(d)
    BY <1>1, <2>1
  <2> QED
    BY <2>2, <2>3
<1>3. /\ Half(d) \in Seq([key : K, sig : ToolUses]) /\ Len(Half(d)) = Len(d) - g
      /\ \A i \in 1..Len(Half(d)) : i + g \in 1..Len(d) /\ Half(d)[i] = d[i + g]
  <2> DEFINE R == [key : K, sig : ToolUses]
             m == g + 1
             n == Len(d)
  <2>1. m \in Int /\ n \in Int /\ m >= 1
    BY <1>1, <1>2
  <2>2. \A i \in m..n : d[i] \in R
    <3>1. \A i \in m..n : i \in 1..Len(d)
      BY <1>1, <2>1
    <3> HIDE DEF m, n
    <3> QED
      BY <1>1, <3>1, ElementOfSeq DEF R
  <2> HIDE DEF R, m, n
  <2>3. /\ SubSeq(d, m, n) \in Seq(R)
        /\ Len(SubSeq(d, m, n)) = IF m <= n THEN n - m + 1 ELSE 0
        /\ \A i \in 1..(n - m + 1) : SubSeq(d, m, n)[i] = d[m + i - 1]
    BY <2>1, <2>2, SubSeqProperties
  <2>4. n - m + 1 = n - g /\ (IF m <= n THEN n - m + 1 ELSE 0) = n - g /\ n \in Nat
    BY <1>1, <1>2 DEF m, n
  <2>5. \A i \in 1..(n - g) : m + i - 1 = i + g /\ i + g \in 1..n
    BY <1>1, <1>2 DEF m, n
  <2>6. Half(d) = SubSeq(d, m, n)
    BY <1>2 DEF m, n
  <2>7. Len(Half(d)) = n - g
    BY <2>3, <2>4, <2>6
  <2>8. \A i \in 1..Len(Half(d)) : i + g \in 1..n /\ Half(d)[i] = d[i + g]
    BY <2>3, <2>4, <2>5, <2>6, <2>7
  <2> QED
    BY <2>3, <2>6, <2>7, <2>8 DEF n, R
<1>4. \A i, j \in 1..Len(Half(d)) : i + g = j + g => i = j
  BY <1>2
<1>5. \A i \in 1..Len(Half(d)) : <<Half(d)[i].key, Half(d)[i].sig>> \in G
  BY <1>3 DEF DictOK
<1>6. \A i, j \in 1..Len(Half(d)) : Half(d)[i].key = Half(d)[j].key => i = j
  <2> TAKE i, j \in 1..Len(Half(d))
  <2> HAVE Half(d)[i].key = Half(d)[j].key
  <2>1. i + g \in 1..Len(d) /\ j + g \in 1..Len(d) /\ d[i + g].key = d[j + g].key
    BY <1>3
  <2>2. i + g = j + g
    BY <2>1 DEF DictOK
  <2> QED
    BY <2>2, <1>4
<1> QED
  BY <1>3, <1>5, <1>6 DEF DictOK

LEMMA CallOK ==
  ASSUME NEW c \in ToolUses
  PROVE  /\ What[c] \in Functions /\ RowId(c) \in IdKeys
         /\ Given[c] # Unnamed => Given[c] = RowId(c)
         /\ \A same \in BOOLEAN : Spelled(c, same) \in FnKeys /\ Spelled(c, same)[1] = What[c]
BY SignatureAssumption DEF RowId, Spelled, IdKeys, FnKeys

\* A worker replaces its two dictionaries by others that are right.
LEMMA DictionariesStep ==
  ASSUME SigInv, NEW w \in SigWorkers, NEW ids, NEW fns,
         DictOK(ids, IdKeys, FiledUnder'), DictOK(fns, FnKeys, AskedOrStrayed(w)'),
         byId' = [byId EXCEPT ![w] = ids], byFn' = [byFn EXCEPT ![w] = fns],
         seen' \in Seq(ToolUses), replays' \in 0..MaxReplays,
         filed' \subseteq IdKeys \X Functions, filed \subseteq filed',
         strayed' \in [SigWorkers -> SUBSET FnKeys],
         \A v \in SigWorkers \ {w} : strayed'[v] = strayed[v],
         RowsFiled'
  PROVE  SigInv'
<1>1. /\ ids \in Seq([key : IdKeys, sig : ToolUses])
      /\ fns \in Seq([key : FnKeys, sig : ToolUses])
  BY DEF DictOK
<1>2. byId' \in [SigWorkers -> Seq([key : IdKeys, sig : ToolUses])]
  BY <1>1 DEF SigInv, SigShapes
<1>3. byFn' \in [SigWorkers -> Seq([key : FnKeys, sig : ToolUses])]
  BY <1>1 DEF SigInv, SigShapes
<1>4. \A v \in SigWorkers : byId'[v] = IF v = w THEN ids ELSE byId[v]
  BY DEF SigInv, SigShapes
<1>5. \A v \in SigWorkers : byFn'[v] = IF v = w THEN fns ELSE byFn[v]
  BY DEF SigInv, SigShapes
<1>6. ASSUME NEW v \in SigWorkers
      PROVE  DictOK(byId'[v], IdKeys, FiledUnder')
  <2>1. FiledUnder \subseteq FiledUnder'
    BY DEF FiledUnder
  <2>2. DictOK(byId[v], IdKeys, FiledUnder')
    BY <2>1, WiderOK DEF SigInv
  <2> QED
    BY <1>4, <2>2
<1>7. ASSUME NEW v \in SigWorkers
      PROVE  DictOK(byFn'[v], FnKeys, AskedOrStrayed(v)')
  <2>1. CASE v = w
    BY <1>5, <2>1
  <2>2. CASE v # w
    <3>1. AskedOrStrayed(v)' = AskedOrStrayed(v)
      BY <2>2 DEF AskedOrStrayed
    <3> QED
      BY <1>5, <2>2, <3>1 DEF SigInv
  <2> QED
    BY <2>1, <2>2
<1> QED
  BY <1>2, <1>3, <1>6, <1>7 DEF SigInv, SigShapes

LEMMA CaptureStep ==
  ASSUME SigInv, NEW w \in SigWorkers, NEW c \in ToolUses, NEW persisted \in BOOLEAN,
         Capture(w, c, persisted)
  PROVE  SigInv'
<1> DEFINE ids == IF Given[c] = Unnamed THEN byId[w] ELSE Put(byId[w], Given[c], c)
           key == Spelled(c, TRUE)
           fns == Put(byFn[w], key, c)
<1>1. /\ What[c] \in Functions /\ RowId(c) \in IdKeys
      /\ Given[c] # Unnamed => Given[c] = RowId(c)
      /\ key \in FnKeys /\ key[1] = What[c]
  BY CallOK
<1>2. /\ filed' = filed \cup {<<RowId(c), What[c]>>}
      /\ strayed' = [strayed EXCEPT ![w] = strayed[w] \ {key}]
      /\ seen' = Append(seen, c) /\ replays' = replays
      /\ table' \in {table, WithRow(c)}
  BY DEF Capture
<1>3. FiledUnder \subseteq FiledUnder' /\ <<RowId(c), c>> \in FiledUnder'
  BY <1>1, <1>2 DEF FiledUnder
<1>4. DictOK(byId[w], IdKeys, FiledUnder) /\ DictOK(byFn[w], FnKeys, AskedOrStrayed(w))
  BY DEF SigInv
<1>5. DictOK(ids, IdKeys, FiledUnder')
  <2>1. CASE Given[c] = Unnamed
    BY <1>3, <1>4, <2>1, WiderOK
  <2>2. CASE Given[c] # Unnamed
    <3>1. ids = Put(byId[w], RowId(c), c)
      BY <1>1, <2>2
    <3>2. \A l \in IdKeys, t \in ToolUses :
            l # RowId(c) /\ <<l, t>> \in FiledUnder => <<l, t>> \in FiledUnder'
      BY <1>3
    <3> HIDE DEF ids
    <3> QED
      BY <1>1, <1>3, <1>4, <3>1, <3>2, PutOK
  <2> QED
    BY <2>1, <2>2
<1>6. DictOK(fns, FnKeys, AskedOrStrayed(w)')
  <2>1. strayed'[w] = strayed[w] \ {key}
    BY <1>2 DEF SigInv, SigShapes
  <2> HIDE DEF key
  <2>2. <<key, c>> \in AskedOrStrayed(w)'
    BY <1>1 DEF AskedOrStrayed
  <2>3. \A l \in FnKeys, t \in ToolUses :
          l # key /\ <<l, t>> \in AskedOrStrayed(w) => <<l, t>> \in AskedOrStrayed(w)'
    BY <2>1 DEF AskedOrStrayed
  <2> QED
    BY <1>1, <1>4, <2>2, <2>3, PutOK
<1> HIDE DEF ids, key
<1>7. PICK i, f : /\ i \in {ids, Half(ids)} /\ f \in {fns, Half(fns)}
                  /\ byId' = [byId EXCEPT ![w] = i] /\ byFn' = [byFn EXCEPT ![w] = f]
  BY DEF Capture, ids, key
<1> HIDE DEF fns
<1>8. DictOK(i, IdKeys, FiledUnder') /\ DictOK(f, FnKeys, AskedOrStrayed(w)')
  BY <1>5, <1>6, <1>7, HalfOK
<1>9. seen' \in Seq(ToolUses) /\ Seen' = Seen \cup {c}
  <2>1. seen \in Seq(ToolUses)
    BY DEF SigInv, SigShapes
  <2>2. /\ Len(seen') = Len(seen) + 1 /\ seen'[Len(seen) + 1] = c /\ Len(seen) \in Nat
        /\ \A k \in 1..Len(seen) : seen'[k] = seen[k]
        /\ seen' \in Seq(ToolUses)
    BY <1>2, <2>1
  <2>3. \A k \in 1..Len(seen') : k \in 1..Len(seen) \/ k = Len(seen) + 1
    BY <2>2
  <2>4. 1..Len(seen) \subseteq 1..Len(seen') /\ Len(seen) + 1 \in 1..Len(seen')
    BY <2>2
  <2> QED
    BY <2>2, <2>3, <2>4 DEF Seen
<1>10. RowsFiled'
  <2>1. \A d : RowId(d)' = RowId(d)
    BY DEF RowId
  <2>2. table' \subseteq table \cup {c}
    BY <1>2 DEF WithRow
  <2> QED
    BY <1>2, <1>9, <2>1, <2>2 DEF RowsFiled, SigInv
<1>11. filed' \subseteq IdKeys \X Functions /\ filed \subseteq filed' /\ replays' \in 0..MaxReplays
  BY <1>1, <1>2 DEF SigInv, SigShapes
<1>12. /\ strayed' \in [SigWorkers -> SUBSET FnKeys]
       /\ \A v \in SigWorkers \ {w} : strayed'[v] = strayed[v]
  BY <1>2 DEF SigInv, SigShapes
<1> QED
  BY <1>7, <1>8, <1>9, <1>10, <1>11, <1>12, DictionariesStep

\* What is found in memory was given for what is asked, or its id or key is astray.
LEMMA RememberedOK ==
  ASSUME SigInv, NEW w \in SigWorkers, NEW c \in ToolUses, NEW id \in IdKeys, NEW same \in BOOLEAN,
         NEW sig \in Remembered(w, c, id, same)
  PROVE  What[sig] = What[c] \/ Astray(c, id) \/ Spelled(c, same) \in strayed[w]
<1>1. CASE id # Blank /\ Has(byId[w], id)
  <2>1. sig \in At(byId[w], id)
    BY <1>1 DEF Remembered
  <2>2. DictOK(byId[w], IdKeys, FiledUnder)
    BY DEF SigInv
  <2>3. sig \in ToolUses /\ <<id, sig>> \in FiledUnder
    BY <2>1, <2>2, AtOK
  <2>4. <<id, What[sig]>> \in filed /\ What[sig] \in Functions
    BY <2>3, CallOK DEF FiledUnder
  <2> QED
    BY <2>4 DEF Astray
<1>2. CASE ~ (id # Blank /\ Has(byId[w], id))
  <2>1. sig \in At(byFn[w], Spelled(c, same))
    BY <1>2 DEF Remembered
  <2>2. DictOK(byFn[w], FnKeys, AskedOrStrayed(w))
    BY DEF SigInv
  <2>3. <<Spelled(c, same), sig>> \in AskedOrStrayed(w)
    BY <2>1, <2>2, AtOK
  <2>4. Spelled(c, same)[1] = What[c]
    BY CallOK
  <2> QED
    BY <2>3, <2>4 DEF AskedOrStrayed
<1> QED
  BY <1>1, <1>2

LEMMA LatestOK ==
  ASSUME SigInv, NEW rows \in SUBSET (1..Len(seen))
  PROVE  /\ rows # {} => Latest(rows) # {}
         /\ \A sig \in Latest(rows) : \E i \in rows : sig = seen[i]
<1>1. rows # {} => Latest(rows) # {}
  <2> HAVE rows # {}
  <2>1. Len(seen) \in Nat
    BY DEF SigInv, SigShapes
  <2>2. PICK x \in rows : \A j \in rows : j <= x
    BY <2>1, GreatestNat
  <2>3. seen[x] \in Latest(rows)
    BY <2>2 DEF Latest
  <2> QED
    BY <2>3
<1> QED
  BY <1>1 DEF Latest

\* What is found in the table was given for what is asked, or the id is astray; and it
\* is found if there is a row with the id or the spelling.
LEMMA StoredOK ==
  ASSUME SigInv, NEW c \in ToolUses, NEW id \in IdKeys, NEW same \in BOOLEAN
  PROVE  /\ \A sig \in Stored(c, id, same) :
              /\ sig \in ToolUses
              /\ What[sig] = What[c] \/ <<id, What[sig]>> \in filed
         /\ (\E d \in table : What[d] = What[c] /\ (same \/ RowId(d) = id)) => Stored(c, id, same) # {}
<1> DEFINE rows == RowsOf(What[c])
           some == rows \cap NewestRows(c)
           under == {d \in table : RowId(d) = id}
<1>1. /\ rows \in SUBSET (1..Len(seen)) /\ some \in SUBSET (1..Len(seen))
      /\ \A i \in rows : seen[i] \in ToolUses /\ What[seen[i]] = What[c]
      /\ \A i \in some : seen[i] \in ToolUses /\ What[seen[i]] = What[c]
      /\ \A d \in table : What[d] = What[c] => rows # {}
  <2>1. \A i \in 1..Len(seen) : seen[i] \in ToolUses
    BY ElementOfSeq DEF SigInv, SigShapes
  <2>2. \A d \in table : \E i \in 1..Len(seen) : d = seen[i]
    BY DEF SigInv, RowsFiled, Seen
  <2>3. rows \in SUBSET (1..Len(seen)) /\ \A i \in rows : What[seen[i]] = What[c]
    BY DEF RowsOf
  <2>4. \A d \in table : What[d] = What[c] => rows # {}
    BY <2>2 DEF RowsOf
  <2> HIDE DEF rows
  <2> QED
    BY <2>1, <2>3, <2>4
<1>2. \A d \in under : d \in ToolUses /\ <<id, What[d]>> \in filed
  <2>1. Seen \subseteq ToolUses
    BY ElementOfSeq DEF Seen, SigInv, SigShapes
  <2> QED
    BY <2>1 DEF SigInv, RowsFiled
<1>3. Stored(c, id, same) \in {under, Latest(rows), Latest(some)}
  BY DEF Stored, InTable, InParsed
<1>4. ASSUME \E d \in table : What[d] = What[c] /\ (same \/ RowId(d) = id)
      PROVE  Stored(c, id, same) # {}
  <2>1. CASE under # {}
    BY <2>1 DEF Stored, InTable
  <2>2. CASE under = {}
    <3>1. same /\ rows # {}
      BY <1>1, <1>4, <2>2
    <3>2. Latest(rows) # {}
      BY <1>1, <3>1, LatestOK
    <3>3. InTable(c, id, same) = Latest(rows)
      BY <2>2, <3>1 DEF InTable
    <3> QED
      BY <3>2, <3>3 DEF Stored
  <2> QED
    BY <2>1, <2>2
<1> HIDE DEF rows, some, under
<1>5. \A sig \in Latest(rows) \cup Latest(some) : sig \in ToolUses /\ What[sig] = What[c]
  BY <1>1, LatestOK
<1> QED
  BY <1>2, <1>3, <1>4, <1>5

LEMMA ReplayStep ==
  ASSUME SigInv, NEW w \in SigWorkers, NEW c \in ToolUses, NEW id \in IdKeys, NEW same \in BOOLEAN,
         Replay(w, c, id, same)
  PROVE  SigInv'
<1> DEFINE key == Spelled(c, same)
<1>1. PICK found \in Stored(c, id, same) :
        /\ byId' = [byId EXCEPT ![w] = IF id = Blank THEN byId[w] ELSE Put(byId[w], id, found)]
        /\ byFn' = [byFn EXCEPT ![w] = Put(byFn[w], key, found)]
        /\ filed' = filed \cup {<<id, What[found]>>}
  BY DEF Replay
<1>2. /\ found \in ToolUses /\ What[found] \in Functions
      /\ What[found] = What[c] \/ <<id, What[found]>> \in filed
  BY StoredOK, CallOK
<1>3. /\ strayed' = IF Astray(c, id) THEN [strayed EXCEPT ![w] = strayed[w] \cup {key}] ELSE strayed
      /\ table' = table /\ seen' = seen /\ replays' = replays + 1 /\ replays < MaxReplays
  BY DEF Replay
<1>4. key \in FnKeys /\ key[1] = What[c]
  BY CallOK
<1> HIDE DEF key
<1>5. /\ strayed' \in [SigWorkers -> SUBSET FnKeys]
      /\ \A v \in SigWorkers \ {w} : strayed'[v] = strayed[v]
      /\ strayed[w] \subseteq strayed'[w]
      /\ Astray(c, id) => key \in strayed'[w]
  BY <1>3, <1>4 DEF SigInv, SigShapes
<1>6. What[found] = What[c] \/ key \in strayed'[w]
  <2>1. What[found] # What[c] => Astray(c, id)
    BY <1>2 DEF Astray
  <2> QED
    BY <1>5, <2>1
<1>7. FiledUnder \subseteq FiledUnder' /\ <<id, found>> \in FiledUnder'
  BY <1>1, <1>2 DEF FiledUnder
<1>8. DictOK(byId[w], IdKeys, FiledUnder) /\ DictOK(byFn[w], FnKeys, AskedOrStrayed(w))
  BY DEF SigInv
<1>9. DictOK(IF id = Blank THEN byId[w] ELSE Put(byId[w], id, found), IdKeys, FiledUnder')
  <2>1. DictOK(byId[w], IdKeys, FiledUnder')
    BY <1>7, <1>8, WiderOK
  <2>2. DictOK(Put(byId[w], id, found), IdKeys, FiledUnder')
    <3>1. \A l \in IdKeys, t \in ToolUses :
            l # id /\ <<l, t>> \in FiledUnder => <<l, t>> \in FiledUnder'
      BY <1>7
    <3> QED
      BY <1>2, <1>7, <1>8, <3>1, PutOK
  <2> QED
    BY <2>1, <2>2
<1>10. DictOK(Put(byFn[w], key, found), FnKeys, AskedOrStrayed(w)')
  <2>1. <<key, found>> \in AskedOrStrayed(w)'
    BY <1>2, <1>4, <1>6 DEF AskedOrStrayed
  <2>2. \A l \in FnKeys, t \in ToolUses :
          l # key /\ <<l, t>> \in AskedOrStrayed(w) => <<l, t>> \in AskedOrStrayed(w)'
    BY <1>5 DEF AskedOrStrayed
  <2> QED
    BY <1>2, <1>4, <1>8, <2>1, <2>2, PutOK
<1>11. RowsFiled'
  BY <1>1, <1>3 DEF RowsFiled, SigInv, Seen, RowId
<1>12. /\ seen' \in Seq(ToolUses) /\ replays' \in 0..MaxReplays
       /\ filed' \subseteq IdKeys \X Functions /\ filed \subseteq filed'
  <2>1. replays' \in 0..MaxReplays
    BY <1>3, SignatureAssumption DEF SigInv, SigShapes
  <2> QED
    BY <1>1, <1>2, <1>3, <2>1 DEF SigInv, SigShapes
<1> QED
  BY <1>1, <1>5, <1>9, <1>10, <1>11, <1>12, DictionariesStep

LEMMA SigInvariance == SigSpec => []SigInv
<1>1. SigInit => SigInv
  <2> SUFFICES ASSUME SigInit PROVE SigInv
    OBVIOUS
  <2>1. \A w \in SigWorkers : byId[w] = <<>> /\ byFn[w] = <<>>
    BY DEF SigInit
  <2>2. SigShapes
    BY SignatureAssumption DEF SigInit, SigShapes
  <2>3. RowsFiled
    BY DEF SigInit, RowsFiled
  <2> QED
    BY <2>1, <2>2, <2>3, EmptyOK DEF SigInv
<1>2. SigInv /\ [SigNext]_sigVars => SigInv'
  <2> SUFFICES ASSUME SigInv, [SigNext]_sigVars PROVE SigInv'
    OBVIOUS
  <2>1. ASSUME NEW w \in SigWorkers, SigRestart(w) PROVE SigInv'
    <3>1. /\ seen' \in Seq(ToolUses) /\ replays' \in 0..MaxReplays
          /\ filed' \subseteq IdKeys \X Functions /\ filed \subseteq filed'
          /\ strayed' \in [SigWorkers -> SUBSET FnKeys]
          /\ \A v \in SigWorkers \ {w} : strayed'[v] = strayed[v]
      BY <2>1 DEF SigRestart, SigInv, SigShapes
    <3>2. RowsFiled'
      BY <2>1 DEF SigRestart, SigInv, RowsFiled, Seen, RowId
    <3>3. DictOK(<<>>, IdKeys, FiledUnder') /\ DictOK(<<>>, FnKeys, AskedOrStrayed(w)')
      BY EmptyOK
    <3>4. byId' = [byId EXCEPT ![w] = <<>>] /\ byFn' = [byFn EXCEPT ![w] = <<>>]
      BY <2>1 DEF SigRestart
    <3> QED
      BY <3>1, <3>2, <3>3, <3>4, DictionariesStep
  <2>2. CASE UNCHANGED sigVars
    <3>1. SigShapes' /\ RowsFiled'
      BY <2>2 DEF sigVars, SigInv, SigShapes, RowsFiled, Seen, RowId
    <3>2. FiledUnder' = FiledUnder /\ \A w \in SigWorkers : AskedOrStrayed(w)' = AskedOrStrayed(w)
      BY <2>2 DEF sigVars, FiledUnder, AskedOrStrayed
    <3>3. byId' = byId /\ byFn' = byFn
      BY <2>2 DEF sigVars
    <3> QED
      BY <3>1, <3>2, <3>3 DEF SigInv
  <2>3. ASSUME NEW w \in SigWorkers, NEW c \in ToolUses, NEW id \in SigIds \cup {Blank},
               NEW same \in BOOLEAN, Replay(w, c, id, same)
        PROVE  SigInv'
    BY <2>3, ReplayStep DEF IdKeys
  <2> QED
    BY <2>1, <2>2, <2>3, CaptureStep DEF SigNext
<1> QED
  BY <1>1, <1>2, PTL DEF SigSpec

\* The dictionaries of each worker map a key once, to a signature.
THEOREM SigTypesCorrect == SigSpec => []SigTypeOK
<1>1. SigInv => SigTypeOK
  <2> SUFFICES ASSUME SigInv PROVE SigTypeOK
    OBVIOUS
  <2>1. Seen \subseteq ToolUses
    BY ElementOfSeq DEF Seen, SigInv, SigShapes
  <2>2. \A w \in SigWorkers :
          /\ byId[w] \in Seq([key : SigIds \cup {Blank}, sig : ToolUses])
          /\ byFn[w] \in Seq([key : Functions \X BOOLEAN, sig : ToolUses])
          /\ \A i, j \in 1..Len(byId[w]) : byId[w][i].key = byId[w][j].key => i = j
          /\ \A i, j \in 1..Len(byFn[w]) : byFn[w][i].key = byFn[w][j].key => i = j
          /\ strayed[w] \subseteq Functions \X BOOLEAN
    BY DEF SigInv, SigShapes, DictOK, IdKeys, FnKeys
  <2> QED
    BY <2>1, <2>2 DEF SigInv, SigShapes, RowsFiled, SigTypeOK, IdKeys
<1> QED
  BY <1>1, SigInvariance, PTL

\* A replayed call goes out with a signature as soon as the table has a row of its
\* function and arguments with its id or its spelling, and with the signature of
\* something else only if its id, or that of the replay that filled the worker's memory,
\* stands for something else too, as the empty id does.
THEOREM SignaturesComeBack == SigSpec => []SignatureComesBack
<1>1. SigInv => SignatureComesBack
  <2> SUFFICES ASSUME SigInv, NEW w \in SigWorkers, NEW c \in Seen,
                      NEW id \in SigIds \cup {Blank}, NEW same \in BOOLEAN
               PROVE  /\ (\E d \in table : What[d] = What[c] /\ (same \/ RowId(d) = id))
                           => SentWith(w, c, id, same) # {}
                      /\ \A sig \in SentWith(w, c, id, same) :
                           What[sig] = What[c] \/ Astray(c, id) \/ Spelled(c, same) \in strayed[w]
    BY DEF SignatureComesBack
  <2>1. c \in ToolUses /\ id \in IdKeys
    BY ElementOfSeq DEF Seen, SigInv, SigShapes, IdKeys
  <2>2. \A sig \in Stored(c, id, same) : What[sig] = What[c] \/ Astray(c, id)
    <3>1. \A sig \in Stored(c, id, same) :
            sig \in ToolUses /\ (What[sig] = What[c] \/ <<id, What[sig]>> \in filed)
      BY <2>1, StoredOK
    <3> QED
      BY <3>1, CallOK DEF Astray
  <2>3. (\E d \in table : What[d] = What[c] /\ (same \/ RowId(d) = id)) => Stored(c, id, same) # {}
    BY <2>1, StoredOK
  <2>4. \A sig \in Remembered(w, c, id, same) :
          What[sig] = What[c] \/ Astray(c, id) \/ Spelled(c, same) \in strayed[w]
    BY <2>1, RememberedOK
  <2> QED
    BY <2>2, <2>3, <2>4 DEF SentWith
<1> QED
  BY <1>1, SigInvariance, PTL

-----------------------------------------------------------------------------
(* ToolNames *)

WellNamed(b) == b.tools \in Seq(ToolLabels) /\ b.replayed \in Seq(ToolLabels)

\* What the attempt rewrites and the map it keeps belong together: the first attempt that
\* rewrites has the names of the client, a later one finds nothing left to rewrite.
MapFits ==
  \/ body = Rewritten(brought) /\ restored = MapOf(brought)
  \/ body = brought /\ restored = NoMap /\ ~reused
  \/ body = Rewritten(brought) /\ restored = NoMap /\ reused

\* Names are heard only in an attempt nothing follows.
ToolInv ==
  /\ brought \in Bodies /\ body \in {brought, Rewritten(brought)}
  /\ pass \in Stages /\ padded \in BOOLEAN /\ reused \in BOOLEAN /\ attempts \in 0..Attempts
  /\ heard # {} => pass \in {"stream", "done", "failed"}
  /\ heard \subseteq [tool : 1..Len(brought.tools), name : ToolLabels]
  /\ pass # "ready" => MapFits
  /\ pass = "ready" => restored = NoMap \/ restored = MapOf(brought)
  /\ NamesComeBack

LEMMA BodyNames ==
  ASSUME NEW b, WellNamed(b)
  PROVE  /\ NamesIn(b) \in Seq(ToolLabels) /\ Len(b.tools) \in Nat /\ Len(b.replayed) \in Nat
         /\ Len(NamesIn(b)) = Len(b.tools) + Len(b.replayed)
         /\ \A k \in 1..Len(b.tools) : NamesIn(b)[k] = b.tools[k] /\ b.tools[k] \in ToolLabels
         /\ \A k \in 1..Len(NamesIn(b)) :
              k > Len(b.tools) => NamesIn(b)[k] = b.replayed[k - Len(b.tools)]
<1>0. b.tools \in Seq(ToolLabels) /\ b.replayed \in Seq(ToolLabels) /\ NamesIn(b) = b.tools \o b.replayed
  BY DEF WellNamed, NamesIn
<1> DEFINE t == b.tools
           p == b.replayed
           n == NamesIn(b)
<1> SUFFICES /\ n \in Seq(ToolLabels) /\ Len(t) \in Nat /\ Len(p) \in Nat
             /\ Len(n) = Len(t) + Len(p)
             /\ \A k \in 1..Len(t) : n[k] = t[k] /\ t[k] \in ToolLabels
             /\ \A k \in 1..Len(n) : k > Len(t) => n[k] = p[k - Len(t)]
  OBVIOUS
<1>1. t \in Seq(ToolLabels) /\ p \in Seq(ToolLabels) /\ n = t \o p
  BY <1>0
<1> HIDE DEF t, p, n
<1>2. n \in Seq(ToolLabels) /\ Len(t) \in Nat /\ Len(p) \in Nat /\ Len(n) = Len(t) + Len(p)
  BY <1>1, ConcatProperties, LenProperties
<1>3. \A k \in 1..Len(t) : t[k] \in ToolLabels
  BY <1>1, ElementOfSeq
<1>4. \A k \in 1..(Len(t) + Len(p)) : n[k] = IF k <= Len(t) THEN t[k] ELSE p[k - Len(t)]
  BY <1>1, ConcatProperties
<1> QED
  BY <1>2, <1>3, <1>4

LEMMA RewrittenNames ==
  ASSUME NEW b, WellNamed(b)
  PROVE  /\ WellNamed(Rewritten(b))
         /\ Len(Rewritten(b).tools) = Len(b.tools)
         /\ \A k \in 1..Len(b.tools) : Rewritten(b).tools[k] = Underscored[b.tools[k]]
         /\ Rewritten(Rewritten(b)) = Rewritten(b)
<1> DEFINE under(q) == [k \in 1..Len(q) |-> Underscored[q[k]]]
<1>1. ASSUME NEW q \in Seq(ToolLabels)
      PROVE  under(q) \in Seq(ToolLabels) /\ Len(under(q)) = Len(q) /\ under(under(q)) = under(q)
  <2>1. Len(q) \in Nat /\ \A k \in 1..Len(q) : q[k] \in ToolLabels
    BY ElementOfSeq, LenProperties
  <2>2. \A k \in 1..Len(q) : Underscored[q[k]] \in ToolLabels
                             /\ Underscored[Underscored[q[k]]] = Underscored[q[k]]
    BY <2>1, ToolNamesAssumption
  <2>3. under(q) \in Seq(ToolLabels) /\ Len(under(q)) = Len(q)
    BY <2>1, <2>2, SeqDef, LenProperties
  <2>4. under(under(q)) = under(q)
    BY <2>2, <2>3
  <2> QED
    BY <2>3, <2>4
<1>2. Rewritten(b) = [tools |-> under(b.tools), replayed |-> under(b.replayed)]
  BY DEF Rewritten
<1>3. Rewritten(b).tools = under(b.tools) /\ Rewritten(b).replayed = under(b.replayed)
  BY <1>2
<1>4. ASSUME NEW c PROVE Rewritten(c) = [tools |-> under(c.tools), replayed |-> under(c.replayed)]
  BY DEF Rewritten
<1>5. \A k \in 1..Len(b.tools) : under(b.tools)[k] = Underscored[b.tools[k]]
  OBVIOUS
<1> HIDE DEF under
<1>6. under(under(b.tools)) = under(b.tools) /\ under(under(b.replayed)) = under(b.replayed)
  BY <1>1 DEF WellNamed
<1>7. WellNamed(Rewritten(b)) /\ Len(Rewritten(b).tools) = Len(b.tools)
  BY <1>1, <1>3 DEF WellNamed
<1> QED
  BY <1>2, <1>3, <1>4, <1>5, <1>6, <1>7

\* A name the map gives is one of the body's, written alike.
LEMMA MapGives ==
  ASSUME NEW b, WellNamed(b), NEW u \in DOMAIN MapOf(b)
  PROVE  \E i \in 1..Len(NamesIn(b)) :
           /\ Underscored[NamesIn(b)[i]] = u /\ MapOf(b)[u] = NamesIn(b)[i]
<1> DEFINE names == NamesIn(b)
           coloned == {i \in DOMAIN names : HasColon(names[i])}
           alike == {i \in coloned : Underscored[names[i]] = u}
           first(n) == CHOOSE i \in coloned : /\ Underscored[names[i]] = n
                                              /\ \A j \in coloned : Underscored[names[j]] = n => i <= j
<1>1. MapOf(b) = [n \in {Underscored[names[i]] : i \in coloned} |-> names[first(n)]]
  BY DEF MapOf
<1>2. u \in {Underscored[names[i]] : i \in coloned} /\ MapOf(b)[u] = names[first(u)]
  BY <1>1
<1>3. names \in Seq(ToolLabels) /\ DOMAIN names = 1..Len(names)
  BY BodyNames, LenProperties
<1>4. alike \in SUBSET Nat /\ alike # {}
  BY <1>2, <1>3
<1>5. PICK i \in alike : \A j \in alike : i <= j
  BY <1>4, LeastNat
<1>6. \E j \in coloned : /\ Underscored[names[j]] = u
                         /\ \A k \in coloned : Underscored[names[k]] = u => j <= k
  BY <1>5
<1>7. first(u) \in coloned /\ Underscored[names[first(u)]] = u
  BY <1>6
<1> QED
  BY <1>2, <1>3, <1>7

LEMMA MapKnows ==
  ASSUME NEW b, WellNamed(b), NEW k \in 1..Len(NamesIn(b)), HasColon(NamesIn(b)[k])
  PROVE  Underscored[NamesIn(b)[k]] \in DOMAIN MapOf(b)
<1>1. DOMAIN NamesIn(b) = 1..Len(NamesIn(b))
  BY BodyNames, LenProperties
<1> QED
  BY <1>1 DEF MapOf

\* Once rewritten, nothing is left to rewrite.
LEMMA RewrittenMap ==
  ASSUME NEW b, WellNamed(b)
  PROVE  MapOf(Rewritten(b)) = NoMap
<1> DEFINE c == Rewritten(b)
<1>1. WellNamed(c) /\ Rewritten(c) = c
  BY RewrittenNames
<1>2. ASSUME NEW i \in 1..Len(NamesIn(c)) PROVE ~HasColon(NamesIn(c)[i])
  <2>1. \A k \in 1..Len(c.tools) : NamesIn(c)[k] = c.tools[k]
    BY <1>1, BodyNames
  <2>2. /\ Len(NamesIn(c)) = Len(c.tools) + Len(c.replayed)
        /\ Len(c.tools) \in Nat /\ Len(c.replayed) \in Nat
        /\ i > Len(c.tools) => NamesIn(c)[i] = c.replayed[i - Len(c.tools)]
    BY <1>1, BodyNames
  <2>3. /\ c.tools = [k \in 1..Len(c.tools) |-> Underscored[c.tools[k]]]
        /\ c.replayed = [k \in 1..Len(c.replayed) |-> Underscored[c.replayed[k]]]
    <3> HIDE DEF c
    <3>1. c = [tools |-> [k \in 1..Len(c.tools) |-> Underscored[c.tools[k]]],
               replayed |-> [k \in 1..Len(c.replayed) |-> Underscored[c.replayed[k]]]]
      BY <1>1 DEF Rewritten
    <3> QED
      BY <3>1
  <2> HIDE DEF c
  <2>4. CASE i <= Len(c.tools)
    <3>1. i \in 1..Len(c.tools)
      BY <2>2, <2>4
    <3>2. Underscored[c.tools[i]] = c.tools[i]
      BY <3>1, <2>3
    <3> QED
      BY <3>1, <3>2, <2>1 DEF HasColon
  <2>5. CASE i > Len(c.tools)
    <3> DEFINE k == i - Len(c.tools)
    <3>0. NamesIn(c)[i] = c.replayed[k]
      BY <2>2, <2>5
    <3>1. k \in 1..Len(c.replayed) /\ NamesIn(c)[i] = c.replayed[k]
      <4>1. i \in 1..(Len(c.tools) + Len(c.replayed))
        BY <2>2
      <4>2. \A x, y \in Nat : \A z \in 1..(x + y) : z > x => z - x \in 1..y
        OBVIOUS
      <4> QED
        BY <3>0, <4>1, <4>2, <2>2, <2>5
    <3> HIDE DEF k
    <3>2. Underscored[c.replayed[k]] = c.replayed[k]
      BY <3>1, <2>3
    <3> QED
      BY <3>1, <3>2 DEF HasColon
  <2> QED
    BY <2>2, <2>4, <2>5
<1> HIDE DEF c
<1>3. DOMAIN NamesIn(c) = 1..Len(NamesIn(c))
  BY <1>1, BodyNames, LenProperties
<1>4. {i \in DOMAIN NamesIn(c) : HasColon(NamesIn(c)[i])} = {}
  BY <1>2, <1>3
<1>5. MapOf(c) = NoMap
  BY <1>4 DEF MapOf, NoMap
<1> QED
  BY <1>5 DEF c

\* What a client is told in an attempt whose map fits what it rewrote.
LEMMA ToldRight ==
  ASSUME ToolInv, MapFits, NEW k \in 1..Len(body.tools)
  PROVE  /\ k \in 1..Len(brought.tools) /\ Original(body.tools[k]) \in ToolLabels
         /\ \/ Original(body.tools[k]) = brought.tools[k]
            \/ Collides(k)
            \/ reused /\ Original(body.tools[k]) = Underscored[brought.tools[k]]
<1> DEFINE t == brought.tools[k]
<1>1. brought \in Bodies /\ WellNamed(brought)
  BY ToolNamesAssumption DEF ToolInv, WellNamed
<1>2. /\ Len(Rewritten(brought).tools) = Len(brought.tools)
      /\ \A j \in 1..Len(brought.tools) : Rewritten(brought).tools[j] = Underscored[brought.tools[j]]
  BY <1>1, RewrittenNames
<1>3. k \in 1..Len(brought.tools)
  BY <1>2 DEF MapFits
<1>4. NamesIn(brought)[k] = t /\ t \in ToolLabels /\ k \in 1..Len(NamesIn(brought))
  <2>1. /\ NamesIn(brought)[k] = t /\ t \in ToolLabels
        /\ Len(NamesIn(brought)) = Len(brought.tools) + Len(brought.replayed)
        /\ Len(brought.tools) \in Nat /\ Len(brought.replayed) \in Nat
    BY <1>1, <1>3, BodyNames
  <2>2. \A x, y \in Nat : \A z \in 1..x : z \in 1..(x + y)
    OBVIOUS
  <2> QED
    BY <1>3, <2>1, <2>2
<1>5. Underscored[t] \in ToolLabels
  BY <1>4, ToolNamesAssumption
<1>6. CASE body = Rewritten(brought) /\ restored = MapOf(brought)
  <2> DEFINE u == Underscored[t]
  <2>1. body.tools[k] = u
    BY <1>2, <1>3, <1>6
  <2>2. CASE u \in DOMAIN restored
    <3>1. PICK i \in 1..Len(NamesIn(brought)) :
            Underscored[NamesIn(brought)[i]] = u /\ MapOf(brought)[u] = NamesIn(brought)[i]
      BY <1>1, <1>6, <2>2, MapGives
    <3> DEFINE n == NamesIn(brought)[i]
    <3>2. NamesIn(brought) \in Seq(ToolLabels) /\ DOMAIN NamesIn(brought) = 1..Len(NamesIn(brought))
      BY <1>1, BodyNames, LenProperties
    <3>3. n \in ToolLabels /\ i \in DOMAIN NamesIn(brought)
      BY <3>1, <3>2, ElementOfSeq
    <3>4. Original(u) = n
      BY <1>6, <2>2, <3>1 DEF Original
    <3>5. n = t \/ Collides(k)
      BY <3>1, <3>3 DEF Collides
    <3> QED
      BY <1>3, <2>1, <3>3, <3>4, <3>5
  <2>3. CASE u \notin DOMAIN restored
    <3>1. Original(u) = u
      BY <2>3 DEF Original
    <3>2. ~HasColon(t)
      BY <1>1, <1>4, <1>6, <2>3, MapKnows
    <3>3. u = t
      BY <3>2 DEF HasColon
    <3> QED
      BY <1>3, <1>4, <2>1, <3>1, <3>3
  <2> QED
    BY <2>2, <2>3
<1>7. ASSUME restored = NoMap PROVE Original(body.tools[k]) = body.tools[k]
  BY <1>7 DEF Original, NoMap
<1>8. CASE body = brought /\ restored = NoMap
  BY <1>3, <1>4, <1>7, <1>8
<1>9. CASE body = Rewritten(brought) /\ restored = NoMap /\ reused
  BY <1>2, <1>3, <1>5, <1>7, <1>9
<1> QED
  BY <1>6, <1>8, <1>9 DEF MapFits

\* Telling of some calls keeps what was told right.
LEMMA TellKeeps ==
  ASSUME ToolInv, MapFits, NEW ks \in SUBSET (1..Len(body.tools)), TellCalls(ks),
         UNCHANGED <<brought, body, padded, attempts, restored, reused>>,
         pass' \in {"done", "stream"}
  PROVE  ToolInv'
<1>1. heard' = heard \cup {[tool |-> k, name |-> Original(body.tools[k])] : k \in ks}
  BY DEF TellCalls
<1>2. ASSUME NEW h \in heard' \ heard
      PROVE  /\ h \in [tool : 1..Len(brought.tools), name : ToolLabels]
             /\ \/ h.name = brought.tools[h.tool] \/ Collides(h.tool)
                \/ reused /\ h.name = Underscored[brought.tools[h.tool]]
  <2>1. PICK k \in ks : h = [tool |-> k, name |-> Original(body.tools[k])]
    BY <1>1
  <2>2. k \in 1..Len(body.tools) /\ h.tool = k /\ h.name = Original(body.tools[k])
    BY <2>1
  <2>3. /\ k \in 1..Len(brought.tools) /\ Original(body.tools[k]) \in ToolLabels
        /\ \/ Original(body.tools[k]) = brought.tools[k]
           \/ Collides(k)
           \/ reused /\ Original(body.tools[k]) = Underscored[brought.tools[k]]
    BY <2>2, ToldRight
  <2> QED
    BY <2>1, <2>2, <2>3
<1>3. NamesComeBack'
  BY <1>2 DEF ToolInv, NamesComeBack, Collides
<1>4. MapFits'
  BY DEF MapFits
<1>5. heard' \subseteq [tool : 1..Len(brought'.tools), name : ToolLabels]
  BY <1>2 DEF ToolInv
<1> QED
  BY <1>3, <1>4, <1>5 DEF ToolInv, Stages

\* A chat attempt begins: what it finds is the client's body or one rewritten before.
LEMMA AskFits ==
  ASSUME ToolInv, NEW thinker \in BOOLEAN, AskChat(thinker), brought' = brought
  PROVE  MapFits' /\ body' \in {brought, Rewritten(brought)} /\ reused' \in BOOLEAN
         /\ padded' \in BOOLEAN
<1>1. brought \in Bodies /\ WellNamed(brought)
  BY ToolNamesAssumption DEF ToolInv, WellNamed
<1>2. restored' = MapOf(body) /\ body' = Rewritten(body) /\ reused' = (body # brought)
      /\ padded' = (padded \/ thinker)
  BY DEF AskChat
<1>3. body' = Rewritten(brought) /\ (body # brought => restored' = NoMap)
      /\ (body = brought => restored' = MapOf(brought))
  BY <1>1, <1>2, RewrittenNames, RewrittenMap DEF ToolInv
<1>4. reused' \in BOOLEAN /\ padded' \in BOOLEAN
  BY <1>2 DEF ToolInv
<1>5. MapFits'
  BY <1>2, <1>3 DEF MapFits
<1> QED
  BY <1>3, <1>4, <1>5

LEMMA ToolStep == ToolInv /\ [ToolNext]_toolVars => ToolInv'
<1> SUFFICES ASSUME ToolInv, [ToolNext]_toolVars PROVE ToolInv'
  OBVIOUS
<1>1. Attempts \in Nat /\ Thinkers \subseteq BOOLEAN
  BY ToolNamesAssumption
<1>2. ASSUME heard = {}, heard' = heard PROVE NamesComeBack' /\ heard' = {}
  BY <1>2 DEF NamesComeBack
<1>3. ASSUME NEW thinker \in Thinkers, BeginChat(thinker) PROVE ToolInv'
  <2>1. heard = {} /\ pass = "ready" /\ attempts' \in 0..Attempts /\ pass' = "chat"
        /\ UNCHANGED <<brought, heard>> /\ AskChat(thinker)
    BY <1>1, <1>3 DEF BeginChat, AskChat, ToolInv
  <2>2. MapFits' /\ body' \in {brought, Rewritten(brought)} /\ reused' \in BOOLEAN /\ padded' \in BOOLEAN
    BY <1>1, <2>1, AskFits
  <2>3. NamesComeBack' /\ heard' = {}
    BY <1>2, <2>1
  <2> QED
    BY <2>1, <2>2, <2>3 DEF ToolInv, Stages
<1>4. ASSUME NEW thinker \in Thinkers, NoEndpoint(thinker) PROVE ToolInv'
  <2>1. heard = {} /\ pass' = "chat" /\ UNCHANGED <<brought, attempts, heard>> /\ AskChat(thinker)
    BY <1>4 DEF NoEndpoint, AskChat, ToolInv
  <2>2. MapFits' /\ body' \in {brought, Rewritten(brought)} /\ reused' \in BOOLEAN /\ padded' \in BOOLEAN
    BY <1>1, <2>1, AskFits
  <2>3. NamesComeBack' /\ heard' = {}
    BY <1>2, <2>1
  <2> QED
    BY <2>1, <2>2, <2>3 DEF ToolInv, Stages
<1>5. CASE BeginResponses
  <2>1. heard = {} /\ attempts' \in 0..Attempts /\ pass' = "responses" /\ reused' = (body # brought)
        /\ restored' = NoMap /\ UNCHANGED <<brought, body, padded, heard>>
    BY <1>1, <1>5 DEF BeginResponses, ToolInv
  <2>2. MapFits' /\ reused' \in BOOLEAN
    BY <2>1 DEF MapFits, ToolInv
  <2>3. NamesComeBack' /\ heard' = {}
    BY <1>2, <2>1
  <2> QED
    BY <2>1, <2>2, <2>3 DEF ToolInv, Stages
<1>6. CASE AttemptFails
  <2>1. heard = {} /\ pass' \in {"ready", "failed"} /\ MapFits
        /\ UNCHANGED <<brought, body, padded, attempts, restored, heard, reused>>
    BY <1>6 DEF AttemptFails, ToolInv
  <2>2. NamesComeBack' /\ heard' = {}
    BY <1>2, <2>1
  <2>3. MapFits'
    BY <2>1 DEF MapFits
  <2> QED
    BY <2>1, <2>2, <2>3 DEF ToolInv, Stages, MapFits
<1>7. CASE StreamOver
  <2>1. pass' \in {"done", "failed"} /\ MapFits
        /\ UNCHANGED <<brought, body, padded, attempts, restored, heard, reused>>
    BY <1>7 DEF StreamOver, ToolInv
  <2>2. MapFits' /\ NamesComeBack'
    BY <2>1 DEF MapFits, ToolInv, NamesComeBack, Collides
  <2> QED
    BY <2>1, <2>2 DEF ToolInv, Stages
<1>8. ASSUME NEW ks \in SUBSET (1..Len(body.tools)), AnswerCalls(ks) PROVE ToolInv'
  BY <1>8, TellKeeps DEF AnswerCalls, ToolInv
<1>9. ASSUME NEW k \in 1..Len(body.tools), ChunkCalls(k) PROVE ToolInv'
  <2>1. {k} \in SUBSET (1..Len(body.tools)) /\ MapFits
    BY <1>9 DEF ChunkCalls, ToolInv
  <2> QED
    BY <1>9, <2>1, TellKeeps DEF ChunkCalls
<1>10. CASE UNCHANGED toolVars
  <2>1. MapFits => MapFits'
    BY <1>10 DEF toolVars, MapFits
  <2>2. NamesComeBack'
    BY <1>10 DEF toolVars, ToolInv, NamesComeBack, Collides
  <2> QED
    BY <1>10, <2>1, <2>2 DEF toolVars, ToolInv
<1> QED
  BY <1>3, <1>4, <1>5, <1>6, <1>7, <1>8, <1>9, <1>10 DEF ToolNext

LEMMA ToolStart == ToolInit => ToolInv
<1>1. 0 \in 0..Attempts
  BY ToolNamesAssumption
<1> SUFFICES ASSUME ToolInit PROVE ToolInv
  OBVIOUS
<1>2. NamesComeBack
  BY DEF ToolInit, NamesComeBack
<1>3. restored = NoMap /\ pass = "ready" /\ heard = {}
  BY DEF ToolInit
<1>4. brought \in Bodies /\ body = brought /\ padded \in BOOLEAN /\ reused \in BOOLEAN /\ attempts = 0
  BY DEF ToolInit
<1> QED
  BY <1>1, <1>2, <1>3, <1>4 DEF ToolInv, Stages

LEMMA ToolInvHolds == ToolSpec => []ToolInv
<1> QED
  BY ToolStart, ToolStep, PTL DEF ToolSpec

LEMMA ToolTypes == ToolInv => ToolNamesTypeOK
<1> SUFFICES ASSUME ToolInv PROVE ToolNamesTypeOK
  OBVIOUS
<1>1. brought \in Bodies /\ WellNamed(brought)
  BY ToolNamesAssumption DEF ToolInv, WellNamed
<1>2. WellNamed(Rewritten(brought)) /\ Len(Rewritten(brought).tools) = Len(brought.tools)
  BY <1>1, RewrittenNames
<1>3. ASSUME NEW b, WellNamed(b) PROVE NamesIn(b) \in Seq(ToolLabels) /\ DOMAIN MapOf(b) \subseteq ToolLabels
  <2>1. NamesIn(b) \in Seq(ToolLabels) /\ DOMAIN NamesIn(b) = 1..Len(NamesIn(b))
    BY <1>3, BodyNames, LenProperties
  <2>2. \A i \in DOMAIN NamesIn(b) : NamesIn(b)[i] \in ToolLabels /\ Underscored[NamesIn(b)[i]] \in ToolLabels
    BY <2>1, ElementOfSeq, ToolNamesAssumption
  <2>3. NamesIn(b) \in Seq(ToolLabels)
    BY <2>1
  <2>4. ASSUME NEW u \in DOMAIN MapOf(b) PROVE u \in ToolLabels
    BY <1>3, <2>1, <2>2, MapGives
  <2> QED
    BY <2>3, <2>4
<1>4. DOMAIN restored \subseteq ToolLabels
  <2>1. restored \in {NoMap, MapOf(brought)}
    BY DEF ToolInv, MapFits, Stages
  <2> QED
    BY <1>1, <1>3, <2>1 DEF NoMap
<1>5. WellNamed(body) /\ Len(body.tools) = Len(brought.tools)
  BY <1>1, <1>2 DEF ToolInv
<1>6. NamesIn(body) \in Seq(ToolLabels) /\ NamesIn(brought) \in Seq(ToolLabels)
  BY <1>1, <1>3, <1>5
<1> QED
  BY <1>4, <1>5, <1>6 DEF ToolInv, ToolNamesTypeOK

(***************************************************************************)
(* ToolNamesTypeOK: the shape of the bodies, the map and what was heard.   *)
(***************************************************************************)
THEOREM ToolNamesTypesCorrect == ToolSpec => []ToolNamesTypeOK
<1> QED
  BY ToolInvHolds, ToolTypes, PTL

(***************************************************************************)
(* NamesComeBack: a client hears of a tool under the name it gave it, but  *)
(* for collisions and attempts that found names already rewritten, however *)
(* many attempts, endpoints and candidates a request goes through          *)
(* (_collect_tool_name_map, _restore_tool_names).                          *)
(***************************************************************************)
THEOREM NamesRestored == ToolSpec => []NamesComeBack
<1>1. ToolInv => NamesComeBack
  BY DEF ToolInv
<1> QED
  BY <1>1, ToolInvHolds, PTL

-----------------------------------------------------------------------------
(* Transcripts *)

Block == [kind : BlockKinds, id : Ids \cup {NoId}]
MessageBlocks == UNION {[P -> Block] : P \in SUBSET (0..(MaxItems + 1))}
SpokenType == spoken \in Seq([role : {"user", "assistant"}, blocks : MessageBlocks])

\* The client begins, and the two take turns.
TakeTurns ==
  /\ spoken # <<>> => spoken[1].role = "user"
  /\ \A k \in 2..Len(spoken) : spoken[k].role # spoken[k - 1].role
  /\ turn = "client" /\ spoken # <<>> => spoken[Len(spoken)].role = "assistant"
  /\ turn # "client" => spoken # <<>> /\ spoken[Len(spoken)].role = "user"

\* Results are in what the client says, calls in what it is told.
BlocksFit ==
  \A k \in 1..Len(spoken) :
    /\ PlacesOf(spoken[k].blocks, "tool_result") # {} => spoken[k].role = "user"
    /\ PlacesOf(spoken[k].blocks, "tool_use") # {} => spoken[k].role = "assistant"
    /\ 0 \notin PlacesOf(spoken[k].blocks, "tool_use")
    /\ MaxItems + 1 \notin PlacesOf(spoken[k].blocks, "tool_use")

\* A result answers a call of the message before.
ResultsAnswer ==
  \A k \in 1..Len(spoken) : \A n \in PlacesOf(spoken[k].blocks, "tool_result") :
    k > 1 /\ \E m \in PlacesOf(spoken[k - 1].blocks, "tool_use") :
      spoken[k - 1].blocks[m].id = spoken[k].blocks[n].id

\* The message after calls has their results, unless the client dropped them.
CallsAnswered ==
  \A k \in 1..Len(spoken) : k < Len(spoken) /\ k \notin dropped =>
    \A n \in PlacesOf(spoken[k].blocks, "tool_use") :
      \E m \in PlacesOf(spoken[k + 1].blocks, "tool_result") :
        spoken[k + 1].blocks[m].id = spoken[k].blocks[n].id

Conversation == SpokenType /\ TakeTurns /\ BlocksFit /\ ResultsAnswer /\ CallsAnswered
TranscriptInv == Conversation /\ TranscriptTypeOK /\ PairsSurvive

\* What a set of items is to be for the conversation: each result and each call in its
\* place, and texts and reasoning where no pair can have them in between.
Represents(S) ==
  /\ S \subseteq [kind : {"text", "reasoning", "call", "output"}, id : Ids \cup {NoId},
                  at : 1..Len(spoken), half : {0, 1}, nth : Nat]
  /\ \A x \in S : x.kind = "output" =>
       /\ spoken[x.at].role = "user" /\ x.half = 0
       /\ x.nth \in PlacesOf(spoken[x.at].blocks, "tool_result")
       /\ x.id = spoken[x.at].blocks[x.nth].id
  /\ \A x \in S : x.kind = "call" =>
       /\ spoken[x.at].role = "assistant" /\ x.half = 0
       /\ \E n \in PlacesOf(spoken[x.at].blocks, "tool_use") :
            x.nth = 1 + n /\ x.id = spoken[x.at].blocks[n].id
  /\ \A x \in S : x.kind \in {"text", "reasoning"} =>
       IF spoken[x.at].role = "user" THEN x.half = 1 ELSE x.half = 0 /\ x.nth <= 1
  /\ \A k \in 1..Len(spoken) : \A n \in PlacesOf(spoken[k].blocks, "tool_result") :
       \E x \in S : /\ x.kind = "output" /\ x.at = k /\ x.half = 0 /\ x.nth = n
                    /\ x.id = spoken[k].blocks[n].id
  /\ \A k \in 1..Len(spoken) : \A n \in PlacesOf(spoken[k].blocks, "tool_use") :
       \E x \in S : /\ x.kind = "call" /\ x.at = k /\ x.half = 0 /\ x.nth = 1 + n
                    /\ x.id = spoken[k].blocks[n].id

LEMMA MessageTyped ==
  ASSUME SpokenType, NEW k \in 1..Len(spoken)
  PROVE  /\ spoken[k].role \in {"user", "assistant"} /\ spoken[k].blocks \in MessageBlocks
         /\ DOMAIN spoken[k].blocks \subseteq 0..(MaxItems + 1)
         /\ \A n \in DOMAIN spoken[k].blocks : spoken[k].blocks[n] \in Block
<1>1. spoken[k] \in [role : {"user", "assistant"}, blocks : MessageBlocks]
  BY ElementOfSeq, Zenon DEF SpokenType
<1>2. spoken[k].role \in {"user", "assistant"} /\ spoken[k].blocks \in MessageBlocks
  BY <1>1
<1> QED
  BY <1>2 DEF MessageBlocks

\* A call and a result of the message after it have nothing else between them.
LEMMA PairTogether ==
  ASSUME Conversation, NEW S, Represents(S), NEW x \in S, NEW y \in S,
         x.kind = "call", y.kind = "output", y.at = x.at + 1
  PROVE  Together(S, x, y)
<1>1. /\ x.at \in Nat /\ x.half = 0 /\ x.nth \in Nat /\ y.half = 0 /\ y.nth \in Nat
      /\ spoken[x.at].role = "assistant" /\ spoken[y.at].role = "user"
  BY DEF Represents
<1>2. PICK n \in PlacesOf(spoken[x.at].blocks, "tool_use") : x.nth = 1 + n
  BY DEF Represents
<1>3. n \in Nat /\ n > 0
  <2>1. x.at \in 1..Len(spoken)
    BY DEF Represents
  <2>3. n \in 0..(MaxItems + 1)
    BY <2>1, MessageTyped DEF Conversation, PlacesOf
  <2>4. n # 0
    BY <2>1 DEF Conversation, BlocksFit
  <2> QED
    BY <2>3, <2>4
<1>4. Before(x, y)
  BY <1>1 DEF Before
<1>5. ASSUME NEW z \in S, Before(x, z), Before(z, y)
      PROVE  z.kind \in {"call", "output"}
  <2>1. /\ z.at \in Nat /\ z.half \in {0, 1} /\ z.nth \in Nat
        /\ z.kind \in {"text", "reasoning", "call", "output"}
    BY DEF Represents
  <2>2. z.at = x.at \/ z.at = y.at
    BY <1>1, <1>5, <2>1 DEF Before
  <2>3. CASE z.at = x.at
    <3>1. z.half = 1 \/ z.nth > 1
      BY <1>1, <1>2, <1>3, <1>5, <2>1, <2>3 DEF Before
    <3> QED
      BY <1>1, <2>1, <2>3, <3>1 DEF Represents
  <2>4. CASE z.at = y.at
    <3>1. z.half = 0
      BY <1>1, <1>5, <2>1, <2>4 DEF Before
    <3> QED
      BY <1>1, <2>1, <2>4, <3>1 DEF Represents
  <2> QED
    BY <2>2, <2>3, <2>4
<1> QED
  BY <1>4, <1>5 DEF Together

\* In what represents the conversation the pairs survive.
LEMMA PairsRepresented ==
  ASSUME Conversation, turn = "gateway", NEW S, Represents(S)
  PROVE  /\ \A y \in S : y.kind = "output" =>
              \E x \in S : x.kind = "call" /\ x.id = y.id /\ Together(S, x, y)
         /\ \A x \in S : x.kind = "call" /\ x.at \notin dropped =>
              \E y \in S : y.kind = "output" /\ y.id = x.id /\ Together(S, x, y)
<1>0. Len(spoken) \in Nat
  BY DEF Conversation, SpokenType
<1>1. ASSUME NEW y \in S, y.kind = "output"
      PROVE  \E x \in S : x.kind = "call" /\ x.id = y.id /\ Together(S, x, y)
  <2>1. /\ y.at \in 1..Len(spoken) /\ y.nth \in PlacesOf(spoken[y.at].blocks, "tool_result")
        /\ y.id = spoken[y.at].blocks[y.nth].id
    BY <1>1 DEF Represents
  <2>2. PICK m \in PlacesOf(spoken[y.at - 1].blocks, "tool_use") :
          y.at > 1 /\ spoken[y.at - 1].blocks[m].id = y.id
    BY <2>1 DEF Conversation, ResultsAnswer
  <2>3. y.at - 1 \in 1..Len(spoken)
    BY <1>0, <2>1, <2>2
  <2>4. PICK x \in S : x.kind = "call" /\ x.at = y.at - 1 /\ x.id = y.id
    BY <2>2, <2>3 DEF Represents
  <2>5. y.at = x.at + 1
    BY <2>1, <2>4
  <2> QED
    BY <1>1, <2>4, <2>5, PairTogether
<1>2. ASSUME NEW x \in S, x.kind = "call", x.at \notin dropped
      PROVE  \E y \in S : y.kind = "output" /\ y.id = x.id /\ Together(S, x, y)
  <2>1. PICK n \in PlacesOf(spoken[x.at].blocks, "tool_use") : x.id = spoken[x.at].blocks[n].id
    BY <1>2 DEF Represents
  <2>2. x.at \in 1..Len(spoken) /\ spoken[x.at].role = "assistant"
    BY <1>2 DEF Represents
  <2>3. x.at < Len(spoken)
    BY <1>0, <2>2 DEF Conversation, TakeTurns
  <2>4. PICK m \in PlacesOf(spoken[x.at + 1].blocks, "tool_result") :
          spoken[x.at + 1].blocks[m].id = x.id
    BY <1>2, <2>1, <2>2, <2>3 DEF Conversation, CallsAnswered
  <2>5. x.at + 1 \in 1..Len(spoken)
    BY <1>0, <2>2, <2>3
  <2>6. PICK y \in S : y.kind = "output" /\ y.at = x.at + 1 /\ y.id = x.id
    BY <2>4, <2>5 DEF Represents
  <2> QED
    BY <1>2, <2>6, PairTogether
<1> QED
  BY <1>1, <1>2

\* The messages of the chat: each result, the rest of a message of the client, and a
\* turn of the provider.
LEMMA ChatMessages ==
  ASSUME Conversation, NEW c
  PROVE  c \in Chat <=>
           \E k \in 1..Len(spoken) :
             \/ /\ spoken[k].role = "user"
                /\ \E n \in PlacesOf(spoken[k].blocks, "tool_result") :
                     c = [role |-> "tool", at |-> k, half |-> 0, nth |-> n,
                          id |-> spoken[k].blocks[n].id, calls |-> <<>>, text |-> {}]
             \/ /\ spoken[k].role = "user"
                /\ DOMAIN spoken[k].blocks # PlacesOf(spoken[k].blocks, "tool_result")
                /\ c = [role |-> "user", at |-> k, half |-> 1, nth |-> 0, id |-> NoId,
                        calls |-> <<>>,
                        text |-> DOMAIN spoken[k].blocks \ PlacesOf(spoken[k].blocks, "tool_result")]
             \/ /\ spoken[k].role = "assistant"
                /\ c = [role |-> "assistant", at |-> k, half |-> 0, nth |-> 0, id |-> NoId,
                        calls |-> IdsOf(spoken[k].blocks, "tool_use"),
                        text |-> PlacesOf(spoken[k].blocks, "text")]
<1>1. c \in Chat <=> \E k \in 1..Len(spoken) : c \in ToOpenAI(k)
  BY DEF Chat
<1>2. ASSUME NEW k \in 1..Len(spoken)
      PROVE  /\ spoken[k].role \in {"user", "assistant"}
             /\ PlacesOf(spoken[k].blocks, "tool_result") \subseteq DOMAIN spoken[k].blocks
  BY MessageTyped DEF Conversation, PlacesOf
<1> QED
  BY <1>1, <1>2 DEF ToOpenAI

Output(k, n) ==
  [kind |-> "output", id |-> spoken[k].blocks[n].id, at |-> k, half |-> 0, nth |-> n]
Call(k, n) ==
  [kind |-> "call", id |-> spoken[k].blocks[n].id, at |-> k, half |-> 0, nth |-> 1 + n]
Said(k, kind, half, nth) ==
  [kind |-> kind, id |-> NoId, at |-> k, half |-> half, nth |-> nth]

\* A set of items is what Represents asks for, if it has the results, the calls, and else
\* what is said around them.
LEMMA RepresentsIf ==
  ASSUME Conversation, NEW S,
         \A x \in S : \E k \in 1..Len(spoken) :
           \/ /\ spoken[k].role = "user"
              /\ \/ \E n \in PlacesOf(spoken[k].blocks, "tool_result") : x = Output(k, n)
                 \/ x = Said(k, "text", 1, 1)
           \/ /\ spoken[k].role = "assistant"
              /\ \/ \E n \in PlacesOf(spoken[k].blocks, "tool_use") : x = Call(k, n)
                 \/ x = Said(k, "text", 0, 1)
                 \/ x = Said(k, "reasoning", 0, 0),
         \A k \in 1..Len(spoken) : \A n \in PlacesOf(spoken[k].blocks, "tool_result") : Output(k, n) \in S,
         \A k \in 1..Len(spoken) : \A n \in PlacesOf(spoken[k].blocks, "tool_use") : Call(k, n) \in S
  PROVE  Represents(S)
<1>1. ASSUME NEW k \in 1..Len(spoken), NEW n \in PlacesOf(spoken[k].blocks, "tool_result")
             \cup PlacesOf(spoken[k].blocks, "tool_use")
      PROVE  n \in Nat /\ spoken[k].blocks[n].id \in Ids \cup {NoId}
  <2>1. n \in DOMAIN spoken[k].blocks
    BY DEF PlacesOf
  <2>2. n \in 0..(MaxItems + 1) /\ spoken[k].blocks[n] \in Block
    BY <2>1, MessageTyped DEF Conversation
  <2> QED
    BY <2>2 DEF Block
<1>2. S \subseteq [kind : {"text", "reasoning", "call", "output"}, id : Ids \cup {NoId},
                  at : 1..Len(spoken), half : {0, 1}, nth : Nat]
  BY <1>1 DEF Output, Call, Said
<1>3. ASSUME NEW x \in S, x.kind = "output"
      PROVE  /\ spoken[x.at].role = "user" /\ x.half = 0
             /\ x.nth \in PlacesOf(spoken[x.at].blocks, "tool_result")
             /\ x.id = spoken[x.at].blocks[x.nth].id
  BY <1>3 DEF Output, Call, Said
<1>4. ASSUME NEW x \in S, x.kind = "call"
      PROVE  /\ spoken[x.at].role = "assistant" /\ x.half = 0
             /\ \E n \in PlacesOf(spoken[x.at].blocks, "tool_use") :
                  x.nth = 1 + n /\ x.id = spoken[x.at].blocks[n].id
  BY <1>4 DEF Output, Call, Said
<1>5. ASSUME NEW x \in S, x.kind \in {"text", "reasoning"}
      PROVE  IF spoken[x.at].role = "user" THEN x.half = 1 ELSE x.half = 0 /\ x.nth <= 1
  BY <1>5 DEF Output, Call, Said
<1>6. \A k \in 1..Len(spoken) : \A n \in PlacesOf(spoken[k].blocks, "tool_result") :
        \E x \in S : /\ x.kind = "output" /\ x.at = k /\ x.half = 0 /\ x.nth = n
                     /\ x.id = spoken[k].blocks[n].id
  BY DEF Output
<1>7. \A k \in 1..Len(spoken) : \A n \in PlacesOf(spoken[k].blocks, "tool_use") :
        \E x \in S : /\ x.kind = "call" /\ x.at = k /\ x.half = 0 /\ x.nth = 1 + n
                     /\ x.id = spoken[k].blocks[n].id
  BY DEF Call
<1> QED
  BY <1>2, <1>3, <1>4, <1>5, <1>6, <1>7 DEF Represents

\* What becomes of a message of the chat, by what it is.
LEMMA ItemsOfMessage ==
  ASSUME Conversation, NEW thinking \in BOOLEAN, NEW k \in 1..Len(spoken), NEW c \in Chat, c.at = k
  PROVE  /\ c.role = "tool" =>
              /\ c.nth \in PlacesOf(spoken[k].blocks, "tool_result") /\ spoken[k].role = "user"
              /\ ToInput(c, thinking) = {Output(k, c.nth)} /\ ToChatItems(c) = {Output(k, c.nth)}
         /\ c.role = "user" =>
              /\ spoken[k].role = "user"
              /\ ToInput(c, thinking) = {Said(k, "text", 1, 1)}
              /\ ToChatItems(c) = {Said(k, "text", 1, 1)}
         /\ c.role = "assistant" =>
              /\ spoken[k].role = "assistant"
              /\ CallItems(c) = {Call(k, n) : n \in PlacesOf(spoken[k].blocks, "tool_use")}
              /\ CallItems(c) \subseteq ToInput(c, thinking) /\ CallItems(c) \subseteq ToChatItems(c)
              /\ ToInput(c, thinking) \subseteq
                   CallItems(c) \cup {Said(k, "text", 0, 1), Said(k, "reasoning", 0, 0)}
              /\ ToChatItems(c) \subseteq CallItems(c) \cup {Said(k, "text", 0, 1)}
         /\ c.role \in {"tool", "user", "assistant"}
<1>1. c.role \in {"tool", "user", "assistant"}
  BY ChatMessages
<1>2. CASE c.role = "tool"
  <2>1. PICK n \in PlacesOf(spoken[k].blocks, "tool_result") : 
          /\ spoken[k].role = "user" 
          /\ c = [role |-> "tool", at |-> k, half |-> 0, nth |-> n,
                  id |-> spoken[k].blocks[n].id, calls |-> <<>>, text |-> {}]
    BY <1>2, ChatMessages
  <2>2. OutputOf(c) = Output(k, n) /\ c.nth = n
    BY <2>1 DEF OutputOf, ItemOf, Output
  <2> QED
    BY <1>2, <2>1, <2>2 DEF ToInput, ToChatItems
<1>3. CASE c.role = "user"
  <2>1. /\ spoken[k].role = "user" /\ DOMAIN spoken[k].blocks # PlacesOf(spoken[k].blocks, "tool_result")
        /\ c = [role |-> "user", at |-> k, half |-> 1, nth |-> 0, id |-> NoId, calls |-> <<>>,
                text |-> DOMAIN spoken[k].blocks \ PlacesOf(spoken[k].blocks, "tool_result")]
    BY <1>3, ChatMessages
  <2>5. c.text # {}
    <3>1. PlacesOf(spoken[k].blocks, "tool_result") \subseteq DOMAIN spoken[k].blocks
      BY DEF PlacesOf
    <3>2. c.text = DOMAIN spoken[k].blocks \ PlacesOf(spoken[k].blocks, "tool_result")
      BY <2>1
    <3>3. DOMAIN spoken[k].blocks # PlacesOf(spoken[k].blocks, "tool_result")
      BY <2>1
    <3> QED
      BY <3>1, <3>2, <3>3
  <2>2. TextOf(c) = Said(k, "text", 1, 1)
    BY <2>1 DEF TextOf, ItemOf, Said
  <2>3. CallItems(c) = {}
    BY <2>1 DEF CallItems
  <2>4. {TextOf(c) : n \in c.text} = {TextOf(c)}
    BY <2>5
  <2> QED
    BY <1>3, <2>1, <2>2, <2>3, <2>4 DEF ToInput, ToChatItems
<1>4. CASE c.role = "assistant"
  <2>1. /\ spoken[k].role = "assistant" 
        /\ c = [role |-> "assistant", at |-> k, half |-> 0, nth |-> 0, id |-> NoId,
                calls |-> IdsOf(spoken[k].blocks, "tool_use"),
                text |-> PlacesOf(spoken[k].blocks, "text")]
    BY <1>4, ChatMessages
  <2>2. TextOf(c) = Said(k, "text", 0, 1) /\ ItemOf("reasoning", c, NoId, 0) = Said(k, "reasoning", 0, 0)
    BY <2>1 DEF TextOf, ItemOf, Said
  <2>3. CallItems(c) = {Call(k, n) : n \in PlacesOf(spoken[k].blocks, "tool_use")}
    <3>1. DOMAIN c.calls = PlacesOf(spoken[k].blocks, "tool_use")
      BY <2>1 DEF IdsOf
    <3>2. \A n \in PlacesOf(spoken[k].blocks, "tool_use") : ItemOf("call", c, c.calls[n], 1 + n) = Call(k, n)
      BY <2>1 DEF IdsOf, ItemOf, Call
    <3> QED
      BY <3>1, <3>2 DEF CallItems
  <2>4. DOMAIN c.calls = {} => CallItems(c) = {}
    BY DEF CallItems
  <2>5. ToInput(c, thinking) = IF DOMAIN c.calls # {} THEN CallTurn(c, thinking) ELSE {TextOf(c)}
    BY <1>4 DEF ToInput
  <2>6. ToChatItems(c) = CallItems(c) \cup {TextOf(c) : n \in c.text}
    BY <1>4 DEF ToChatItems
  <2> QED
    BY <1>4, <2>1, <2>2, <2>3, <2>4, <2>5, <2>6 DEF CallTurn
<1> QED
  BY <1>1, <1>2, <1>3, <1>4

\* Where a message of the chat comes from; each result and each call is in one.
LEMMA ChatPlaces ==
  ASSUME Conversation
  PROVE  /\ \A c \in Chat : c.at \in 1..Len(spoken)
         /\ \A k \in 1..Len(spoken) : \A n \in PlacesOf(spoken[k].blocks, "tool_result") :
              \E c \in Chat : c.role = "tool" /\ c.at = k /\ c.nth = n
         /\ \A k \in 1..Len(spoken) : \A n \in PlacesOf(spoken[k].blocks, "tool_use") :
              \E c \in Chat : c.role = "assistant" /\ c.at = k
<1>1. ASSUME NEW c \in Chat PROVE c.at \in 1..Len(spoken)
  BY ChatMessages
<1>2. ASSUME NEW k \in 1..Len(spoken), NEW n \in PlacesOf(spoken[k].blocks, "tool_result")
      PROVE  \E c \in Chat : c.role = "tool" /\ c.at = k /\ c.nth = n
  <2> DEFINE c == [role |-> "tool", at |-> k, half |-> 0, nth |-> n,
                   id |-> spoken[k].blocks[n].id, calls |-> <<>>, text |-> {}]
  <2>1. spoken[k].role = "user"
    BY DEF Conversation, BlocksFit
  <2>2. c \in Chat
    BY <2>1, ChatMessages
  <2> QED
    BY <2>2
<1>3. ASSUME NEW k \in 1..Len(spoken), NEW n \in PlacesOf(spoken[k].blocks, "tool_use")
      PROVE  \E c \in Chat : c.role = "assistant" /\ c.at = k
  <2> DEFINE c == [role |-> "assistant", at |-> k, half |-> 0, nth |-> 0, id |-> NoId,
                   calls |-> IdsOf(spoken[k].blocks, "tool_use"),
                   text |-> PlacesOf(spoken[k].blocks, "text")]
  <2>1. spoken[k].role = "assistant"
    BY DEF Conversation, BlocksFit
  <2>2. c \in Chat
    BY <2>1, ChatMessages
  <2> QED
    BY <2>2
<1> QED
  BY <1>1, <1>2, <1>3

LEMMA ResponsesRepresents ==
  ASSUME Conversation, NEW thinking \in BOOLEAN
  PROVE  Represents(UNION {ToInput(c, thinking) : c \in Chat})
<1> DEFINE S == UNION {ToInput(c, thinking) : c \in Chat}
<1>1. \A x : x \in S <=> \E c \in Chat : x \in ToInput(c, thinking)
  OBVIOUS
<1> HIDE DEF S
<1>2. ASSUME NEW x \in S
      PROVE  \E k \in 1..Len(spoken) :
               \/ /\ spoken[k].role = "user"
                  /\ \/ \E n \in PlacesOf(spoken[k].blocks, "tool_result") : x = Output(k, n)
                     \/ x = Said(k, "text", 1, 1)
               \/ /\ spoken[k].role = "assistant"
                  /\ \/ \E n \in PlacesOf(spoken[k].blocks, "tool_use") : x = Call(k, n)
                     \/ x = Said(k, "text", 0, 1)
                     \/ x = Said(k, "reasoning", 0, 0)
  <2>1. PICK c \in Chat : x \in ToInput(c, thinking)
    BY <1>1
  <2>2. c.at \in 1..Len(spoken)
    BY ChatPlaces
  <2> QED
    BY <2>1, <2>2, ItemsOfMessage
<1>3. ASSUME NEW k \in 1..Len(spoken), NEW n \in PlacesOf(spoken[k].blocks, "tool_result")
      PROVE  Output(k, n) \in S
  BY <1>1, ChatPlaces, ItemsOfMessage
<1>4. ASSUME NEW k \in 1..Len(spoken), NEW n \in PlacesOf(spoken[k].blocks, "tool_use")
      PROVE  Call(k, n) \in S
  <2>1. PICK c \in Chat : c.role = "assistant" /\ c.at = k
    BY ChatPlaces
  <2>2. Call(k, n) \in CallItems(c) /\ CallItems(c) \subseteq ToInput(c, thinking)
    BY <2>1, ItemsOfMessage
  <2> QED
    BY <1>1, <2>2
<1>5. Represents(S)
  BY <1>2, <1>3, <1>4, RepresentsIf
<1> QED
  BY <1>5 DEF S

LEMMA ChatRepresents ==
  ASSUME Conversation
  PROVE  Represents(UNION {ToChatItems(c) : c \in Chat})
<1> PICK thinking \in BOOLEAN : TRUE
  OBVIOUS
<1> DEFINE S == UNION {ToChatItems(c) : c \in Chat}
<1>1. \A x : x \in S <=> \E c \in Chat : x \in ToChatItems(c)
  OBVIOUS
<1> HIDE DEF S
<1>2. ASSUME NEW x \in S
      PROVE  \E k \in 1..Len(spoken) :
               \/ /\ spoken[k].role = "user"
                  /\ \/ \E n \in PlacesOf(spoken[k].blocks, "tool_result") : x = Output(k, n)
                     \/ x = Said(k, "text", 1, 1)
               \/ /\ spoken[k].role = "assistant"
                  /\ \/ \E n \in PlacesOf(spoken[k].blocks, "tool_use") : x = Call(k, n)
                     \/ x = Said(k, "text", 0, 1)
                     \/ x = Said(k, "reasoning", 0, 0)
  <2>1. PICK c \in Chat : x \in ToChatItems(c)
    BY <1>1
  <2>2. c.at \in 1..Len(spoken)
    BY ChatPlaces
  <2> QED
    BY <2>1, <2>2, ItemsOfMessage
<1>3. ASSUME NEW k \in 1..Len(spoken), NEW n \in PlacesOf(spoken[k].blocks, "tool_result")
      PROVE  Output(k, n) \in S
  BY <1>1, ChatPlaces, ItemsOfMessage
<1>4. ASSUME NEW k \in 1..Len(spoken), NEW n \in PlacesOf(spoken[k].blocks, "tool_use")
      PROVE  Call(k, n) \in S
  <2>1. PICK c \in Chat : c.role = "assistant" /\ c.at = k
    BY ChatPlaces
  <2>2. Call(k, n) \in CallItems(c) /\ CallItems(c) \subseteq ToChatItems(c)
    BY <2>1, ItemsOfMessage
  <2> QED
    BY <1>1, <2>2
<1>5. Represents(S)
  BY <1>2, <1>3, <1>4, RepresentsIf
<1> QED
  BY <1>5 DEF S

\* A request leaves the conversation as it is and keeps the pairs.
LEMMA SendKeeps ==
  ASSUME TranscriptInv, (\E thinking \in BOOLEAN : SendToResponses(thinking)) \/ SendToChat
  PROVE  TranscriptInv'
<1>1. /\ UNCHANGED <<spoken, stopped, dropped>> /\ turn = "gateway" /\ turn' = "provider"
      /\ api' \in {"chat", "responses"}
  BY DEF SendToResponses, SendToChat
<1>2. Represents(sent')
  BY ResponsesRepresents, ChatRepresents DEF SendToResponses, SendToChat, TranscriptInv
<1>3. Conversation'
  BY <1>1 DEF TranscriptInv, Conversation, SpokenType, TakeTurns, BlocksFit, ResultsAnswer,
              CallsAnswered, PlacesOf
<1>4. TranscriptTypeOK'
  BY <1>1, <1>2 DEF TranscriptInv, TranscriptTypeOK, Represents
<1>5. PairsSurvive'
  <2>1. /\ \A y \in sent' : y.kind = "output" =>
              \E x \in sent' : x.kind = "call" /\ x.id = y.id /\ Together(sent', x, y)
        /\ \A x \in sent' : x.kind = "call" /\ x.at \notin dropped =>
              \E y \in sent' : y.kind = "output" /\ y.id = x.id /\ Together(sent', x, y)
    BY <1>1, <1>2, PairsRepresented DEF TranscriptInv
  <2>2. dropped' = dropped
    BY <1>1
  <2> QED
    BY <2>1, <2>2 DEF PairsSurvive, Together, Before
<1> QED
  BY <1>3, <1>4, <1>5 DEF TranscriptInv

\* What somebody says is one more message.
LEMMA Saying ==
  ASSUME SpokenType, NEW role \in {"user", "assistant"}, NEW blocks \in MessageBlocks, Say(role, blocks)
  PROVE  /\ SpokenType' /\ Len(spoken) \in Nat /\ Len(spoken') = Len(spoken) + 1
         /\ \A k \in 1..Len(spoken) : spoken'[k] = spoken[k]
         /\ spoken'[Len(spoken) + 1] = [role |-> role, blocks |-> blocks]
<1> DEFINE M == [role : {"user", "assistant"}, blocks : MessageBlocks]
           m == [role |-> role, blocks |-> blocks]
<1>1. m \in M
  OBVIOUS
<1>2. spoken \in Seq(M) /\ spoken' = Append(spoken, m)
  BY DEF SpokenType, Say
<1>3. Append(spoken, m) \in Seq(M) 
  BY <1>1, <1>2, AppendProperties, Zenon
<1> HIDE DEF M, m
<1>4. /\ Len(spoken) \in Nat /\ Len(spoken') = Len(spoken) + 1
      /\ \A k \in 1..Len(spoken) : spoken'[k] = spoken[k]
      /\ spoken'[Len(spoken) + 1] = m
  BY <1>1, <1>2, AppendProperties
<1>5. SpokenType'
  BY <1>2, <1>3 DEF SpokenType, M
<1> QED
  BY <1>4, <1>5 DEF m

\* The part of the invariant that another message of the conversation can disturb, in
\* terms of that message.
LEMMA SayKeeps ==
  ASSUME TranscriptInv, NEW role \in {"user", "assistant"}, NEW blocks \in MessageBlocks, Say(role, blocks),
         role = "user" <=> turn = "client",
         turn' = (IF role = "user" THEN "gateway" ELSE "client"),
         UNCHANGED <<api, sent>>, stopped' \in Stops,
         dropped \subseteq dropped', dropped' \subseteq 1..Len(spoken),
         \A k \in 1..Len(spoken) : k < Len(spoken) => (k \in dropped' <=> k \in dropped),
         PlacesOf(blocks, "tool_result") # {} => role = "user",
         PlacesOf(blocks, "tool_use") # {} => role = "assistant",
         0 \notin PlacesOf(blocks, "tool_use"), MaxItems + 1 \notin PlacesOf(blocks, "tool_use"),
         \A n \in PlacesOf(blocks, "tool_result") :
           spoken # <<>> /\ \E m \in PlacesOf(spoken[Len(spoken)].blocks, "tool_use") :
             spoken[Len(spoken)].blocks[m].id = blocks[n].id,
         spoken # <<>> /\ Len(spoken) \notin dropped' =>
           \A n \in PlacesOf(spoken[Len(spoken)].blocks, "tool_use") :
             \E m \in PlacesOf(blocks, "tool_result") :
               blocks[m].id = spoken[Len(spoken)].blocks[n].id
  PROVE  TranscriptInv'
<1> DEFINE L == Len(spoken)
<1>0. /\ SpokenType' /\ Len(spoken) \in Nat /\ Len(spoken') = Len(spoken) + 1
      /\ \A k \in 1..Len(spoken) : spoken'[k] = spoken[k]
      /\ spoken'[Len(spoken) + 1] = [role |-> role, blocks |-> blocks]
  BY Saying DEF TranscriptInv, Conversation
<1>1. /\ SpokenType' /\ L \in Nat /\ Len(spoken') = L + 1
      /\ \A k \in 1..L : spoken'[k] = spoken[k]
      /\ spoken'[L + 1].role = role /\ spoken'[L + 1].blocks = blocks
  BY <1>0
<1>2. /\ spoken = <<>> <=> L = 0
      /\ spoken' # <<>>
      /\ turn \in {"client", "gateway", "provider"}
  BY <1>1 DEF TranscriptInv, Conversation, SpokenType, TranscriptTypeOK
<1> HIDE DEF L
<1>3. TakeTurns'
  <2>1. TakeTurns
    BY DEF TranscriptInv, Conversation
  <2> QED
    BY <1>1, <1>2, <2>1 DEF TakeTurns, L
<1>4. BlocksFit'
  <2>1. BlocksFit
    BY DEF TranscriptInv, Conversation
  <2> QED
    BY <1>1, <2>1 DEF BlocksFit, PlacesOf, L
<1>5. ResultsAnswer'
  <2>1. ResultsAnswer
    BY DEF TranscriptInv, Conversation
  <2> SUFFICES ASSUME NEW k \in 1..Len(spoken'), NEW n \in PlacesOf(spoken'[k].blocks, "tool_result")
               PROVE  k > 1 /\ \E m \in PlacesOf(spoken'[k - 1].blocks, "tool_use") :
                        spoken'[k - 1].blocks[m].id = spoken'[k].blocks[n].id
    BY DEF ResultsAnswer, PlacesOf
  <2>2. CASE k \in 1..L
    <3>1. n \in PlacesOf(spoken[k].blocks, "tool_result") /\ spoken'[k] = spoken[k]
      BY <1>1, <2>2
    <3>2. k > 1 /\ \E m \in PlacesOf(spoken[k - 1].blocks, "tool_use") :
            spoken[k - 1].blocks[m].id = spoken[k].blocks[n].id
      BY <2>1, <2>2, <3>1 DEF ResultsAnswer, L
    <3>3. spoken'[k - 1] = spoken[k - 1]
      BY <1>1, <2>2, <3>2
    <3> QED
      BY <3>1, <3>2, <3>3
  <2>3. CASE k = L + 1
    <3>1. spoken # <<>> => L \in 1..L
      BY <1>1, <1>2
    <3> QED
      BY <1>1, <1>2, <2>3, <3>1 DEF L
  <2> QED
    BY <1>1, <2>2, <2>3
<1>6. CallsAnswered'
  <2>1. CallsAnswered
    BY DEF TranscriptInv, Conversation
  <2> SUFFICES ASSUME NEW k \in 1..Len(spoken'), k < Len(spoken'), k \notin dropped',
                      NEW n \in PlacesOf(spoken'[k].blocks, "tool_use")
               PROVE  \E m \in PlacesOf(spoken'[k + 1].blocks, "tool_result") :
                        spoken'[k + 1].blocks[m].id = spoken'[k].blocks[n].id
    BY DEF CallsAnswered, PlacesOf
  <2>2. CASE k < L
    <3>1. k \in 1..L /\ k + 1 \in 1..L
      BY <1>1, <2>2
    <3>2. spoken'[k] = spoken[k] /\ spoken'[k + 1] = spoken[k + 1]
      BY <1>1, <3>1
    <3>3. k \notin dropped
      BY <2>2, <3>1 DEF L
    <3>4. n \in PlacesOf(spoken[k].blocks, "tool_use")
      BY <3>2
    <3>5. \E m \in PlacesOf(spoken[k + 1].blocks, "tool_result") :
            spoken[k + 1].blocks[m].id = spoken[k].blocks[n].id
      BY <2>1, <2>2, <3>1, <3>3, <3>4 DEF CallsAnswered, L
    <3> QED
      BY <3>2, <3>5
  <2>3. CASE k = L
    <3>1. k \in 1..L /\ spoken # <<>>
      BY <1>1, <1>2, <2>3
    <3> QED
      BY <1>1, <2>3, <3>1 DEF L
  <2> QED
    BY <1>1, <2>2, <2>3
<1>7. TranscriptTypeOK'
  <2>1. \A k \in 1..Len(spoken)' :
          /\ spoken'[k].role \in {"user", "assistant"}
          /\ DOMAIN spoken'[k].blocks \subseteq 0..(MaxItems + 1)
          /\ \A n \in DOMAIN spoken'[k].blocks :
                 spoken'[k].blocks[n] \in [kind : BlockKinds, id : Ids \cup {NoId}]
    <3>1. blocks \in MessageBlocks /\ TranscriptTypeOK
      BY DEF TranscriptInv
    <3>2. /\ DOMAIN blocks \subseteq 0..(MaxItems + 1)
          /\ \A n \in DOMAIN blocks : blocks[n] \in [kind : BlockKinds, id : Ids \cup {NoId}]
      BY <3>1 DEF MessageBlocks, Block
    <3> QED
      BY <1>1, <3>1, <3>2 DEF TranscriptTypeOK, L
  <2>2. TranscriptTypeOK
    BY DEF TranscriptInv
  <2>3. 1..L \subseteq 1..Len(spoken')
    BY <1>1
  <2> QED
    BY <1>1, <2>1, <2>2, <2>3 DEF TranscriptTypeOK, L
<1>8. PairsSurvive'
  <2>1. PairsSurvive /\ sent' = sent /\ dropped \subseteq dropped'
    BY DEF TranscriptInv
  <2> QED
    BY <2>1 DEF PairsSurvive, Together, Before
<1> QED
  BY <1>1, <1>3, <1>4, <1>5, <1>6, <1>7, <1>8 DEF TranscriptInv, Conversation

\* The places of the calls a client has to answer.
LEMMA DueIsLast ==
  ASSUME TranscriptInv, turn = "client"
  PROVE  /\ spoken = <<>> => DOMAIN Due = {}
         /\ spoken # <<>> =>
              /\ Len(spoken) \in 1..Len(spoken)
              /\ DOMAIN Due = PlacesOf(spoken[Len(spoken)].blocks, "tool_use")
              /\ \A n \in DOMAIN Due : Due[n] = spoken[Len(spoken)].blocks[n].id
         /\ \A n \in DOMAIN Due : n \in 1..MaxItems /\ Due[n] \in Ids \cup {NoId}
<1>1. CASE spoken = <<>>
  BY <1>1 DEF Due
<1>2. CASE spoken # <<>>
  <2>1. Len(spoken) \in 1..Len(spoken)
    BY <1>2 DEF TranscriptInv, Conversation, SpokenType
  <2>2. /\ DOMAIN Due = PlacesOf(spoken[Len(spoken)].blocks, "tool_use")
        /\ \A n \in DOMAIN Due : Due[n] = spoken[Len(spoken)].blocks[n].id
    BY <1>2 DEF Due, IdsOf
  <2>3. ASSUME NEW n \in DOMAIN Due
        PROVE  n \in 1..MaxItems /\ Due[n] \in Ids \cup {NoId}
    <3>1. n \in DOMAIN spoken[Len(spoken)].blocks
      BY <2>2 DEF PlacesOf
    <3>2. n \in 0..(MaxItems + 1) /\ spoken[Len(spoken)].blocks[n] \in Block
      BY <2>1, <3>1, MessageTyped DEF TranscriptInv, Conversation
    <3>3. n # 0 /\ n # MaxItems + 1
      BY <2>1, <2>2 DEF TranscriptInv, Conversation, BlocksFit
    <3> QED
      BY <2>2, <3>2, <3>3, TranscriptAssumption DEF Block
  <2> QED
    BY <1>2, <2>1, <2>2, <2>3
<1> QED
  BY <1>1, <1>2

LEMMA AskKeeps ==
  ASSUME TranscriptInv, AskAnew
  PROVE  TranscriptInv'
<1> DEFINE blocks == [n \in {0} |-> Plain("text")]
<1>1. /\ turn = "client" /\ turn' = "gateway" /\ Say("user", blocks)
      /\ UNCHANGED <<api, sent, stopped>>
      /\ dropped' = IF DOMAIN Due = {} THEN dropped ELSE dropped \cup {Len(spoken)}
  BY DEF AskAnew
<1>2. blocks \in MessageBlocks
  <2>1. {0} \in SUBSET (0..(MaxItems + 1))
    BY TranscriptAssumption
  <2>2. blocks \in [{0} -> Block]
    BY DEF Plain, Block, BlockKinds
  <2> QED
    BY <2>1, <2>2 DEF MessageBlocks
<1>3. PlacesOf(blocks, "tool_result") = {} /\ PlacesOf(blocks, "tool_use") = {}
  BY DEF PlacesOf, Plain
<1> HIDE DEF blocks
<1>4. /\ dropped \subseteq dropped' /\ dropped' \subseteq 1..Len(spoken)
      /\ \A k \in 1..Len(spoken) : k < Len(spoken) => (k \in dropped' <=> k \in dropped)
      /\ spoken # <<>> /\ Len(spoken) \notin dropped' =>
           PlacesOf(spoken[Len(spoken)].blocks, "tool_use") = {}
  <2>1. dropped \subseteq 1..Len(spoken) /\ Len(spoken) \in Nat
    BY DEF TranscriptInv, TranscriptTypeOK, Conversation, SpokenType
  <2>2. DOMAIN Due # {} => Len(spoken) \in 1..Len(spoken)
    BY <1>1, DueIsLast
  <2>3. spoken # <<>> => DOMAIN Due = PlacesOf(spoken[Len(spoken)].blocks, "tool_use")
    BY <1>1, DueIsLast
  <2>4. CASE DOMAIN Due = {}
    <3>1. dropped' = dropped
      BY <1>1, <2>4
    <3> QED
      BY <2>1, <2>3, <2>4, <3>1
  <2>5. CASE DOMAIN Due # {}
    <3>1. dropped' = dropped \cup {Len(spoken)}
      BY <1>1, <2>5
    <3>2. dropped \subseteq dropped' /\ dropped' \subseteq 1..Len(spoken) /\ Len(spoken) \in dropped'
      BY <2>1, <2>2, <2>5, <3>1
    <3>3. ASSUME NEW k \in 1..Len(spoken), k < Len(spoken)
          PROVE  k \in dropped' <=> k \in dropped
      <4>1. k # Len(spoken)
        BY <2>1, <3>3
      <4> QED
        BY <3>1, <4>1
    <3> QED
      BY <3>2, <3>3
  <2> QED
    BY <2>4, <2>5
<1>5. stopped' \in Stops
  BY <1>1 DEF TranscriptInv, TranscriptTypeOK
<1> QED
  BY <1>1, <1>2, <1>3, <1>4, <1>5, SayKeeps

LEMMA ReturnKeeps ==
  ASSUME TranscriptInv, NEW order \in ResultOrders, NEW remarks \in Remarks,
         ReturnResults(order, remarks)
  PROVE  TranscriptInv'
<1> DEFINE blocks == [n \in remarks \cup DOMAIN Due |->
                        IF n \in remarks THEN Plain("image")
                        ELSE [kind |-> "tool_result", id |-> Due[order[n]]]]
<1>1. /\ turn = "client" /\ turn' = "gateway" /\ Say("user", blocks)
      /\ UNCHANGED <<api, sent, stopped, dropped>> /\ DOMAIN Due # {}
  BY DEF ReturnResults
<1>2. \A n \in DOMAIN Due : n \in 1..MaxItems /\ Due[n] \in Ids \cup {NoId}
  BY <1>1, DueIsLast
<1>3. /\ \A n \in DOMAIN Due : order[n] \in DOMAIN Due
      /\ \A n \in DOMAIN Due : \E k \in DOMAIN Due : order[k] = n
  BY DEF ResultOrders
<1>4. MaxItems \in Nat /\ remarks \subseteq {0, MaxItems + 1}
  BY TranscriptAssumption DEF Remarks
<1>5. blocks \in MessageBlocks
  <2>1. \A n \in remarks \cup DOMAIN Due : n \in 0..(MaxItems + 1)
    BY <1>2, <1>4
  <2>2. blocks \in [remarks \cup DOMAIN Due -> Block]
    BY <1>2, <1>3 DEF Plain, Block, BlockKinds
  <2> QED
    BY <2>1, <2>2, Zenon DEF MessageBlocks
<1>6. /\ PlacesOf(blocks, "tool_result") = DOMAIN Due
      /\ PlacesOf(blocks, "tool_use") = {}
      /\ \A n \in DOMAIN Due : blocks[n].id = Due[order[n]]
  <2>1. \A n \in DOMAIN Due : n \notin remarks
    BY <1>2, <1>4
  <2> QED
    BY <2>1 DEF PlacesOf, Plain
<1> HIDE DEF blocks
<1>7. /\ spoken # <<>>
      /\ DOMAIN Due = PlacesOf(spoken[Len(spoken)].blocks, "tool_use")
      /\ \A n \in DOMAIN Due : Due[n] = spoken[Len(spoken)].blocks[n].id
  BY <1>1, DueIsLast
<1>8. stopped' \in Stops /\ dropped' \subseteq 1..Len(spoken)
  BY <1>1 DEF TranscriptInv, TranscriptTypeOK
<1>9. /\ \A n \in PlacesOf(blocks, "tool_result") :
           \E m \in PlacesOf(spoken[Len(spoken)].blocks, "tool_use") :
             spoken[Len(spoken)].blocks[m].id = blocks[n].id
      /\ \A n \in PlacesOf(spoken[Len(spoken)].blocks, "tool_use") :
           \E m \in PlacesOf(blocks, "tool_result") :
             blocks[m].id = spoken[Len(spoken)].blocks[n].id
  <2>1. ASSUME NEW n \in DOMAIN Due
        PROVE  \E m \in DOMAIN Due : spoken[Len(spoken)].blocks[m].id = blocks[n].id
    <3>1. order[n] \in DOMAIN Due /\ blocks[n].id = Due[order[n]]
      BY <1>3, <1>6
    <3> QED
      BY <1>7, <3>1
  <2>2. ASSUME NEW n \in DOMAIN Due
        PROVE  \E m \in DOMAIN Due : blocks[m].id = spoken[Len(spoken)].blocks[n].id
    <3>1. PICK k \in DOMAIN Due : order[k] = n
      BY <1>3
    <3>2. blocks[k].id = Due[n] /\ Due[n] = spoken[Len(spoken)].blocks[n].id
      BY <1>6, <1>7, <3>1
    <3> QED
      BY <3>2
  <2> QED
    BY <1>6, <1>7, <2>1, <2>2
<1> QED
  BY <1>1, <1>5, <1>6, <1>7, <1>8, <1>9, SayKeeps

\* An answer with calls in the places 1 to MaxItems.
LEMMA HearKeeps ==
  ASSUME TranscriptInv, turn = "provider", NEW text \in BOOLEAN, NEW calls, NEW finish,
         DOMAIN calls \subseteq 1..MaxItems,
         \A n \in DOMAIN calls : calls[n] \in Ids,
         Hear(text, calls, finish)
  PROVE  TranscriptInv'
<1> DEFINE blocks == ToAnthropic(text, calls)
           P == DOMAIN calls \cup (IF text \/ DOMAIN calls = {} THEN {0} ELSE {})
<1>1. /\ turn' = "client" /\ Say("assistant", blocks)
      /\ UNCHANGED <<api, sent, dropped>> /\ stopped' = StopFor(finish)
  BY DEF Hear
<1>2. blocks \in MessageBlocks
  <2>1. P \in SUBSET (0..(MaxItems + 1))
    BY TranscriptAssumption
  <2>2. blocks \in [P -> Block]
    BY DEF ToAnthropic, Plain, Block, BlockKinds
  <2> QED
    BY <2>1, <2>2, Zenon DEF MessageBlocks
<1>3. /\ PlacesOf(blocks, "tool_result") = {}
      /\ PlacesOf(blocks, "tool_use") \subseteq 1..MaxItems
  BY DEF ToAnthropic, PlacesOf, Plain
<1>4. /\ stopped' \in Stops /\ dropped' \subseteq 1..Len(spoken)
  BY <1>1 DEF TranscriptInv, TranscriptTypeOK, StopFor, Stops
<1>5. spoken # <<>> => PlacesOf(spoken[Len(spoken)].blocks, "tool_use") = {}
  <2>1. /\ spoken # <<>> /\ spoken[Len(spoken)].role = "user"
    BY DEF TranscriptInv, Conversation, TakeTurns
  <2>2. Len(spoken) \in 1..Len(spoken)
    BY <2>1 DEF TranscriptInv, Conversation, SpokenType
  <2> QED
    BY <2>1, <2>2 DEF TranscriptInv, Conversation, BlocksFit
<1>6. 0 \notin PlacesOf(blocks, "tool_use") /\ MaxItems + 1 \notin PlacesOf(blocks, "tool_use")
  BY <1>3, TranscriptAssumption
<1> HIDE DEF blocks
<1> QED
  BY <1>1, <1>2, <1>3, <1>4, <1>5, <1>6, SayKeeps

\* A call without an id has the number of the calls before it.
LEMMA CallIdsTyped ==
  ASSUME NEW answer \in Outputs
  PROVE  /\ DOMAIN CallIdsOf(answer) \subseteq 1..MaxItems
         /\ \A n \in DOMAIN CallIdsOf(answer) : CallIdsOf(answer)[n] \in Ids
<1>1. answer \in Seq([kind : ItemKinds, id : CallIds \cup {NoId}]) /\ Len(answer) <= MaxItems
  BY TranscriptAssumption
<1>2. DOMAIN answer = 1..Len(answer) /\ Len(answer) \in Nat
  BY <1>1
<1>3. PlacesOf(answer, "call") \subseteq 1..Len(answer)
  BY <1>2 DEF PlacesOf
<1>4. IsFiniteSet(1..Len(answer))
  BY <1>2, FS_Interval
<1>5. ASSUME NEW n \in PlacesOf(answer, "call")
      PROVE  /\ Cardinality({k \in PlacesOf(answer, "call") : k < n}) \in Nat
             /\ answer[n].id \in CallIds \cup {NoId}
  <2>1. {k \in PlacesOf(answer, "call") : k < n} \subseteq 1..Len(answer)
    BY <1>3
  <2>2. IsFiniteSet({k \in PlacesOf(answer, "call") : k < n})
    BY <1>4, <2>1, FS_Subset
  <2>3. answer[n] \in [kind : ItemKinds, id : CallIds \cup {NoId}]
    BY <1>1, <1>3, ElementOfSeq, Zenon
  <2> QED
    BY <2>2, <2>3, FS_CardinalityType
<1>6. DOMAIN CallIdsOf(answer) = PlacesOf(answer, "call")
  BY DEF CallIdsOf
<1>7. 1..Len(answer) \subseteq 1..MaxItems
  BY <1>1, <1>2, TranscriptAssumption
<1>8. ASSUME NEW n \in PlacesOf(answer, "call")
      PROVE  CallIdsOf(answer)[n] \in Ids
  <2>1. CallIdsOf(answer)[n] = IF answer[n].id = NoId THEN Cardinality({k \in PlacesOf(answer, "call") : k < n})
                            ELSE answer[n].id
    BY DEF CallIdsOf
  <2> QED
    BY <1>5, <2>1 DEF Ids
<1> QED
  BY <1>3, <1>6, <1>7, <1>8

LEMMA AnswerKeeps ==
  ASSUME TranscriptInv,
         \/ \E answer \in Outputs, status \in {"completed", "incomplete"} : AnswerOfResponses(answer, status)
         \/ \E text \in BOOLEAN, calls \in ChatCalls, finish \in {"stop", "tool_calls", "length"} :
              AnswerOfChat(text, calls, finish)
  PROVE  TranscriptInv'
<1>1. ASSUME NEW answer \in Outputs, NEW status \in {"completed", "incomplete"},
             AnswerOfResponses(answer, status)
      PROVE  TranscriptInv'
  <2>1. HasItem(answer, "text") \in BOOLEAN
    BY DEF HasItem
  <2> QED
    BY <1>1, <2>1, CallIdsTyped, HearKeeps DEF AnswerOfResponses
<1>2. ASSUME NEW text \in BOOLEAN, NEW calls \in ChatCalls, NEW finish, AnswerOfChat(text, calls, finish)
      PROVE  TranscriptInv'
  <2>1. DOMAIN calls \subseteq 1..MaxItems /\ \A n \in DOMAIN calls : calls[n] \in Ids
    BY TranscriptAssumption DEF Ids
  <2> QED
    BY <1>2, <2>1, HearKeeps DEF AnswerOfChat
<1> QED
  BY <1>1, <1>2

LEMMA NotAnsweredKeeps ==
  ASSUME TranscriptInv, NotAnswered \/ UNCHANGED transcriptVars
  PROVE  TranscriptInv'
<1>1. /\ UNCHANGED <<spoken, api, sent, stopped, dropped>>
      /\ turn' = turn \/ (turn = "provider" /\ turn' = "gateway")
  BY DEF NotAnswered, transcriptVars
<1>2. Conversation'
  BY <1>1 DEF TranscriptInv, Conversation, SpokenType, TakeTurns, BlocksFit, ResultsAnswer,
              CallsAnswered, PlacesOf
<1>3. TranscriptTypeOK'
  BY <1>1 DEF TranscriptInv, TranscriptTypeOK
<1>4. PairsSurvive'
  BY <1>1 DEF TranscriptInv, PairsSurvive, Together, Before
<1> QED
  BY <1>2, <1>3, <1>4 DEF TranscriptInv

LEMMA TranscriptInitOK == TranscriptInit => TranscriptInv
<1> SUFFICES ASSUME TranscriptInit PROVE TranscriptInv
  OBVIOUS
<1>1. spoken = <<>> /\ Len(spoken) = 0 /\ 1..Len(spoken) = {} /\ 2..Len(spoken) = {}
  BY DEF TranscriptInit
<1>2. SpokenType
  BY <1>1 DEF SpokenType
<1>3. TakeTurns /\ BlocksFit /\ ResultsAnswer /\ CallsAnswered /\ TranscriptTypeOK /\ PairsSurvive
  BY <1>1 DEF TranscriptInit, TakeTurns, BlocksFit, ResultsAnswer, CallsAnswered, TranscriptTypeOK,
              PairsSurvive, Stops
<1> QED
  BY <1>2, <1>3 DEF TranscriptInv, Conversation

LEMMA TranscriptStepOK == TranscriptInv /\ [TranscriptNext]_transcriptVars => TranscriptInv'
<1> SUFFICES ASSUME TranscriptInv, [TranscriptNext]_transcriptVars PROVE TranscriptInv'
  OBVIOUS
<1>1. CASE AskAnew
  BY <1>1, AskKeeps
<1>2. CASE \E order \in ResultOrders, remarks \in Remarks : ReturnResults(order, remarks)
  BY <1>2, ReturnKeeps
<1>3. CASE (\E thinking \in BOOLEAN : SendToResponses(thinking)) \/ SendToChat
  BY <1>3, SendKeeps
<1>4. CASE \/ \E answer \in Outputs, status \in {"completed", "incomplete"} : AnswerOfResponses(answer, status)
           \/ \E text \in BOOLEAN, calls \in ChatCalls, finish \in {"stop", "tool_calls", "length"} :
                AnswerOfChat(text, calls, finish)
  BY <1>4, AnswerKeeps
<1>5. CASE NotAnswered \/ UNCHANGED transcriptVars
  BY <1>5, NotAnsweredKeeps
<1> QED
  BY <1>1, <1>2, <1>3, <1>4, <1>5 DEF TranscriptNext

\* MessageBlocks, items and turns keep their types in every conversation.
THEOREM TranscriptTypesCorrect == TranscriptSpec => []TranscriptTypeOK
<1>1. TranscriptInv => TranscriptTypeOK
  BY DEF TranscriptInv
<1> QED
  BY <1>1, TranscriptInitOK, TranscriptStepOK, PTL DEF TranscriptSpec

\* In conversations of any length, whatever the providers answer and whichever remarks the
\* client puts around its results, each request has every result behind its call and every
\* answered call before its result, with only calls and results in between
\* (anthropic_to_openai, _responses_input_from_messages).
THEOREM PairsCorrect == TranscriptSpec => []PairsSurvive
<1>1. TranscriptInv => PairsSurvive
  BY DEF TranscriptInv
<1> QED
  BY <1>1, TranscriptInitOK, TranscriptStepOK, PTL DEF TranscriptSpec

=============================================================================
