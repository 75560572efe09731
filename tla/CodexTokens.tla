---------------------------- MODULE CodexTokens ----------------------------
(***************************************************************************)
(* The OAuth pair of a Codex connection.  The workers of the gateway and   *)
(* the console are processes that share one row of codex-oauth.db.  Each   *)
(* refreshes it on its own: it reads the row, spends the refresh token at  *)
(* the authorization server, and writes the pair it got.  A refresh token  *)
(* is good for one use.  A worker that refreshes does nothing else: the    *)
(* call blocks its event loop.                                             *)
(***************************************************************************)
EXTENDS Integers

CONSTANTS
  Workers,    \* processes of the gateway
  Consoles,   \* calls of the console's refresh endpoint, one at a time
  Logins,     \* calls of its exchange endpoint
  MaxPairs,   \* bound: access tokens the server issues
  NoPair

Refreshers == Workers \cup Consoles
Writers == Refreshers \cup Logins
PairIds == 1..MaxPairs
Pairs == [access : PairIds, refresh : PairIds]

ASSUME CodexAssumption ==
  /\ MaxPairs \in Nat /\ NoPair \notin Pairs
  /\ Workers \cap (Consoles \cup Logins) = {} /\ Consoles \cap Logins = {}

VARIABLES
  rotates,    \* whether the server replaces a refresh token that it takes
  minted,     \* access tokens issued so far
  redeemed,   \* refresh tokens the server has taken
  aging,      \* access tokens within the skew of their expiry, or past it
  stored,     \* the row
  phase,      \* where a writer is
  got,        \* the pair it has read or been granted
  armed,      \* workers that knew of the connection when they started
  carried,    \* the access token in the registry of a worker
  refused,    \* history: the refresh of this request of a worker failed
  mislaid     \* history: the server took a token and its successor was lost

codexVars == <<rotates, minted, redeemed, aging, stored, phase, got, armed,
               carried, refused, mislaid>>

CodexInit ==
  /\ rotates \in BOOLEAN
  /\ minted = 0 /\ redeemed = {} /\ aging = {} /\ stored = NoPair
  /\ phase = [p \in Writers |-> IF p \in Workers THEN "down" ELSE "idle"]
  /\ got = [p \in Writers |-> NoPair]
  /\ armed = {}
  /\ carried = [w \in Workers |-> 0]
  /\ refused = {}
  /\ mislaid = FALSE

StoredAccess == IF stored = NoPair THEN 0 ELSE stored.access

\* create_app: the registry takes the token of the row.
StartWorker(w) ==
  /\ phase[w] = "down"
  /\ phase' = [phase EXCEPT ![w] = "idle"]
  /\ carried' = [carried EXCEPT ![w] = StoredAccess]
  /\ armed' = IF stored # NoPair THEN armed \cup {w} ELSE armed
  /\ UNCHANGED <<rotates, minted, redeemed, aging, stored, got, refused, mislaid>>

\* _build_direct_registry, when the console pokes the worker
Reload(w) ==
  /\ phase[w] = "idle"
  /\ carried' = [carried EXCEPT ![w] = StoredAccess]
  /\ UNCHANGED <<rotates, minted, redeemed, aging, stored, phase, got, armed, refused,
                 mislaid>>

\* The worker, or the console, reads the row and turns to the server.
Ask(p) ==
  /\ phase' = [phase EXCEPT ![p] = "asking"]
  /\ got' = [got EXCEPT ![p] = stored]
  /\ UNCHANGED <<rotates, minted, redeemed, aging, stored, armed, carried, mislaid>>

\* _wrapped_resolve: with a token that is good for a while there is nothing to do
\* but to load it.
ResolveFresh(w) ==
  /\ phase[w] = "idle" /\ w \in armed
  /\ stored # NoPair /\ stored.access \notin aging
  /\ carried' = [carried EXCEPT ![w] = stored.access]
  /\ UNCHANGED <<rotates, minted, redeemed, aging, stored, phase, got, armed, refused,
                 mislaid>>

ResolveAging(w) ==
  /\ phase[w] = "idle" /\ w \in armed
  /\ stored # NoPair /\ stored.access \in aging
  /\ refused' = refused \ {w}
  /\ Ask(w)

RefreshByHand(c) ==
  /\ phase[c] = "idle" /\ stored # NoPair
  /\ Ask(c) /\ UNCHANGED refused

\* A worker loads the row again, however its refresh went; a call of the console
\* is over.
After(p) == [phase EXCEPT ![p] = IF p \in Workers THEN "loading" ELSE "idle"]

\* The server accepts the token and replaces it; a server that does not rotate sends
\* no refresh_token, and the old one is kept.
Granted(p) ==
  /\ phase[p] = "asking" /\ got[p].refresh \notin redeemed /\ minted < MaxPairs
  /\ minted' = minted + 1
  /\ redeemed' = IF rotates THEN redeemed \cup {got[p].refresh} ELSE redeemed
  /\ got' = [got EXCEPT ![p] =
               [access |-> minted + 1,
                refresh |-> IF rotates THEN minted + 1 ELSE got[p].refresh]]
  /\ phase' = [phase EXCEPT ![p] = "granted"]
  /\ UNCHANGED <<rotates, aging, stored, armed, carried, refused, mislaid>>

\* A redeemed token, a quota, a broken answer, a timeout; in the last two the
\* server may have replaced the token.
Refused(p, taken) ==
  /\ phase[p] = "asking"
  /\ taken => rotates
  /\ redeemed' = IF taken THEN redeemed \cup {got[p].refresh} ELSE redeemed
  /\ mislaid' = (mislaid \/ taken)
  /\ refused' = refused \cup ({p} \cap Workers)
  /\ phase' = After(p)
  /\ got' = [got EXCEPT ![p] = NoPair]
  /\ UNCHANGED <<rotates, minted, aging, stored, armed, carried>>

\* The user signs in at the provider, or pastes the tokens of a fresh sign-in.
Login(l) ==
  /\ phase[l] = "idle" /\ minted < MaxPairs
  /\ minted' = minted + 1
  /\ got' = [got EXCEPT ![l] = [access |-> minted + 1, refresh |-> minted + 1]]
  /\ phase' = [phase EXCEPT ![l] = "granted"]
  /\ UNCHANGED <<rotates, redeemed, aging, stored, armed, carried, refused, mislaid>>

PasteTokens ==
  /\ minted < MaxPairs
  /\ minted' = minted + 1
  /\ stored' = [access |-> minted + 1, refresh |-> minted + 1]
  /\ UNCHANGED <<rotates, redeemed, aging, phase, got, armed, carried, refused, mislaid>>

\* Mutant: the refresh token of the row is kept.
KeepRefresh(p) ==
  [access |-> got[p].access,
   refresh |-> IF stored = NoPair THEN got[p].refresh ELSE stored.refresh]

ToStore(p) == got[p]

SavePair(p) ==
  /\ phase[p] = "granted"
  /\ stored' = ToStore(p)
  /\ phase' = After(p)
  /\ got' = [got EXCEPT ![p] = NoPair]
  /\ UNCHANGED <<rotates, minted, redeemed, aging, armed, carried, refused, mislaid>>

Reread(w) == stored.access

LoadAgain(w) ==
  /\ phase[w] = "loading"
  /\ carried' = [carried EXCEPT ![w] = Reread(w)]
  /\ phase' = [phase EXCEPT ![w] = "idle"]
  /\ UNCHANGED <<rotates, minted, redeemed, aging, stored, got, armed, refused, mislaid>>

\* A process dies.  With a pair it has not saved the session is lost.
Die(p) ==
  /\ phase[p] # "down"
  /\ phase' = [phase EXCEPT ![p] = IF p \in Workers THEN "down" ELSE "idle"]
  /\ got' = [got EXCEPT ![p] = NoPair]
  /\ armed' = armed \ {p}
  /\ refused' = refused \ {p}
  /\ mislaid' = (mislaid \/ (phase[p] = "granted" /\ p \in Refreshers))
  /\ UNCHANGED <<rotates, minted, redeemed, aging, stored, carried>>

\* Access tokens live far longer than a refresh takes.
Age(t) ==
  /\ t <= minted /\ t \notin aging
  /\ \A p \in Writers : phase[p] \in {"idle", "down"}
  /\ aging' = aging \cup {t}
  /\ UNCHANGED <<rotates, minted, redeemed, stored, phase, got, armed, carried, refused,
                 mislaid>>

CodexNext ==
  \/ \E w \in Workers :
       \/ StartWorker(w) \/ Reload(w)
       \/ ResolveFresh(w) \/ ResolveAging(w) \/ LoadAgain(w)
  \/ \E c \in Consoles : RefreshByHand(c)
  \/ \E p \in Refreshers : Granted(p) \/ \E taken \in BOOLEAN : Refused(p, taken)
  \/ \E l \in Logins : Login(l)
  \/ PasteTokens
  \/ \E p \in Writers : SavePair(p) \/ Die(p)
  \/ \E t \in PairIds : Age(t)

CodexSpec == CodexInit /\ [][CodexNext]_codexVars

-----------------------------------------------------------------------------
(* Properties *)

\* Type invariant; the row and what is being refreshed are always whole pairs.
CodexTypeOK ==
  /\ rotates \in BOOLEAN /\ minted \in 0..MaxPairs
  /\ redeemed \subseteq PairIds /\ aging \subseteq PairIds
  /\ stored \in Pairs \cup {NoPair}
  /\ phase \in [Writers -> {"down", "idle", "asking", "granted", "loading"}]
  /\ got \in [Writers -> Pairs \cup {NoPair}]
  /\ \A p \in Writers : phase[p] \in {"asking", "granted"} => got[p] # NoPair
  /\ \A w \in Workers : phase[w] = "loading" => stored # NoPair
  /\ armed \subseteq Workers /\ refused \subseteq Workers
  /\ carried \in [Workers -> 0..MaxPairs]
  /\ mislaid \in BOOLEAN

\* The connection never has to be signed in again because processes refreshed it
\* at the same time: if the refresh token of the row is spent, somebody holds its
\* successor and will save it, unless that process died or the answer of the
\* server was lost (_ensure_codex_fresh, refresh_codex_oauth).
StoredIsUsable ==
  stored # NoPair /\ stored.refresh \in redeemed =>
    mislaid \/ \E p \in Writers : phase[p] = "granted"
=============================================================================
