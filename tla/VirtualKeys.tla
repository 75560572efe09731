---------------------------- MODULE VirtualKeys ----------------------------
(***************************************************************************)
(* Virtual keys of the control plane: issue, rotate, revoke, authenticate. *)
(* The handlers have no await, so a call is one action.  The connection is *)
(* in autocommit mode, so a process that dies inside a call keeps the      *)
(* statements it has run: IssueCut, RotateCut.                             *)
(***************************************************************************)
EXTENDS Integers

CONSTANTS
  Tenants,
  Tokens,      \* Idempotency-Key headers that clients send
  NoToken,     \* a call without one
  Expiries,    \* bound: expires_at values; 0 for none
  Overlaps,    \* bound: overlap_seconds of rotations
  MaxKeys,     \* bound: keys issued
  KeyClockMax, \* bound: the last instant
  NoKey

KeyIds == 1..MaxKeys

ASSUME KeyAssumption ==
  /\ Expiries \subseteq Nat /\ Overlaps \subseteq Int
  /\ MaxKeys \in Nat /\ KeyClockMax \in Nat
  /\ NoKey \notin KeyIds
  /\ NoToken \notin Tokens

VARIABLES
  keyClock,
  issued,     \* keys issued so far; ids are random, here 1, 2, ...
  key,        \* the rows of keys, by id
  idem,       \* the key a token was answered with
  origin,     \* history: the token a key was issued for
  parent,     \* history: the key it was rotated from
  cut         \* history: keys whose issue died before its answer was stored

keyVars == <<keyClock, issued, key, idem, origin, parent, cut>>

Roles == {"viewer", "auditor", "operator", "security", "admin"}

\* A row.  NULL and 0 read alike in authenticate: no expiry, no overlap.
KeyRow == [tenant : Tenants, status : {"active", "revoked"},
           expires : Nat, overlap : Nat]

ASSUME RowAssumption == NoKey \notin KeyRow

Max0(n) == IF n > 0 THEN n ELSE 0

Rank(role) ==
  CASE role = "viewer" -> 0 [] role = "auditor" -> 1 [] role = "operator" -> 2
    [] role = "security" -> 3 [] role = "admin" -> 4

Require(role, minimum) == Rank(role) >= Rank(minimum)

KeysOf(t) == {k \in 1..issued : key[k].tenant = t}

\* authenticate
Accepts(k) ==
  /\ key[k].status = "active"
  /\ ~ (key[k].overlap # 0 /\ key[k].overlap <= keyClock)
  /\ ~ (key[k].expires # 0 /\ key[k].expires <= keyClock)

KeyInit ==
  /\ keyClock = 1 /\ issued = 0
  /\ key = [k \in KeyIds |-> NoKey]
  /\ idem = [t \in Tenants |-> [i \in Tokens |-> NoKey]]
  /\ origin = [k \in KeyIds |-> NoToken]
  /\ parent = [k \in KeyIds |-> NoKey]
  /\ cut = {}

\* INSERT INTO keys, for the row table that the statements before it left
InsertKey(table, t, expires, token, old) ==
  /\ issued < MaxKeys
  /\ issued' = issued + 1
  /\ key' = [table EXCEPT ![issued + 1] =
               [tenant |-> t, status |-> "active", expires |-> expires, overlap |-> 0]]
  /\ origin' = [origin EXCEPT ![issued + 1] = token]
  /\ parent' = [parent EXCEPT ![issued + 1] = old]

\* Mutant: the stored answer is not looked up.
Unasked(t, token) == TRUE

Unanswered(t, token) == token # NoToken => idem[t][token] = NoKey

IssueKey(t, role, expires, token) ==
  /\ Require(role, "admin")
  /\ Unanswered(t, token)
  /\ InsertKey(key, t, expires, token, NoKey)
  /\ idem' = IF token = NoToken THEN idem
             ELSE [idem EXCEPT ![t][token] = issued + 1]
  /\ UNCHANGED <<keyClock, cut>>

\* The process dies between the two inserts; the secret is lost with it.
IssueCut(t, role, expires, token) ==
  /\ Require(role, "admin")
  /\ Unanswered(t, token)
  /\ InsertKey(key, t, expires, token, NoKey)
  /\ cut' = cut \cup {issued + 1}
  /\ UNCHANGED <<keyClock, idem>>

\* UPDATE keys SET overlap_until
Overlapped(k, overlap) == [key EXCEPT ![k].overlap = keyClock + Max0(overlap)]

Rotatable(t, k) == k \in KeysOf(t) /\ key[k].status = "active"

\* The new key has the label and the models of the old one, not its expiry.
RotateKey(t, role, k, overlap) ==
  /\ Require(role, "admin")
  /\ Rotatable(t, k)
  /\ InsertKey(Overlapped(k, overlap), t, 0, NoToken, k)
  /\ UNCHANGED <<keyClock, idem, cut>>

RotateCut(t, role, k, overlap) ==
  /\ Require(role, "admin")
  /\ Rotatable(t, k)
  /\ key' = Overlapped(k, overlap)
  /\ UNCHANGED <<keyClock, issued, idem, origin, parent, cut>>

RevokeKey(t, role, k) ==
  /\ Require(role, "admin")
  /\ k \in KeysOf(t)
  /\ key' = [key EXCEPT ![k].status = "revoked"]
  /\ UNCHANGED <<keyClock, issued, idem, origin, parent, cut>>

KeyTick ==
  /\ keyClock < KeyClockMax
  /\ keyClock' = keyClock + 1
  /\ UNCHANGED <<issued, key, idem, origin, parent, cut>>

KeyNext ==
  \/ \E t \in Tenants, role \in Roles, e \in Expiries, i \in Tokens \cup {NoToken} :
       IssueKey(t, role, e, i) \/ IssueCut(t, role, e, i)
  \/ \E t \in Tenants, role \in Roles, k \in KeyIds, o \in Overlaps :
       RotateKey(t, role, k, o) \/ RotateCut(t, role, k, o)
  \/ \E t \in Tenants, role \in Roles, k \in KeyIds : RevokeKey(t, role, k)
  \/ KeyTick

KeySpec == KeyInit /\ [][KeyNext]_keyVars

-----------------------------------------------------------------------------
(* Properties *)

\* Type invariant: rows for the issued ids and no others, answers that name them.
KeyTypeOK ==
  /\ keyClock \in Nat /\ issued \in 0..MaxKeys
  /\ key \in [KeyIds -> KeyRow \cup {NoKey}]
  /\ \A k \in KeyIds : key[k] = NoKey <=> k > issued
  /\ idem \in [Tenants -> [Tokens -> 1..issued \cup {NoKey}]]
  /\ origin \in [KeyIds -> Tokens \cup {NoToken}]
  /\ parent \in [KeyIds -> 1..issued \cup {NoKey}]
  /\ cut \subseteq 1..issued

\* However often a client repeats a request for a key, there is one key for its
\* Idempotency-Key, the one whose secret it was told; all others are the loss of
\* processes that died between the two inserts (issue_key).
AnsweredOnce ==
  \A k \in 1..issued :
    origin[k] # NoToken /\ k \notin cut => idem[key[k].tenant][origin[k]] = k

\* Rotation never carries a key across tenants: a chain of rotations stays with
\* the tenant it began with ("Every query is tenant scoped", ControlPlane).
HeirsStayHome ==
  \A k \in 1..issued :
    parent[k] # NoKey => key[parent[k]].tenant = key[k].tenant
=============================================================================
