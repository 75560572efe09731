--------------------------- MODULE LegacyRequests ---------------------------
(***************************************************************************)
(* A request with a key of the settings file, which no route serves: the   *)
(* rate ceilings it is admitted under, and the walk of FallbackManager over*)
(* the chain of its model.  The dollar budget between the two is           *)
(* BudgetEnforcer's: here it lets a request pass or not.  check_sync runs  *)
(* without an await and is one action; the call of a model is one, with    *)
(* the candidates that are passed over before it.                         *)
(***************************************************************************)
EXTENDS Integers, Sequences, NatSums

CONSTANTS
  LegacyCount,   \* bound: requests
  LegacyModels,
  KnownKey,      \* requests whose key is in virtual_keys
  KnownModel,    \* models that _model_known answers for
  ScopesFor,     \* the rate scopes of a request, in order
  Wanted,        \* the model a request asks for
  Estimated,     \* its input tokens
  RateLimit,     \* by scope and kind ("tpm", "rpm"); NoRate if there is none
  WindowOf,        \* window_seconds, by scope
  MaxBuckets,    \* _MAX_COUNTER_BUCKETS
  Chain,         \* the fallbacks of a model; <<>> if it has no configuration
  Triggers,      \* "on" of a configuration, by model
  Cooling,       \* cooldown_seconds, by model
  FitsIn,          \* the models whose context a request fits
  Direct,        \* models the direct transport serves
  LegacyClockMax,\* bound: time passes so often
  NoRate, Cold

LegacyIds == 1..LegacyCount
Kinds == {"tpm", "rpm"}
Scoping(r) == {ScopesFor[r][i] : i \in DOMAIN ScopesFor[r]}
RateScopes == UNION {Scoping(r) : r \in LegacyIds}

\* What classify_error makes of an exception when it is not told a status: the
\* exceptions of a provider with 429 or 5xx come out as "unknown".
Classes == {"timeout", "content_policy", "context_window", "unknown"}

ASSUME LegacyAssumption ==
  /\ LegacyCount \in Nat /\ \A r \in LegacyIds : ScopesFor[r] \in Seq(RateScopes)
  /\ KnownKey \subseteq LegacyIds /\ KnownModel \subseteq LegacyModels
  /\ Wanted \in [LegacyIds -> LegacyModels]
  /\ Estimated \in [LegacyIds -> Nat]
  /\ RateLimit \in [RateScopes \X Kinds -> Nat \cup {NoRate}]
  /\ WindowOf \in [RateScopes -> Nat \ {0}]
  /\ MaxBuckets \in Nat \ {0} /\ LegacyClockMax \in Nat
  /\ Chain \in [LegacyModels -> Seq(LegacyModels)]
  /\ Cooling \in [LegacyModels -> Nat]
  /\ FitsIn \in [LegacyIds -> SUBSET LegacyModels]
  /\ Direct \subseteq LegacyModels
  /\ NoRate \notin Nat /\ Cold \notin Nat

VARIABLES
  second,    \* time.time()
  counters,  \* InMemoryCounterStore, the bucket to evict next first
  failedAt,  \* FallbackManager._failed_at
  waits,     \* the await a request is at
  chain,     \* the candidates it has left, by their place in the chain
  reply,     \* the status the client gets
  row,       \* the status of its cost record
  admitted,  \* history: who was admitted under which bucket
  evicted    \* history: buckets the store has forgotten

legacyVars == <<second, counters, failedAt, waits, chain, reply, row, admitted, evicted>>

Phases == {"new", "budget", "dispatch", "calling", "done"}
RateKeys == [scope : RateScopes, kind : Kinds, bucket : Nat]
Counter == [key : RateKeys, count : Nat]

LegacyInit ==
  /\ second = 0
  /\ counters = <<>>
  /\ failedAt = [m \in LegacyModels |-> Cold]
  /\ waits = [r \in LegacyIds |-> "new"]
  /\ chain = [r \in LegacyIds |-> {}]
  /\ reply = [r \in LegacyIds |-> 0]
  /\ row = [r \in LegacyIds |-> "none"]
  /\ admitted = {} /\ evicted = {}

LegacyTick ==
  /\ second < LegacyClockMax
  /\ second' = second + 1
  /\ UNCHANGED <<counters, failedAt, waits, chain, reply, row, admitted, evicted>>

Close(r, status, record) ==
  /\ waits' = [waits EXCEPT ![r] = "done"]
  /\ reply' = [reply EXCEPT ![r] = status]
  /\ row' = [row EXCEPT ![r] = record]

\* 401 for a key, 404 for a model nobody knows.
KnockOut(r) ==
  /\ waits[r] = "new"
  /\ \/ r \notin KnownKey /\ Close(r, 401, "none")
     \/ r \in KnownKey /\ Wanted[r] \notin KnownModel /\ Close(r, 404, "none")
  /\ UNCHANGED <<second, counters, failedAt, chain, admitted, evicted>>

BucketOf(s) == (second \div WindowOf[s]) * WindowOf[s]

Key(s, k) == [scope |-> s, kind |-> k, bucket |-> BucketOf(s)]

Slots(store, key) == {i \in 1..Len(store) : store[i].key = key}

CountOf(store, key) ==
  IF Slots(store, key) = {} THEN 0 ELSE store[CHOOSE i \in Slots(store, key) : TRUE].count

\* move_to_end, of a counter that is there or a new one.
PutLast(store, key, count) ==
  LET from == IF Slots(store, key) = {} THEN Len(store) + 1 ELSE CHOOSE i \in Slots(store, key) : TRUE
      size == IF from > Len(store) THEN from ELSE Len(store)
  IN [i \in 1..size |-> IF i < from THEN store[i]
                        ELSE IF i < size THEN store[i + 1] ELSE [key |-> key, count |-> count]]

\* popitem(last=False): the one that was not used the longest.
Overfull(store) == Len(store) > MaxBuckets
Trim(store) == IF Overfull(store) THEN Tail(store) ELSE store

Amount(r, k) == IF k = "tpm" THEN Estimated[r] ELSE 1

\* Mutant: what is compared is the value before this request.
OverByOne(count, limit) == count > limit + 1

Beyond(count, limit) == count > limit

\* increment, and the comparison of what it answers.
Increment(acc, key, n, limit) ==
  LET count == CountOf(acc.store, key) + n
      store == PutLast(acc.store, key, count)
  IN [store |-> Trim(store), ok |-> ~Beyond(count, limit),
      forgotten |-> acc.forgotten \cup (IF Overfull(store) THEN {Head(store).key} ELSE {})]

\* The i-th ceiling of a request: the scopes in order, of each first the tokens.
ScopeAt(r, i) == ScopesFor[r][(i + 1) \div 2]
KindAt(i) == IF i % 2 = 1 THEN "tpm" ELSE "rpm"

StepOf(r, i, acc) ==
  LET s == ScopeAt(r, i)
      k == KindAt(i)
  IN IF ~acc.ok \/ RateLimit[<<s, k>>] = NoRate THEN acc
     ELSE Increment(acc, Key(s, k), Amount(r, k), RateLimit[<<s, k>>])

\* The ceilings one after the other, up to the first that is passed: what was added
\* before stays, whether the request is admitted or not.
Take(r) ==
  LET last == 2 * Len(ScopesFor[r])
      after[i \in 0..last] ==
        IF i = 0 THEN [store |-> counters, ok |-> TRUE, forgotten |-> {}] ELSE StepOf(r, i, after[i - 1])
  IN after[last]

CheckSync(r) ==
  LET t == Take(r) IN
  /\ waits[r] = "new" /\ r \in KnownKey /\ Wanted[r] \in KnownModel
  /\ counters' = t.store
  /\ evicted' = evicted \cup t.forgotten
  /\ IF t.ok
     THEN /\ waits' = [waits EXCEPT ![r] = "budget"]
          /\ admitted' = admitted \cup {[who |-> r, scope |-> s, bucket |-> BucketOf(s)] : s \in Scoping(r)}
          /\ UNCHANGED <<reply, row>>
     ELSE Close(r, 429, "none") /\ UNCHANGED admitted
  /\ UNCHANGED <<second, failedAt, chain>>

\* check_hard and reserve.
Budget(r) ==
  /\ waits[r] = "budget"
  /\ \/ waits' = [waits EXCEPT ![r] = "dispatch"] /\ UNCHANGED <<reply, row>>
     \/ Close(r, 412, "none")
  /\ UNCHANGED <<second, counters, failedAt, chain, admitted, evicted>>

Cools(m) == failedAt[m] # Cold /\ second - failedAt[m] < Cooling[m]

\* The chain of a model begins with itself.
Candidate(r, i) == IF i = 0 THEN Wanted[r] ELSE Chain[Wanted[r]][i]

\* chain_for: the model itself is never passed over for its cooldown.
ChainFor(r) == {i \in 0..Len(Chain[Wanted[r]]) : i > 0 => ~Cools(Candidate(r, i))}

DispatchChain(r) ==
  /\ waits[r] = "dispatch"
  /\ waits' = [waits EXCEPT ![r] = "calling"]
  /\ chain' = [chain EXCEPT ![r] = {i \in ChainFor(r) : Candidate(r, i) \in FitsIn[r]}]
  /\ UNCHANGED <<second, counters, failedAt, reply, row, admitted, evicted>>

\* The candidate that is asked.
AskedAt(r) == CHOOSE i \in chain[r] : \A j \in chain[r] : i <= j
Asked(r) == Candidate(r, AskedAt(r))

\* No candidate is left: the last exception goes up, which may be a
\* ProviderTimeoutError, or one that says that none would do.
NoneLeft(r) ==
  /\ waits[r] = "calling" /\ chain[r] = {}
  /\ \E status \in {"error", "timeout"} : Close(r, 502, status)
  /\ UNCHANGED <<second, counters, failedAt, chain, admitted, evicted>>

\* A response, with whatever status: the direct transport answers an error with a
\* response, which the walk serves and the record counts as a success.
Respond(r, status) ==
  /\ waits[r] = "calling" /\ chain[r] # {}
  /\ status >= 400 => Asked(r) \in Direct
  /\ Close(r, status, "success")
  /\ UNCHANGED <<second, counters, failedAt, chain, admitted, evicted>>

\* The triggers of the candidate, of the model asked for, or the default.
TriggersOf(m, wanted) ==
  IF Chain[m] # <<>> THEN Triggers[m]
  ELSE IF Chain[wanted] # <<>> THEN Triggers[wanted] ELSE {"rate_limit", "server_error", "timeout"}

\* An exception: on to the next, with a cooldown for this one, or up to the client.
Raised(r, class) ==
  LET m == Asked(r) IN
  /\ waits[r] = "calling" /\ chain[r] # {}
  /\ IF class \in TriggersOf(m, Wanted[r])
     THEN /\ failedAt' = [failedAt EXCEPT ![m] = second]
          /\ chain' = [chain EXCEPT ![r] = @ \ {AskedAt(r)}]
          /\ UNCHANGED <<waits, reply, row>>
     ELSE /\ \E status \in {"error", IF class = "timeout" THEN class ELSE "error"} :
               Close(r, 502, status)
          /\ UNCHANGED <<failedAt, chain>>
  /\ UNCHANGED <<second, counters, admitted, evicted>>

LegacyNext ==
  \/ LegacyTick
  \/ \E r \in LegacyIds :
       KnockOut(r) \/ CheckSync(r) \/ Budget(r) \/ DispatchChain(r) \/ NoneLeft(r)
  \/ \E r \in LegacyIds, status \in {200, 500} : Respond(r, status)
  \/ \E r \in LegacyIds, class \in Classes : Raised(r, class)

LegacySpec == LegacyInit /\ [][LegacyNext]_legacyVars

-----------------------------------------------------------------------------
(* Properties *)

\* Type invariant; the store never has more buckets than it may.
LegacyTypeOK ==
  /\ second \in 0..LegacyClockMax
  /\ counters \in Seq(Counter) /\ Len(counters) <= MaxBuckets
  /\ failedAt \in [LegacyModels -> Nat \cup {Cold}]
  /\ waits \in [LegacyIds -> Phases]
  /\ \A r \in LegacyIds : chain[r] \subseteq 0..Len(Chain[Wanted[r]])
  /\ reply \in [LegacyIds -> {0, 200, 401, 404, 412, 429, 500, 502}]
  /\ row \in [LegacyIds -> {"none", "success", "error", "timeout"}]
  /\ admitted \subseteq [who : LegacyIds, scope : RateScopes, bucket : Nat]
  /\ evicted \subseteq RateKeys

\* What was admitted under a bucket: tokens or requests.
AdmittedIn(key) ==
  Sum([r \in LegacyIds |->
         IF [who |-> r, scope |-> key.scope, bucket |-> key.bucket] \in admitted
         THEN Amount(r, key.kind) ELSE 0], LegacyCount)

\* In each bucket of each scope the requests one process admits and their tokens stay
\* within the ceilings, however requests over several scopes, refusals half way and
\* the change of the bucket interleave; the one exception is a bucket that the bounded
\* store has forgotten, which counts from 0 again (check_sync, InMemoryCounterStore).
CeilingPerBucket ==
  \A p \in admitted : \A k \in Kinds :
    LET key == [scope |-> p.scope, kind |-> k, bucket |-> p.bucket] IN
      RateLimit[<<p.scope, k>>] # NoRate /\ key \notin evicted => AdmittedIn(key) <= RateLimit[<<p.scope, k>>]
=============================================================================
