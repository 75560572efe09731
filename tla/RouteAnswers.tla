---------------------------- MODULE RouteAnswers ----------------------------
(***************************************************************************)
(* From a request to the candidates it may use, and the answers that are   *)
(* kept for the next one.  A route name is looked up in the published      *)
(* routes, then in the routing plane; the targets of a route are sifted by *)
(* schedule, switch, capabilities, pictures, condition and ceiling; an     *)
(* answer may come from the response cache, and one from a provider may be *)
(* put there.  The session that narrows the candidates to one and the walk *)
(* over them are RouteChain's: here any of them may answer.  The lookups   *)
(* run without an await and are one action.  The transport rewrites some   *)
(* requests in place as well (ToolNames); redaction stands for it here.    *)
(***************************************************************************)
EXTENDS Integers, Sequences, FiniteSets

CONSTANTS
  PublicNames,   \* route names
  LLMs,          \* models
  Offers,        \* bound: by name, what editors publish
  PlaneOrder,    \* candidates of the routing plane, by name; <<>> if it knows none
  AskIds,        \* bound: requests
  Said,          \* what each request says
  Parts,         \* the values a value of metadata contains, as str() writes them
  Price,         \* estimated dollars of a unit of request, by model
  DefaultLife,   \* cache_ttl where neither request nor route says one
  Day,           \* length of a day
  AnswerClockMax,\* bound: time passes so often
  NoOffer, NoEntry, NoReply, NoWalk, NoCondition, NoCeiling, NoWeight, NoProfile,
  Unsaid,        \* a field of metadata that is not there
  Garbled        \* a field that int() or float() refuses

Ops == {"equals", "not_equals", "contains", "other"}

\* _targets keeps them in the order of their priority.
TargetType(t) ==
  /\ t.model \in LLMs
  /\ t.from \in 0..(Day - 1) /\ t.to \in 0..(Day - 1)
  /\ t.enabled \in BOOLEAN /\ t.sees \in BOOLEAN /\ t.weighted \in BOOLEAN
  /\ t.condition = NoCondition \/ t.condition.operator \in Ops
  /\ t.ceiling = NoCeiling \/ t.ceiling \in Nat
  /\ t.weight = NoWeight \/ t.weight \in Int

ASSUME AnswerAssumption ==
  /\ \A n \in PublicNames : \A o \in Offers[n] :
       /\ o # NoOffer /\ Len(o.targets) > 0
       /\ \A i \in 1..Len(o.targets) : TargetType(o.targets[i])
       /\ o.life \in Int \cup {Garbled, Unsaid}
  /\ \A q \in AskIds :
       /\ Said[q].name \in PublicNames /\ Said[q].profile \in PublicNames \cup {NoProfile}
       /\ Said[q].life \in Int \cup {Garbled, Unsaid}
  /\ PlaneOrder \in [PublicNames -> Seq(LLMs)]
  /\ Price \in [LLMs -> Nat]
  /\ DefaultLife \in Nat \ {0} /\ Day \in Nat \ {0} /\ AnswerClockMax \in Nat

Payloads == {Said[q].payload : q \in AskIds} \cup {Said[q].redacted : q \in AskIds}

VARIABLES
  instant,  \* int(time.time())
  offer,    \* the published version of each route
  cached,   \* response_cache
  walk,     \* a request at its providers: what was settled before it called them
  answer,   \* what the client got
  given     \* history: answers of providers to requests that asked for the cache

answerVars == <<instant, offer, cached, walk, answer, given>>

Kept == [model : LLMs, expires : Nat]
Lives == Int \cup {Garbled}
Walks == [name : PublicNames, models : Seq(LLMs) \ {<<>>}, keeps : BOOLEAN, life : Lives]
Replies == [status : {200, 400, 404, 412, 422, 502}, from : {"provider", "cache", "gateway"},
            name : PublicNames, model : LLMs \cup {Unsaid}, at : Nat]
Answers == [name : PublicNames, payload : Payloads, model : LLMs, until : Int]

AnswerInit ==
  /\ instant = 0
  /\ offer = [n \in PublicNames |-> NoOffer]
  /\ cached = [k \in PublicNames \X Payloads |-> NoEntry]
  /\ walk = [q \in AskIds |-> NoWalk]
  /\ answer = [q \in AskIds |-> NoReply]
  /\ given = {}

PublishOffer(n, o) ==
  /\ offer' = [offer EXCEPT ![n] = o]
  /\ UNCHANGED <<instant, cached, walk, answer, given>>

AnswerTick ==
  /\ instant < AnswerClockMax
  /\ instant' = instant + 1
  /\ UNCHANGED <<offer, cached, walk, answer, given>>

\* A profile overrides the model of the body where a route of that name is published.
NameOf(q) ==
  LET p == Said[q].profile IN
  IF p # NoProfile /\ offer[p] # NoOffer THEN p ELSE Said[q].name

\* An end that is not after the start is on the next day.
Inside(t) ==
  LET hour == instant % Day IN
  IF t.from < t.to THEN t.from <= hour /\ hour < t.to ELSE hour >= t.from \/ hour < t.to

Met(c, plan) ==
  CASE c.operator = "equals" -> plan = c.value
    [] c.operator = "not_equals" -> plan # c.value
    [] c.operator = "contains" -> c.value \in Parts[plan]
    [] OTHER -> TRUE

Capable(t, q) == t.needs \subseteq Said[q].capabilities

Sees(t, q) == Said[q].pictures => t.sees

UnderCeiling(t, q) == t.ceiling # NoCeiling => Price[t.model] * Said[q].size <= t.ceiling

Suits(t, q) ==
  /\ Inside(t)
  /\ t.enabled
  /\ Capable(t, q) /\ Sees(t, q)
  /\ t.condition # NoCondition => Met(t.condition, Said[q].plan)
  /\ UnderCeiling(t, q)

Eligible(o, q) == {i \in 1..Len(o.targets) : Suits(o.targets[i], q)}

\* float(weight or 10), not below 0
Weight(t) == IF t.weight \in {NoWeight, 0} THEN 10 ELSE IF t.weight < 0 THEN 0 ELSE t.weight

IsWeighted(o, E) == \E i \in E : o.targets[i].weighted \/ o.targets[i].weight # NoWeight

Heavier(o, i, j) ==
  LET w(k) == Weight(o.targets[k]) IN w(i) > w(j) \/ (w(i) = w(j) /\ i < j)

\* The members of K, each ahead of those that come later; there is one such sequence.
Arranged(K, Ahead(_, _)) ==
  {s \in [1..Cardinality(K) -> K] :
     \A i, j \in 1..Cardinality(K) : i < j => Ahead(s[i], s[j])}

\* The orders random.choices may lead to; none if no target has a weight above 0.
Drawn(o, E) ==
  UNION {{<<c>> \o s : s \in Arranged(E \ {c}, LAMBDA i, j : Heavier(o, i, j))} :
           c \in {i \in E : Weight(o.targets[i]) > 0}}

\* None if no target is eligible.
Orders(o, q) ==
  LET E == Eligible(o, q)
      idx == IF IsWeighted(o, E) THEN Drawn(o, E) ELSE Arranged(E, <)
  IN {[k \in 1..Len(s) |-> o.targets[s[k]].model] : s \in {t \in idx : E # {}}}

\* Every candidate is passed to the router as healthy: the cheapest goes first.
Cheapest(s) ==
  CHOOSE i \in 1..Len(s) : \A j \in 1..Len(s) :
    Price[s[i]] < Price[s[j]] \/ (Price[s[i]] = Price[s[j]] /\ i <= j)

CheapestFirst(q, s) ==
  LET best == s[Cheapest(s)]
      rest == {i \in 1..Len(s) : s[i] # best}
  IN IF Said[q].costAware /\ Len(s) > 1
     THEN {<<best>> \o [k \in 1..Len(t) |-> s[t[k]]] : t \in Arranged(rest, <)}
     ELSE {s}

\* Metadata of the route stands in for what the request does not say.
LifeFor(q, n) ==
  LET said == Said[q].life
      routes == IF offer[n] = NoOffer THEN Unsaid ELSE offer[n].life
  IN IF said # Unsaid THEN said ELSE IF routes # Unsaid THEN routes ELSE DefaultLife

AutoCache(q, n) ==
  IF Said[q].auto # Unsaid THEN Said[q].auto ELSE offer[n] # NoOffer /\ offer[n].auto

WantsCache(q, n) == Said[q].wants \/ (AutoCache(q, n) /\ Said[q].deterministic)

\* Mutant: one cache for all routes.
SharedShelf(n) == CHOOSE any \in PublicNames : TRUE

\* _cache_namespace
Shelf(n) == n

Unplanned(q) == answer[q] = NoReply /\ walk[q] = NoWalk

Tell(q, n, status, from, model) ==
  answer' = [answer EXCEPT ![q] = [status |-> status, from |-> from, name |-> n,
                                   model |-> model, at |-> instant]]

\* The orders the plan of a request may have; none if it has no plan.
Plans(q, n) ==
  IF offer[n] # NoOffer THEN Orders(offer[n], q)
  ELSE IF Said[q].cap = Garbled \/ PlaneOrder[n] = <<>> THEN {} ELSE {PlaneOrder[n]}

Refusal(q, n) ==
  IF offer[n] # NoOffer
  THEN IF Eligible(offer[n], q) = {} THEN 422
       ELSE 502   \* random.choices raised: no weight is above 0
  ELSE IF Said[q].cap = Garbled THEN 400 ELSE 404

\* No plan: the request ends before it looks at the cache.
Turn(q) ==
  LET n == NameOf(q) IN
  /\ Unplanned(q)
  /\ Plans(q, n) = {}
  /\ Tell(q, n, Refusal(q, n), "gateway", Unsaid)
  /\ UNCHANGED <<instant, offer, cached, walk, given>>

Fresh(e) == e # NoEntry /\ e.expires > instant

\* The cache is asked with the text as it came, before redaction.
Entry(q, n) == cached[<<Shelf(n), Said[q].payload>>]

HitCache(q) ==
  LET n == NameOf(q) IN
  /\ Unplanned(q) /\ Plans(q, n) # {}
  /\ WantsCache(q, n) /\ Fresh(Entry(q, n))
  /\ Tell(q, n, 200, "cache", Entry(q, n).model)
  /\ UNCHANGED <<instant, offer, cached, walk, given>>

\* get() deletes an entry it finds expired.  A stream is asked for in the cache but
\* never put there.
SetOut(q) ==
  LET n == NameOf(q) IN
  /\ Unplanned(q)
  /\ ~(WantsCache(q, n) /\ Fresh(Entry(q, n)))
  /\ \E s \in Plans(q, n) : \E models \in CheapestFirst(q, s) :
       walk' = [walk EXCEPT ![q] =
                  [name |-> n, models |-> models,
                   keeps |-> WantsCache(q, n) /\ ~Said[q].stream, life |-> LifeFor(q, n)]]
  /\ cached' = IF WantsCache(q, n)
               THEN [cached EXCEPT ![<<Shelf(n), Said[q].payload>>] = NoEntry] ELSE cached
  /\ UNCHANGED <<instant, offer, answer, given>>

\* What a provider is sent, and the key of what is kept: redaction changes the
\* messages in place.
Sent(q) == IF Said[q].redact THEN Said[q].redacted ELSE Said[q].payload

\* What is put in the cache, under the key as it is now.
KeyKept(q) == Sent(q)

\* A candidate answers.  put() refuses a ttl that is not positive, which is logged
\* and forgotten; one that is no number raises, after the answer is recorded, and the
\* client gets an error.
Serve(q, m) ==
  LET w == walk[q] IN
  /\ w # NoWalk
  /\ \E i \in 1..Len(w.models) : w.models[i] = m
  /\ IF w.keeps /\ w.life # Garbled
     THEN given' = given \cup {[name |-> w.name, payload |-> Sent(q), model |-> m,
                               until |-> instant + w.life]}
     ELSE given' = given
  /\ cached' = IF w.keeps /\ w.life # Garbled /\ w.life > 0
               THEN [cached EXCEPT ![<<Shelf(w.name), KeyKept(q)>>] =
                       [model |-> m, expires |-> instant + w.life]]
               ELSE cached
  /\ IF w.keeps /\ w.life = Garbled
     THEN Tell(q, w.name, 502, "gateway", Unsaid)
     ELSE Tell(q, w.name, 200, "provider", m)
  /\ walk' = [walk EXCEPT ![q] = NoWalk]
  /\ UNCHANGED <<instant, offer>>

\* The hold is refused, or no candidate answers.
Fail(q, status) ==
  /\ walk[q] # NoWalk
  /\ Tell(q, walk[q].name, status, "gateway", Unsaid)
  /\ walk' = [walk EXCEPT ![q] = NoWalk]
  /\ UNCHANGED <<instant, offer, cached, given>>

AnswerNext ==
  \/ AnswerTick
  \/ \E n \in PublicNames : \E o \in Offers[n] \cup {NoOffer} : PublishOffer(n, o)
  \/ \E q \in AskIds : Turn(q) \/ HitCache(q) \/ SetOut(q)
  \/ \E q \in AskIds, m \in LLMs : Serve(q, m)
  \/ \E q \in AskIds, status \in {412, 502} : Fail(q, status)

AnswerSpec == AnswerInit /\ [][AnswerNext]_answerVars

-----------------------------------------------------------------------------
(* Properties *)

\* Type invariant; a request that sets out has a candidate.
AnswerTypeOK ==
  /\ instant \in 0..AnswerClockMax
  /\ \A n \in PublicNames : offer[n] \in Offers[n] \cup {NoOffer}
  /\ cached \in [PublicNames \X Payloads -> Kept \cup {NoEntry}]
  /\ walk \in [AskIds -> Walks \cup {NoWalk}]
  /\ answer \in [AskIds -> Replies \cup {NoReply}]
  /\ given \subseteq Answers

\* What the cache answers, a provider has answered: on the same route, to exactly the
\* payload it was sent (not to one that redaction made of it), no longer ago than the
\* ttl of that request.  This holds whatever is published, expires or is redacted in
\* between (_prepare_route_request, _finalize_route_response, ExactResponseCache).
\* That the route would still choose the model is not promised.
HitIsAnswer ==
  \A q \in AskIds : answer[q] # NoReply /\ answer[q].from = "cache" =>
    \E g \in given :
      /\ g.name = answer[q].name /\ g.payload = Said[q].payload
      /\ g.model = answer[q].model /\ answer[q].at < g.until
=============================================================================
