# LLM Budget Gateway: TLA+ models and proofs

The gateway is a FastAPI proxy in front of language-model providers. It keeps
virtual keys, dollar budgets and rate limits, walks a chain of candidate models
per route, and records what every request cost. This directory holds a TLA+
development of it: models read from `src/llm_budget_gateway/*.py`,
TLC runs over small instances, and theorems for every value of the constants.
The core (budgets, the candidate chain, the gate before tool calls) has runs of
its own; twenty-six smaller components share one.
Paths below are relative to the package, `src/src/llm_budget_gateway/`.

## Inventory of the system

| Part | State it keeps | Operations | What is hard, what makes it correct |
|---|---|---|---|
| Budget enforcement (`budget_enforcement.py`) | holds by id, the reserve lock, TPM/RPM counters, all in one process | `check_sync`, `check_hard`, `reserve`, `release` | spend is read in a thread, holds are added after it; spend + holds stay within each hard limit |
| Request life (`gateway_proxy.py`: `_handle_inner`, `_handle_logical_route`) | locals of a coroutine | admit, forward, record, release | cancellation at any await, streams nobody reads; a hold ends with its request, after its record |
| Cost ledger (`cost_tracking.py`) | SQLite `cost_records`, `model_cooldowns` | `insert`, `spend_since`, cooldown and strike updates | shared by worker processes; one row per request id |
| Candidate chain (`_run_candidate_chain`, `_retry_*`, `_cooldown_decision`) | position in the chain, cooldown rows | forward with a timeout, retry, park, fall back | concurrent requests park and revive the same model; a parked model is skipped, the last candidate always gets a try |
| Stream delivery (`_finalize_route_response`) | chunks sent so far, final status | relay, re-drive the rest of the chain, record | death before or after the first chunk; never two models in one stream, one record per request |
| Cache and sticky sessions | cached bodies, session to model | put, get, bind | stale binding after a publish |
| MCP governance (`mcp_governance/`) | approvals, tool budgets, policies, audit log | before/after call, create, approve, reject, consume, expire | an approval is used once, for the call it was given for, before it expires |
| Rate ceilings and legacy fallback (`budget_enforcement.py`: `check_sync`, `InMemoryCounterStore`; `model_fallback.py`) | a bounded LRU of counters; cooldowns by model | admit, forward along the chain | refusals half way over several scopes, buckets that are forgotten; a bucket admits no more than its ceiling |
| Answers of routes (`_prepare_route_request`, `market_features.py`) | cached bodies | sift candidates, put, get | publishes, expiry and redaction between put and get; a hit is what a provider said to that payload |
| Virtual keys and deployments (`control_plane.py`) | keys, budgets, circuit breakers | issue, rotate, revoke, reserve, reconcile, choose | reserve against reconcile, a process that dies inside a call, late reports on an open circuit |
| Logical routes (`product_console.py`, `routing_control_plane.py`, `priority_routes.py`) | drafts, published versions, spend | create, update, publish, rollback, archive, resolve | two editors of one draft, a request that resolves during a publish; only what was published is served |
| Alert dispatch (`dispatch_engine.py`, `alert_api.py`) | rules, delivery log; last delivery by rule, one lock | create and delete rules, evaluate, dispatch, retry | evaluations that overlap; rules, alerts and registry in three places; a cooldown between deliveries, an end to each, rules that take effect |
| Service manager (`service_manager.py`) | child processes | start, stop, reap | ports another process holds, a child that dies while it starts; a running child is in the table of the console that spawned it |
| Counters and registries (`completion_features.py`, `collaboration_suite.py`, `resilience_suite.py`, `security_suite.py`, `enterprise_features.py`, `governance.py`) | windowed counters, delivery ids, invitations, votes | reserve, accept, retry, decide | processes between a read and its write; counted once, approved by others |
| Connections, tokens (`provider_connections.py`, `codex_oauth.py`) | connections, found models, OAuth pairs; a registry per worker | create, update, sync, reload; refresh, sign in | edits while a provider is asked; two refreshes of a one-time refresh token |
| Transports (`provider_direct.py`, `anthropic_adapter.py`, `main.py`) | known endpoints, thought signatures, open blocks of a stream | choose the endpoint, convert conversations and streams, rewrite tool names | errors in mid-stream, replays at another worker, state shared by streams; a client gets what it can parse and repeat |
| Accounts of a request (`_finalize_route_response`, `_wrapped_stream`, `cost_tracking.py`, `cost_attribution.py`, `request_telemetry.py`) | cost rows, traces, activity, customers | record, replace, page through, sum by customer | cancellations and failures after a row was written; a success is counted where one was served |
| Console settings and incidents (`product_extensions.py`, `p0_workflows.py`) | keys, environments, audit; events, explanations; runs of the lab | rotate, create, commit; append, explain; test | one connection whose `commit` is anybody's; a process that dies between statements |
| MCP discovery, operations readiness, other suites | none others decide on | I/O and reports | |

They interact by plain calls on one event loop per worker process, and through
SQLite files shared by the workers and the console. Blocking ledger calls go to
worker threads (`asyncio.to_thread`); those, the calls to providers, the sleeps
between retries and the locks are the points where requests interleave.

## Modules

| Module | What it is |
|---|---|
| `NatSums` | a sum over `1..n`, as a recursive function |
| `NatSumLemmas` | what sums do when one summand changes; least and greatest members; with proofs |
| `BudgetEnforcer` | holds, ledger and life of requests |
| `SpendCap` | abstract: claims on limited scopes that are made once and only fall |
| `MCBudgetEnforcer` | constants for its TLC runs |
| `MCLiveness` | the reserve queue and the alert queue in one run of what must end |
| `BudgetEnforcerProofs` | its theorems, the refinement among them |
| `RouteChain` | the walk over candidate models, cooldowns, sticky sessions, the end of streams |
| `MCRouteChain` | constants for its TLC runs |
| `RouteChainProofs` | its theorems |
| `ToolCalls` | MCP governance: the gate before a tool call, approvals, policies, ceilings, the outcome |
| `OneTimePermit` | abstract: leave to make one call once |
| `MCToolCalls` | constants for the TLC runs of `ToolCalls` |
| `ToolCallsProofs` | its theorems, the refinement among them |
| `VirtualKeys`, `Reservations`, `Deployments` | `control_plane.py`: keys; budgets; circuit breakers |
| `RouteStudio` | routes of the Route Studio and the default routes of applications |
| `RoutePlane`, `PriorityRoutes` | the two other editors of routes and how they choose a model |
| `RouteAnswers` | from a route name to candidates or a refusal; the response cache |
| `LegacyRequests` | `check_sync` over the counter store; the walk of `FallbackManager` |
| `Books`, `CallPages` | what a request leaves behind; the request log that is read from it |
| `UpstreamCall`, `Transcripts`, `ToolNames`, `ThoughtSignatures` | the direct transport: endpoint, conversation, tool names, signatures |
| `AnthropicStream` | the frames of `/v1/messages` |
| `Connections`, `CodexTokens` | providers and their models; the OAuth pair |
| `AlertRules`, `AlertDispatch` | alert rules, the guard, adapters and their registry; the deliveries |
| `Customers` | whose a cost is, and the page that says so |
| `LocalServices` | uvicorn children |
| `SharedRows`, `Approvals` | counters and registries shared by processes; votes, tool runs, advice |
| `Extensions`, `Evidence`, `Compatibility` | console settings; incidents; the compatibility lab |
| `MCComponents` | these twenty-six in one TLC run |
| `ControlPlaneProofs` | theorems about `VirtualKeys`, `Reservations`, `Deployments`, `Extensions` |
| `RoutingProofs` | theorems about `RouteStudio`, `RouteAnswers`, `PriorityRoutes`, `Books`, `Customers`, `LegacyRequests` |
| `TransportProofs` | theorems about `CodexTokens`, `UpstreamCall`, `Connections`, `AnthropicStream`, `ThoughtSignatures`, `ToolNames`, `Transcripts` |
| `SharedStateProofs` | theorems about `RoutePlane`, `SharedRows`, `Approvals`, `LocalServices`, `AlertDispatch`, `AlertRules`, `Compatibility`, `Evidence`, `CallPages` |

### BudgetEnforcer

One request is one coroutine; `pc[r]` names the await it is at.

| Variables | In the code |
|---|---|
| `clock` | `_now_fn()`; one tick is any amount of time, so the TTL and the windows are small numbers |
| `pc`, `ix`, `now`, `snap`, `amount` | locals of `_handle_inner`, `check_hard` and `reserve`: the await, the scope the loop is at, `now`, what the last spend query saw, the estimate |
| `ledger`, `stamp`, `cost` | rows of `cost_records`, their timestamp and `total_cost` |
| `held`, `expires`, `lock` | `_holds` (by request: `reserve` places all holds of a request together with one amount and one expiry) and `_reserve_lock`; per worker through `WorkerOf` |
| `escaped` | history: requests whose cost no cap can account for |

`CapHolds` leaves out the `escaped`: a cost that is never recorded (failed insert, cut
call, leaked stream, restart), one recorded when its hold was gone (TTL, abandoned stream,
cancelled insert), one above its estimate, and one that settled between the spend query
and the decision of another request. What slips through those is bounded by nothing in the
code and by no property here; `budget_slip` shows the last.

`Arrive` .. `Decide` are `check_hard` and `reserve` up to the hold, `Respond`
.. `LateSettle` the rest of the request, `Restart` the loss of a process.
`SpendCap` says what a budget is for without locks, queries and holds: a request claims
all its scopes at one instant, at most once, where the claim fits with all others, and
from then on the claim only falls. `SpendIsCapped` states that `BudgetEnforcer`
implements it: the claim of a request is what it takes out of a cap (`Exposure`: the
hold, and once it is recorded the cost), and whoever has not passed `reserve` may still
claim.

A mutant operator beside a definition is what a plausible slip in that code
would make of it; each property is shown to notice one.

Decisions of the abstraction:

* A request that names a scope twice, and a scope with two configs, are not
  distinguished (`config_for` answers the first).
* The timestamp of a row is the one at its insert. `build_record` reads the
  clock a few statements earlier; nothing else runs between them on the loop
  but the hop to the thread.
* `asyncio.Lock` is fair; the model lets any waiter in next, which allows more.
* A failed attempt of a managed chain costs nothing here, its row has no usage.
* `inf`, the estimate that failed, is an amount above all limits.
* The window length is constant. `monthly` changes it once a month.

### RouteChain

One managed route. `stage[r]` is what a request awaits: the first attempt at a
candidate (`calling`), a retry after a timeout (`timed`, the loop of
`_retry_on_timeout`) or after 502-504 (`blip`, `_retry_transient`), or the end of
its stream. Everything from an answer to the next call runs without an await and
is one action, with the lookups and the skips of the candidates on the way
(`Call`, `Turns`).

| Variables | In the code |
|---|---|
| `table` | the rows of `model_cooldowns` for the route |
| `sticky`, `bound` | `_sticky_sessions` |
| `list`, `at`, `tries`, `kept` | `candidates`, `index`, `response_retry_count` and `response` of the retry loops |
| `result`, `server` | what the client gets and from whom |
| `seen` | history: what each model has failed with |

Decisions of the abstraction:

* An answer is one of the kinds `_cooldown_decision` tells apart; the instance
  says which kinds occur (`Errors`).
* The window of a candidate is not measured: it may be spent before any retry.
  That allows what the code allows, and more.
* `Raise` has its own rule: an exception with a status is judged by the status
  and not by `fallback_statuses`.
* A stream that dies has sent its first chunk: `_rest_stream` yields it before
  it waits for the second, so the re-drive branch of `_wrapped_stream` is never
  taken on the direct transport and is not in the model.
* A hold that is refused ends the request before the walk begins; that part is
  `BudgetEnforcer`'s. Routes of the older control plane ask no cooldowns.

### ToolCalls

An attempt is one tool call of a driver: `before_call`, the tool, `after_call`.
`before_call` runs to the look-up of the hosts in the arguments without an await
(`Bounce` .. `Locked`, one action per outcome), then awaits the look-up (`Screen`)
and one ledger query per ceiling (`CheckCeiling`). `after_call` writes the audit row
(`Finish`) and awaits the insert of the cost (`Record`).

| Variables | In the code |
|---|---|
| `stage`, `via`, `todo` | the coroutine: where it is, the approval it consumed, the ceilings `check` has yet to ask for |
| `server`, `policy`, `ceiling`, `approval`, `audit` | the tables of the governance database, by slot or by attempt |
| `open` | whether the shared connection is inside an implicit transaction |
| `ledger` | attempts whose cost is in `cost_records` |
| `barred` | history: ceilings used up when the call arrived, and ever since |

`OneTimePermit` says what an approval gate is for, in terms of the approvals and the
calls they let in alone; `OneTime` states that `ToolCalls` implements it, with
`approval` for its `permit`.

Decisions of the abstraction:

* A call asks for at most one approval, so an approval is named by who asked.
* The tools a server brings, which of them are disabled and which arguments fit
  the schema are constants: nothing changes them after registration.
* What the host guard decides is free (`Screen`, `ScreenBlocks`).
* Limits are hard limits. A soft limit only reports.
* Registering a name and version again is an error whose transaction stays open on
  the connection (`RegisterAgain`), until some other write commits it or a call
  that needs an approval trips over it (`Locked`).
* The service handlers and the engine run on the event loop; no thread shares the
  connection.

### The components of MCComponents

The modules from `VirtualKeys` to `Compatibility` share no variable.
`MCComponents` extends them all; `part` says in the initial state which one moves,
and the rest stands still. The reachable states are the union of theirs and not
the product, and an invariant of one component is checked in its part (the
others are in their initial state, where it holds as well).
Each module has its own `...Init`, `...Next` and `...Spec`, and
the proof modules are about those.

**Control plane** (`VirtualKeys`, `Reservations`, `Deployments`). A handler does not
await, so a call is one action. The connection of `VirtualKeys` commits each
statement alone: `IssueCut` and `RotateCut` are calls whose process died between
two of them. Secrets are left out: a key is its number. `reserve` and `reconcile`
are IMMEDIATE transactions, so one action even among processes; `peak` is history,
the highest limit a budget has had. A caller of `Deployments` chooses, calls and
reports in separate steps; `early` is history, the calls that began before a
circuit opened.

**Routes** (`RouteStudio`, `RoutePlane`, `PriorityRoutes`, `RouteAnswers`). A route of
the Studio keeps its draft in the columns that the traffic reads, so the module has
one `targets` for both, and versions apart. An editor holds the version number he
opened. In `RoutePlane` a request resolves, calls and is charged in three
actions, since the ceiling is checked at the first and spent at the last. In
`PriorityRoutes` time is a small day and a small month, and a zone is an offset; targets
are a function of their priorities. It has its type invariant only, which includes that
the targets of a decision are those of a published version. `RouteAnswers` sifts the candidates of a
published route (schedule, switch, capabilities, pictures, condition, ceiling), then
those of the plane; the order by weight is random in the code and free here. A
payload is a token, and redaction maps it to another.

**Requests of the settings file** (`LegacyRequests`). `Take` is the whole loop of
`check_sync` with the counters it has raised when a later scope refuses, and
`CheckSync` what comes of it. The
counter store forgets its least recently used bucket at `MaxBuckets`;
`evicted` is history: it remembers a bucket even if the same request brings it back.
The candidates of the walk are named by their place in the chain of the model.

**Transports** (`UpstreamCall`, `Transcripts`, `ToolNames`, `ThoughtSignatures`,
`AnthropicStream`). A conversation is a sequence of messages whose blocks (texts, calls,
results) stand at positions; texts and arguments are left out. What a provider is sent is
the set of its items, each with its place (the message, which of the messages that became of
it, and where in that one). A tool name is a token, with a
function that says which names are written alike without the colon. A stream is
the kinds of its chunks. What the provider does is free within the protocol: it
may turn a model away, break off, number its calls or not. A thought signature is named
by its call and read once the call is whole, also of a stream, which captures it chunk by chunk
first; a function has one name, with the colon or without; and calls have ids of the
provider's, which may repeat, the empty one, or none.

**Connections and tokens** (`Connections`, `CodexTokens`). The console writes, workers
read in steps of their own (`reload` holds what a reload has read so far). The
authorization server is external: it redeems a refresh token once, and whether it
`rotates` the token is free. A worker that refreshes blocks its event loop, so it
takes no other step.

**Accounts** (`Books`, `CallPages`). `Books` follows one request from the answer to its
row, trace and activity, with a client that leaves, an insert that fails, an
answer taken back after it was recorded (its failure row has the same id and
replaces it) and the end of the generator of a stream. `CallPages` is a reader of the
log who turns pages while rows arrive, late ones too; a row is on the page its rank
among the rows of the filter puts it on.

**Shared databases** (`SharedRows`, `Approvals`, `Extensions`, `Evidence`,
`Compatibility`). Reads that precede the transaction of a write are steps of their
own between processes. `Extensions` has the file and the connection apart (`disk`
and what is not yet committed): the driver opens a transaction with the first
change, and whoever commits next commits it. `Evidence` commits each event alone.
`Compatibility` reads the connection before its questions and stores its answers
after them; it has its type invariant only, which includes that "ready" means a score of
100.

**Customers** (`Customers`). Each record says whose it is when it is made: what the
body says before what a header says before the customer of the client's name. The page
of customers sums the ledger for all, then once more for every budget, while requests
are recorded by the workers; the sums are those of `NatSums`. Its type invariant includes that within a month the second
sum has all the first has.

**Alerts and services** (`AlertRules`, `AlertDispatch`, `LocalServices`). `AlertRules`
goes from a rule to a message. A `wiring` is the console's or a program's own. The
console's registry has the adapter of a rule under `channel#id` and an empty one under
the bare channel; dispatch looks up the channel of the event, which is bare unless
somebody wrote `channel#id` into the alert. `CreateAlert` and `BudgetMoves`
belong to the plane that is evaluated: the console's own is in memory and no endpoint
writes it, so with the console's wiring it is a plane that a program evaluates with
`app.state.build_alert_dispatcher()`. Thresholds and cooldowns of rules are not in the
model because nothing reads them. The console's adapters have no HTTP client, so but for
mail none could deliver, and its dispatcher no `log_fn`; the type invariant has the
empty history. In `AlertDispatch` a dispatch task waits for
the lock of its dispatcher, passes or fails the cooldown, and tries its adapter
with retries. With `Shared` all evaluations use one dispatcher, as a program that
keeps the application's does; without it each evaluation builds its own, with an empty
ledger, as the console does. The run takes the first, where lock and cooldown have work
to do. In `LocalServices` strangers may hold a
port, children may die at any time, and the console may crash.

| Property | What it says |
|---|---|
| `AnsweredOnce` | one Idempotency-Key, one key told; the others are losses of dead processes |
| `WithinPeak` | spent + reserved of a budget stay within its highest limit, but for costs above the reservation |
| `OpenIsSpared` | an open circuit's deployment is in calls only that began before |
| `CooldownKept` | deliveries of a rule are a cooldown apart (`EveryAlertEnds`, that every dispatch ends, is in `liveness`) |
| `LiveIsPublished`, `VersionTellsContent` | an active route is its published version as stored; a version number that matches means content that matches |
| `ServedWasPublished`, `OvershootIsInFlight` | the plane serves published versions only; spend passes a model's ceiling only by what was in flight |
| `HitIsAnswer` | a cached answer was given on that route to exactly that payload, and is not stale |
| `CeilingPerBucket` | admitted requests and tokens of a bucket stay within its ceilings, unless the store forgot the bucket |
| `StoredIsUsable` | the stored refresh token is spent only while somebody holds its successor, or the successor was lost |
| `StaleHasCause` | a worker is behind the stored connection only while a poke is on its way, or one was missed |
| `NeverMixed`, `SkipsForCause` | one stream, one endpoint; an endpoint is skipped only for a refusal that is recent |
| `SignatureComesBack` | across workers, restarts and evictions a replayed call gets a signature if a row of its function and arguments has its id or its spelling; that of something else only by an id that stands for something else too, as the empty one does, or by what such a replay left in memory |
| `FramesParse` | the frames of each stream open and close their blocks, with the reason the provider gave |
| `PairsSurvive` | calls and their results stay paired and adjacent through both conversions |
| `NamesComeBack` | a client hears the tool names it sent, two named cases apart |
| `ChildIsManaged` | no live child is missing from the table of the console that spawned it; workers of a killed supervisor are not its children |
| `CountedOnce`, `ApprovedByOthers` | what processes reserve in a window is counted once; approved by as many others as were asked for, in any order of whole calls |
| `CountedAsServed`, `PagesMissNothing` | a success is counted where a client had a whole answer; a reader of the log misses no row |
| `KeyAfterRotation`, `ExplainedAlike` | after a rotation the file has one active key; a repeated incident is explained alike |

## Runs

| Run | Question | Result |
|---|---|---|
| `budget_cap` | can spend plus holds pass a hard limit in one process? | no, apart from the four escapes (`escaped`, above); it implements `SpendCap` |
| `liveness` | does each request in line for the lock get an answer, does each hold end, does each dispatch of an alert? | yes |
| `budget_slip` | is the headroom real at the moment of the hold, as `reserve` says? | no: a request that settles during the query is in neither sum |
| `budget_workers` | the same with two worker processes | no: each has its own holds |
| `budget_team` | does a spent team cap block the team? | no: rows carry the key only |
| `chain` | whom do requests that share models park, for how long, and what do clients see? | only models that failed; briefly for a stall; failures only at the end of the chain; everybody is answered |
| `chain_ladder` | does a model that keeps failing climb the ladder, as `docs/CONFIGURATION.md` says? | no: the lookup that finds a cooldown over deletes its strikes |
| `chain_retry` | does an error answered to a retry after a timeout go the way of other errors? | no: it is served while candidates remain |
| `tools` | what gets past the gate, while everything it depends on changes? | an approval lets in one call, once; stricter policies yield only to more specific ones; a used-up ceiling is not passed |
| `components` | the properties of the table above, component by component | they hold |
| `studio_draft` | is a draft isolated from live traffic, as `docs/route-studio.md` says? | no: `update_route` sets the status to `draft`, and only active routes are served |
| `alert_rules` | is an alert on a channel with an enabled rule sent where the rule says? | no: dispatch finds the empty adapter of the channel |

**Bounds.** `budget_cap` has a legacy and a managed request, two capped scopes
whose limits are one apart, amounts 0 to 2 and one above every limit, costs up
to 2, a window and a TTL of 2 within 3 ticks, and one restart. Two requests are
enough for every pairwise race of the lock, the query and the release; the
limits are such that the last unit of headroom is contended; window and TTL run
out with the calls in flight. `liveness` has three requests, so that a waiter
waits behind a waiter, and in its other half two evaluations of two rules with one
retry. The violated runs are the smallest instances that show
the disagreement; the clock stands still in them, so that neither TTL nor window
can be the reason.

`chain` has two requests of one conversation over the same two candidates, one of
them streamed, two retries of the first candidate (so that a retry can hold an
answer and go on) and none of the second. Among the kinds of errors are one that
blames the request, one that is served, one that is retried, one that strikes and
one that is final. The clock ticks once, which ends short parks and the
binding of the conversation but no long park: an expired long park is in
`chain_ladder`.

`tools` has three attempts of one caller at one tool; two are the same call, the
third has other arguments, so that an approval can be found by the wrong call. Two
policies may match, one by a stronger scope and one by a stronger selector, so
that the two orders disagree; the effect of the default is the approval, which
also reaches the request without a policy (the service sets `deny`, the
constructor takes all three). One ceiling of one unit, a cost of one: the first
recorded call uses it up. The clock ticks once and a TTL and a window of 0 end
with the tick: an approval is used, or not, on either side of its expiry.

`Components.cfg` has two of what can race (names, callers of a breaker, rules, processes,
streams, calls, keys), since each hazard there is
between two actors or between an actor and an earlier step of its own. There is one
where the other actor is not of its kind: one editor and the saves without a version,
one worker and the console, one rule and one alert, one
customer and the ids of none. There is a third where
one must be a bystander (the third request of another route in `RouteAnswers`, the
third actor who can outvote in `Approvals`). In `ThoughtSignatures` two workers share
three calls, one without an id and one with the empty one, a dictionary of two and
`MaxReplays` replays that the table answers: a signature can stray by one replay and be
found, in memory or by its row, by the next. Limits are 1 or 2, so that the second use contends; cooldowns,
windows and lives are shorter than the clock of their component (`...ClockMax`), so
that each runs out with something in flight. Ids that grow (`MaxKeys`, `MaxDrafts`,
`MaxPairs`, `MaxPlaneVersions`, `MaxChildren`, `MaxEvents`, `MaxBills`) are bounded in the guards
of the actions that use them up, late enough for an old one to meet a new one. The answers
of `Transcripts` are a few (`Outputs`, `ChatCalls`): two calls in one, with and without an
id, text and reasoning before them; `MaxItems` is the length of the longest. What
a component leaves open in its initial state is open in its own part only
(`ComponentsInit`).
Deadlock is not checked there: components with bounded ids come to an end.

**Fairness.** In `BudgetEnforcer`, weak fairness of each step of a request that the event loop, a
worker thread or the provider timeout brings about (`Fairness` in the module).
Arrivals, cancellation, restarts and the clock have none. `Settle` and
`SettleFails` are one fair choice: the insert ends, one way or the other. In
`RouteChain`, weak fairness of the walk of each request, since every call is under
`wait_for`, and of the end of its stream, which the idle limit enforces. In
`AlertDispatch`, weak fairness of the steps of the dispatch tasks: an adapter has a
timeout, a backoff is a sleep, the lock is handed on. Evaluations and the clock
have none; the number of evaluations is bounded, so the property is that the tasks
they started end, again and again.

## Proofs

`BudgetEnforcerProofs` proves for any number of requests, workers and scopes,
any limits, windows, TTL, amounts and costs:

* `TypeCorrect`: the shape of the state;
* `HoldsCorrect`: `NoStrayHold`; `LockCorrect`: `LockHeld`;
* `CapCorrect`: `CapHolds`; `PassedFitsCorrect`: `PassedStillFits`;
* `AtCapCorrect`: `AtCapRefuses`;
* `SpendIsCappedCorrect`: the refinement of `SpendCap`, where there is one worker;
* `LineCorrect`: in front of a request in line its lock is free, or with a request of its
  worker that can move (`LineMoves`);
* `ForwardCorrect`: no request goes back (`RequestsGoForward`).

The last two are the safety half of `WaitersAnswered` and `HoldsEnd`. `Rank` orders the
stages; a step that touches a request takes it up in rank or its loop to a later one of its
scopes, cancelled and restarted requests included, and `LockAtHome` adds to `LockHeld` that
a worker's lock is with a request of that worker. What remains for fairness is that a
request that can move does.

The cap is not inductive alone. While `r` is inside the lock it has passed some
scopes and not others; what makes the hold safe is that the room found at the
passed scopes is still there (`PassedStillFits`). That in turn needs to know
that nobody else of the process is inside (`LockHeld`), that the others'
exposure can only fall meanwhile (their row replaces a hold that is at least as
large: `CostWithinHold`), that a row appears only once its request is past its
call (`RowAfterSettling`), that no local `now` is ahead of the clock
(`NowIsPast`), and that the loop is at a capped scope (`AtCappedScope`). The
conjunction is the invariant `Cap`. Every action but the last branch of `Decide`
is calm: it raises no request's exposure. That branch adds the new hold, and the
test it has just passed is the bound. So that branch is `Admit` of `SpendCap`, and
every other step is its `Recede`; `AtCapFavour` gives the room that even an empty claim
needs. The arithmetic is in `NatSumLemmas`: a sum
whose summands fall falls (`SumMonotone`), one summand that grows by at most `d`
raises it by at most `d` (`SumGrowth`).

Assumptions: the named ASSUMEs of the module (typing of the constants, and that
each request ends its scopes with the global one, as `_scopes_for` does), and,
as a hypothesis inside the properties and of the refinement, `OneWorker`. `Attributed` restricts the
cap to scopes whose requests are recorded under them. Both hypotheses are
needed: `budget_workers` and `budget_team` are the counterexamples without them.

`RouteChainProofs` proves of any number of requests and models, any chains,
retries, ladders, cooldowns and sets of fallback statuses:

* `TypeCorrect`: the shape of the state, and that the walk stays on its list;
* `CauseCorrect`: `ParkedForCause`; `StallCorrect`: `ShortStalls`;
* `EndCorrect`: the action property `FailsAtTheEnd`;
* `CandidateCorrect`: a walk that begins, or leaves a candidate that is not the last, has a
  next one to call, whatever the table says (`CandidateLeft`);
* `WalkCorrect`: a request under way ends, goes to a later candidate of the same list, or
  uses up a retry (`WalkGoesOn`). With the fairness of each call, these two are why
  `Answered` holds.

`ShortStalls` is not inductive: a rung of the ladder is a floor for any park, so a
short park is short only while the model has no strikes. The invariant `Sane`
relates the table to the history and adds that; it is stated for a table and a
history as arguments, so that the lemmas `DeleteSane`, `BlameSane` and `StallSane`
say once what each table operation keeps, and `CallKeeps`, `FinishKeeps`,
`MoveOnKeeps` and `RetryKeeps` say what the pieces of the actions keep from any
sane table. `Walk` is the rest: that a request not yet begun is at its first
candidate, that a stream has a model, and that a retry after 502-504 holds that
answer. `TurnExists` takes the least position that is not skipped (`LeastNat`): the last is
one.

`ToolCallsProofs` proves of any number of attempts, any callers, scopes, policies,
ceilings, windows, costs and TTL:

* `TypeCorrect`: the shape of the state; `CostsCorrect`: the ledger has completed calls only;
* `CeilingCorrect`: `NoStartAtCeiling`;
* `PolicyCorrect`: the action property `PolicyHonoured`;
* `OneTimeCorrect`: the refinement of `OneTimePermit`.

`Basis` adds to the types that a call which has not arrived has no approval
(`Fresh`) and that a call in the ledger is over (`Booked`), so that no audit row is
written twice once its cost counts. `NoStartAtCeiling` needs `Held`: a ceiling that
bars a call is still used up (`StaysUsedUp`, since sums over a growing ledger grow),
and the call has an entry for it left to be checked, which looks at least as far
back as the window does now; `ReachedSooner` says such an entry refuses the call,
so the query that would remove it from the list never passes. `PolicyHonoured`
rests on `ScoreOrder` (ten times the scope plus a selector of at most three orders
by the scope first) and on `DecisionLeast`, that a least effect exists among the
winners.

The components of `MCComponents` share nothing, so each has an inductive invariant and
theorems of its own; `ControlPlaneProofs`, `RoutingProofs`, `TransportProofs` and
`SharedStateProofs` collect them in parts, one per component. Every invariant was first
an invariant of a TLC run on the part of its component. The theorems hold for any
number of keys, workers, requests, streams, processes, alerts and so on, and for every
limit, window and cooldown. The bounds that cap ids and clocks in the modules are
constants of any size, so the theorems are about every one of them. Per component there
is a theorem about the types (`...TypesCorrect`), from the same invariant, and these:

*Control plane.*

* `VirtualKeys`: `AnswersCorrect` (`AnsweredOnce`) and
  `HeirsCorrect` (`HeirsStayHome`, a rotated key descends from keys of its own
  tenant). `KeyInv` is their conjunction and inductive: `idem` names the key of a
  token, so a repeated call finds it, and a rotation has no token.
* `Reservations`: `PeakCorrect` (`WithinPeak`), `SpentCorrect`
  (`SpentIsPaid`: the column is the sum of what its requests cost). `ResInv` adds
  `ReservedUnpaid`, that an open reservation has cost nothing yet, so that
  reconciling it moves its amount from one sum to the other. Every operation changes one
  row, and `OneRowChange` (from `SumOneChange` of `NatSumLemmas`) says what that does to
  sums.
* `Deployments`: `SparedCorrect` (`OpenIsSpared`), inductive with the types.
* `Extensions`: `RotationsLast` (`KeyAfterRotation`). `PxInv` says what the statements still
  to come will do to the file: their list is one of those a handler starts with, or a tail
  of it (`TodoOK`), every list with a rotation ends with the statements that finish it
  (`StageOK`), and outside a transaction the connection sees the file.

*Routes and requests.*

* `RouteStudio`: `LiveCorrect` (`LiveIsPublished`), `VersionsCorrect`
  (`VersionTellsContent`). `StudioInv` adds that the current draft is
  stored under its number (`DraftStored`), that versions exist only for routes that
  do (`CreatedOnly`) and that what an editor has opened is not ahead of the row
  (`OpenedPast`): a save numbers its draft past all that anybody has open.
* `RouteAnswers`: `HitsAreAnswers` (`HitIsAnswer`). A hit is an answer because what is kept
  was given, to that payload on that route, at the time it is stamped with
  (`KeptWasGiven`); redaction, expiry and publishes between a get and its put change
  nothing of that. `AnswerTypesCorrect`: a request sets out for providers only with a
  candidate, and all its candidates are models; that an order by cost has a first one is
  `CheapestThere`.
* `PriorityRoutes`: `PriorityTypesCorrect`. A version that is kept is not written again
  (`Drafted`) and the published number only moves up (`DecidedWell`), so what a decision was
  made of stays, whatever is drafted, renamed and published while it is walked.
* `Customers`: `CustomersTypesCorrect`. By the second sum the ledger has what the first has
  read (`ReadBefore`), since rows only come, unless one was replaced or the month has
  turned, which `apart` remembers.
* `Books`: `BooksAgree` (`CountedAsServed`). `BookOf` says for each await what the row, the
  trace and the client have by then; the property is the case of the last await.
* `LegacyRequests`: `CeilingsCorrect` (`CeilingPerBucket`). `LegacyInv` says that a bucket
  is in the store once and the store within its bound (`StoreOK`), and that what was
  admitted under a bucket is in its counter as well as within its ceiling
  (`Admissions`): the counter is what the next request is compared with. The loop over
  the scopes is a recursive function; that each step of it keeps this is shown of a least
  step that would not (`LeastNat`).

*Transports.*

* `CodexTokens`: `StoredUsable` (`StoredIsUsable`). The successor of a spent token is with
  a worker or the console (`HeirInHand`). That needs that, where the server rotates, nobody
  else has or has redeemed what a process was granted (`OwnToken`), and that no refresh
  token is ahead of what was minted (`TokensMinted`).
* `UpstreamCall`: `StreamsNeverMixed` (`NeverMixed`) and the action property
  `SkippedForCause` (`SkipsForCause`). A stamp is the time of the last refusal of its model
  (`StampsTrue`), each model has one (`LearnedOnce`), and what a client was sent came from
  the endpoint the call is at (`OutOfLeg`).
* `Connections`: `StaleRegistryHasCause` (`StaleHasCause`). A reload that no poke follows, and
  that none has missed, has read what is stored (`ReadsTrue`): a write after it began would
  have sent a poke, and that one cannot have arrived.
* `AnthropicStream`: `ClientsCanParse` (`FramesParse`). For each stream (`FramesOf`): the
  blocks started and not stopped are those its table has open. The table is one for all
  streams of a worker; what it says of one is not touched by another.
* `ThoughtSignatures`: `SignaturesComeBack` (`SignatureComesBack`). Both dictionaries map a
  key once (`DictOK`), that of ids to signatures filed under the id (`FiledUnder`), the other
  to signatures of what the key asks unless a replay has filled it under an id that stands
  for something else too (`AskedOrStrayed`). Every row is filed under its id (`RowsFiled`), and
  a row that takes the place of another has its id, function and arguments.
* `ToolNames`: `NamesRestored` (`NamesComeBack`). The body and the map belong together
  (`MapFits`): the first rewriting has the names of the client, any later one finds nothing
  left to rewrite; and a client has heard names only in an attempt that nothing follows.
* `Transcripts`: `PairsCorrect` (`PairsSurvive`). `Conversation` says what a conversation
  is: the speakers take turns (`TakeTurns`), results are the client's and calls are not
  (`BlocksFit`), a result answers a call of the message before (`ResultsAnswer`), and calls
  have their results in the message after, unless the client dropped them (`CallsAnswered`).
  `Represents` says of a set of items that it has each call and each result in its place
  and nothing where a pair could have it in between; both conversions yield such a set, and
  from that the property follows.

*Shared state.*

* `RoutePlane`: `PublishedIsServed` (`ServedWasPublished`), `OvershootInFlight`
  (`OvershootIsInFlight`). What a route has published are versions it has
  (`PublishedBefore`), and spend passes a ceiling by at most the cost of the calls
  that are not charged yet (`OvershootBounded`).
* `SharedRows`: `RowsCountedOnce` (`CountedOnce`). The count of a bucket is the number of
  requests reserved in it (`SumsRight`).
* `Approvals`: `OthersApprove` (`ApprovedByOthers`). One vote for each actor, none of the
  requester (`VotesOfOthers`), so that votes count people; the count that approved still
  stands in the table (`Carried`), and a run does not start uncleared (`RunsCleared`).
* `LocalServices`: `ChildrenInTable` (`ChildIsManaged`). A start waits for
  the port only while its service has no child, and for the child only with the child in the
  table (`StartsInOrder`): there is no step between the spawn and the row.
* `AlertDispatch`: `CooldownHolds` (`CooldownKept`). The task inside has passed the cooldown
  of every delivery there is (`EnteredLater`), because nobody else is inside (`LockHeld`)
  and the stamp is no older than any delivery (`StampsHold`). `WindDownCorrect`: every step
  that touches a dispatch leaves it fewer steps (`DispatchesWindDown`), and `GoesOnCorrect`:
  a lock in somebody's way is with a task that can move (`SomebodyGoesOn`). Both rest on
  `WindingDown`, the calls a task has left, and are the safety half of `EveryAlertEnds`.
* `AlertRules`: `AlertRulesTypesCorrect`. A sending that may be tried again has a try left
  (`TriesLeft`), so none is tried more often than `MostTries`.
* `Compatibility`: `CompatTypesCorrect`. A run has no more answers than questions and passes
  no more than it has answers (`Asking`); a part of a whole is 0 to 100 per cent of it
  (`PercentBounds`).
* `Evidence`: `ExplainedTheSame` (`ExplainedAlike`). What a build has yet to append
  is the rest of the four events, whose others are there (`Building`); unless somebody else
  appended, all events of an incident are its own (`OnlyOwn`), and what was explained was
  explained of all four (`ExplainedWhole`).
* `CallPages`: `NothingMissed` (`PagesMissNothing`). A row that the reader should see and has
  not has at least as many rows before it as he has passed (`AheadOfHim`). New rows only
  push it back; when an answer is taken back one row before it goes and one comes, which
  an injection between the two sets of rows says.

Assumptions are the named ASSUMEs of the modules: types of the constants, and what the
instance of the program has by construction. Some the proofs have brought to light:
a plane has finitely many
requests, a stream has room for one tool block, timestamps are numbers.

The proofs have changed models where one was wrong or could not be reasoned about.
`evicted` of `LegacyRequests` once compared the store before a request with the one
after it, and so missed a bucket that was dropped and came back within one request;
`CeilingPerBucket` is false of such a store, and the induction stopped there.
A route of `RouteAnswers` whose targets are none of them eligible once had an empty sequence
of candidates instead of none, so that the refusal with 422, which the code gives before it
looks at the cache, was never reached: that a request sets out with a candidate did not go
through. Operators that were folds or selections of sequences (`Place` in `CallPages`, `MapOf`
in `ToolNames`, `Timeline` in `Evidence`, `ChainFor` in `LegacyRequests`, the conversions of
`Transcripts`, the orders of `RouteAnswers` and `PriorityRoutes`, `EvaluateAlerts`) are sets
of positions or functions now, and the sum of `Customers` is one of `NatSums`.

Proved and not run are the type invariants of the modules with proofs of their own, the
properties of progress named above (TLC agreed with them on the instances of the runs), and
`LockHeld`, `PassedStillFits`, `SpentIsPaid`, `HeirsStayHome` and `AtCapRefuses`, which
`SpendIsCapped` says as well.

Model-checked only:

* liveness (`WaitersAnswered`, `HoldsEnd`, `EveryAlertEnds`, `Answered`), which is out of the
  prover's reach beyond the properties of progress above, and the agreement of code and
  documents that the runs with a violation are about;
* `ComponentsTypeOK` as it stands, the conjunction over the parts of one run: each of its
  twenty-six parts is a theorem of its component.

## What the code does, seen on the way

Behaviour that the models have because the code has it. No run is about it; a
reviewer may want to know.

*Budgets and rates.* A reservation of the control plane never expires. The failures
a circuit has counted are not forgotten when its open time ends, so one more opens it
again. A request
that several scopes limit leaves the counters raised that came before the
refusal. The buckets of TPM and RPM are the window of the scope's budget, 30 days by default.
`X-RateLimit` headers come from the last `check_sync` of any request. A legacy
hold is priced at the requested model while a dearer fallback may serve. The
limit of `DistributedCounter` can be passed between processes: the check and the
increment are two statements (the count itself is right).

*Tools and customers.* A blocked call asks for another approval although one is pending
for the same arguments (`mcp_governance/engine.py:236`), where `docs/architecture/mcp-governance.md:856`
reuses it; two that are granted are two calls. A `customer_id` in the body is taken as it
is, known or not.

*Routes.* Saving a draft of a published route takes it out of traffic
(`studio_draft`). Weights that are all negative end in a 502. A default window of
`PriorityRoutes`, 00:00 to 23:59, leaves out the last minute; its spend and health
go by name, so a rename frees an exhausted model, and a published version answers to
the new name of its draft at once. The month of the spend is UTC, that of a target
its own. Cached answers outlive the version and the conditions of their
route, and are filed by route. A `cache_ttl` that is no number turns an answered,
recorded request into a 502 whose row replaces the first one. An answer without
output is cached, and its hits count as successes.

*Fallback.* `classify_error` gets no status, so 429 and 5xx of a legacy provider
are `unknown`; the direct transport answers errors as responses, so the walk stops
there and the row says `success`. The cooldown of the model that was asked for is
never consulted.

*Streams and conversations.* With the direct transport the branch that re-drives a
stream before its first chunk cannot be reached. A stream that is drained adds up
its usage chunks, a live one takes the last. Live streams are not charged to the
spend of the plane. A usage chunk after the last loses the finish reason. Calls of
`/responses` without an index share block 1. Tool names are rewritten in the
shared body, so a second attempt has no map back; the name in `tool_choice` is not
rewritten. Parallel calls are not immediately followed by their outputs, as a
comment says they are. Telemetry carries no costs and does not hear of live
streams. Thought signatures are never pruned from their table.
Calls without an id are stored under the empty id (`provider_direct.py:1143`), and a replay
without one is looked up under it before its function and arguments are (1202-1205), so that it may
go out with the signature of another call, which the worker then keeps for this function and
these arguments.

*Processes and connections.* A worker that starts without models gets no direct
client later, nor is it armed for Codex by a connection made later. A late save
of a refreshed pair overwrites a newer sign-in. The success of a service start may
be a stranger's port. The workers of a supervisor that had to be killed may keep running on
the port; the manager has no record of them, and the next start takes them for a stranger. The console builds a dispatcher per evaluation, so its
cooldown ledger starts empty, and evaluates a control plane of its own in memory that
nothing writes. A compatibility run is stored for the connection that
was read, although it may have been edited meanwhile.

*Console.* Rotating a key that was revoked or had expired makes a key that is
active and has no expiry. Creating an environment under a name that is taken
leaves a transaction open until the next commit, and meanwhile other processes
cannot write. The audit record of some operations commits apart from the change.
The two handlers that rotate the key of an application write different tables.
Asking for the incident of a request appends its four events each time.
An approved request is reported expired at its next decision after its end; advice that
awaits approval is audited as approved and not changed.

## Plan

Done: `BudgetEnforcer`, `RouteChain`, `ToolCalls` with their proofs, rate ceilings
and the legacy walk, the control plane, the three editors of routes, the answers of routes, alerts and their rules, customers,
services, connections and tokens, the transports, the accounts of a request, the
console's settings, incidents and lab; the proofs of all twenty-six components.

Left, most important first:

1. A composition of one request's hold with its walk over the chain.
2. Several workers over one cooldown table, and a monthly window that changes
   its length under the holds.
3. Abstract specifications, as `OneTimePermit` is one, of the response cache, the OAuth
   pair and the counters.
4. Probes of routes, the lists of models.

## Not modelled

MCP discovery and its report, operations readiness, and the rest of the feature
suites (calculators and registries no request path reads); governance of privacy and
provisioning; the guard of the hosts a tool call names, which `ToolCalls` takes as free (the same guard
is in `AlertRules`);
pricing, charts and exports over the ledger, which are queries; wire formats beyond
what `Transcripts`, `ToolNames` and `AnthropicStream` keep; authentication and
headers; pages. `PROJECT.json` lists each part with its reason, and what
is missing of the parts that are modelled.
