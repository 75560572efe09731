----------------------------- MODULE AlertRules -----------------------------
(***************************************************************************)
(* From an alert rule to a message: the rules that /api/alerts keeps, the  *)
(* alerts a control plane evaluates, the registry of adapters a dispatcher *)
(* is built with, the guard in front of every host, and the history.       *)
(* AlertDispatch has the lock and the cooldown of the dispatcher.          *)
(***************************************************************************)
EXTENDS Integers, Sequences, FiniteSets

CONSTANTS
  Wired,        \* channels
  Guarded,      \* channels with a host, which the guard looks at
  Mailed,       \* channels that go by SMTP and need no HTTP client
  Addresses,    \* hosts that are literal addresses
  Private,      \* loopback, link-local, private, reserved and multicast ones
  NamedHosts,   \* hosts that are resolved
  ListedHooks,  \* of them, allowed for webhooks as they are
  ListedRelays, \* of them, allowed for mail as they are
  NoHost,       \* what is no host of an http(s) URL, the empty string included
  MaxRules, MaxPlaneAlerts, MaxSendings, MaxRatio, \* bounds
  MostTries,    \* calls of an adapter before its task gives up
  NoRule, NoBudget

ASSUME AlertRulesAssumption ==
  /\ Guarded \subseteq Wired /\ Mailed \subseteq Guarded
  /\ Private \subseteq Addresses
  /\ ListedHooks \subseteq NamedHosts /\ ListedRelays \subseteq NamedHosts
  /\ MostTries \in Nat \ {0}
  /\ \A n \in {MaxRules, MaxPlaneAlerts, MaxSendings, MaxRatio} : n \in Nat
  /\ NoBudget \notin 0..MaxRatio

Hosts == Addresses \cup NamedHosts \cup {NoHost}
Bare == 0                  \* the part of a registry key that no rule id has
RuleIds == 1..MaxRules

VARIABLES
  wiring,     \* whose dispatcher it is: the console's, or a program's own
  rules,      \* table alert_rules, by id
  planeAlerts,\* table alerts of the plane: channel and threshold, in order
  ratio,      \* (spent + reserved) / limit of the plane's global budget
  resolves,   \* what the names resolve to now
  sendings,   \* tasks of dispatch, in the order they were started
  history     \* table alert_dispatch_log

ruleVars == <<wiring, rules, planeAlerts, ratio, resolves, sendings, history>>

Resolutions == [NamedHosts -> SUBSET Addresses]

\* One alert rule with all fields its channel requires; without them it is refused (422).
RuleRow == [channel : Wired, host : Hosts, enabled : BOOLEAN]

Enabled(r) == r # NoRule /\ r.enabled

AlertRulesInit ==
  /\ wiring \in {"console", "program"}
  /\ rules = [i \in RuleIds |-> NoRule]
  /\ planeAlerts = <<>> /\ ratio = NoBudget
  /\ resolves \in Resolutions
  /\ sendings = <<>> /\ history = <<>>

-----------------------------------------------------------------------------
(* The guard *)

ListOf(channel) == IF channel \in Mailed THEN ListedRelays ELSE ListedHooks

\* A name passes when it resolves, and to no private address.
Resolved(host) == resolves[host] # {} /\ resolves[host] \cap Private = {}

\* The verdict on one host: a listed one passes before it is looked at.
Allows(channel, host) ==
  \/ channel \notin Guarded
  \/ host \in ListOf(channel)
  \/ host \in Addresses \ Private
  \/ host \in NamedHosts /\ Resolved(host)

NamesMove ==
  /\ resolves' \in Resolutions
  /\ UNCHANGED <<wiring, rules, planeAlerts, ratio, sendings, history>>

-----------------------------------------------------------------------------
(* The rules and the alerts *)

\* _validate_channel_config asks the guard when a rule is made, the adapters ask it again.
Valid(r) == Allows(r.channel, r.host)

CreateRule(r) ==
  /\ Valid(r)                       \* else 422
  /\ \E i \in RuleIds :
       /\ \A j \in RuleIds : (rules[j] = NoRule) => i <= j
       /\ rules[i] = NoRule
       /\ rules' = [rules EXCEPT ![i] = r]
  /\ UNCHANGED <<wiring, planeAlerts, ratio, resolves, sendings, history>>

DeleteRule(i) ==
  /\ rules[i] # NoRule              \* else 404
  /\ rules' = [rules EXCEPT ![i] = NoRule]
  /\ UNCHANGED <<wiring, planeAlerts, ratio, resolves, sendings, history>>

\* create_alert of the plane that is evaluated, by an operator of it: a plane that a
\* program evaluates with the dispatcher of app.state, the console's own has none.  The
\* channel is free text, a bare one or the key of one adapter.
CreateAlert(channel, i, threshold) ==
  /\ Len(planeAlerts) < MaxPlaneAlerts
  /\ planeAlerts' =
       Append(planeAlerts, [channel |-> channel, rule |-> i, threshold |-> threshold])
  /\ UNCHANGED <<wiring, rules, ratio, resolves, sendings, history>>

\* set_budget, reserve and reconcile move the ratio.
BudgetMoves(x) ==
  /\ ratio' = x
  /\ UNCHANGED <<wiring, rules, planeAlerts, resolves, sendings, history>>

-----------------------------------------------------------------------------
(* The evaluation *)

\* build_alert_adapter: the adapter of a rule carries what the rule says.
AdapterHost(i) == rules[i].host

\* build_alert_dispatcher: an adapter for every enabled rule under its channel and id,
\* and an empty one under every bare channel.
ConsoleRegistry ==
  [k \in {<<c, Bare>> : c \in Wired}
         \cup {<<rules[i].channel, i>> : i \in {j \in RuleIds : Enabled(rules[j])}} |->
     IF k[2] = Bare THEN NoHost ELSE AdapterHost(k[2])]

\* A program that builds a dispatcher itself names its adapters by the channel.
ProgramRegistries ==
  {[k \in {<<c, Bare>> : c \in Wired} |-> t] : t \in Hosts \ {NoHost}}

Registries == IF wiring = "console" THEN {ConsoleRegistry} ELSE ProgramRegistries

\* What dispatch looks up: the channel of the event as it is.
KeyOf(a) == <<a.channel, a.rule>>

Reached(a) == ratio # NoBudget /\ ratio >= a.threshold

\* evaluate_alerts with a dispatcher: a task for every alert that is triggered, in their
\* order; one without an adapter ends at once.
EvaluateAlerts ==
  \E registry \in Registries :
    LET due == {a \in DOMAIN planeAlerts :
                  Reached(planeAlerts[a]) /\ KeyOf(planeAlerts[a]) \in DOMAIN registry}
    IN  \E inTurn \in [1..Cardinality(due) -> due] :
          /\ \A m, n \in 1..Cardinality(due) : m < n => inTurn[m] < inTurn[n]
          /\ Len(sendings) + Cardinality(due) <= MaxSendings
          /\ sendings' = sendings \o
               [n \in 1..Cardinality(due) |->
                  LET a == planeAlerts[inTurn[n]] IN
                    [channel |-> a.channel, rule |-> a.rule, host |-> registry[KeyOf(a)],
                     tries |-> 0, said |-> "none"]]
          /\ UNCHANGED <<wiring, rules, planeAlerts, ratio, resolves, history>>

-----------------------------------------------------------------------------
(* The adapters *)

\* The console builds its adapters without an HTTP client.
HasClient == wiring = "program"

\* An adapter can succeed when the guard passes its host again and it has its means.
Posted(s) == s.channel \notin Mailed /\ HasClient /\ Allows(s.channel, s.host)
SentByMail(s) == s.channel \in Mailed /\ Allows(s.channel, s.host)

\* What dispatch logs after a call of the adapter: nothing of a first failure, and the
\* end of all retries as well as the last of them.
Logged(s, said) ==
  LET failure == IF s.tries = 0 THEN <<>> ELSE <<"failed">>
  IN  CASE said = "delivered" -> <<"delivered">>
        [] said = "failed"    -> failure
        [] said = "pending"   -> Append(failure, "pending")

\* The console gives its dispatcher no log_fn; record_dispatch stores what it is given.
HistoryAfter(s, said) ==
  IF wiring = "console" THEN history
  ELSE history \o [k \in DOMAIN Logged(s, said) |->
                     [channel |-> s.channel, status |-> Logged(s, said)[k]]]

Says(n, said) ==
  /\ sendings[n].said \in {"none", "failed"}
  /\ sendings' = [sendings EXCEPT ![n].tries = @ + 1, ![n].said = said]
  /\ history' = HistoryAfter(sendings[n], said)
  /\ UNCHANGED <<wiring, rules, planeAlerts, ratio, resolves>>

Arrives(n) ==
  /\ Posted(sendings[n]) \/ SentByMail(sendings[n])
  /\ Says(n, "delivered")

\* An HTTP status of 400 or more, an exception, a refusal of the guard.
Fails(n) ==
  Says(n, IF sendings[n].tries + 1 = MostTries THEN "pending" ELSE "failed")

AlertRulesNext ==
  \/ \E r \in RuleRow : CreateRule(r)
  \/ \E i \in RuleIds : DeleteRule(i)
  \/ \E c \in Wired, i \in {Bare} \cup RuleIds, x \in 0..MaxRatio : CreateAlert(c, i, x)
  \/ \E x \in 0..MaxRatio : BudgetMoves(x)
  \/ NamesMove
  \/ EvaluateAlerts
  \/ \E n \in DOMAIN sendings : Arrives(n) \/ Fails(n)

AlertRulesSpec == AlertRulesInit /\ [][AlertRulesNext]_ruleVars

-----------------------------------------------------------------------------
(* Properties *)

\* Type invariant; the history of the console is empty.
AlertRulesTypeOK ==
  /\ wiring \in {"console", "program"}
  /\ rules \in [RuleIds -> RuleRow \cup {NoRule}]
  /\ ratio \in 0..MaxRatio \cup {NoBudget}
  /\ resolves \in Resolutions
  /\ \A n \in DOMAIN sendings :
       /\ sendings[n].channel \in Wired /\ sendings[n].host \in Hosts
       /\ sendings[n].rule \in {Bare} \cup RuleIds /\ sendings[n].tries \in 0..MostTries
       /\ sendings[n].said \in {"none", "failed", "pending", "delivered"}
  /\ wiring = "console" => history = <<>>

\* The console's rules take effect at the next evaluation (docs/alert-notifications.md):
\* an alert that is triggered on a channel of which a rule is enabled is sent to the
\* host of such a rule.
RulesTakeEffect ==
  [][wiring = "console" =>
       \A n \in DOMAIN sendings' \ DOMAIN sendings :
         LET wanted == {i \in RuleIds :
                          Enabled(rules[i]) /\ rules[i].channel = sendings'[n].channel}
         IN  sendings'[n].rule = Bare /\ wanted # {} =>
               sendings'[n].host \in {rules[i].host : i \in wanted}]_ruleVars
=============================================================================
