---------------------------- MODULE MCComponents ----------------------------
(***************************************************************************)
(* Components that share no state, checked in one run: the initial state   *)
(* says which of them moves, and the others stand still.  The reachable    *)
(* states are the union, not the product, of theirs.                       *)
(***************************************************************************)
EXTENDS VirtualKeys, Reservations, Deployments, AlertDispatch, RouteStudio, RoutePlane,
        CodexTokens, Connections, UpstreamCall, ThoughtSignatures, AnthropicStream,
        LocalServices, SharedRows, Approvals, RouteAnswers, LegacyRequests, Transcripts,
        ToolNames, Books, CallPages, Extensions, Evidence, Compatibility,
        PriorityRoutes, AlertRules, Customers, TLC

CONSTANTS m1, m2, m3, u1, u2, u3, l1, l2, p1, p2, c1

VARIABLE part

OneEach == [r \in Rules |-> 1]

\* m1 has a service window and a fallback; m2 is reported as m3.
TwoConfigs ==
  {[alias |-> "a", primaries |-> {m1}, fallbacks |-> <<m2>>, budget |-> 1,
    windowed |-> {m1}],
   [alias |-> "b", primaries |-> {m1}, fallbacks |-> <<>>, budget |-> 1,
    windowed |-> {}]}
Renamed == m1 :> {m1} @@ m2 :> {m3} @@ m3 :> {m3}

\* Two calls without ids ask the same of one function; a third with one asks something else.
Asks == u1 :> "f" @@ u2 :> "f" @@ u3 :> "g"
OneName == "f" :> "n" @@ "g" :> "n"
GivenIds == u1 :> Unnamed @@ u2 :> Blank @@ u3 :> "x"

\* By day l1 first, then l2 for those on "pro"; or two with weights, one of them below 0.
Target(m, from, to, condition, weight) ==
  [model |-> m, from |-> from, to |-> to, enabled |-> TRUE, sees |-> FALSE, weighted |-> FALSE,
   needs |-> {}, condition |-> condition, ceiling |-> NoCeiling, weight |-> weight]
ByDay ==
  [targets |-> <<Target(l1, 0, 1, NoCondition, NoWeight),
                 Target(l2, 1, 0, [operator |-> "equals", value |-> "pro"], NoWeight)>>,
   life |-> 1, auto |-> TRUE]
ByWeight ==
  [targets |-> <<Target(l1, 0, 0, NoCondition, -1), Target(l2, 0, 0, NoCondition, 10)>>,
   life |-> Garbled, auto |-> FALSE]
OffersOf == [n \in PublicNames |-> IF n = "a" THEN {ByDay, ByWeight} ELSE {ByDay}]

\* 1 is redacted to what 3 says; 2 is for another route than its body says; 3 says too much.
OfDay ==
  [name |-> "a", profile |-> NoProfile, payload |-> "x", redacted |-> "y", capabilities |-> {},
   pictures |-> FALSE, plan |-> "pro", size |-> 1, wants |-> FALSE, auto |-> Unsaid,
   deterministic |-> TRUE, stream |-> FALSE, redact |-> FALSE, costAware |-> FALSE,
   life |-> Unsaid, cap |-> Unsaid]
ThreeAsks ==
     1 :> [OfDay EXCEPT !.redact = TRUE, !.wants = TRUE]
  @@ 2 :> [OfDay EXCEPT !.profile = "b"]
  @@ 3 :> [OfDay EXCEPT !.name = "b", !.profile = "a", !.payload = "y", !.wants = TRUE,
                        !.plan = "free", !.life = 2, !.cap = Garbled, !.costAware = TRUE]
OnePlane == [n \in PublicNames |-> IF n = "a" THEN <<l1, l2>> ELSE <<>>]
TwoPrices == l1 :> 2 @@ l2 :> 1
Itself == [v \in {"pro", "free", Unsaid} |-> {v}]

\* Two requests of a team and one without; the third has a model without fallbacks.
TeamScopes == 1 :> <<"team", "all">> @@ 2 :> <<"team", "all">> @@ 3 :> <<"all">>
FirstOrSecond == 1 :> p1 @@ 2 :> p1 @@ 3 :> p2
Lengths == 1 :> 1 @@ 2 :> 1 @@ 3 :> 2
Rates == <<"team", "rpm">> :> 1 @@ <<"team", "tpm">> :> NoRate
           @@ <<"all", "rpm">> :> 2 @@ <<"all", "tpm">> :> 3
Windows == "team" :> 1 @@ "all" :> 2
OneFallback == p1 :> <<p2>> @@ p2 :> <<>>
AtTimeout == p1 :> {"timeout"} @@ p2 :> {}
OneSecond == p1 :> 1 @@ p2 :> 1
LongIsForSecond == 1 :> {p1, p2} @@ 2 :> {p1, p2} @@ 3 :> {p2}

Item(kind, id) == [kind |-> kind, id |-> id]
TwoCallings == {<<>>, <<c1>>}
FiveOutputs ==
  {<<Item("reasoning", NoId), Item("text", NoId), Item("call", c1), Item("call", NoId)>>,
   <<Item("call", NoId)>>, <<Item("text", NoId)>>, <<Item("reasoning", NoId)>>,
   <<Item("opaque", NoId)>>}

WithoutColon == "x:y" :> "x_y" @@ "x_y" :> "x_y" @@ "u:v" :> "u_v" @@ "u_v" :> "u_v" @@ "w" :> "w"
ThreeBodies ==
  {[tools |-> <<"x:y", "w">>, replayed |-> <<"u:v">>],
   [tools |-> <<"x_y", "x:y", "u:v">>, replayed |-> <<"x:y">>],
   [tools |-> <<"u_v", "w">>, replayed |-> <<"u:v">>]}

Odd == [c \in 1..MaxCalls |-> IF c = 2 THEN "b" ELSE "a"]

TwoAdded ==
  {[at |-> 4, about |-> "auth", outcome |-> "recovered", severity |-> "info"],
   [at |-> 2, about |-> "rate", outcome |-> "failed", severity |-> "critical"]}

\* A chain with one model twice, by day for all, and for those with eyes an hour ahead,
\* where the next month begins earlier; and one without a valid priority.
Ordinal(priority, from, to, zone, needs, fallback) ==
  [model |-> "x", priority |-> priority, from |-> from, to |-> to, zone |-> zone, ceiling |-> 1,
   enabled |-> TRUE, needs |-> needs, fallback |-> fallback]
TwoChains ==
  {<<Ordinal(2, 0, 0, 1, {"eyes"}, {429}), Ordinal(1, 0, 2, 0, {}, {429, 503})>>,
   <<Ordinal(0, 0, 0, 0, {}, {429})>>}
TwoDemands == {{}, {"eyes"}}

\* By the body before a header, by a header, by the client's name, by no customer's.
FourSayings ==
  {[meta |-> Stranger, header |-> 1, client |-> "bob"],
   [meta |-> Unset, header |-> 1, client |-> "bob"],
   [meta |-> Unset, header |-> Unset, client |-> "bob"],
   [meta |-> Unset, header |-> Unset, client |-> "x"]}

ComponentsInit ==
  /\ part \in {"keys", "reservations", "deployments", "alerts", "studio", "plane",
               "codex", "connections", "upstream", "signatures", "anthropic",
               "services", "rows", "approvals", "answers", "legacy", "transcripts",
               "names", "books", "pages", "extensions", "evidence", "compatibility",
               "priority", "rules", "customers"}
  /\ KeyInit /\ ResInit /\ DepInit /\ AlertInit /\ StudioInit /\ PlaneInit
  /\ CodexInit /\ ConnInit /\ UpInit /\ SigInit /\ AnthropicInit /\ ServicesInit
  /\ RowsInit /\ ApprovalsInit /\ AnswerInit /\ LegacyInit /\ TranscriptInit /\ ToolInit
  /\ BookInit /\ PageInit /\ PxInit /\ EvidenceInit /\ CompatInit /\ PriorityInit
  /\ AlertRulesInit /\ CustomersInit
  /\ part # "codex" => rotates
  /\ part # "upstream" => gone = {}
  /\ part # "anthropic" => \A s \in Messages : upstream[s] = "numbered"
  /\ part # "services" => stranger = {}
  /\ part # "rules" => wiring = "console" /\ resolves = [h \in NamedHosts |-> {}]
  /\ part # "names" => brought = CHOOSE b \in Bodies : TRUE

Moves ==
  \/ part = "keys" /\ KeyNext
  \/ part = "reservations" /\ ResNext
  \/ part = "deployments" /\ DepNext
  \/ part = "alerts" /\ AlertNext
  \/ part = "studio" /\ StudioNext
  \/ part = "plane" /\ PlaneNext
  \/ part = "codex" /\ CodexNext
  \/ part = "connections" /\ ConnNext
  \/ part = "upstream" /\ UpNext
  \/ part = "signatures" /\ SigNext
  \/ part = "anthropic" /\ AnthropicNext
  \/ part = "services" /\ ServicesNext
  \/ part = "rows" /\ RowsNext
  \/ part = "approvals" /\ ApprovalsNext
  \/ part = "answers" /\ AnswerNext
  \/ part = "legacy" /\ LegacyNext
  \/ part = "transcripts" /\ TranscriptNext
  \/ part = "names" /\ ToolNext
  \/ part = "books" /\ BookNext
  \/ part = "pages" /\ PageNext
  \/ part = "extensions" /\ PxNext
  \/ part = "evidence" /\ EvidenceNext
  \/ part = "compatibility" /\ CompatNext
  \/ part = "priority" /\ PriorityNext
  \/ part = "rules" /\ AlertRulesNext
  \/ part = "customers" /\ CustomersNext

ComponentsNext ==
  /\ Moves
  /\ UNCHANGED part
  /\ part # "keys" => UNCHANGED keyVars
  /\ part # "reservations" => UNCHANGED resVars
  /\ part # "deployments" => UNCHANGED depVars
  /\ part # "alerts" => UNCHANGED alertVars
  /\ part # "studio" => UNCHANGED studioVars
  /\ part # "plane" => UNCHANGED planeVars
  /\ part # "codex" => UNCHANGED codexVars
  /\ part # "connections" => UNCHANGED connVars
  /\ part # "upstream" => UNCHANGED upVars
  /\ part # "signatures" => UNCHANGED sigVars
  /\ part # "anthropic" => UNCHANGED anthropicVars
  /\ part # "services" => UNCHANGED serviceVars
  /\ part # "rows" => UNCHANGED rowVars
  /\ part # "approvals" => UNCHANGED approvalVars
  /\ part # "answers" => UNCHANGED answerVars
  /\ part # "legacy" => UNCHANGED legacyVars
  /\ part # "transcripts" => UNCHANGED transcriptVars
  /\ part # "names" => UNCHANGED toolVars
  /\ part # "books" => UNCHANGED bookVars
  /\ part # "pages" => UNCHANGED pageVars
  /\ part # "extensions" => UNCHANGED pxVars
  /\ part # "evidence" => UNCHANGED evidenceVars
  /\ part # "compatibility" => UNCHANGED compatVars
  /\ part # "priority" => UNCHANGED priorityVars
  /\ part # "rules" => UNCHANGED ruleVars
  /\ part # "customers" => UNCHANGED custVars

componentVars ==
  <<part, keyVars, resVars, depVars, alertVars, studioVars, planeVars, codexVars,
    connVars, upVars, sigVars, anthropicVars, serviceVars, rowVars, approvalVars,
    answerVars, legacyVars, transcriptVars, toolVars, bookVars, pageVars,
    pxVars, evidenceVars, compatVars, priorityVars, ruleVars, custVars>>

ComponentsSpec == ComponentsInit /\ [][ComponentsNext]_componentVars

\* Type invariant: of the component that moves.
ComponentsTypeOK ==
  /\ part = "keys" => KeyTypeOK
  /\ part = "reservations" => ResTypeOK
  /\ part = "deployments" => DepTypeOK
  /\ part = "alerts" => AlertTypeOK
  /\ part = "studio" => StudioTypeOK
  /\ part = "plane" => PlaneTypeOK
  /\ part = "codex" => CodexTypeOK
  /\ part = "connections" => ConnTypeOK
  /\ part = "upstream" => UpTypeOK
  /\ part = "signatures" => SigTypeOK
  /\ part = "anthropic" => AnthropicTypeOK
  /\ part = "services" => ServicesTypeOK
  /\ part = "rows" => RowsTypeOK
  /\ part = "approvals" => ApprovalsTypeOK
  /\ part = "answers" => AnswerTypeOK
  /\ part = "legacy" => LegacyTypeOK
  /\ part = "transcripts" => TranscriptTypeOK
  /\ part = "names" => ToolNamesTypeOK
  /\ part = "books" => BookTypeOK
  /\ part = "pages" => PageTypeOK
  /\ part = "extensions" => PxTypeOK
  /\ part = "evidence" => EvidenceTypeOK
  /\ part = "compatibility" => CompatTypeOK
  /\ part = "priority" => PriorityTypeOK
  /\ part = "rules" => AlertRulesTypeOK
  /\ part = "customers" => CustomersTypeOK
=============================================================================
