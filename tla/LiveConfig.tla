----------------------------- MODULE LiveConfig -----------------------------
(***************************************************************************)
(* What the request path reads of a `Live` (src/src/state.rs): one         *)
(* immutable value built from one configuration, i.e. the model registry,  *)
(* the routing table and the [cmf], [router] and [shadow] switches.        *)
(*                                                                         *)
(* A configuration c is a record                                           *)
(*   models    the registered ids: every [[models]] entry and every        *)
(*             managed server (Registry::from_config)                      *)
(*   tools     the registered ids whose caps list "tools"                  *)
(*   static    the ids of [[models]]: external providers, not managed here *)
(*   servers   the managed servers in effect, in order                     *)
(*   manage    [cmf].manage_server        localOnly [cmf].local_only       *)
(*   routerOn  [router].enabled                                            *)
(*   default   routing.default, NoModel when it is empty                   *)
(*   tiers     tier -> ordered targets, for the tiers in `defined`         *)
(*   shadow    [shadow] enabled with both ids set                          *)
(*   serve     serve_when_promoted                                         *)
(*   local, judge   shadow.local_model_id, shadow.judge_model_id           *)
(***************************************************************************)
EXTENDS Naturals, Sequences, Functions

CONSTANTS Models,     \* model ids
          NoModel,    \* the empty id
          Tiers,      \* complexity tiers the router may answer with
          HardTiers,  \* "high", "hard", "complex": vetoed for promoted serving
          Labels,     \* task labels the router may answer with
          Configs,    \* the configurations an administrator may install
          Asks        \* the requests clients may send

(* The label, and tier, of a decision taken without the router. *)
LocalLabels == {"local-only", "pinned", "router-disabled", "degraded"}

ConfigType ==
  [models: SUBSET Models, tools: SUBSET Models, static: SUBSET Models,
   servers: Seq(Models), manage: BOOLEAN, localOnly: BOOLEAN,
   routerOn: BOOLEAN, default: Models \cup {NoModel}, defined: SUBSET Tiers,
   tiers: [Tiers -> Seq(Models)], shadow: BOOLEAN, serve: BOOLEAN,
   local: Models \cup {NoModel}, judge: Models \cup {NoModel}]

(* Config::validate and Registry::from_config: every managed server is
   registered, with no capability of its own and no id of a static model;
   there is none unless the gateway manages them; routing targets are known. *)
Valid(c) ==
  /\ c.tools \subseteq c.static
  /\ c.models = c.static \cup Range(c.servers)
  /\ c.static \cap Range(c.servers) = {}
  /\ ~c.manage => c.servers = <<>>
  /\ c.default \in c.models \cup {NoModel}
  /\ \A t \in c.defined : Range(c.tiers[t]) \subseteq c.models

(* A request as the pipeline sees it: the pinned id or NoModel for auto
   routing, whether it carries tools, whether it streams, and the prompt as
   the semantic cache tells prompts apart. *)
Prompts == {"p", "q"}
RequestType ==
  [pin: Models \cup {NoModel}, tools: BOOLEAN, stream: BOOLEAN, prompt: Prompts]

Pinned(q) == q.pin # NoModel

ASSUME ConfigsAssumption ==
  /\ NoModel \notin Models
  /\ HardTiers \subseteq Tiers
  /\ Configs \subseteq {c \in ConfigType : Valid(c)}
  /\ Asks \subseteq RequestType

-----------------------------------------------------------------------------
(* RoutingTable::candidates: an undefined tier has `default` alone, empty or
   not. *)
TierCandidates(c, t) == IF t \in c.defined THEN c.tiers[t] ELSE <<c.default>>

(* Live::local_candidates: the managed servers, then the default, all of them
   registered (Valid); when there is neither, any registered id, in the
   arbitrary order of a HashMap. *)
LocalCandidates(c) ==
  LET listed == IF c.default = NoModel \/ c.default \in Range(c.servers)
                THEN c.servers ELSE Append(c.servers, c.default)
  IN  IF listed # <<>> THEN {listed}
      ELSE IF c.models = {} THEN {<<>>} ELSE {<<m>> : m \in c.models}

(* A candidate the pipeline keeps: registered, with the capability needed. *)
Fits(c, q, m) == m \in c.models /\ (q.tools => m \in c.tools)

\* Slip: label and tier of the decision are swapped.
DecisionSwapped(source, label, tier, cands) ==
  [source |-> source, label |-> tier, tier |-> label, cands |-> cands]

Decision(source, label, tier, cands) ==
  [source |-> source, label |-> label, tier |-> tier, cands |-> cands]

NeedsRouter(c, q) == ~c.localOnly /\ ~Pinned(q) /\ c.routerOn

(* What Pipeline::resolve may decide: local_only beats the pin, the pin
   beats the router, a router that is down (or answers garbage) degrades. *)
Local(c, label, source) ==
  {Decision(source, label, label, s) : s \in LocalCandidates(c)}

Routed(c) ==
  {Decision("router", l, t, TierCandidates(c, t)) : l \in Labels, t \in Tiers}

Decisions(c, q) ==
  IF c.localOnly THEN Local(c, "local-only", "local")
  ELSE IF Pinned(q) THEN {Decision("pinned", "pinned", "pinned", <<q.pin>>)}
  ELSE IF ~c.routerOn THEN Local(c, "router-disabled", "local")
  ELSE Routed(c) \cup Local(c, "degraded", "fallback")

(* The promise behind those rules: which models may answer q under c. *)
LocalPool(c) == UNION {Range(s) : s \in LocalCandidates(c)}
TierPool(c) == UNION {Range(TierCandidates(c, t)) : t \in Tiers}

Eligible(c, q) ==
  LET asked == IF c.localOnly THEN LocalPool(c)
               ELSE IF Pinned(q) THEN {q.pin}
               ELSE LocalPool(c) \cup TierPool(c)
      promoted == IF c.serve /\ ~Pinned(q) THEN {c.local} ELSE {}
  IN  {m \in asked : Fits(c, q, m)} \cup (promoted \cap c.models)
=============================================================================
