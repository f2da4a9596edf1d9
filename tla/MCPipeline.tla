----------------------------- MODULE MCPipeline -----------------------------
(* Small instances of Pipeline: one cloud model with tools, two managed local
   servers, and configurations an administrator may switch between. *)
EXTENDS Pipeline, TLC

CONSTANTS cloud, local, spare, none

MCModels == {cloud, local, spare}
MCTiers == {"low", "medium", "high"}
MCHardTiers == {"high"}
MCLabels == {"code"}

(* Routed over a cloud model and a managed server, self-warming on: low is
   served locally, high by both, medium by the default. *)
Routed2 ==
  [models |-> {cloud, local}, tools |-> {cloud}, static |-> {cloud},
   servers |-> <<local>>, manage |-> TRUE, localOnly |-> FALSE,
   routerOn |-> TRUE, default |-> cloud, defined |-> {"low", "high"},
   tiers |-> [t \in MCTiers |-> CASE t = "low" -> <<local>>
                                 [] t = "high" -> <<cloud, local>>
                                 [] OTHER -> <<>>],
   shadow |-> TRUE, serve |-> TRUE, local |-> local, judge |-> cloud]

(* The same pool served locally only, with a second managed server. *)
LocalOnly ==
  [Routed2 EXCEPT !.localOnly = TRUE, !.models = {cloud, local, spare},
                  !.servers = <<spare, local>>]

(* The managed servers are gone: cloud alone, and no default. *)
CloudOnly ==
  [Routed2 EXCEPT !.models = {cloud}, !.servers = <<>>, !.manage = FALSE,
                  !.default = none, !.defined = {"low"},
                  !.tiers["low"] = <<cloud>>, !.tiers["high"] = <<>>]

(* No router at all. *)
RouterOff == [Routed2 EXCEPT !.routerOn = FALSE]

MCConfigs == {Routed2, LocalOnly, CloudOnly}

Ask(pin, tools, stream) ==
  [pin |-> pin, tools |-> tools, stream |-> stream, prompt |-> "p"]

MCAsks == {Ask(none, FALSE, FALSE), Ask(local, FALSE, FALSE),
           Ask(none, TRUE, TRUE), Ask(local, FALSE, TRUE)}

PlainAsks == {Ask(none, FALSE, FALSE), Ask(local, FALSE, FALSE)}
ToolAsks == {Ask(none, TRUE, FALSE)}

LiveConfigs == {Routed2, CloudOnly, RouterOff}
LiveAsks == {Ask(none, FALSE, FALSE), Ask(local, FALSE, TRUE)}

Slots == Permutations(Requests)
=============================================================================
