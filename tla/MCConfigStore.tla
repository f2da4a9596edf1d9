---------------------------- MODULE MCConfigStore ----------------------------
(* A small instance of ConfigStore: two local models that would serve the same
   .cmf file, static in one configuration, managed in the other. *)
EXTENDS ConfigStore, TLC

CONSTANTS small, twin, noid, key, sk, nosk, weights, absolute, relative, nopath

MCIds == {small, twin}
OnePath == {absolute}
TwoPaths == {absolute, relative}
MCFileAt == [p \in OnePath |-> weights]
AliasFileAt == [p \in TwoPaths |-> weights]
MCPath == [m \in MCIds |-> absolute]
RelativePath == [m \in MCIds |-> relative]

Pool ==
  [models |-> MCIds, unknown |-> {}, manage |-> FALSE, listed |-> {}, legacy |-> noid,
   default |-> small, targets |-> {twin}, keys |-> {}]

(* A managed server in the list, hiding the legacy one. *)
Managed ==
  [Pool EXCEPT !.models = {}, !.manage = TRUE, !.listed = {small}, !.legacy = twin,
               !.targets = {}, !.keys = {key}]

MCBodies == {Pool, Managed}
MCCmfBodies == {[manage |-> TRUE, listed |-> {}, legacy |-> twin]}
MCRoutings == {[default |-> noid, targets |-> {}]}

(* One configuration only, for the race of two savers. *)
RaceBodies == {Pool}

Slots == Permutations(Handlers)
=============================================================================
