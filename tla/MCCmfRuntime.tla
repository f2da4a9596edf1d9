---------------------------- MODULE MCCmfRuntime ----------------------------
(* A small instance of CmfRuntime: no server, one, and two of which the first
   takes over the port, the second the id, of that one. *)
EXTENDS CmfRuntime

CONSTANTS a, b

One == <<[id |-> a, port |-> 1]>>
Swapped == <<[id |-> b, port |-> 1], [id |-> a, port |-> 2]>>

MCConfigs == {<<>>, One, Swapped}
=============================================================================
