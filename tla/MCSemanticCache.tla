--------------------------- MODULE MCSemanticCache ---------------------------
(* A small instance of SemanticCache. *)
EXTENDS SemanticCache, TLC

(* A vector is closest to itself; one of another embedding model, of which nothing
   can be said, is close enough here. *)
MCSimilarity(v, w) == IF v = w THEN 2 ELSE 1

Interchangeable == Permutations(Requests)
=============================================================================
