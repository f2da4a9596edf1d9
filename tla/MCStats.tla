------------------------------ MODULE MCStats ------------------------------
(* A small instance of Stats: minutes of two ticks, one minute of retention
   (so at most two buckets), and a clock that runs through three minutes. *)
EXTENDS Stats, TLC

Interchangeable == Permutations(Tasks) \cup Permutations(Models)
=============================================================================
