---------------------------- MODULE MCPromotion ----------------------------
(* A small instance of Promotion, with the lifecycle scaled down: two judgments
   may make a canary, one more completes the soak, two hard fails in a row
   demote.  The bar is below the demotion rate: one pass of three clears it. *)
EXTENDS Promotion, TLC

LowBar == <<1, 20>>
Half == <<1, 2>>

(* The examples of the unit tests of promotion.rs. *)
ASSUME WilsonExamples ==
  /\ ~WilsonAtLeast(5, 5, <<60, 100>>)
  /\ WilsonAtLeast(195, 200, <<94, 100>>)
  /\ ~WilsonAtLeast(195, 200, <<95, 100>>)
  /\ WilsonAtLeast(198, 200, <<95, 100>>)

Slots == Permutations(Tasks)
=============================================================================
