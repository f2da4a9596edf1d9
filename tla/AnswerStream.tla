---------------------------- MODULE AnswerStream ----------------------------
(***************************************************************************)
(* What a client is promised of a streamed answer: the text of the model,  *)
(* piece by piece, in order, with nothing lost, added or repeated; the     *)
(* answer is shown as complete only when all of the text was delivered.    *)
(***************************************************************************)
EXTENDS Naturals, Sequences

CONSTANT Answers   \* the texts a model may produce: sequences of pieces

VARIABLES answer,  \* the one it produces
          shown,   \* the pieces the client has
          state    \* "open", "complete", or "broken" (by either side)

Init == answer \in Answers /\ shown = <<>> /\ state = "open"

Show(n) ==
  /\ state = "open"
  /\ Len(shown) < n /\ n <= Len(answer)
  /\ shown' = SubSeq(answer, 1, n)
  /\ UNCHANGED <<answer, state>>

Complete ==
  /\ state = "open" /\ shown = answer
  /\ state' = "complete"
  /\ UNCHANGED <<answer, shown>>

Break == state = "open" /\ state' = "broken" /\ UNCHANGED <<answer, shown>>

Next == (\E n \in 1 .. Len(answer) : Show(n)) \/ Complete \/ Break

Spec == Init /\ [][Next]_<<answer, shown, state>>
=============================================================================
