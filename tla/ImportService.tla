---------------------------- MODULE ImportService ----------------------------
(***************************************************************************)
(* What the wizard of the console is promised of an import: it runs until  *)
(* it is settled, once; it is done only if its converter succeeded, and    *)
(* cancelled only if someone asked; only a settled import is deleted, and  *)
(* a restart of the gateway forgets them all.                              *)
(***************************************************************************)
CONSTANT Jobs

VARIABLES phase,      \* Jobs -> what the console shows of it
          asked,      \* jobs whose cancellation was accepted
          succeeded   \* jobs whose converter has succeeded

Settled == {"done", "error", "cancelled"}

Init ==
  /\ phase = [j \in Jobs |-> "none"]
  /\ asked = {} /\ succeeded = {}

Moves(j, from, to) == phase[j] \in from /\ phase' = [phase EXCEPT ![j] = to]

Start(j) == Moves(j, {"none"}, "running") /\ UNCHANGED <<asked, succeeded>>

(* A converter may outlive its job: it is not stopped by a restart. *)
Succeed(j) ==
  /\ phase[j] # "none"
  /\ succeeded' = succeeded \cup {j}
  /\ UNCHANGED <<phase, asked>>

Ask(j) ==
  /\ phase[j] # "none"
  /\ asked' = asked \cup {j}
  /\ UNCHANGED <<phase, succeeded>>

Settle(j, s) ==
  /\ Moves(j, {"running"}, s)
  /\ s = "done" => j \in succeeded
  /\ s = "cancelled" => j \in asked
  /\ UNCHANGED <<asked, succeeded>>

Delete(j) == Moves(j, Settled, "gone") /\ UNCHANGED <<asked, succeeded>>

Forget ==
  /\ phase' = [j \in Jobs |-> IF phase[j] = "none" THEN "none" ELSE "gone"]
  /\ UNCHANGED <<asked, succeeded>>

Next ==
  \/ \E j \in Jobs : \/ Start(j) \/ Succeed(j) \/ Ask(j) \/ Delete(j)
                     \/ \E s \in Settled : Settle(j, s)
  \/ Forget

Spec == Init /\ [][Next]_<<phase, asked, succeeded>>
=============================================================================
