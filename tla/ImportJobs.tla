----------------------------- MODULE ImportJobs -----------------------------
(***************************************************************************)
(* Import jobs (src/src/import.rs): start_import records a job, then a     *)
(* cancel handle, then spawns a task that runs a converter (or a download) *)
(* and waits for its end or for a cancellation.  The handlers of the       *)
(* console read the job under one lock, the handle under another, and      *)
(* touch the output file under none.                                       *)
(*                                                                         *)
(* A step is what is done under one lock, between two awaits, or by the    *)
(* converter process.  Of a job its state and its output path are kept;    *)
(* logs, progress, arguments and sizes are left out (a file with anything  *)
(* in it has a size above 0).                                              *)
(***************************************************************************)
EXTENDS Naturals, FiniteSets

CONSTANTS Jobs, Outputs,
          Downloads,       \* the jobs of a repository that has a .cmf: curl, no converter
          NoOutput,
          MaxRestarts      \* bound

ASSUME ImportAssumption == NoOutput \notin Outputs /\ MaxRestarts \in Nat

VARIABLES state,      \* JobStore.jobs: Jobs -> state, "none" without an entry
          cancels,    \* JobStore.cancels: jobs with a handle
          permits,    \* jobs whose Notify holds a permit
          output,     \* Jobs -> the path it writes
          pc,         \* of the task of a job
          child,      \* Jobs -> its converter process
          file,       \* Outputs -> the jobs whose bytes are in it, {} if absent
          open,       \* Jobs -> whether its converter has the file at its path open
          cancelling, \* jobs a cancel has seen running
          deleting,   \* Jobs -> step of a delete that has seen it settled
          restarts    \* bounded counter

(* History: jobs whose cancellation was answered with true. *)
VARIABLE asked

vars == <<state, cancels, permits, output, pc, child, file, open, cancelling, deleting,
          restarts, asked>>

Settled == {"done", "error", "cancelled"}

(* before the select!, at it, and after it *)
Early == {"inserted", "listing", "spawning"}
Late == {"draining", "succeeded", "failed", "cleaned", "notified", "reaped", "removed", "settled"}
Steps == {"new", "waiting", "end", "lost"} \cup Early \cup Late

(* The types, and two ties: a job has a path once it is recorded, and a handle
   is never left in the map without its job. *)
TypeOK ==
  /\ state \in [Jobs -> {"none", "running"} \cup Settled]
  /\ cancels \subseteq {j \in Jobs : state[j] # "none"}
  /\ permits \subseteq Jobs
  /\ output \in [Jobs -> Outputs \cup {NoOutput}]
  /\ \A j \in Jobs : output[j] = NoOutput <=> pc[j] = "new"
  /\ pc \in [Jobs -> Steps]
  /\ child \in [Jobs -> {"none", "running", "ok", "failed", "killed"}]
  /\ file \in [Outputs -> SUBSET Jobs]
  /\ open \in [Jobs -> {"no", "yes", "unlinked"}]
  /\ cancelling \subseteq Jobs
  /\ deleting \in [Jobs -> {"no", "clean", "remove"}]
  /\ restarts \in Nat
  /\ asked \subseteq Jobs

Init ==
  /\ state = [j \in Jobs |-> "none"]
  /\ cancels = {} /\ permits = {}
  /\ output = [j \in Jobs |-> NoOutput]
  /\ pc = [j \in Jobs |-> "new"]
  /\ child = [j \in Jobs |-> "none"]
  /\ file = [o \in Outputs |-> {}]
  /\ open = [j \in Jobs |-> "no"]
  /\ cancelling = {}
  /\ deleting = [j \in Jobs |-> "no"]
  /\ restarts = 0
  /\ asked = {}

-----------------------------------------------------------------------------
Goto(j, from, to) == pc[j] = from /\ pc' = [pc EXCEPT ![j] = to]

(* cleanup_output: the path is removed; whoever has it open writes to nothing. *)
Remove(o) ==
  /\ file' = [file EXCEPT ![o] = {}]
  /\ open' = [k \in Jobs |-> IF output[k] = o /\ open[k] = "yes" THEN "unlinked" ELSE open[k]]

\* Slip: any output there is makes the job done.
FinishedBySize(j, ok) ==
  state' = [state EXCEPT ![j] =
              CASE state[j] \in {"none", "cancelled"} -> state[j]
                [] OTHER -> IF file[output[j]] # {} THEN "done" ELSE "error"]

(* JobStore::finish *)
Finish(j, ok) ==
  state' = [state EXCEPT ![j] =
              CASE state[j] \in {"none", "cancelled"} -> state[j]
                [] OTHER -> IF ok /\ file[output[j]] # {} THEN "done" ELSE "error"]

-----------------------------------------------------------------------------
(* start_import: the parameters are in order and the job is inserted; *)
Insert(j, o) ==
  /\ Goto(j, "new", "inserted")
  /\ output' = [output EXCEPT ![j] = o]
  /\ state' = [state EXCEPT ![j] = "running"]
  /\ UNCHANGED <<cancels, permits, child, file, open, cancelling, deleting, restarts, asked>>

(* its cancel handle follows, and its task. *)
SetCancel(j) ==
  /\ Goto(j, "inserted", IF j \in Downloads THEN "listing" ELSE "spawning")
  /\ cancels' = cancels \cup {j}
  /\ UNCHANGED <<state, permits, output, child, file, open, cancelling, deleting,
                 restarts, asked>>

(* download_cmf_repo: the list of the repository's files has come or has failed.
   The client has no timeout, and no cancellation is heard meanwhile. *)
Listed(j) ==
  /\ Goto(j, "listing", "spawning")
  /\ UNCHANGED <<state, cancels, permits, output, child, file, open, cancelling,
                 deleting, restarts, asked>>

(* The task starts a converter or a download. *)
Spawn(j) ==
  /\ Goto(j, "spawning", "waiting")
  /\ child' = [child EXCEPT ![j] = "running"]
  /\ UNCHANGED <<state, cancels, permits, output, file, open, cancelling, deleting,
                 restarts, asked>>

SpawnFails(j) ==
  /\ Goto(j, "spawning", "settled")
  /\ Finish(j, FALSE)
  /\ UNCHANGED <<cancels, permits, output, child, file, open, cancelling, deleting,
                 restarts, asked>>

(* The branches of the select!, either if both are ready.  The child has ended:
   the reader of a download is aborted, the two of a converter are joined. *)
Outcome(j) == IF child[j] = "ok" THEN "succeeded" ELSE "failed"

Waited(j) ==
  /\ child[j] \in {"ok", "failed"}
  /\ Goto(j, "waiting", IF j \in Downloads THEN Outcome(j) ELSE "draining")
  /\ UNCHANGED <<state, cancels, permits, output, child, file, open, cancelling,
                 deleting, restarts, asked>>

(* Both readers have met the end of their pipe, which is open as long as any
   process the converter has started holds it. *)
Joined(j) ==
  /\ Goto(j, "draining", Outcome(j))
  /\ UNCHANGED <<state, cancels, permits, output, child, file, open, cancelling,
                 deleting, restarts, asked>>

Notified(j) ==
  /\ j \in permits
  /\ Goto(j, "waiting", "notified")
  /\ permits' = permits \ {j}
  /\ UNCHANGED <<state, cancels, output, child, file, open, cancelling, deleting,
                 restarts, asked>>

FinishDone(j) ==
  /\ Goto(j, "succeeded", "settled")
  /\ Finish(j, TRUE)
  /\ UNCHANGED <<cancels, permits, output, child, file, open, cancelling, deleting,
                 restarts, asked>>

\* Slip: the partial output of a failed converter is left behind.
KeepFailed(j) ==
  /\ Goto(j, "failed", "cleaned")
  /\ UNCHANGED <<state, cancels, permits, output, child, file, open, cancelling,
                 deleting, restarts, asked>>

CleanFailed(j) ==
  /\ Goto(j, "failed", "cleaned")
  /\ Remove(output[j])
  /\ UNCHANGED <<state, cancels, permits, output, child, cancelling, deleting,
                 restarts, asked>>

FinishFailed(j) ==
  /\ Goto(j, "cleaned", "settled")
  /\ Finish(j, FALSE)
  /\ UNCHANGED <<cancels, permits, output, child, file, open, cancelling, deleting,
                 restarts, asked>>

(* start_kill and wait: a converter that has ended stays as it ended. *)
Reap(j) ==
  /\ Goto(j, "notified", "reaped")
  /\ child' = [child EXCEPT ![j] = IF child[j] = "running" THEN "killed" ELSE child[j]]
  /\ UNCHANGED <<state, cancels, permits, output, file, open, cancelling, deleting,
                 restarts, asked>>

CleanCancelled(j) ==
  /\ Goto(j, "reaped", "removed")
  /\ Remove(output[j])
  /\ UNCHANGED <<state, cancels, permits, output, child, cancelling, deleting,
                 restarts, asked>>

SetCancelled(j) ==
  /\ Goto(j, "removed", "settled")
  /\ state' = [state EXCEPT ![j] = IF state[j] = "none" THEN "none" ELSE "cancelled"]
  /\ UNCHANGED <<cancels, permits, output, child, file, open, cancelling, deleting,
                 restarts, asked>>

DropCancel(j) ==
  /\ Goto(j, "settled", "end")
  /\ cancels' = cancels \ {j}
  /\ UNCHANGED <<state, permits, output, child, file, open, cancelling, deleting,
                 restarts, asked>>

-----------------------------------------------------------------------------
(* The converter process writes its output straight to the path. *)
Write(j) ==
  /\ child[j] = "running"
  /\ \/ /\ open[j] = "no"
        /\ open' = [open EXCEPT ![j] = "yes"]
        /\ file' = [file EXCEPT ![output[j]] = {j}]
     \/ /\ open[j] = "yes"
        /\ file' = [file EXCEPT ![output[j]] = @ \cup {j}]
        /\ UNCHANGED open
  /\ UNCHANGED <<state, cancels, permits, output, pc, child, cancelling, deleting,
                 restarts, asked>>

Exit(j, how) ==
  /\ child[j] = "running"
  /\ child' = [child EXCEPT ![j] = how]
  /\ UNCHANGED <<state, cancels, permits, output, pc, file, open, cancelling, deleting,
                 restarts, asked>>

-----------------------------------------------------------------------------
(* JobStore::cancel: the job is seen running, *)
Cancel(j) ==
  /\ state[j] = "running"
  /\ cancelling' = cancelling \cup {j}
  /\ UNCHANGED <<state, cancels, permits, output, pc, child, file, open, deleting,
                 restarts, asked>>

\* Slip: only a task that waits is woken (notify_waiters).
NotifyWaiting(j) ==
  /\ j \in cancelling
  /\ cancelling' = cancelling \ {j}
  /\ permits' = IF j \in cancels /\ pc[j] = "waiting" THEN permits \cup {j} ELSE permits
  /\ asked' = IF j \in cancels THEN asked \cup {j} ELSE asked
  /\ UNCHANGED <<state, cancels, output, pc, child, file, open, deleting, restarts>>

(* and then its handle, if there is one, is notified: the answer is true. *)
NotifyOne(j) ==
  /\ j \in cancelling
  /\ cancelling' = cancelling \ {j}
  /\ permits' = IF j \in cancels THEN permits \cup {j} ELSE permits
  /\ asked' = IF j \in cancels THEN asked \cup {j} ELSE asked
  /\ UNCHANGED <<state, cancels, output, pc, child, file, open, deleting, restarts>>

\* Slip: a running job can be deleted.
DeleteAny(j) ==
  /\ state[j] # "none" /\ deleting[j] = "no"
  /\ deleting' = [deleting EXCEPT ![j] = "clean"]
  /\ UNCHANGED <<state, cancels, permits, output, pc, child, file, open, cancelling,
                 restarts, asked>>

(* JobStore::delete: the job is seen settled, *)
Delete(j) ==
  /\ state[j] \in Settled /\ deleting[j] = "no"
  /\ deleting' = [deleting EXCEPT ![j] = "clean"]
  /\ UNCHANGED <<state, cancels, permits, output, pc, child, file, open, cancelling,
                 restarts, asked>>

(* its output is removed, *)
DeleteFile(j) ==
  /\ deleting[j] = "clean"
  /\ deleting' = [deleting EXCEPT ![j] = "remove"]
  /\ Remove(output[j])
  /\ UNCHANGED <<state, cancels, permits, output, pc, child, cancelling, restarts, asked>>

\* Slip: the cancel handle stays.
DeleteJobOnly(j) ==
  /\ deleting[j] = "remove"
  /\ deleting' = [deleting EXCEPT ![j] = "no"]
  /\ state' = [state EXCEPT ![j] = "none"]
  /\ UNCHANGED <<cancels, permits, output, pc, child, file, open, cancelling, restarts, asked>>

(* and the entries of both maps. *)
DeleteEntry(j) ==
  /\ deleting[j] = "remove"
  /\ deleting' = [deleting EXCEPT ![j] = "no"]
  /\ state' = [state EXCEPT ![j] = "none"]
  /\ cancels' = cancels \ {j}
  /\ UNCHANGED <<permits, output, pc, child, file, open, cancelling, restarts, asked>>

(* The gateway is killed and started: jobs are kept in memory only, and a
   converter, unlike a model server, is not killed with it. *)
Restart ==
  /\ restarts < MaxRestarts
  /\ restarts' = restarts + 1
  /\ state' = [j \in Jobs |-> "none"]
  /\ cancels' = {} /\ permits' = {} /\ cancelling' = {}
  /\ deleting' = [j \in Jobs |-> "no"]
  /\ pc' = [j \in Jobs |-> IF pc[j] = "new" THEN "new" ELSE "lost"]
  /\ UNCHANGED <<output, child, file, open, asked>>

-----------------------------------------------------------------------------
(* What ends by itself, and what need not. *)
TaskStep(j) ==
  \/ SetCancel(j) \/ Spawn(j) \/ SpawnFails(j)
  \/ Waited(j) \/ Notified(j) \/ FinishDone(j) \/ CleanFailed(j) \/ FinishFailed(j)
  \/ Reap(j) \/ CleanCancelled(j) \/ SetCancelled(j) \/ DropCancel(j)

AwaitStep(j) == Listed(j) \/ Joined(j)

ChildStep(j) == Write(j) \/ \E how \in {"ok", "failed"} : Exit(j, how)

HandlerStep(j) ==
  \/ Cancel(j) \/ NotifyOne(j)
  \/ Delete(j) \/ DeleteFile(j) \/ DeleteEntry(j)

Next ==
  \/ \E j \in Jobs : \/ \E o \in Outputs : Insert(j, o)
                     \/ TaskStep(j) \/ AwaitStep(j) \/ ChildStep(j) \/ HandlerStep(j)
  \/ Restart

Spec == Init /\ [][Next]_vars

(* tokio runs a ready task.  Nothing is assumed of the converter, which may run
   for ever, of the server that lists the files, or of who holds the pipes. *)
FairSpec == Spec /\ \A j \in Jobs : WF_vars(TaskStep(j))

-----------------------------------------------------------------------------
(* A converter that runs belongs to a job that is shown as running and, once
   started in full, can be cancelled: only a restart of the gateway loses one. *)
ConverterReachable ==
  \A j \in Jobs :
    child[j] = "running" /\ pc[j] # "lost" => state[j] = "running" /\ j \in cancels

(* No other job has written, or may write, to the path of j. *)
Sole(j) == \A k \in Jobs \ {j} : output[k] # output[j]

(* The file tells the same as the job: a done job has its whole output and
   nothing else in it, an error or a cancellation leaves nothing, whichever of
   the exit, the cancellation and the cleaning came first. *)
OutputMatchesState ==
  \A j \in Jobs :
    state[j] \in Settled /\ Sole(j) /\ deleting[j] # "remove" =>
      file[output[j]] = IF state[j] = "done" THEN {j} ELSE {}

(* import.rs: "Notifying aborts the converter process and cleans up its partial
   output": its own, so that of a done job stays until that job is deleted, also
   when another job of the same name fails, is cancelled or is deleted. *)
DoneKeepsOutput ==
  \A j \in Jobs : state[j] = "done" /\ deleting[j] # "remove" => file[output[j]] # {}

(* A cancellation that was answered with true ends the job, even one whose
   converter never ends, and whether it came before the task reached its
   select! or after, unless its task waits for ever where it hears none. *)
Deaf == {"listing", "draining"}
CancelEffective ==
  \A j \in Jobs : j \in asked ~> (state[j] # "running" \/ pc[j] \in Deaf)

(* import.rs: "Notifying aborts the converter process and cleans up its partial
   output", also when the list of files never comes or a pipe stays open. *)
CancelAlways == \A j \in Jobs : j \in asked ~> state[j] # "running"

(* What the console shows of each job, and the converters that succeeded. *)
Phase == [j \in Jobs |-> IF state[j] # "none" THEN state[j]
                         ELSE IF pc[j] = "new" THEN "none" ELSE "gone"]
Succeeded == {j \in Jobs : child[j] = "ok"}

Service == INSTANCE ImportService WITH phase <- Phase, succeeded <- Succeeded

(* Refinement: a job is settled once, is done only if its converter succeeded,
   cancelled only if asked to, and deleted only when settled. *)
ServicePromise == Service!Spec
=============================================================================
