-------------------------- MODULE ImportJobsProofs --------------------------
(***************************************************************************)
(* Theorems of module ImportJobs, for every set of jobs and of paths and   *)
(* any number of restarts, whichever of a converter's end, a cancellation, *)
(* a deletion and a restart comes first.                                   *)
(***************************************************************************)
EXTENDS ImportJobs, TLAPS

-----------------------------------------------------------------------------
(* What the step of a task says about its job: what the task does is only as
   right as the job is still what it takes it to be. *)
Tasked == {"listing", "spawning", "waiting", "draining", "succeeded", "failed", "cleaned", "notified",
           "reaped", "removed"}

LifeOf(j) ==
  /\ pc[j] \in {"new", "lost"} => state[j] = "none"
  /\ pc[j] = "new" => child[j] = "none"
  /\ pc[j] = "inserted" => state[j] = "running" /\ child[j] = "none"
  /\ pc[j] \in Tasked => state[j] = "running" /\ j \in cancels
  /\ pc[j] \in {"listing", "spawning"} => child[j] = "none"
  /\ pc[j] \in {"settled", "end"} => state[j] # "running"
  /\ child[j] = "running" => pc[j] \in {"waiting", "notified", "lost"}
  /\ pc[j] = "draining" => child[j] \in {"ok", "failed"}
  /\ pc[j] = "succeeded" => child[j] = "ok"
  /\ pc[j] \in {"failed", "cleaned"} => child[j] = "failed"

EvidenceOf(j) ==
  /\ state[j] = "done" => child[j] = "ok"
  /\ state[j] = "cancelled" => j \in asked
  /\ j \in permits \/ pc[j] \in {"notified", "reaped", "removed"} => j \in asked
  /\ deleting[j] # "no" => state[j] \in Settled

(* And what the converter has done about the file, if no other job shares it. *)
Alone(j) == output[j] # NoOutput /\ Sole(j)

FilesOf(j) ==
  /\ child[j] = "none" => open[j] = "no"
  /\ pc[j] \in {"cleaned", "removed"} => open[j] # "yes"
  /\ Alone(j) => file[output[j]] = IF open[j] = "yes" THEN {j} ELSE {}
  /\ Alone(j) /\ state[j] \in Settled /\ deleting[j] # "remove" =>
       (open[j] = "yes" <=> state[j] = "done")

WritersKnown == \A o \in Outputs : \A k \in file[o] : output[k] = o

Life == \A j \in Jobs : LifeOf(j)
Evidence == \A j \in Jobs : EvidenceOf(j)
Files == WritersKnown /\ \A j \in Jobs : FilesOf(j)
IInv == TypeOK /\ Life /\ Evidence /\ Files

-----------------------------------------------------------------------------

(* Every step keeps the types. *)
LEMMA TypeStep ==
  ASSUME IInv, [Next]_vars
  PROVE  TypeOK'
<1> USE DEF IInv, TypeOK, Life, LifeOf, Evidence, EvidenceOf, Tasked, Settled, Steps, Early, Late
<1>1. CASE UNCHANGED vars
  BY <1>1 DEF vars
<1>2. CASE Restart
  BY <1>2, ImportAssumption DEF Restart
<1>3. ASSUME NEW j \in Jobs, NEW o \in Outputs, Insert(j, o)
     PROVE  TypeOK'
  BY <1>3, ImportAssumption DEF Insert, Goto
<1>4. ASSUME NEW j \in Jobs, SetCancel(j)
     PROVE  TypeOK'
  BY <1>4 DEF SetCancel, Goto
<1>5. ASSUME NEW j \in Jobs, Spawn(j)
     PROVE  TypeOK'
  BY <1>5 DEF Spawn, Goto
<1>6. ASSUME NEW j \in Jobs, SpawnFails(j)
     PROVE  TypeOK'
  BY <1>6 DEF SpawnFails, Goto, Finish
<1>7. ASSUME NEW j \in Jobs, Waited(j)
     PROVE  TypeOK'
  BY <1>7 DEF Waited, Goto, Outcome
<1>8. ASSUME NEW j \in Jobs, Notified(j)
     PROVE  TypeOK'
  BY <1>8 DEF Notified, Goto
<1>9. ASSUME NEW j \in Jobs, FinishDone(j)
     PROVE  TypeOK'
  BY <1>9 DEF FinishDone, Goto, Finish
<1>10. ASSUME NEW j \in Jobs, CleanFailed(j)
     PROVE  TypeOK'
  BY <1>10 DEF CleanFailed, Goto, Remove
<1>11. ASSUME NEW j \in Jobs, FinishFailed(j)
     PROVE  TypeOK'
  BY <1>11 DEF FinishFailed, Goto, Finish
<1>12. ASSUME NEW j \in Jobs, Reap(j)
     PROVE  TypeOK'
  BY <1>12 DEF Reap, Goto
<1>13. ASSUME NEW j \in Jobs, CleanCancelled(j)
     PROVE  TypeOK'
  BY <1>13 DEF CleanCancelled, Goto, Remove
<1>14. ASSUME NEW j \in Jobs, SetCancelled(j)
     PROVE  TypeOK'
  BY <1>14 DEF SetCancelled, Goto
<1>15. ASSUME NEW j \in Jobs, DropCancel(j)
     PROVE  TypeOK'
  BY <1>15 DEF DropCancel, Goto
<1>16. ASSUME NEW j \in Jobs, Write(j)
     PROVE  TypeOK'
  BY <1>16 DEF Write
<1>17. ASSUME NEW j \in Jobs, NEW how \in {"ok", "failed"}, Exit(j, how)
     PROVE  TypeOK'
  BY <1>17 DEF Exit
<1>18. ASSUME NEW j \in Jobs, Cancel(j)
     PROVE  TypeOK'
  BY <1>18 DEF Cancel
<1>19. ASSUME NEW j \in Jobs, NotifyOne(j)
     PROVE  TypeOK'
  BY <1>19 DEF NotifyOne
<1>20. ASSUME NEW j \in Jobs, Delete(j)
     PROVE  TypeOK'
  BY <1>20 DEF Delete
<1>21. ASSUME NEW j \in Jobs, DeleteFile(j)
     PROVE  TypeOK'
  BY <1>21 DEF DeleteFile, Remove
<1>22. ASSUME NEW j \in Jobs, DeleteEntry(j)
     PROVE  TypeOK'
  BY <1>22 DEF DeleteEntry
<1>23. ASSUME NEW j \in Jobs, Listed(j)
     PROVE  TypeOK'
  BY <1>23 DEF Listed, Goto
<1>24. ASSUME NEW j \in Jobs, Joined(j)
     PROVE  TypeOK'
  BY <1>24 DEF Joined, Goto, Outcome
<1>25. QED
  BY <1>1, <1>2, <1>3, <1>4, <1>5, <1>6, <1>7, <1>8, <1>9, <1>10, <1>11, <1>12, <1>13, <1>14, <1>15, <1>16, <1>17, <1>18, <1>19, <1>20, <1>21, <1>22, <1>23, <1>24
     DEF Next, TaskStep, AwaitStep, ChildStep, HandlerStep

(* Every step keeps what the steps of the tasks rely on. *)
LEMMA LifeStep ==
  ASSUME IInv, [Next]_vars
  PROVE  Life'
<1> USE DEF IInv, TypeOK, Life, LifeOf, Evidence, EvidenceOf, Tasked, Settled
<1>1. CASE UNCHANGED vars
  BY <1>1 DEF vars
<1>2. CASE Restart
  BY <1>2, ImportAssumption DEF Restart
<1>3. ASSUME NEW j \in Jobs, NEW o \in Outputs, Insert(j, o)
     PROVE  Life'
  BY <1>3, ImportAssumption DEF Insert, Goto
<1>4. ASSUME NEW j \in Jobs, SetCancel(j)
     PROVE  Life'
  BY <1>4 DEF SetCancel, Goto
<1>5. ASSUME NEW j \in Jobs, Spawn(j)
     PROVE  Life'
  BY <1>5 DEF Spawn, Goto
<1>6. ASSUME NEW j \in Jobs, SpawnFails(j)
     PROVE  Life'
  BY <1>6 DEF SpawnFails, Goto, Finish
<1>7. ASSUME NEW j \in Jobs, Waited(j)
     PROVE  Life'
  BY <1>7 DEF Waited, Goto, Outcome
<1>8. ASSUME NEW j \in Jobs, Notified(j)
     PROVE  Life'
  BY <1>8 DEF Notified, Goto
<1>9. ASSUME NEW j \in Jobs, FinishDone(j)
     PROVE  Life'
  BY <1>9 DEF FinishDone, Goto, Finish
<1>10. ASSUME NEW j \in Jobs, CleanFailed(j)
     PROVE  Life'
  BY <1>10 DEF CleanFailed, Goto, Remove
<1>11. ASSUME NEW j \in Jobs, FinishFailed(j)
     PROVE  Life'
  BY <1>11 DEF FinishFailed, Goto, Finish
<1>12. ASSUME NEW j \in Jobs, Reap(j)
     PROVE  Life'
  BY <1>12 DEF Reap, Goto
<1>13. ASSUME NEW j \in Jobs, CleanCancelled(j)
     PROVE  Life'
  BY <1>13 DEF CleanCancelled, Goto, Remove
<1>14. ASSUME NEW j \in Jobs, SetCancelled(j)
     PROVE  Life'
  BY <1>14 DEF SetCancelled, Goto
<1>15. ASSUME NEW j \in Jobs, DropCancel(j)
     PROVE  Life'
  BY <1>15 DEF DropCancel, Goto
<1>16. ASSUME NEW j \in Jobs, Write(j)
     PROVE  Life'
  BY <1>16 DEF Write
<1>17. ASSUME NEW j \in Jobs, NEW how \in {"ok", "failed"}, Exit(j, how)
     PROVE  Life'
  BY <1>17 DEF Exit
<1>18. ASSUME NEW j \in Jobs, Cancel(j)
     PROVE  Life'
  BY <1>18 DEF Cancel
<1>19. ASSUME NEW j \in Jobs, NotifyOne(j)
     PROVE  Life'
  BY <1>19 DEF NotifyOne
<1>20. ASSUME NEW j \in Jobs, Delete(j)
     PROVE  Life'
  BY <1>20 DEF Delete
<1>21. ASSUME NEW j \in Jobs, DeleteFile(j)
     PROVE  Life'
  BY <1>21 DEF DeleteFile, Remove
<1>22. ASSUME NEW j \in Jobs, DeleteEntry(j)
     PROVE  Life'
  BY <1>22 DEF DeleteEntry
<1>23. ASSUME NEW j \in Jobs, Listed(j)
     PROVE  Life'
  BY <1>23 DEF Listed, Goto
<1>24. ASSUME NEW j \in Jobs, Joined(j)
     PROVE  Life'
  BY <1>24 DEF Joined, Goto, Outcome
<1>25. QED
  BY <1>1, <1>2, <1>3, <1>4, <1>5, <1>6, <1>7, <1>8, <1>9, <1>10, <1>11, <1>12, <1>13, <1>14, <1>15, <1>16, <1>17, <1>18, <1>19, <1>20, <1>21, <1>22, <1>23, <1>24
     DEF Next, TaskStep, AwaitStep, ChildStep, HandlerStep

(* A job is settled with a reason. *)
LEMMA EvidenceStep ==
  ASSUME IInv, [Next]_vars
  PROVE  Evidence'
<1> USE DEF IInv, TypeOK, Life, LifeOf, Evidence, EvidenceOf, Tasked, Settled
<1>1. CASE UNCHANGED vars
  BY <1>1 DEF vars
<1>2. CASE Restart
  BY <1>2, ImportAssumption DEF Restart
<1>3. ASSUME NEW j \in Jobs, NEW o \in Outputs, Insert(j, o)
     PROVE  Evidence'
  BY <1>3, ImportAssumption DEF Insert, Goto
<1>4. ASSUME NEW j \in Jobs, SetCancel(j)
     PROVE  Evidence'
  BY <1>4 DEF SetCancel, Goto
<1>5. ASSUME NEW j \in Jobs, Spawn(j)
     PROVE  Evidence'
  BY <1>5 DEF Spawn, Goto
<1>6. ASSUME NEW j \in Jobs, SpawnFails(j)
     PROVE  Evidence'
  BY <1>6 DEF SpawnFails, Goto, Finish
<1>7. ASSUME NEW j \in Jobs, Waited(j)
     PROVE  Evidence'
  BY <1>7 DEF Waited, Goto, Outcome
<1>8. ASSUME NEW j \in Jobs, Notified(j)
     PROVE  Evidence'
  BY <1>8 DEF Notified, Goto
<1>9. ASSUME NEW j \in Jobs, FinishDone(j)
     PROVE  Evidence'
  BY <1>9 DEF FinishDone, Goto, Finish
<1>10. ASSUME NEW j \in Jobs, CleanFailed(j)
     PROVE  Evidence'
  BY <1>10 DEF CleanFailed, Goto, Remove
<1>11. ASSUME NEW j \in Jobs, FinishFailed(j)
     PROVE  Evidence'
  BY <1>11 DEF FinishFailed, Goto, Finish
<1>12. ASSUME NEW j \in Jobs, Reap(j)
     PROVE  Evidence'
  BY <1>12 DEF Reap, Goto
<1>13. ASSUME NEW j \in Jobs, CleanCancelled(j)
     PROVE  Evidence'
  BY <1>13 DEF CleanCancelled, Goto, Remove
<1>14. ASSUME NEW j \in Jobs, SetCancelled(j)
     PROVE  Evidence'
  BY <1>14 DEF SetCancelled, Goto
<1>15. ASSUME NEW j \in Jobs, DropCancel(j)
     PROVE  Evidence'
  BY <1>15 DEF DropCancel, Goto
<1>16. ASSUME NEW j \in Jobs, Write(j)
     PROVE  Evidence'
  BY <1>16 DEF Write
<1>17. ASSUME NEW j \in Jobs, NEW how \in {"ok", "failed"}, Exit(j, how)
     PROVE  Evidence'
  BY <1>17 DEF Exit
<1>18. ASSUME NEW j \in Jobs, Cancel(j)
     PROVE  Evidence'
  BY <1>18 DEF Cancel
<1>19. ASSUME NEW j \in Jobs, NotifyOne(j)
     PROVE  Evidence'
  BY <1>19 DEF NotifyOne
<1>20. ASSUME NEW j \in Jobs, Delete(j)
     PROVE  Evidence'
  BY <1>20 DEF Delete
<1>21. ASSUME NEW j \in Jobs, DeleteFile(j)
     PROVE  Evidence'
  BY <1>21 DEF DeleteFile, Remove
<1>22. ASSUME NEW j \in Jobs, DeleteEntry(j)
     PROVE  Evidence'
  BY <1>22 DEF DeleteEntry
<1>23. ASSUME NEW j \in Jobs, Listed(j)
     PROVE  Evidence'
  BY <1>23 DEF Listed, Goto
<1>24. ASSUME NEW j \in Jobs, Joined(j)
     PROVE  Evidence'
  BY <1>24 DEF Joined, Goto, Outcome
<1>25. QED
  BY <1>1, <1>2, <1>3, <1>4, <1>5, <1>6, <1>7, <1>8, <1>9, <1>10, <1>11, <1>12, <1>13, <1>14, <1>15, <1>16, <1>17, <1>18, <1>19, <1>20, <1>21, <1>22, <1>23, <1>24
     DEF Next, TaskStep, AwaitStep, ChildStep, HandlerStep

(* Who is alone with a path depends on the paths only. *)
LEMMA AloneKept ==
  ASSUME output' = output, NEW j \in Jobs
  PROVE  Alone(j)' = Alone(j)
BY DEF Alone, Sole

(* A step that leaves files and paths alone keeps Files if its job's state still
   goes with the file. *)
LEMMA FilesFrame ==
  ASSUME IInv, NEW j \in Jobs, UNCHANGED <<file, open, output>>,
         \A k \in Jobs \ {j} : /\ state'[k] = state[k] /\ pc'[k] = pc[k]
                               /\ child'[k] = child[k] /\ deleting'[k] = deleting[k],
         child'[j] = "none" => child[j] = "none",
         pc'[j] \in {"cleaned", "removed"} => open[j] # "yes",
         Alone(j) /\ state'[j] \in Settled /\ deleting'[j] # "remove" =>
           (open[j] = "yes" <=> state'[j] = "done")
  PROVE  Files'
<1>1. WritersKnown'
  BY DEF IInv, Files, WritersKnown
<1>2. ASSUME NEW k \in Jobs
      PROVE  FilesOf(k)'
  <2>1. Alone(k)' = Alone(k) /\ output'[k] = output[k] /\ open'[k] = open[k] /\ file' = file
    BY AloneKept
  <2>2. FilesOf(k)
    BY DEF IInv, Files
  <2>3. CASE k = j
    BY <2>1, <2>2, <2>3 DEF FilesOf
  <2>4. CASE k # j
    BY <2>1, <2>2, <2>4 DEF FilesOf
  <2>5. QED
    BY <2>3, <2>4
<1>3. QED
  BY <1>1, <1>2 DEF Files

(* Removing the path of a job changes what another is told only if they share
   it; its own task and its own deletion know. *)
LEMMA FilesRemoved ==
  ASSUME IInv, NEW j \in Jobs, Remove(output[j]), output' = output, child' = child,
         state' = state, output[j] \in Outputs,
         \A k \in Jobs \ {j} : pc'[k] = pc[k] /\ deleting'[k] = deleting[k],
         state[j] = "running" \/ deleting'[j] = "remove"
  PROVE  Files'
<1>1. /\ file' = [file EXCEPT ![output[j]] = {}]
      /\ open' = [k \in Jobs |-> IF output[k] = output[j] /\ open[k] = "yes"
                                 THEN "unlinked" ELSE open[k]]
      /\ file \in [Outputs -> SUBSET Jobs] /\ output \in [Jobs -> Outputs \cup {NoOutput}]
  BY DEF Remove, IInv, TypeOK
<1>2. WritersKnown'
  BY <1>1 DEF IInv, Files, WritersKnown
<1>3. ASSUME NEW k \in Jobs
      PROVE  FilesOf(k)'
  <2>1. Alone(k)' = Alone(k) /\ FilesOf(k)
    BY AloneKept DEF IInv, Files
  <2>2. CASE k = j
    <3>1. open'[j] # "yes" /\ file'[output[j]] = {}
      BY <1>1
    <3>2. child[j] = "none" => open'[j] = "no"
      BY <1>1, <2>1, <2>2 DEF FilesOf
    <3>3. QED
      BY <2>1, <2>2, <3>1, <3>2 DEF FilesOf, Settled
  <2>3. CASE k # j /\ output[k] = output[j]
    <3>1. ~ Alone(k) /\ open'[k] # "yes"
      BY <1>1, <2>3 DEF Alone, Sole
    <3>2. child[k] = "none" => open'[k] = "no"
      BY <1>1, <2>1 DEF FilesOf
    <3>3. QED
      BY <2>1, <2>3, <3>1, <3>2 DEF FilesOf
  <2>4. CASE k # j /\ output[k] # output[j]
    <3>1. open'[k] = open[k]
      BY <1>1, <2>4
    <3>2. Alone(k) => file'[output[k]] = file[output[k]]
      BY <1>1, <2>4 DEF Alone
    <3>3. QED
      BY <2>1, <2>4, <3>1, <3>2 DEF FilesOf
  <2>5. QED
    BY <2>2, <2>3, <2>4
<1>4. QED
  BY <1>2, <1>3 DEF Files

LEMMA FilesInserted ==
  ASSUME IInv, NEW j \in Jobs, NEW o \in Outputs, Insert(j, o)
  PROVE  Files'
<1>1. /\ pc[j] = "new" /\ output[j] = NoOutput /\ child[j] = "none" /\ open[j] = "no"
      /\ pc' = [pc EXCEPT ![j] = "inserted"] /\ output' = [output EXCEPT ![j] = o]
      /\ state' = [state EXCEPT ![j] = "running"]
      /\ UNCHANGED <<child, file, open, deleting>>
  BY DEF IInv, TypeOK, Life, LifeOf, Files, FilesOf, Insert, Goto
<1>2. /\ pc \in [Jobs -> Steps] /\ state \in [Jobs -> {"none", "running"} \cup Settled]
      /\ output \in [Jobs -> Outputs \cup {NoOutput}] /\ file \in [Outputs -> SUBSET Jobs]
  BY DEF IInv, TypeOK
<1>3. WritersKnown /\ NoOutput \notin Outputs
  BY ImportAssumption DEF IInv, Files
<1>4. j \notin file[o] /\ \A p \in Outputs : j \notin file[p]
  BY <1>1, <1>3 DEF WritersKnown
<1>5. WritersKnown'
  BY <1>1, <1>2, <1>3, <1>4 DEF WritersKnown
<1>6. ASSUME NEW k \in Jobs
      PROVE  FilesOf(k)'
  <2>1. CASE k = j
    <3>1. Alone(j)' => file[o] = {}
      BY <1>1, <1>2, <1>3, <1>4 DEF Alone, Sole, WritersKnown
    <3>2. output'[j] = o /\ state'[j] = "running" /\ pc'[j] = "inserted"
      BY <1>1, <1>2
    <3>3. QED
      BY <1>1, <2>1, <3>1, <3>2 DEF FilesOf, Settled
  <2>2. CASE k # j
    <3>1. /\ output'[k] = output[k] /\ state'[k] = state[k] /\ pc'[k] = pc[k]
          /\ FilesOf(k)
      BY <1>1, <1>2, <2>2 DEF IInv, Files
    <3>2. Alone(k)' => Alone(k)
      <4>1. \A l \in Jobs \ {k, j} : output'[l] = output[l]
        BY <1>1, <1>2
      <4>2. QED
        BY <1>1, <1>3, <3>1, <4>1 DEF Alone, Sole
    <3>3. QED
      BY <1>1, <3>1, <3>2 DEF FilesOf
  <2>3. QED
    BY <2>1, <2>2
<1>7. QED
  BY <1>5, <1>6 DEF Files

LEMMA FilesWritten ==
  ASSUME IInv, NEW j \in Jobs, Write(j)
  PROVE  Files'
<1>1. /\ child[j] = "running" /\ pc[j] \in {"waiting", "notified", "lost"}
      /\ state[j] \notin Settled /\ output[j] \in Outputs
      /\ UNCHANGED <<state, output, pc, child, deleting>>
  BY DEF Write, IInv, TypeOK, Life, LifeOf, Tasked, Settled
<1>2. PICK w \in {{j}, file[output[j]] \cup {j}} :
           /\ file' = [file EXCEPT ![output[j]] = w]
           /\ open' = [open EXCEPT ![j] = "yes"]
           /\ (w # {j} => open[j] = "yes")
  <2>1. CASE open[j] = "no"
    BY <2>1 DEF Write
  <2>2. CASE open[j] = "yes"
    <3>1. open' = [open EXCEPT ![j] = "yes"]
      BY <2>2 DEF Write, IInv, TypeOK
    <3>2. file' = [file EXCEPT ![output[j]] = file[output[j]] \cup {j}]
      BY <2>2 DEF Write
    <3>3. QED
      BY <2>2, <3>1, <3>2
  <2>3. QED
    BY <2>1, <2>2 DEF Write
<1>3. /\ file \in [Outputs -> SUBSET Jobs] /\ open \in [Jobs -> {"no", "yes", "unlinked"}]
      /\ WritersKnown
  BY DEF IInv, TypeOK, Files
<1>4. WritersKnown'
  BY <1>1, <1>2, <1>3 DEF WritersKnown
<1>5. ASSUME NEW k \in Jobs
      PROVE  FilesOf(k)'
  <2>1. Alone(k)' = Alone(k) /\ FilesOf(k)
    BY <1>1, AloneKept DEF IInv, Files
  <2>2. CASE k = j
    <3>1. open'[j] = "yes" /\ file'[output[j]] = w
      BY <1>1, <1>2, <1>3
    <3>2. Alone(j) => w = {j}
      BY <1>2, <2>1, <2>2 DEF FilesOf
    <3>3. QED
      BY <1>1, <2>1, <2>2, <3>1, <3>2 DEF FilesOf
  <2>3. CASE k # j
    <3>1. open'[k] = open[k]
      BY <1>2, <1>3, <2>3
    <3>2. Alone(k) => file'[output[k]] = file[output[k]]
      BY <1>1, <1>2, <1>3, <2>3 DEF Alone, Sole
    <3>3. QED
      BY <1>1, <2>1, <3>1, <3>2 DEF FilesOf
  <2>4. QED
    BY <2>2, <2>3
<1>6. QED
  BY <1>4, <1>5 DEF Files

LEMMA FilesRestarted ==
  ASSUME IInv, Restart
  PROVE  Files'
<1>1. UNCHANGED <<output, child, file, open>>
  BY DEF Restart
<1>2. \A k \in Jobs : state'[k] = "none" /\ pc'[k] \in {"new", "lost"}
  BY DEF Restart
<1>3. ASSUME NEW k \in Jobs
      PROVE  FilesOf(k)'
  BY <1>1, <1>2, AloneKept DEF IInv, Files, FilesOf, Settled
<1>4. QED
  BY <1>1, <1>3 DEF IInv, Files, WritersKnown

(* The file follows its only writer. *)
LEMMA FilesStep ==
  ASSUME IInv, [Next]_vars
  PROVE  Files'
<1>1. CASE UNCHANGED vars
  BY <1>1 DEF vars, IInv, Files, WritersKnown, FilesOf, Alone, Sole
<1>2. CASE Restart
  BY <1>2, FilesRestarted
<1>3. ASSUME NEW j \in Jobs, NEW o \in Outputs, Insert(j, o)
      PROVE  Files'
  BY <1>3, FilesInserted
<1>4. ASSUME NEW j \in Jobs, Write(j)
      PROVE  Files'
  BY <1>4, FilesWritten
<1>5. ASSUME NEW j \in Jobs, CleanFailed(j) \/ CleanCancelled(j) \/ DeleteFile(j)
      PROVE  Files'
  <2>1. /\ Remove(output[j]) /\ UNCHANGED <<output, child, state>> /\ output[j] \in Outputs
        /\ state[j] = "running" \/ deleting'[j] = "remove"
        /\ \A k \in Jobs \ {j} : pc'[k] = pc[k] /\ deleting'[k] = deleting[k]
    BY <1>5 DEF CleanFailed, CleanCancelled, DeleteFile, Goto, IInv, TypeOK, Life, LifeOf,
                Tasked, Evidence, EvidenceOf, Settled
  <2>2. QED
    BY <2>1, FilesRemoved
<1>6. ASSUME NEW j \in Jobs, SetCancel(j)
      PROVE  Files'
  <2>1. /\ UNCHANGED <<file, open, output>>
        /\ \A k \in Jobs \ {j} : /\ state'[k] = state[k] /\ pc'[k] = pc[k]
                              /\ child'[k] = child[k] /\ deleting'[k] = deleting[k]
    BY <1>6 DEF SetCancel, Goto, IInv, TypeOK
  <2>2. FilesOf(j) /\ LifeOf(j) /\ EvidenceOf(j)
    BY DEF IInv, Life, Evidence, Files
  <2>3. /\ child'[j] = "none" => child[j] = "none"
        /\ pc'[j] \in {"cleaned", "removed"} => open[j] # "yes"
        /\ Alone(j) /\ state'[j] \in Settled /\ deleting'[j] # "remove" =>
             (open[j] = "yes" <=> state'[j] = "done")
    BY <1>6, <2>2 DEF SetCancel, Goto, IInv, TypeOK, FilesOf, LifeOf, EvidenceOf, Tasked, Settled
  <2>4. QED
    BY <2>1, <2>3, FilesFrame
<1>7. ASSUME NEW j \in Jobs, Spawn(j)
      PROVE  Files'
  <2>1. /\ UNCHANGED <<file, open, output>>
        /\ \A k \in Jobs \ {j} : /\ state'[k] = state[k] /\ pc'[k] = pc[k]
                              /\ child'[k] = child[k] /\ deleting'[k] = deleting[k]
    BY <1>7 DEF Spawn, Goto, IInv, TypeOK
  <2>2. FilesOf(j) /\ LifeOf(j) /\ EvidenceOf(j)
    BY DEF IInv, Life, Evidence, Files
  <2>3. /\ child'[j] = "none" => child[j] = "none"
        /\ pc'[j] \in {"cleaned", "removed"} => open[j] # "yes"
        /\ Alone(j) /\ state'[j] \in Settled /\ deleting'[j] # "remove" =>
             (open[j] = "yes" <=> state'[j] = "done")
    BY <1>7, <2>2 DEF Spawn, Goto, IInv, TypeOK, FilesOf, LifeOf, EvidenceOf, Tasked, Settled
  <2>4. QED
    BY <2>1, <2>3, FilesFrame
<1>8. ASSUME NEW j \in Jobs, SpawnFails(j)
      PROVE  Files'
  <2>1. /\ UNCHANGED <<file, open, output>>
        /\ \A k \in Jobs \ {j} : /\ state'[k] = state[k] /\ pc'[k] = pc[k]
                              /\ child'[k] = child[k] /\ deleting'[k] = deleting[k]
    BY <1>8 DEF SpawnFails, Goto, Finish, IInv, TypeOK
  <2>2. FilesOf(j) /\ LifeOf(j) /\ EvidenceOf(j)
    BY DEF IInv, Life, Evidence, Files
  <2>3. /\ child'[j] = "none" => child[j] = "none"
        /\ pc'[j] \in {"cleaned", "removed"} => open[j] # "yes"
        /\ Alone(j) /\ state'[j] \in Settled /\ deleting'[j] # "remove" =>
             (open[j] = "yes" <=> state'[j] = "done")
    BY <1>8, <2>2 DEF SpawnFails, Goto, Finish, IInv, TypeOK, FilesOf, LifeOf, EvidenceOf, Tasked, Settled
  <2>4. QED
    BY <2>1, <2>3, FilesFrame
<1>9. ASSUME NEW j \in Jobs, Waited(j)
      PROVE  Files'
  <2>1. /\ UNCHANGED <<file, open, output>>
        /\ \A k \in Jobs \ {j} : /\ state'[k] = state[k] /\ pc'[k] = pc[k]
                              /\ child'[k] = child[k] /\ deleting'[k] = deleting[k]
    BY <1>9 DEF Waited, Goto, IInv, TypeOK
  <2>2. FilesOf(j) /\ LifeOf(j) /\ EvidenceOf(j)
    BY DEF IInv, Life, Evidence, Files
  <2>3. /\ child'[j] = "none" => child[j] = "none"
        /\ pc'[j] \in {"cleaned", "removed"} => open[j] # "yes"
        /\ Alone(j) /\ state'[j] \in Settled /\ deleting'[j] # "remove" =>
             (open[j] = "yes" <=> state'[j] = "done")
    BY <1>9, <2>2 DEF Waited, Goto, Outcome, IInv, TypeOK, FilesOf, LifeOf, EvidenceOf, Tasked, Settled
  <2>4. QED
    BY <2>1, <2>3, FilesFrame
<1>10. ASSUME NEW j \in Jobs, Notified(j)
      PROVE  Files'
  <2>1. /\ UNCHANGED <<file, open, output>>
        /\ \A k \in Jobs \ {j} : /\ state'[k] = state[k] /\ pc'[k] = pc[k]
                              /\ child'[k] = child[k] /\ deleting'[k] = deleting[k]
    BY <1>10 DEF Notified, Goto, IInv, TypeOK
  <2>2. FilesOf(j) /\ LifeOf(j) /\ EvidenceOf(j)
    BY DEF IInv, Life, Evidence, Files
  <2>3. /\ child'[j] = "none" => child[j] = "none"
        /\ pc'[j] \in {"cleaned", "removed"} => open[j] # "yes"
        /\ Alone(j) /\ state'[j] \in Settled /\ deleting'[j] # "remove" =>
             (open[j] = "yes" <=> state'[j] = "done")
    BY <1>10, <2>2 DEF Notified, Goto, IInv, TypeOK, FilesOf, LifeOf, EvidenceOf, Tasked, Settled
  <2>4. QED
    BY <2>1, <2>3, FilesFrame
<1>11. ASSUME NEW j \in Jobs, FinishDone(j)
      PROVE  Files'
  <2>1. /\ UNCHANGED <<file, open, output>>
        /\ \A k \in Jobs \ {j} : /\ state'[k] = state[k] /\ pc'[k] = pc[k]
                              /\ child'[k] = child[k] /\ deleting'[k] = deleting[k]
    BY <1>11 DEF FinishDone, Goto, Finish, IInv, TypeOK
  <2>2. FilesOf(j) /\ LifeOf(j) /\ EvidenceOf(j)
    BY DEF IInv, Life, Evidence, Files
  <2>3. /\ child'[j] = "none" => child[j] = "none"
        /\ pc'[j] \in {"cleaned", "removed"} => open[j] # "yes"
        /\ Alone(j) /\ state'[j] \in Settled /\ deleting'[j] # "remove" =>
             (open[j] = "yes" <=> state'[j] = "done")
    BY <1>11, <2>2 DEF FinishDone, Goto, Finish, IInv, TypeOK, FilesOf, LifeOf, EvidenceOf, Tasked, Settled
  <2>4. QED
    BY <2>1, <2>3, FilesFrame
<1>12. ASSUME NEW j \in Jobs, FinishFailed(j)
      PROVE  Files'
  <2>1. /\ UNCHANGED <<file, open, output>>
        /\ \A k \in Jobs \ {j} : /\ state'[k] = state[k] /\ pc'[k] = pc[k]
                              /\ child'[k] = child[k] /\ deleting'[k] = deleting[k]
    BY <1>12 DEF FinishFailed, Goto, Finish, IInv, TypeOK
  <2>2. FilesOf(j) /\ LifeOf(j) /\ EvidenceOf(j)
    BY DEF IInv, Life, Evidence, Files
  <2>3. /\ child'[j] = "none" => child[j] = "none"
        /\ pc'[j] \in {"cleaned", "removed"} => open[j] # "yes"
        /\ Alone(j) /\ state'[j] \in Settled /\ deleting'[j] # "remove" =>
             (open[j] = "yes" <=> state'[j] = "done")
    BY <1>12, <2>2 DEF FinishFailed, Goto, Finish, IInv, TypeOK, FilesOf, LifeOf, EvidenceOf, Tasked, Settled
  <2>4. QED
    BY <2>1, <2>3, FilesFrame
<1>13. ASSUME NEW j \in Jobs, Reap(j)
      PROVE  Files'
  <2>1. /\ UNCHANGED <<file, open, output>>
        /\ \A k \in Jobs \ {j} : /\ state'[k] = state[k] /\ pc'[k] = pc[k]
                              /\ child'[k] = child[k] /\ deleting'[k] = deleting[k]
    BY <1>13 DEF Reap, Goto, IInv, TypeOK
  <2>2. FilesOf(j) /\ LifeOf(j) /\ EvidenceOf(j)
    BY DEF IInv, Life, Evidence, Files
  <2>3. /\ child'[j] = "none" => child[j] = "none"
        /\ pc'[j] \in {"cleaned", "removed"} => open[j] # "yes"
        /\ Alone(j) /\ state'[j] \in Settled /\ deleting'[j] # "remove" =>
             (open[j] = "yes" <=> state'[j] = "done")
    BY <1>13, <2>2 DEF Reap, Goto, IInv, TypeOK, FilesOf, LifeOf, EvidenceOf, Tasked, Settled
  <2>4. QED
    BY <2>1, <2>3, FilesFrame
<1>14. ASSUME NEW j \in Jobs, SetCancelled(j)
      PROVE  Files'
  <2>1. /\ UNCHANGED <<file, open, output>>
        /\ \A k \in Jobs \ {j} : /\ state'[k] = state[k] /\ pc'[k] = pc[k]
                              /\ child'[k] = child[k] /\ deleting'[k] = deleting[k]
    BY <1>14 DEF SetCancelled, Goto, IInv, TypeOK
  <2>2. FilesOf(j) /\ LifeOf(j) /\ EvidenceOf(j)
    BY DEF IInv, Life, Evidence, Files
  <2>3. /\ child'[j] = "none" => child[j] = "none"
        /\ pc'[j] \in {"cleaned", "removed"} => open[j] # "yes"
        /\ Alone(j) /\ state'[j] \in Settled /\ deleting'[j] # "remove" =>
             (open[j] = "yes" <=> state'[j] = "done")
    BY <1>14, <2>2 DEF SetCancelled, Goto, IInv, TypeOK, FilesOf, LifeOf, EvidenceOf, Tasked, Settled
  <2>4. QED
    BY <2>1, <2>3, FilesFrame
<1>15. ASSUME NEW j \in Jobs, DropCancel(j)
      PROVE  Files'
  <2>1. /\ UNCHANGED <<file, open, output>>
        /\ \A k \in Jobs \ {j} : /\ state'[k] = state[k] /\ pc'[k] = pc[k]
                              /\ child'[k] = child[k] /\ deleting'[k] = deleting[k]
    BY <1>15 DEF DropCancel, Goto, IInv, TypeOK
  <2>2. FilesOf(j) /\ LifeOf(j) /\ EvidenceOf(j)
    BY DEF IInv, Life, Evidence, Files
  <2>3. /\ child'[j] = "none" => child[j] = "none"
        /\ pc'[j] \in {"cleaned", "removed"} => open[j] # "yes"
        /\ Alone(j) /\ state'[j] \in Settled /\ deleting'[j] # "remove" =>
             (open[j] = "yes" <=> state'[j] = "done")
    BY <1>15, <2>2 DEF DropCancel, Goto, IInv, TypeOK, FilesOf, LifeOf, EvidenceOf, Tasked, Settled
  <2>4. QED
    BY <2>1, <2>3, FilesFrame
<1>16. ASSUME NEW j \in Jobs, NEW how \in {"ok", "failed"}, Exit(j, how)
      PROVE  Files'
  <2>1. /\ UNCHANGED <<file, open, output>>
        /\ \A k \in Jobs \ {j} : /\ state'[k] = state[k] /\ pc'[k] = pc[k]
                              /\ child'[k] = child[k] /\ deleting'[k] = deleting[k]
    BY <1>16 DEF Exit, IInv, TypeOK
  <2>2. FilesOf(j) /\ LifeOf(j) /\ EvidenceOf(j)
    BY DEF IInv, Life, Evidence, Files
  <2>3. /\ child'[j] = "none" => child[j] = "none"
        /\ pc'[j] \in {"cleaned", "removed"} => open[j] # "yes"
        /\ Alone(j) /\ state'[j] \in Settled /\ deleting'[j] # "remove" =>
             (open[j] = "yes" <=> state'[j] = "done")
    BY <1>16, <2>2 DEF Exit, IInv, TypeOK, FilesOf, LifeOf, EvidenceOf, Tasked, Settled
  <2>4. QED
    BY <2>1, <2>3, FilesFrame
<1>17. ASSUME NEW j \in Jobs, Cancel(j)
      PROVE  Files'
  <2>1. /\ UNCHANGED <<file, open, output>>
        /\ \A k \in Jobs \ {j} : /\ state'[k] = state[k] /\ pc'[k] = pc[k]
                              /\ child'[k] = child[k] /\ deleting'[k] = deleting[k]
    BY <1>17 DEF Cancel, IInv, TypeOK
  <2>2. FilesOf(j) /\ LifeOf(j) /\ EvidenceOf(j)
    BY DEF IInv, Life, Evidence, Files
  <2>3. /\ child'[j] = "none" => child[j] = "none"
        /\ pc'[j] \in {"cleaned", "removed"} => open[j] # "yes"
        /\ Alone(j) /\ state'[j] \in Settled /\ deleting'[j] # "remove" =>
             (open[j] = "yes" <=> state'[j] = "done")
    BY <1>17, <2>2 DEF Cancel, IInv, TypeOK, FilesOf, LifeOf, EvidenceOf, Tasked, Settled
  <2>4. QED
    BY <2>1, <2>3, FilesFrame
<1>18. ASSUME NEW j \in Jobs, NotifyOne(j)
      PROVE  Files'
  <2>1. /\ UNCHANGED <<file, open, output>>
        /\ \A k \in Jobs \ {j} : /\ state'[k] = state[k] /\ pc'[k] = pc[k]
                              /\ child'[k] = child[k] /\ deleting'[k] = deleting[k]
    BY <1>18 DEF NotifyOne, IInv, TypeOK
  <2>2. FilesOf(j) /\ LifeOf(j) /\ EvidenceOf(j)
    BY DEF IInv, Life, Evidence, Files
  <2>3. /\ child'[j] = "none" => child[j] = "none"
        /\ pc'[j] \in {"cleaned", "removed"} => open[j] # "yes"
        /\ Alone(j) /\ state'[j] \in Settled /\ deleting'[j] # "remove" =>
             (open[j] = "yes" <=> state'[j] = "done")
    BY <1>18, <2>2 DEF NotifyOne, IInv, TypeOK, FilesOf, LifeOf, EvidenceOf, Tasked, Settled
  <2>4. QED
    BY <2>1, <2>3, FilesFrame
<1>19. ASSUME NEW j \in Jobs, Delete(j)
      PROVE  Files'
  <2>1. /\ UNCHANGED <<file, open, output>>
        /\ \A k \in Jobs \ {j} : /\ state'[k] = state[k] /\ pc'[k] = pc[k]
                              /\ child'[k] = child[k] /\ deleting'[k] = deleting[k]
    BY <1>19 DEF Delete, IInv, TypeOK
  <2>2. FilesOf(j) /\ LifeOf(j) /\ EvidenceOf(j)
    BY DEF IInv, Life, Evidence, Files
  <2>3. /\ child'[j] = "none" => child[j] = "none"
        /\ pc'[j] \in {"cleaned", "removed"} => open[j] # "yes"
        /\ Alone(j) /\ state'[j] \in Settled /\ deleting'[j] # "remove" =>
             (open[j] = "yes" <=> state'[j] = "done")
    BY <1>19, <2>2 DEF Delete, IInv, TypeOK, FilesOf, LifeOf, EvidenceOf, Tasked, Settled
  <2>4. QED
    BY <2>1, <2>3, FilesFrame
<1>20. ASSUME NEW j \in Jobs, DeleteEntry(j)
      PROVE  Files'
  <2>1. /\ UNCHANGED <<file, open, output>>
        /\ \A k \in Jobs \ {j} : /\ state'[k] = state[k] /\ pc'[k] = pc[k]
                              /\ child'[k] = child[k] /\ deleting'[k] = deleting[k]
    BY <1>20 DEF DeleteEntry, IInv, TypeOK
  <2>2. FilesOf(j) /\ LifeOf(j) /\ EvidenceOf(j)
    BY DEF IInv, Life, Evidence, Files
  <2>3. /\ child'[j] = "none" => child[j] = "none"
        /\ pc'[j] \in {"cleaned", "removed"} => open[j] # "yes"
        /\ Alone(j) /\ state'[j] \in Settled /\ deleting'[j] # "remove" =>
             (open[j] = "yes" <=> state'[j] = "done")
    BY <1>20, <2>2 DEF DeleteEntry, IInv, TypeOK, FilesOf, LifeOf, EvidenceOf, Tasked, Settled
  <2>4. QED
    BY <2>1, <2>3, FilesFrame
<1>21. ASSUME NEW j \in Jobs, Listed(j)
      PROVE  Files'
  <2>1. /\ UNCHANGED <<file, open, output>>
        /\ \A k \in Jobs \ {j} : /\ state'[k] = state[k] /\ pc'[k] = pc[k]
                              /\ child'[k] = child[k] /\ deleting'[k] = deleting[k]
    BY <1>21 DEF Listed, Goto, IInv, TypeOK
  <2>2. FilesOf(j) /\ LifeOf(j) /\ EvidenceOf(j)
    BY DEF IInv, Life, Evidence, Files
  <2>3. /\ child'[j] = "none" => child[j] = "none"
        /\ pc'[j] \in {"cleaned", "removed"} => open[j] # "yes"
        /\ Alone(j) /\ state'[j] \in Settled /\ deleting'[j] # "remove" =>
             (open[j] = "yes" <=> state'[j] = "done")
    BY <1>21, <2>2 DEF Listed, Goto, IInv, TypeOK, FilesOf, LifeOf, EvidenceOf, Tasked, Settled
  <2>4. QED
    BY <2>1, <2>3, FilesFrame
<1>22. ASSUME NEW j \in Jobs, Joined(j)
      PROVE  Files'
  <2>1. /\ UNCHANGED <<file, open, output>>
        /\ \A k \in Jobs \ {j} : /\ state'[k] = state[k] /\ pc'[k] = pc[k]
                              /\ child'[k] = child[k] /\ deleting'[k] = deleting[k]
    BY <1>22 DEF Joined, Goto, IInv, TypeOK
  <2>2. FilesOf(j) /\ LifeOf(j) /\ EvidenceOf(j)
    BY DEF IInv, Life, Evidence, Files
  <2>3. /\ child'[j] = "none" => child[j] = "none"
        /\ pc'[j] \in {"cleaned", "removed"} => open[j] # "yes"
        /\ Alone(j) /\ state'[j] \in Settled /\ deleting'[j] # "remove" =>
             (open[j] = "yes" <=> state'[j] = "done")
    BY <1>22, <2>2 DEF Joined, Outcome, Goto, IInv, TypeOK, FilesOf, LifeOf, EvidenceOf, Tasked, Settled
  <2>4. QED
    BY <2>1, <2>3, FilesFrame
<1>23. QED
  BY <1>1, <1>2, <1>3, <1>4, <1>5, <1>6, <1>7, <1>8, <1>9, <1>10, <1>11, <1>12, <1>13, <1>14, <1>15, <1>16, <1>17, <1>18, <1>19, <1>20,
     <1>21, <1>22 DEF Next, TaskStep, AwaitStep, ChildStep, HandlerStep

-----------------------------------------------------------------------------
THEOREM Invariance == Spec => []IInv
<1>1. Init => IInv
  BY ImportAssumption DEF Init, IInv, TypeOK, Life, LifeOf, Evidence, EvidenceOf, Files,
     FilesOf, WritersKnown, Alone, Sole, Settled, Steps, Tasked
<1>2. IInv /\ [Next]_vars => IInv'
  BY TypeStep, LifeStep, EvidenceStep, FilesStep DEF IInv
<1>3. QED
  BY <1>1, <1>2, PTL DEF Spec

(* Type correctness: the variables keep their types, and no cancel handle is left
   in the map without its job. *)
THEOREM TypeCorrect == Spec => []TypeOK
BY Invariance, PTL DEF IInv

(* A converter that runs can be seen and cancelled, unless the gateway was
   restarted under it. *)
THEOREM NoHiddenConverter == Spec => []ConverterReachable
<1>1. IInv => ConverterReachable
  BY DEF IInv, Life, LifeOf, Tasked, ConverterReachable
<1>2. QED
  BY <1>1, Invariance, PTL

(* The file of a settled job whose name is its own is what its state says. *)
THEOREM FileTellsState == Spec => []OutputMatchesState
<1>1. ASSUME IInv, NEW j \in Jobs, state[j] \in Settled, Sole(j), deleting[j] # "remove"
      PROVE  file[output[j]] = IF state[j] = "done" THEN {j} ELSE {}
  <2>1. LifeOf(j) /\ FilesOf(j) /\ (output[j] = NoOutput <=> pc[j] = "new")
    BY <1>1 DEF IInv, TypeOK, Life, Files
  <2>2. Alone(j)
    BY <1>1, <2>1 DEF Alone, LifeOf, Settled
  <2>3. QED
    BY <1>1, <2>1, <2>2 DEF FilesOf
<1>2. IInv => OutputMatchesState
  BY <1>1 DEF OutputMatchesState
<1>3. QED
  BY <1>2, Invariance, PTL

-----------------------------------------------------------------------------
(* The refinement: what each step is to the console. *)
shown == <<Phase, asked, Succeeded>>

LEMMA Unseen ==
  ASSUME NEW j \in Jobs, UNCHANGED <<state, asked>>, Succeeded' = Succeeded,
         \A k \in Jobs : pc'[k] = "new" <=> pc[k] = "new"
  PROVE  UNCHANGED shown
BY DEF Phase, shown

(* A step that changes the state of one job only moves its phase. *)
LEMMA Moved ==
  ASSUME NEW j \in Jobs, NEW s, state \in [Jobs -> {"none", "running"} \cup Settled],
         state' = [state EXCEPT ![j] = s],
         \A k \in Jobs \ {j} : pc'[k] = "new" <=> pc[k] = "new"
  PROVE  /\ s # "none" => Phase' = [Phase EXCEPT ![j] = s]
         /\ s = "none" /\ pc'[j] # "new" => Phase' = [Phase EXCEPT ![j] = "gone"]
BY DEF Phase

LEMMA Settles ==
  ASSUME IInv, NEW j \in Jobs, NEW ok \in BOOLEAN, Finish(j, ok),
         pc[j] \in Tasked, ok => child[j] = "ok",
         \A k \in Jobs : pc'[k] = "new" <=> pc[k] = "new", UNCHANGED <<asked, child>>
  PROVE  Service!Next
<1>1. state[j] = "running" /\ state \in [Jobs -> {"none", "running"} \cup Settled]
  BY DEF IInv, TypeOK, Life, LifeOf
<1>2. PICK s \in {"done", "error"} :
           state' = [state EXCEPT ![j] = s] /\ (s = "done" => ok)
  BY <1>1 DEF Finish
<1>3. Phase[j] = "running" /\ Phase' = [Phase EXCEPT ![j] = s]
  BY <1>1, <1>2, Moved DEF Phase
<1>4. (s = "done" => j \in Succeeded) /\ Succeeded' = Succeeded
  BY <1>2 DEF Succeeded
<1>5. s \in Service!Settled /\ Service!Settle(j, s)
  BY <1>2, <1>3, <1>4 DEF Service!Settle, Service!Moves, Service!Settled
<1>6. QED
  BY <1>5 DEF Service!Next

LEMMA ServiceStep ==
  ASSUME IInv, [Next]_vars
  PROVE  Service!Next \/ UNCHANGED shown
<1>1. CASE UNCHANGED vars
  BY <1>1 DEF vars, shown, Phase, Succeeded
<1>2. CASE Restart
  <2>1. Phase' = [j \in Jobs |-> IF Phase[j] = "none" THEN "none" ELSE "gone"]
    BY <1>2 DEF Restart, Phase, IInv, TypeOK, Life, LifeOf
  <2>2. Service!Forget
    BY <1>2, <2>1 DEF Restart, Service!Forget, Succeeded
  <2>3. QED
    BY <2>2 DEF Service!Next
<1>3. ASSUME NEW j \in Jobs, NEW o \in Outputs, Insert(j, o)
      PROVE  Service!Next
  <2>1. /\ pc[j] = "new" /\ state[j] = "none" /\ state' = [state EXCEPT ![j] = "running"]
        /\ \A k \in Jobs \ {j} : pc'[k] = "new" <=> pc[k] = "new"
        /\ state \in [Jobs -> {"none", "running"} \cup Settled]
    BY <1>3 DEF Insert, Goto, IInv, TypeOK, Life, LifeOf
  <2>2. Phase[j] = "none" /\ Phase' = [Phase EXCEPT ![j] = "running"]
    BY <2>1, Moved DEF Phase
  <2>3. Service!Start(j)
    BY <1>3, <2>2 DEF Insert, Service!Start, Service!Moves, Succeeded
  <2>4. QED
    BY <2>3 DEF Service!Next
<1>4. ASSUME NEW j \in Jobs,
             \/ SetCancel(j) \/ Listed(j) \/ Spawn(j) \/ Waited(j) \/ Joined(j)
             \/ Notified(j) \/ CleanFailed(j)
             \/ Reap(j) \/ CleanCancelled(j) \/ DropCancel(j) \/ Write(j)
             \/ Cancel(j) \/ Delete(j) \/ DeleteFile(j)
      PROVE  UNCHANGED shown
  <2>1. UNCHANGED <<state, asked>> /\ \A k \in Jobs : pc'[k] = "new" <=> pc[k] = "new"
    BY <1>4 DEF SetCancel, Listed, Spawn, Waited, Joined, Outcome, Notified, CleanFailed, Reap,
       CleanCancelled, DropCancel, Write, Cancel, Delete, DeleteFile, Goto, IInv, TypeOK
  <2>2. \A k \in Jobs : child'[k] = "ok" <=> child[k] = "ok"
    BY <1>4 DEF SetCancel, Listed, Spawn, Waited, Joined, Outcome, Notified, CleanFailed, Reap,
       CleanCancelled, DropCancel, Write, Cancel, Delete, DeleteFile, Goto, IInv, TypeOK, Life, LifeOf
  <2>3. QED
    BY <2>1, <2>2, Unseen DEF Succeeded
<1>5. ASSUME NEW j \in Jobs, SpawnFails(j) \/ FinishDone(j) \/ FinishFailed(j)
      PROVE  Service!Next
  <2>1. /\ pc[j] \in Tasked /\ UNCHANGED <<asked, child>>
        /\ \A k \in Jobs : pc'[k] = "new" <=> pc[k] = "new"
    BY <1>5 DEF SpawnFails, FinishDone, FinishFailed, Goto, IInv, TypeOK, Tasked
  <2>2. CASE FinishDone(j)
    <3>1. Finish(j, TRUE) /\ child[j] = "ok"
      BY <2>2 DEF FinishDone, Goto, IInv, Life, LifeOf
    <3>2. QED
      BY <2>1, <3>1, Settles
  <2>3. CASE SpawnFails(j) \/ FinishFailed(j)
    <3>1. Finish(j, FALSE)
      BY <2>3 DEF SpawnFails, FinishFailed
    <3>2. QED
      BY <2>1, <3>1, Settles
  <2>4. QED
    BY <1>5, <2>2, <2>3
<1>6. ASSUME NEW j \in Jobs, SetCancelled(j)
      PROVE  Service!Next
  <2>0. pc[j] = "removed" /\ state[j] = "running" /\ j \in asked
    BY <1>6 DEF SetCancelled, Goto, IInv, Life, LifeOf, Evidence, EvidenceOf, Tasked
  <2>1. /\ state[j] = "running" /\ j \in asked /\ UNCHANGED <<asked, child>>
        /\ state' = [state EXCEPT ![j] = "cancelled"]
        /\ state \in [Jobs -> {"none", "running"} \cup Settled]
        /\ \A k \in Jobs \ {j} : pc'[k] = "new" <=> pc[k] = "new"
    BY <1>6, <2>0 DEF SetCancelled, Goto, IInv, TypeOK
  <2>2. Phase[j] = "running" /\ Phase' = [Phase EXCEPT ![j] = "cancelled"]
    BY <2>1, Moved DEF Phase
  <2>3. Service!Settle(j, "cancelled") /\ "cancelled" \in Service!Settled
    BY <2>1, <2>2 DEF Service!Settle, Service!Moves, Service!Settled, Succeeded
  <2>4. QED
    BY <2>3 DEF Service!Next
<1>7. ASSUME NEW j \in Jobs, NEW how \in {"ok", "failed"}, Exit(j, how)
      PROVE  Service!Next \/ UNCHANGED shown
  <2>1. /\ UNCHANGED <<state, asked, pc>> /\ child' = [child EXCEPT ![j] = how]
        /\ child[j] = "running" /\ pc[j] # "new"
        /\ child \in [Jobs -> {"none", "running", "ok", "failed", "killed"}]
    BY <1>7 DEF Exit, IInv, TypeOK, Life, LifeOf
  <2>2. CASE how = "failed"
    BY <2>1, <2>2, Unseen DEF Succeeded
  <2>3. CASE how = "ok"
    <3>1. Succeeded' = Succeeded \cup {j} /\ Phase' = Phase /\ Phase[j] # "none"
      BY <2>1, <2>3 DEF Succeeded, Phase
    <3>2. Service!Succeed(j)
      BY <2>1, <3>1 DEF Service!Succeed
    <3>3. QED
      BY <3>2 DEF Service!Next
  <2>4. QED
    BY <2>2, <2>3
<1>8. ASSUME NEW j \in Jobs, NotifyOne(j)
      PROVE  Service!Next \/ UNCHANGED shown
  <2>1. Phase' = Phase /\ Succeeded' = Succeeded
    BY <1>8 DEF NotifyOne, Phase, Succeeded
  <2>2. CASE j \in cancels
    <3>1. Phase[j] # "none" /\ asked' = asked \cup {j}
      BY <1>8, <2>2 DEF NotifyOne, Phase, IInv, TypeOK
    <3>2. Service!Ask(j)
      BY <2>1, <3>1 DEF Service!Ask
    <3>3. QED
      BY <3>2 DEF Service!Next
  <2>3. CASE j \notin cancels
    BY <1>8, <2>1, <2>3 DEF NotifyOne, shown
  <2>4. QED
    BY <2>2, <2>3
<1>9. ASSUME NEW j \in Jobs, DeleteEntry(j)
      PROVE  Service!Next
  <2>1. /\ state[j] \in Settled /\ pc[j] # "new" /\ UNCHANGED <<pc, asked, child>>
        /\ state' = [state EXCEPT ![j] = "none"]
        /\ state \in [Jobs -> {"none", "running"} \cup Settled]
    BY <1>9 DEF DeleteEntry, IInv, TypeOK, Evidence, EvidenceOf, Life, LifeOf, Settled
  <2>2. Phase[j] = state[j] /\ Phase' = [Phase EXCEPT ![j] = "gone"]
    BY <2>1, Moved DEF Phase, Settled
  <2>3. Service!Delete(j)
    BY <2>1, <2>2 DEF Service!Delete, Service!Moves, Service!Settled, Settled, Succeeded
  <2>4. QED
    BY <2>3 DEF Service!Next
<1>10. QED
  BY <1>1, <1>2, <1>3, <1>4, <1>5, <1>6, <1>7, <1>8, <1>9
     DEF Next, TaskStep, AwaitStep, ChildStep, HandlerStep

(* Every behaviour of the code is one the console was promised. *)
THEOREM ImportsImplementService == Spec => ServicePromise
<1>1. Init => Service!Init
  BY DEF Init, Service!Init, Phase, Succeeded
<1>2. IInv /\ [Next]_vars => [Service!Next]_shown
  BY ServiceStep
<1>3. QED
  BY <1>1, <1>2, Invariance, PTL DEF Spec, ServicePromise, Service!Spec, shown
=============================================================================
