-------------------------- MODULE CmfRuntimeProofs --------------------------
(***************************************************************************)
(* Theorems of module CmfRuntime, for every set of ids and ports, every    *)
(* set of valid server lists, and any number of reloads, servers and       *)
(* deaths, however the tasks they leave behind interleave.                 *)
(***************************************************************************)
EXTENDS CmfRuntime, TLAPS

-----------------------------------------------------------------------------
(* Server lists. *)

LEMMA WithoutType ==
  ASSUME NEW c \in Seq(Entry), NEW id \in IdsOf(c)
  PROVE  /\ Without(c, id) \in Seq(Entry)
         /\ Valid(c) => Valid(Without(c, id))
<1> DEFINE i == CHOOSE i \in DOMAIN c : c[i].id = id
           rest == [k \in 1 .. Len(c) - 1 |-> IF k < i THEN c[k] ELSE c[k + 1]]
<1>1. i \in 1 .. Len(c) /\ Len(c) \in Nat
  BY DEF IdsOf
<1> HIDE DEF i
<1>2. Len(c) - 1 \in Nat
  BY <1>1
<1>3. rest \in Seq(Entry) /\ Len(rest) = Len(c) - 1
  BY <1>1, <1>2
<1>4. Valid(c) => Valid(rest)
  BY <1>1, <1>2, <1>3 DEF Valid
<1>5. QED
  BY <1>3, <1>4 DEF Without, i

LEMMA GotoType ==
  ASSUME TasksOK, NEW t \in Tasks, NEW step, Goto(t, step),
         UNCHANGED <<plan, at, tasks>>, pc[t] # "idle",
         IF pc[t] \in Looping THEN step \in Looping \ {"install"} ELSE step \in Steps \ (Looping \cup {"idle"})
  PROVE  TasksOK'
<1>1. step \in Steps /\ step # "idle"
  BY DEF Steps, Looping
<1>2. pc' = [pc EXCEPT ![t] = step] /\ plan' = plan /\ at' = at /\ tasks' = tasks
  BY DEF Goto
<1>3. QED
  BY <1>1, <1>2 DEF TasksOK

LEMMA AdvanceType ==
  ASSUME TasksOK, NEW t \in Tasks, pc[t] \in Looping,
         NEW step \in Looping \ {"install"}, NEW after \in (Looping \ {"install"}) \cup {"done"},
         Advance(t, step, after), UNCHANGED <<plan, tasks>>
  PROVE  TasksOK'
<1>1. /\ at[t] \in 1 .. Len(plan[t]) /\ Len(plan[t]) \in Nat /\ pc[t] # "idle"
      /\ step \in Steps /\ after \in Steps /\ step # "idle" /\ after # "idle"
  BY DEF TasksOK, Looping, Steps, Ended
<1>2. step # "install" /\ after # "install" /\ (after \notin Looping => after = "done")
  OBVIOUS
<1>3. CASE at[t] = Len(plan[t])
  <2>1. pc' = [pc EXCEPT ![t] = after] /\ at' = [at EXCEPT ![t] = 1]
        /\ plan' = plan /\ tasks' = tasks
    BY <1>3 DEF Advance, Goto
  <2>2. QED
    BY <1>1, <1>2, <1>3, <2>1 DEF TasksOK
<1>4. CASE at[t] # Len(plan[t])
  <2>1. pc' = [pc EXCEPT ![t] = step] /\ at' = [at EXCEPT ![t] = at[t] + 1]
        /\ plan' = plan /\ tasks' = tasks
    BY <1>4 DEF Advance, Goto
  <2>2. QED
    BY <1>1, <1>2, <1>4, <2>1 DEF TasksOK
<1>5. QED
  BY <1>3, <1>4

LEMMA KillType ==
  ASSUME SystemOK, NEW set, Kill(set), UNCHANGED <<children, entryOf, born>>
  PROVE  SystemOK'
BY DEF SystemOK, Kill, Live

LEMMA SpawnType ==
  ASSUME TypeOK, NEW t \in Tasks, Spawn(t)
  PROVE  SystemOK'
<1>1. at[t] \in 1 .. Len(plan[t]) /\ plan[t] \in Seq(Entry)
  BY DEF Spawn, TypeOK, TasksOK, Looping
<1>2. Current(t) \in Entry
  BY <1>1 DEF Current
<1>3. born + 1 \in Procs /\ born \in Nat /\ MaxProcs \in Nat
  BY RuntimeAssumption DEF Spawn, TypeOK, SystemOK, Procs
<1>4. /\ born' = born + 1
      /\ proc' = [proc EXCEPT ![born + 1] = "loading"]
      /\ entryOf' = [entryOf EXCEPT ![born + 1] = Current(t)]
      /\ children' = children
  BY DEF Spawn
<1>5. QED
  BY <1>2, <1>3, <1>4 DEF TypeOK, SystemOK, Procs, Live

LEMMA StoreType ==
  ASSUME TypeOK, NEW c \in Seq(Entry), Store(c)
  PROVE  configured' \in Seq(Entry) /\ TasksOK' /\ StatusOK' /\ SystemOK'
<1>1. MaxReloads \in Nat /\ tasks \in Tasks /\ tasks' = tasks + 1
  BY RuntimeAssumption DEF Store, TypeOK, TasksOK, Tasks
<1>2. pc' = [pc EXCEPT ![tasks] = "stop"] /\ plan' = [plan EXCEPT ![tasks] = c] /\ at' = at
  BY DEF Store
<1>3. TasksOK'
  <2>1. tasks \in 1 .. MaxReloads /\ pc[tasks] = "idle" /\ at[tasks] = 1
    <3>1. tasks \in 1 .. MaxReloads + 1 /\ tasks <= MaxReloads
      BY DEF Store, TypeOK, TasksOK
    <3>2. pc[tasks] \in Steps /\ (tasks < tasks <=> pc[tasks] # "idle")
      BY <1>1 DEF TypeOK, TasksOK
    <3>3. ~(tasks < tasks) /\ tasks \in 1 .. MaxReloads
      BY <1>1, <3>1
    <3>4. pc[tasks] = "idle" /\ "idle" \notin Looping
      BY <3>2, <3>3 DEF Looping
    <3>5. at[tasks] = 1
      BY <1>1, <3>4 DEF TypeOK, TasksOK
    <3>6. QED
      BY <3>3, <3>4, <3>5
  <2>2. "stop" \in Steps /\ "stop" \notin Looping
    BY DEF Steps, Looping
  <2>3. pc' \in [Tasks -> Steps] /\ plan' \in [Tasks -> Seq(Entry)] /\ at' \in [Tasks -> Nat]
    BY <1>1, <1>2, <2>2 DEF TypeOK, TasksOK
  <2>4. \A t \in Tasks : t # tasks => pc'[t] = pc[t] /\ plan'[t] = plan[t] /\ at'[t] = at[t]
    BY <1>1, <1>2 DEF TypeOK, TasksOK
  <2>5. pc'[tasks] = "stop" /\ at'[tasks] = 1
    BY <1>1, <1>2, <2>1 DEF TypeOK, TasksOK
  <2>6. \A t \in Tasks : (t < tasks + 1) <=> (t < tasks \/ t = tasks)
    BY <1>1 DEF Tasks
  <2>7. \A t \in Tasks : (t < tasks') <=> (pc'[t] # "idle")
    BY <1>1, <2>4, <2>5, <2>6 DEF TypeOK, TasksOK
  <2>8. \A t \in Tasks : IF pc'[t] \in Looping THEN at'[t] \in 1 .. Len(plan'[t]) ELSE at'[t] = 1
    BY <1>1, <2>2, <2>4, <2>5 DEF TypeOK, TasksOK
  <2>9. tasks' \in 1 .. MaxReloads + 1
    BY <1>1, <2>1
  <2>10. \A t \in Tasks : pc'[t] = "install" => at'[t] = 1
    BY <1>1, <2>4, <2>5 DEF TypeOK, TasksOK
  <2>11. QED
    BY <2>3, <2>7, <2>8, <2>9, <2>10 DEF TasksOK
<1>4. StatusOK' /\ SystemOK'
  BY DEF Store, TypeOK, status, system, StatusOK, SystemOK
<1>5. QED
  BY <1>3, <1>4 DEF Store

LEMMA ProcType ==
  ASSUME TypeOK, NEW p \in Procs, ProcStep(p)
  PROVE  SystemOK'
<1>1. PICK s \in {"serving", "dead"} : proc' = [proc EXCEPT ![p] = s]
  BY DEF ProcStep, Serve, PortTaken, Exit, Die, Becomes
<1>2. proc[p] # "none" /\ UNCHANGED <<children, entryOf, born>>
  BY DEF ProcStep, Serve, PortTaken, Exit, Die, Becomes, Live
<1>3. QED
  BY <1>1, <1>2 DEF TypeOK, SystemOK, Live, Procs

(* A step of a task: only its own handles change hands. *)
LEMMA HandsStep ==
  ASSUME TypeOK, NEW t \in Tasks, pc[t] # "idle", NEW step, pc' = [pc EXCEPT ![t] = step],
         NEW set \in SUBSET (1 .. born'), hand' = [hand EXCEPT ![t] = set],
         set # {} => step \in {"kill", "push"},
         born' \in {born, born + 1}, UNCHANGED <<deletion, due>>
  PROVE  HandsOK'
<1>1. 1 .. born \subseteq 1 .. born'
  BY DEF TypeOK, SystemOK
<1>2. pc \in [Tasks -> Steps] /\ hand \in [Tasks -> SUBSET (1 .. born)]
  BY DEF TypeOK, TasksOK, HandsOK
<1>3. /\ pc'[t] = step /\ hand'[t] = set
      /\ \A s \in Tasks \ {t} : pc'[s] = pc[s] /\ hand'[s] = hand[s]
  BY <1>2
<1>4. hand' \in [Tasks -> SUBSET (1 .. born')]
  BY <1>1, <1>2
<1>5. due' \in [Tasks -> SUBSET (1 .. born')] /\ deletion'.hand \subseteq 1 .. born'
  BY <1>1 DEF TypeOK, HandsOK
<1>6. QED
  BY <1>3, <1>4, <1>5 DEF TypeOK, HandsOK

LEMMA HandsQuiet ==
  ASSUME TypeOK, NEW t \in Tasks, pc[t] \notin {"idle", "kill", "push"}, NEW step,
         pc' = [pc EXCEPT ![t] = step], UNCHANGED <<hand, born, deletion, due>>
  PROVE  HandsOK'
<1>1. hand[t] = {} /\ hand \in [Tasks -> SUBSET (1 .. born)] /\ born \in Nat
  BY DEF TypeOK, HandsOK, SystemOK
<1>2. hand' = [hand EXCEPT ![t] = {}]
  BY <1>1
<1>3. QED
  BY <1>1, <1>2, HandsStep

LEMMA HandsManage ==
  ASSUME TypeOK, NEW t \in Tasks, ManageStep(t)
  PROVE  HandsOK'
<1> USE DEF history, system
<1>1. CASE Stop(t)
  <2>1. children \subseteq 1 .. born /\ pc[t] # "idle"
    BY <1>1 DEF Stop, TypeOK, SystemOK
  <2>2. QED
    BY <1>1, <2>1, HandsStep DEF Stop, Goto
<1>2. CASE KillTaken(t) \/ Push(t)
  <2>1. pc[t] # "idle"
    BY <1>2 DEF KillTaken, Push
  <2>2. PICK step : pc' = [pc EXCEPT ![t] = step]
    BY <1>2 DEF KillTaken, Push, Goto
  <2>3. QED
    BY <1>2, <2>1, <2>2, HandsStep DEF KillTaken, Push
<1>3. CASE Spawn(t)
  <2>1. born + 1 \in 1 .. born' /\ born' = born + 1
    BY <1>3 DEF Spawn, TypeOK, SystemOK
  <2>2. QED
    BY <1>3, <2>1, HandsStep DEF Spawn, Goto
<1>4. CASE ~(Stop(t) \/ KillTaken(t) \/ Push(t) \/ Spawn(t))
  <2>1. pc[t] \notin {"idle", "kill", "push"} /\ UNCHANGED <<hand, born, deletion, due>>
    BY <1>4 DEF ManageStep, Clear, Begin, Install, InstallFails, Mark, SpawnFails, Skip, Poll,
                Answered, SetHealthy, TimedOut
  <2>2. PICK step : pc' = [pc EXCEPT ![t] = step]
    BY <1>4 DEF ManageStep, Clear, Begin, Install, InstallFails, Mark, SpawnFails, Skip, Poll,
                Answered, SetHealthy, TimedOut, Goto, Advance
  <2>3. QED
    BY <2>1, <2>2, HandsQuiet
<1>5. QED
  BY <1>1, <1>2, <1>3, <1>4

LEMMA HandsStore ==
  ASSUME TypeOK, NEW c, Store(c), deletion' \in {deletion, NoDeletion}
  PROVE  HandsOK'
<1>1. /\ tasks \in Tasks /\ pc[tasks] = "idle" /\ pc \in [Tasks -> Steps]
      /\ hand \in [Tasks -> SUBSET (1 .. born)] /\ children \subseteq 1 .. born
  BY RuntimeAssumption DEF Store, TypeOK, TasksOK, HandsOK, SystemOK, Tasks
<1>2. /\ pc' = [pc EXCEPT ![tasks] = "stop"] /\ due' = [due EXCEPT ![tasks] = children]
      /\ hand' = hand /\ born' = born
  BY DEF Store, system
<1>3. hand[tasks] = {}
  BY <1>1 DEF TypeOK, HandsOK
<1>4. deletion'.hand \subseteq 1 .. born /\ (deletion'.hand # {} => deletion'.step = "kill")
  BY DEF NoDeletion, TypeOK, HandsOK
<1>5. QED
  BY <1>1, <1>2, <1>3, <1>4 DEF TypeOK, HandsOK

-----------------------------------------------------------------------------
LEMMA TypeInv == Init /\ [][Next]_vars => []TypeOK
<1>1. Init => TypeOK
  <2> SUFFICES ASSUME Init PROVE TypeOK
    OBVIOUS
  <2>1. configured \in Seq(Entry) /\ MaxReloads \in Nat /\ MaxProcs \in Nat
    BY RuntimeAssumption DEF Init
  <2>2. StatusOK /\ SystemOK
    BY <2>1 DEF Init, StatusOK, SystemOK, Procs, Live
  <2>3. TasksOK
    BY <2>1 DEF Init, TasksOK, Tasks, Steps, Looping, Ended
  <2>4. /\ deletion.hand = {}
        /\ deletion \in [step: {"idle", "kill", "forget", "reload"}, id: Ids \cup {NoId},
                         edit: Seq(Entry), hand: SUBSET Procs]
    BY DEF Init, NoDeletion
  <2>5. HandsOK
    BY <2>4 DEF Init, HandsOK
  <2>6. QED
    BY <2>1, <2>2, <2>3, <2>4, <2>5 DEF Init, TypeOK
<1>2. TypeOK /\ [Next]_vars => TypeOK'
  <2> SUFFICES ASSUME TypeOK, [Next]_vars PROVE TypeOK'
    OBVIOUS
  <2> USE DEF status, system, task, history
  <2>1. ASSUME NEW c \in Configs, Reload(c) PROVE TypeOK'
    <3>1. c \in Seq(Entry)
      BY RuntimeAssumption
    <3>2. Store(c) /\ UNCHANGED deletion
      BY <2>1 DEF Reload
    <3>3. configured' \in Seq(Entry) /\ TasksOK' /\ StatusOK' /\ SystemOK'
      BY <3>1, <3>2, StoreType
    <3>4. clean' \in BOOLEAN
      BY <3>2 DEF Store
    <3>5. HandsOK'
      BY <3>2, HandsStore
    <3>6. QED
      BY <3>2, <3>3, <3>4, <3>5 DEF TypeOK, Store
  <2>2. ASSUME NEW t \in Tasks, ManageStep(t) PROVE TypeOK'
    <3> DEFINE Rest == /\ UNCHANGED <<configured, deletion, deaths, clean>>
                       /\ installed' \in BOOLEAN /\ HandsOK'
    <3>1. Rest
      BY <2>2, HandsManage
         DEF ManageStep, Stop, KillTaken, Clear, Begin, Install, InstallFails, Spawn, Push, Mark, SpawnFails,
                  Skip, Poll, Answered, SetHealthy, TimedOut, TypeOK
    <3>2. CASE Stop(t)
      <4>1. StatusOK'
        BY <3>2 DEF Stop, TypeOK, StatusOK
      <4>2. SystemOK'
        BY <3>2 DEF Stop, TypeOK, SystemOK
      <4>3. TasksOK'
        BY <3>2, GotoType DEF Stop, TypeOK, Looping, Steps
      <4>4. QED
        BY <3>1, <4>1, <4>2, <4>3 DEF TypeOK
    <3>16. CASE KillTaken(t)
      <4>1. StatusOK'
        BY <3>16 DEF KillTaken, TypeOK, StatusOK
      <4>2. SystemOK'
        BY <3>16, KillType DEF KillTaken, TypeOK
      <4>3. TasksOK'
        BY <3>16, GotoType DEF KillTaken, TypeOK, Looping, Steps
      <4>4. QED
        BY <3>1, <4>1, <4>2, <4>3 DEF TypeOK
    <3>17. CASE Push(t)
      <4>1. StatusOK'
        BY <3>17 DEF Push, TypeOK, StatusOK
      <4>2. SystemOK'
        BY <3>17 DEF Push, TypeOK, SystemOK, HandsOK
      <4>3. TasksOK'
        BY <3>17, GotoType DEF Push, TypeOK, Looping, Steps
      <4>4. QED
        BY <3>1, <4>1, <4>2, <4>3 DEF TypeOK
    <3>3. CASE Clear(t)
      <4>1. StatusOK'
        BY <3>3 DEF Clear, TypeOK, StatusOK
      <4>2. SystemOK'
        BY <3>3 DEF Clear, TypeOK, SystemOK
      <4>3. TasksOK'
        BY <3>3, GotoType DEF Clear, TypeOK, Looping, Steps
      <4>4. QED
        BY <3>1, <4>1, <4>2, <4>3 DEF TypeOK
    <3>4. CASE Begin(t)
      <4>1. StatusOK'
        <5>1. plan[t] \in Seq(Entry)
          BY DEF TypeOK, TasksOK
        <5>2. IdsOf(plan[t]) \subseteq Ids
          <6>1. \A i \in DOMAIN plan[t] : plan[t][i] \in Entry
            BY <5>1
          <6>2. \A i \in DOMAIN plan[t] : plan[t][i].id \in Ids
            BY <6>1 DEF Entry
          <6>3. QED
            BY <6>2 DEF IdsOf
        <5>3. QED
          BY <3>4, <5>2 DEF Begin, TypeOK, StatusOK
      <4>2. SystemOK'
        BY <3>4 DEF Begin, TypeOK, SystemOK
      <4>3. TasksOK'
        <5>1. CASE plan[t] = <<>>
          BY <3>4, <5>1, GotoType DEF Begin, TypeOK, Looping, Steps, Ended
        <5>2. CASE plan[t] # <<>>
          <6>1. plan[t] \in Seq(Entry) /\ Len(plan[t]) \in Nat \ {0}
            BY <5>2 DEF TypeOK, TasksOK
          <6>2. at[t] = 1 /\ pc[t] = "begin" /\ pc' = [pc EXCEPT ![t] = "install"]
                /\ UNCHANGED <<plan, at, tasks>>
            BY <3>4, <5>2 DEF Begin, Goto, TypeOK, TasksOK, Looping
          <6>3. "install" \in Looping /\ "install" \in Steps
            BY DEF Looping, Steps
          <6>4. QED
            BY <6>1, <6>2, <6>3 DEF TypeOK, TasksOK
        <5>3. QED
          BY <5>1, <5>2
      <4>4. QED
        BY <3>1, <4>1, <4>2, <4>3 DEF TypeOK
    <3>5. CASE Install(t)
      <4>1. StatusOK'
        BY <3>5 DEF Install, TypeOK, StatusOK
      <4>2. SystemOK'
        BY <3>5 DEF Install, TypeOK, SystemOK
      <4>3. TasksOK'
        BY <3>5, GotoType DEF Install, TypeOK, Looping, Steps
      <4>4. QED
        BY <3>1, <4>1, <4>2, <4>3 DEF TypeOK
    <3>7. CASE Spawn(t)
      <4>1. StatusOK'
        BY <3>7 DEF Spawn, TypeOK, StatusOK
      <4>2. SystemOK'
        BY <3>7, SpawnType DEF TypeOK
      <4>3. TasksOK'
        BY <3>7, GotoType DEF Spawn, TypeOK, Looping, Steps
      <4>4. QED
        BY <3>1, <4>1, <4>2, <4>3 DEF TypeOK
    <3>11. CASE Poll(t)
      <4>1. StatusOK'
        BY <3>11 DEF Poll, TypeOK, StatusOK
      <4>2. SystemOK'
        BY <3>11 DEF Poll, TypeOK, SystemOK
      <4>3. TasksOK'
        BY <3>11, GotoType DEF Poll, TypeOK, Looping, Steps
      <4>4. QED
        BY <3>1, <4>1, <4>2, <4>3 DEF TypeOK
    <3>12. CASE Answered(t)
      <4>1. StatusOK'
        BY <3>12 DEF Answered, TypeOK, StatusOK
      <4>2. SystemOK'
        BY <3>12 DEF Answered, TypeOK, SystemOK
      <4>3. TasksOK'
        BY <3>12, GotoType DEF Answered, TypeOK, Looping, Steps
      <4>4. QED
        BY <3>1, <4>1, <4>2, <4>3 DEF TypeOK
    <3>8. CASE Mark(t)
      <4>1. StatusOK'
        BY <3>8 DEF Mark, TypeOK, StatusOK, FailServer
      <4>2. SystemOK'
        BY <3>8 DEF Mark, TypeOK, SystemOK
      <4>3. TasksOK'
        BY <3>8, AdvanceType DEF Mark, TypeOK, Looping
      <4>4. QED
        BY <3>1, <4>1, <4>2, <4>3 DEF TypeOK
    <3>9. CASE SpawnFails(t)
      <4>1. StatusOK'
        BY <3>9 DEF SpawnFails, TypeOK, StatusOK, FailServer
      <4>2. SystemOK'
        BY <3>9 DEF SpawnFails, TypeOK, SystemOK
      <4>3. TasksOK'
        BY <3>9, AdvanceType DEF SpawnFails, TypeOK, Looping
      <4>4. QED
        BY <3>1, <4>1, <4>2, <4>3 DEF TypeOK
    <3>10. CASE Skip(t)
      <4>1. StatusOK'
        BY <3>10 DEF Skip, TypeOK, StatusOK, FailServer
      <4>2. SystemOK'
        BY <3>10 DEF Skip, TypeOK, SystemOK
      <4>3. TasksOK'
        BY <3>10, AdvanceType DEF Skip, TypeOK, Looping
      <4>4. QED
        BY <3>1, <4>1, <4>2, <4>3 DEF TypeOK
    <3>13. CASE SetHealthy(t)
      <4>1. StatusOK'
        BY <3>13 DEF SetHealthy, TypeOK, StatusOK, FailServer
      <4>2. SystemOK'
        BY <3>13 DEF SetHealthy, TypeOK, SystemOK
      <4>3. TasksOK'
        BY <3>13, AdvanceType DEF SetHealthy, TypeOK, Looping
      <4>4. QED
        BY <3>1, <4>1, <4>2, <4>3 DEF TypeOK
    <3>14. CASE TimedOut(t)
      <4>1. StatusOK'
        BY <3>14 DEF TimedOut, TypeOK, StatusOK, FailServer
      <4>2. SystemOK'
        BY <3>14 DEF TimedOut, TypeOK, SystemOK
      <4>3. TasksOK'
        BY <3>14, AdvanceType DEF TimedOut, TypeOK, Looping
      <4>4. QED
        BY <3>1, <4>1, <4>2, <4>3 DEF TypeOK
    <3>6. CASE InstallFails(t)
      <4>1. StatusOK' /\ SystemOK'
        BY <3>6 DEF InstallFails, TypeOK, StatusOK, SystemOK
      <4>2. TasksOK'
        BY <3>6 DEF InstallFails, TypeOK, TasksOK, Goto, Looping, Steps, Ended
      <4>3. QED
        BY <3>1, <4>1, <4>2 DEF TypeOK
    <3>15. QED
      BY <2>2, <3>2, <3>3, <3>4, <3>5, <3>6, <3>7, <3>8, <3>9, <3>10, <3>11, <3>12, <3>13, <3>14, <3>16, <3>17
      DEF ManageStep
  <2>3. CASE InstallNow
    BY <2>3 DEF InstallNow, TypeOK, StatusOK, SystemOK, TasksOK, HandsOK
  <2>4. ASSUME NEW id \in Ids, DeleteModel(id) PROVE TypeOK'
    <3>1. Without(configured, id) \in Seq(Entry)
      BY <2>4, WithoutType DEF DeleteModel, TypeOK
    <3>2. PICK first \in SUBSET children :
            /\ children' = children \ first
            /\ deletion' = [step |-> "kill", id |-> id, edit |-> Without(configured, id),
                            hand |-> first]
      BY <2>4 DEF DeleteModel
    <3>a. UNCHANGED <<configured, installed, known, running, healthy, failed, proc, entryOf, born,
                      pc, plan, at, hand, tasks, deaths, clean, due>>
      BY <2>4 DEF DeleteModel
    <3>b. children \subseteq 1 .. born /\ 1 .. born \subseteq Procs
      BY RuntimeAssumption DEF TypeOK, SystemOK, Procs
    <3>3. first \subseteq 1 .. born /\ first \subseteq Procs /\ children' \subseteq 1 .. born
      BY <3>2, <3>b
    <3>c. SystemOK'
      BY <3>3, <3>a DEF TypeOK, SystemOK
    <3>d. deletion'.hand = first /\ deletion'.step = "kill"
      BY <3>2
    <3>4. HandsOK'
      BY <3>3, <3>a, <3>d DEF TypeOK, HandsOK
    <3>5. QED
      BY <3>1, <3>2, <3>3, <3>4, <3>a, <3>c DEF TypeOK, StatusOK, TasksOK
  <2>11. CASE KillOne
    <3>1. deletion' = [deletion EXCEPT !.step = "forget", !.hand = {}]
      BY <2>11 DEF KillOne
    <3>2. SystemOK'
      BY <2>11, KillType DEF KillOne, TypeOK
    <3>3. deletion'.hand = {}
      BY <3>1 DEF TypeOK
    <3>4. HandsOK'
      BY <2>11, <3>3 DEF KillOne, TypeOK, HandsOK
    <3>5. QED
      BY <2>11, <3>1, <3>2, <3>4 DEF KillOne, TypeOK, StatusOK, TasksOK
  <2>5. CASE Forget
    <3>1. deletion' = [deletion EXCEPT !.step = "reload"] /\ deletion.step = "forget"
      BY <2>5 DEF Forget
    <3>2. StatusOK'
      BY <2>5 DEF Forget, TypeOK, StatusOK
    <3>3. deletion'.hand = {}
      BY <3>1 DEF TypeOK, HandsOK
    <3>4. HandsOK'
      BY <2>5, <3>3 DEF Forget, TypeOK, HandsOK
    <3>5. QED
      BY <2>5, <3>1, <3>2, <3>4 DEF Forget, TypeOK, SystemOK, TasksOK
  <2>6. CASE DeleteReloads
    <3>1. deletion.edit \in Seq(Entry) /\ Store(deletion.edit) /\ deletion' = NoDeletion
      BY <2>6 DEF DeleteReloads, TypeOK
    <3>2. configured' \in Seq(Entry) /\ TasksOK' /\ StatusOK' /\ SystemOK'
      BY <3>1, StoreType
    <3>3. clean' \in BOOLEAN
      BY <3>1 DEF Store
    <3>4. HandsOK'
      BY <3>1, HandsStore DEF NoDeletion
    <3>5. QED
      BY <3>1, <3>2, <3>3, <3>4 DEF TypeOK, Store, NoDeletion
  <2>7. CASE DeleteFails
    <3>1. /\ deletion' = NoDeletion /\ deletion'.hand = {}
          /\ deletion' \in [step: {"idle", "kill", "forget", "reload"}, id: Ids \cup {NoId},
                            edit: Seq(Entry), hand: SUBSET Procs]
      BY <2>7 DEF DeleteFails, NoDeletion
    <3>2. clean' \in BOOLEAN
      BY <2>7 DEF DeleteFails
    <3>3. HandsOK'
      BY <2>7, <3>1 DEF DeleteFails, TypeOK, HandsOK
    <3>4. QED
      BY <2>7, <3>1, <3>2, <3>3 DEF DeleteFails, TypeOK, StatusOK, SystemOK, TasksOK
  <2>8. ASSUME NEW p \in Procs, ProcStep(p) PROVE TypeOK'
    <3>1. SystemOK'
      BY <2>8, ProcType
    <3>2. deaths' \in Nat
      BY <2>8 DEF ProcStep, Serve, PortTaken, Exit, Die, TypeOK
    <3>3. UNCHANGED <<configured, installed, status, task, tasks, deletion, history>>
      BY <2>8 DEF ProcStep, Serve, PortTaken, Exit, Die, Becomes
    <3>4. born' = born
      BY <2>8 DEF ProcStep, Serve, PortTaken, Exit, Die, Becomes
    <3>5. QED
      BY <3>1, <3>2, <3>3, <3>4 DEF TypeOK, StatusOK, TasksOK, HandsOK
  <2>9. CASE UNCHANGED vars
    BY <2>9 DEF vars, TypeOK, StatusOK, SystemOK, TasksOK, HandsOK
  <2>10. QED
    BY <2>1, <2>2, <2>3, <2>4, <2>5, <2>6, <2>7, <2>8, <2>9, <2>11 DEF Next, Quiesced
<1>3. QED
  BY <1>1, <1>2, PTL

(* TypeOK holds: flags only in slots, handles only of spawned processes, loop
   indices within the lists. *)
THEOREM TypeCorrect == Spec => []TypeOK
BY TypeInv DEF Spec

-----------------------------------------------------------------------------
(* Handles. *)

(* A live server's handle is somewhere: in `children`, with a task that has
   spawned it and not yet pushed it, or with a stop that has yet to kill it. *)
InReach(p) ==
  \/ p \in children \/ p \in deletion.hand
  \/ \E t \in Tasks : p \in hand[t]

Owned == \A p \in Procs : proc[p] \in Live => InReach(p)

LEMMA OwnedWhenQuiet ==
  ASSUME Owned, UNCHANGED <<children, hand>>, deletion.hand \subseteq deletion'.hand,
         \A p \in Procs : proc'[p] \in Live => proc[p] \in Live
  PROVE  Owned'
BY DEF Owned, InReach

LEMMA ProcEffect ==
  ASSUME TypeOK, NEW p \in Procs, ProcStep(p)
  PROVE  /\ \A q \in Procs : proc'[q] \in Live => proc[q] \in Live
         /\ UNCHANGED <<configured, installed, status, children, entryOf, born, task, tasks,
                        deletion, history>>
<1>1. PICK s \in {"serving", "dead"} : proc' = [proc EXCEPT ![p] = s]
  BY DEF ProcStep, Serve, PortTaken, Exit, Die, Becomes
<1>2. s = "serving" => proc[p] = "loading"
  BY <1>1 DEF ProcStep, Serve, PortTaken, Exit, Die, Becomes, TypeOK, SystemOK
<1>3. \A q \in Procs : proc'[q] \in Live => proc[q] \in Live
  BY <1>1, <1>2 DEF Live, TypeOK, SystemOK
<1>4. QED
  BY <1>3 DEF ProcStep, Serve, PortTaken, Exit, Die, Becomes

LEMMA OwnedWhenManaged ==
  ASSUME TypeOK, Owned, NEW t \in Tasks, ManageStep(t)
  PROVE  Owned'
<1>0. /\ proc \in [Procs -> Live \cup {"none", "killed", "dead"}]
      /\ hand \in [Tasks -> SUBSET (1 .. born)]
  BY DEF TypeOK, SystemOK, HandsOK
<1>1. CASE Stop(t)
  <2>1. hand[t] = {} /\ hand' = [hand EXCEPT ![t] = children] /\ UNCHANGED <<proc, deletion>>
    BY <1>1 DEF Stop, TypeOK, HandsOK
  <2>2. hand'[t] = children /\ \A s \in Tasks \ {t} : hand'[s] = hand[s]
    BY <1>0, <2>1
  <2>3. QED
    BY <2>1, <2>2 DEF Owned, InReach
<1>2. CASE KillTaken(t)
  <2>1. /\ \A s \in Tasks \ {t} : hand'[s] = hand[s]
        /\ \A p \in Procs : proc'[p] \in Live => proc[p] \in Live /\ p \notin hand[t]
    BY <1>0, <1>2 DEF KillTaken, Kill, Live
  <2>2. QED
    BY <1>2, <2>1 DEF KillTaken, Owned, InReach
<1>3. CASE Spawn(t)
  <2>1. /\ hand[t] = {} /\ hand' = [hand EXCEPT ![t] = {born + 1}]
        /\ proc' = [proc EXCEPT ![born + 1] = "loading"] /\ UNCHANGED <<children, deletion>>
    BY <1>3 DEF Spawn, TypeOK, HandsOK
  <2>2. /\ hand'[t] = {born + 1} /\ \A s \in Tasks \ {t} : hand'[s] = hand[s]
        /\ \A p \in Procs \ {born + 1} : proc'[p] = proc[p]
    BY <1>0, <2>1
  <2>3. QED
    BY <2>1, <2>2 DEF Owned, InReach
<1>4. CASE Push(t)
  <2>1. \A s \in Tasks \ {t} : hand'[s] = hand[s]
    BY <1>0, <1>4 DEF Push
  <2>2. QED
    BY <1>4, <2>1 DEF Push, Owned, InReach
<1>5. CASE ~(Stop(t) \/ KillTaken(t) \/ Push(t) \/ Spawn(t))
  <2>1. UNCHANGED <<children, hand, proc, deletion>>
    BY <1>5 DEF ManageStep, Clear, Begin, Install, InstallFails, Mark, SpawnFails, Skip, Poll,
                Answered, SetHealthy, TimedOut, system
  <2>2. QED
    BY <2>1, OwnedWhenQuiet
<1>6. QED
  BY <1>1, <1>2, <1>3, <1>4, <1>5

LEMMA OwnedInv == Spec => []Owned
<1>1. Init => Owned
  BY DEF Init, Owned, Live
<1>2. TypeOK /\ Owned /\ [Next]_vars => Owned'
  <2> SUFFICES ASSUME TypeOK, Owned, [Next]_vars PROVE Owned'
    OBVIOUS
  <2>1. CASE UNCHANGED <<children, proc, hand>> /\ deletion.hand = {}
    BY <2>1, OwnedWhenQuiet
  <2>2. CASE UNCHANGED <<children, proc, hand, deletion>>
    BY <2>2, OwnedWhenQuiet
  <2>3. ASSUME NEW id \in Ids, DeleteModel(id) PROVE Owned'
    <3>1. PICK first \in SUBSET children :
            /\ children' = children \ first
            /\ deletion' = [step |-> "kill", id |-> id, edit |-> Without(configured, id),
                            hand |-> first]
      BY <2>3 DEF DeleteModel
    <3>2. deletion.hand = {} /\ deletion'.hand = first /\ UNCHANGED <<proc, hand>>
      BY <2>3, <3>1 DEF DeleteModel, TypeOK, HandsOK, task
    <3>3. QED
      BY <3>1, <3>2 DEF Owned, InReach
  <2>4. CASE KillOne
    <3>1. \A p \in Procs : proc'[p] \in Live => proc[p] \in Live /\ p \notin deletion.hand
      BY <2>4 DEF KillOne, Kill, Live
    <3>2. QED
      BY <2>4, <3>1 DEF KillOne, Owned, InReach, task
  <2>5. ASSUME NEW p \in Procs, ProcStep(p) PROVE Owned'
    <3>1. UNCHANGED <<children, hand, deletion>>
      BY <2>5, ProcEffect DEF task
    <3>2. \A q \in Procs : proc'[q] \in Live => proc[q] \in Live
      BY <2>5, ProcEffect
    <3>3. QED
      BY <3>1, <3>2, OwnedWhenQuiet
  <2>6. CASE Forget \/ DeleteReloads \/ DeleteFails
    <3>1. deletion.hand = {} /\ UNCHANGED <<children, proc, hand>>
      BY <2>6 DEF Forget, DeleteReloads, DeleteFails, Store, system, task, TypeOK, HandsOK
    <3>2. QED
      BY <2>1, <3>1
  <2>7. QED
    BY <2>2, <2>3, <2>4, <2>5, <2>6, OwnedWhenManaged
    DEF Next, Reload, Store, InstallNow, Quiesced, vars, system, task
<1>3. QED
  BY <1>1, <1>2, TypeCorrect, PTL DEF Spec

(* What a stop has to reach it has taken, or will take from `children`. *)
DueReached ==
  \A t \in Tasks :
    /\ pc[t] = "idle" => due[t] = {}
    /\ \A p \in due[t] :
         proc[p] \in Live => p \in Doomed \/ (pc[t] = "stop" /\ p \in children)

(* A step after which no more servers live, and whatever was to be killed, or
   was in children, still is unless it is dead. *)
LEMMA DueWhenKept ==
  ASSUME TypeOK, DueReached, UNCHANGED due,
         \A t \in Tasks : (pc'[t] = "idle" => pc[t] = "idle") /\ (pc[t] = "stop" => pc'[t] = "stop"),
         \A p \in 1 .. born : proc'[p] \in Live =>
           /\ proc[p] \in Live
           /\ p \in Doomed => p \in Doomed'
           /\ p \in children => p \in children' \/ p \in Doomed'
  PROVE  DueReached'
<1> SUFFICES ASSUME NEW t \in Tasks
             PROVE  /\ pc'[t] = "idle" => due[t] = {}
                    /\ \A p \in due[t] : proc'[p] \in Live =>
                         p \in Doomed' \/ (pc'[t] = "stop" /\ p \in children')
  BY DEF DueReached
<1>1. due[t] \subseteq 1 .. born
  BY DEF TypeOK, HandsOK
<1>2. QED
  BY <1>1 DEF DueReached

LEMMA DueWhenManaged ==
  ASSUME TypeOK, DueReached, NEW t \in Tasks, ManageStep(t)
  PROVE  DueReached'
<1>0. /\ proc \in [Procs -> Live \cup {"none", "killed", "dead"}] /\ born \in Nat
      /\ hand \in [Tasks -> SUBSET (1 .. born)] /\ pc \in [Tasks -> Steps]
      /\ 1 .. born \subseteq Procs
  BY RuntimeAssumption DEF TypeOK, SystemOK, HandsOK, TasksOK, Procs
<1>a. PICK step \in Steps \ {"idle", "stop"} : pc' = [pc EXCEPT ![t] = step]
  BY DEF ManageStep, Stop, KillTaken, Clear, Begin, Install, InstallFails, Spawn, Push, Mark,
     SpawnFails, Skip, Poll, Answered, SetHealthy, TimedOut, Goto, Advance, Steps, Looping, Ended
<1>b. /\ pc'[t] = step /\ \A s \in Tasks \ {t} : pc'[s] = pc[s]
      /\ UNCHANGED <<due, deletion>> /\ pc[t] # "idle"
  BY <1>0, <1>a DEF ManageStep, Stop, KillTaken, Clear, Begin, Install, InstallFails, Spawn, Push,
     Mark, SpawnFails, Skip, Poll, Answered, SetHealthy, TimedOut, history
<1>1. CASE Stop(t)
  <2>1. /\ hand'[t] = children /\ \A s \in Tasks \ {t} : hand'[s] = hand[s]
        /\ hand[t] = {} /\ pc'[t] = "kill" /\ proc' = proc
    BY <1>0, <1>1 DEF Stop, Goto, TypeOK, HandsOK
  <2>2. \A p : p \in Doomed \/ p \in children => p \in Doomed'
    BY <1>b, <2>1 DEF Doomed
  <2>3. QED
    BY <1>b, <2>1, <2>2 DEF DueReached
<1>2. CASE KillTaken(t)
  <2>1. /\ \A s \in Tasks \ {t} : hand'[s] = hand[s]
        /\ \A p \in Procs : proc'[p] \in Live => proc[p] \in Live /\ p \notin hand[t]
        /\ children' = children /\ pc[t] = "kill"
    BY <1>0, <1>2 DEF KillTaken, Kill, Live
  <2>2. \A p \in Procs : proc'[p] \in Live /\ p \in Doomed => p \in Doomed'
    BY <1>b, <2>1 DEF Doomed
  <2>3. QED
    BY <1>0, <1>b, <2>1, <2>2, DueWhenKept
<1>3. CASE Push(t) \/ Spawn(t)
  <2>1. /\ pc[t] \in {"spawn", "push"} /\ pc'[t] \in {"push", "mark"}
        /\ \A s \in Tasks \ {t} : hand'[s] = hand[s]
        /\ children \subseteq children'
    BY <1>0, <1>3 DEF Push, Spawn, Goto
  <2>2. \A p \in 1 .. born : proc'[p] = proc[p]
    BY <1>0, <1>3 DEF Push, Spawn
  <2>3. \A p : p \in Doomed => p \in Doomed'
    BY <1>b, <2>1 DEF Doomed
  <2>4. QED
    BY <1>b, <2>1, <2>2, <2>3, DueWhenKept
<1>4. CASE ~(Stop(t) \/ KillTaken(t) \/ Push(t) \/ Spawn(t))
  <2>1. UNCHANGED <<children, hand, proc>> /\ pc[t] \notin {"stop", "kill"}
    BY <1>4 DEF ManageStep, Clear, Begin, Install, InstallFails, Mark, SpawnFails, Skip, Poll,
                Answered, SetHealthy, TimedOut, system
  <2>2. \A p : p \in Doomed => p \in Doomed'
    BY <1>b, <2>1 DEF Doomed
  <2>3. QED
    BY <1>b, <2>1, <2>2, DueWhenKept
<1>5. QED
  BY <1>1, <1>2, <1>3, <1>4

LEMMA DueWhenStored ==
  ASSUME TypeOK, DueReached, NEW c, Store(c), deletion'.hand = deletion.hand
  PROVE  DueReached'
<1>1. /\ tasks \in Tasks /\ pc[tasks] = "idle" /\ pc \in [Tasks -> Steps]
      /\ due \in [Tasks -> SUBSET (1 .. born)]
  BY RuntimeAssumption DEF Store, TypeOK, TasksOK, HandsOK, Tasks
<1>2. /\ pc' = [pc EXCEPT ![tasks] = "stop"] /\ due' = [due EXCEPT ![tasks] = children]
      /\ UNCHANGED <<hand, proc, children>>
  BY DEF Store, system
<1>3. /\ pc'[tasks] = "stop" /\ due'[tasks] = children
      /\ \A s \in Tasks \ {tasks} : pc'[s] = pc[s] /\ due'[s] = due[s]
  BY <1>1, <1>2
<1>4. \A p : p \in Doomed => p \in Doomed'
  BY <1>1, <1>2, <1>3 DEF Doomed
<1>5. QED
  BY <1>1, <1>2, <1>3, <1>4 DEF DueReached

LEMMA DueInv == Spec => []DueReached
<1>1. Init => DueReached
  BY DEF Init, DueReached, Tasks
<1>2. TypeOK /\ DueReached /\ [Next]_vars => DueReached'
  <2> SUFFICES ASSUME TypeOK, DueReached, [Next]_vars PROVE DueReached'
    OBVIOUS
  <2>0. 1 .. born \subseteq Procs
    BY RuntimeAssumption DEF TypeOK, SystemOK, Procs
  <2>1. CASE UNCHANGED <<children, proc, hand, pc, due>> /\ deletion.hand = deletion'.hand
    <3>1. \A p : p \in Doomed => p \in Doomed'
      BY <2>1 DEF Doomed
    <3>2. QED
      BY <2>1, <3>1, DueWhenKept
  <2>2. ASSUME NEW id \in Ids, DeleteModel(id) PROVE DueReached'
    <3>1. PICK first \in SUBSET children :
            /\ children' = children \ first
            /\ deletion' = [step |-> "kill", id |-> id, edit |-> Without(configured, id),
                            hand |-> first]
      BY <2>2 DEF DeleteModel
    <3>2. deletion.hand = {} /\ deletion'.hand = first /\ UNCHANGED <<proc, hand, pc, due>>
      BY <2>2, <3>1 DEF DeleteModel, TypeOK, HandsOK, task, history
    <3>3. /\ \A p : p \in Doomed => p \in Doomed'
          /\ \A p : p \in children => p \in children' \/ p \in Doomed'
      <4>1. \A p : p \in Doomed => \E t \in Tasks : pc[t] = "kill" /\ p \in hand[t]
        BY <3>2 DEF Doomed
      <4>2. \A p : (\E t \in Tasks : pc[t] = "kill" /\ p \in hand[t]) => p \in Doomed'
        BY <3>2 DEF Doomed
      <4>3. first \subseteq Doomed'
        <5>1. deletion'.hand \subseteq Doomed'
          BY Zenon DEF Doomed
        <5>2. QED
          BY <3>2, <5>1
      <4>4. QED
        BY <3>1, <4>1, <4>2, <4>3
    <3>4. QED
      BY <3>2, <3>3, DueWhenKept
  <2>3. CASE KillOne
    <3>1. /\ \A p \in Procs : proc'[p] \in Live => proc[p] \in Live /\ p \notin deletion.hand
          /\ UNCHANGED <<children, hand, pc, due>>
      BY <2>3 DEF KillOne, Kill, Live, task, history
    <3>2. \A p \in Procs : proc'[p] \in Live /\ p \in Doomed => p \in Doomed'
      <4>1. \A p : p \in Doomed =>
              p \in deletion.hand \/ \E t \in Tasks : pc[t] = "kill" /\ p \in hand[t]
        BY Zenon DEF Doomed
      <4>2. \A p : (\E t \in Tasks : pc[t] = "kill" /\ p \in hand[t]) => p \in Doomed'
        BY <3>1 DEF Doomed
      <4>3. QED
        BY <3>1, <4>1, <4>2
    <3>3. QED
      BY <2>0, <3>1, <3>2, DueWhenKept
  <2>4. ASSUME NEW p \in Procs, ProcStep(p) PROVE DueReached'
    <3>1. UNCHANGED <<children, hand, pc, due, deletion>>
      BY <2>4, ProcEffect DEF task, history
    <3>2. \A q \in Procs : proc'[q] \in Live => proc[q] \in Live
      BY <2>4, ProcEffect
    <3>3. \A q : q \in Doomed => q \in Doomed'
      BY <3>1 DEF Doomed
    <3>4. QED
      BY <2>0, <3>1, <3>2, <3>3, DueWhenKept
  <2>5. CASE Forget
    <3>1. deletion'.hand = deletion.hand
      BY <2>5 DEF Forget, TypeOK
    <3>2. QED
      BY <2>1, <2>5, <3>1 DEF Forget, system, task, history
  <2>6. CASE DeleteFails
    <3>1. deletion'.hand = deletion.hand
      BY <2>6 DEF DeleteFails, NoDeletion, TypeOK, HandsOK
    <3>2. QED
      BY <2>1, <2>6, <3>1 DEF DeleteFails, system, task
  <2>7. CASE DeleteReloads
    <3>1. deletion'.hand = deletion.hand
      BY <2>7 DEF DeleteReloads, NoDeletion, TypeOK, HandsOK
    <3>2. QED
      BY <2>7, <3>1, DueWhenStored DEF DeleteReloads
  <2>8. QED
    BY <2>1, <2>2, <2>3, <2>4, <2>5, <2>6, <2>7, DueWhenManaged, DueWhenStored
    DEF Next, Reload, InstallNow, Quiesced, vars, system, task, history
<1>3. QED
  BY <1>1, <1>2, TypeCorrect, PTL DEF Spec

(* StopStopsAll: a server whose handle was kept when a reload came is dead once
   that reload's stop is over, or another stop is about to kill it; however many
   tasks and deletions overlap. *)
THEOREM StopReachesAll == Spec => []StopStopsAll
<1>1. DueReached => StopStopsAll
  BY DEF DueReached, StopStopsAll
<1>2. QED
  BY <1>1, DueInv, PTL

-----------------------------------------------------------------------------
(* One server per entry. *)

(* Server lists come from the configuration, and the last task has that. *)
ListsOK ==
  /\ Valid(configured) /\ Valid(deletion.edit)
  /\ plan[tasks - 1] = configured

LEMMA ListsInv == Spec => []ListsOK
<1>1. Init => ListsOK
  BY RuntimeAssumption DEF Init, ListsOK, NoDeletion, Valid, Tasks
<1>2. TypeOK /\ ListsOK /\ [Next]_vars => ListsOK'
  <2> SUFFICES ASSUME TypeOK, ListsOK, [Next]_vars PROVE ListsOK'
    OBVIOUS
  <2>1. CASE UNCHANGED <<configured, plan, tasks, deletion>>
    BY <2>1 DEF ListsOK
  <2>2. ASSUME NEW c \in Seq(Entry), Valid(c), Store(c), Valid(deletion'.edit) PROVE ListsOK'
    <3>1. tasks \in Tasks /\ tasks' - 1 = tasks /\ plan' = [plan EXCEPT ![tasks] = c]
      BY <2>2, RuntimeAssumption DEF Store, TypeOK, TasksOK, Tasks
    <3>2. plan'[tasks' - 1] = c
      BY <3>1 DEF TypeOK, TasksOK
    <3>3. QED
      BY <2>2, <3>2 DEF ListsOK, Store
  <2>3. ASSUME NEW c \in Configs, Reload(c) PROVE ListsOK'
    BY <2>2, <2>3, RuntimeAssumption DEF Reload, ListsOK
  <2>4. CASE DeleteReloads
    <3>1. deletion.edit \in Seq(Entry) /\ Valid(deletion.edit)
      BY DEF TypeOK, ListsOK
    <3>2. Valid(deletion'.edit)
      BY <2>4 DEF DeleteReloads, NoDeletion, Valid
    <3>3. QED
      BY <2>2, <2>4, <3>1, <3>2 DEF DeleteReloads
  <2>5. ASSUME NEW id \in Ids, DeleteModel(id) PROVE ListsOK'
    <3>1. Valid(Without(configured, id))
      BY <2>5, WithoutType DEF DeleteModel, TypeOK, ListsOK
    <3>2. deletion'.edit = Without(configured, id)
      BY <2>5 DEF DeleteModel
    <3>3. QED
      BY <2>5, <3>1, <3>2 DEF DeleteModel, ListsOK, task
  <2>6. CASE Forget \/ KillOne
    <3>1. deletion'.edit = deletion.edit
      BY <2>6 DEF Forget, KillOne, TypeOK
    <3>2. QED
      BY <2>6, <3>1 DEF Forget, KillOne, ListsOK, task
  <2>7. CASE DeleteFails
    <3>1. Valid(deletion'.edit)
      BY <2>7 DEF DeleteFails, NoDeletion, Valid
    <3>2. QED
      BY <2>7, <3>1 DEF DeleteFails, ListsOK, task
  <2>8. QED
    BY <2>1, <2>3, <2>4, <2>5, <2>6, <2>7
    DEF Next, ManageStep, Stop, Clear, Begin, Install, InstallFails, Spawn, Mark, SpawnFails,
        Skip, Poll, Answered, SetHealthy, TimedOut, InstallNow, KillTaken, Push, ProcStep, Serve,
        PortTaken, Exit, Die, Becomes, Quiesced, vars, task
<1>3. QED
  BY <1>1, <1>2, TypeCorrect, PTL DEF Spec

(* The entries a task may have spawned a server for. *)
Turns(t) ==
  IF pc[t] \in {"clear", "begin", "install", "aborted"} THEN {}
  ELSE IF pc[t] = "spawn" THEN 1 .. at[t] - 1
  ELSE IF pc[t] \in {"push", "mark"} THEN 1 .. at[t]
  ELSE DOMAIN plan[t]

(* The live servers, but for one a deletion is about to kill. *)
Staying == {p \in Procs : proc[p] \in Live /\ p \notin deletion.hand}

LiveAreOf(t) ==
  /\ \A p \in Staying : \E i \in Turns(t) : entryOf[p] = configured[i]
  /\ \A p, q \in Staying : entryOf[p] = entryOf[q] => p = q

(* As long as no two tasks have overlapped, the last one is alone, and once it
   has stopped the servers of before, those that run are its own. *)
Orderly ==
  clean =>
    /\ \A t \in Tasks : t < tasks - 1 => pc[t] \in Ended
    /\ pc[tasks - 1] = "kill" => Staying \subseteq hand[tasks - 1]
    /\ pc[tasks - 1] \notin {"stop", "kill"} => LiveAreOf(tasks - 1)

LEMMA OrderlyWhenFewer ==
  ASSUME Orderly, Staying' \subseteq Staying,
         UNCHANGED <<entryOf, pc, at, hand, plan, tasks, configured, clean>>
  PROVE  Orderly'
<1>1. \A t : LiveAreOf(t) => LiveAreOf(t)'
  BY DEF LiveAreOf, Turns
<1>2. QED
  BY <1>1 DEF Orderly

LEMMA LastIsAlone ==
  ASSUME TypeOK, Orderly, clean, NEW t \in Tasks, pc[t] # "idle", pc[t] \notin Ended
  PROVE  t = tasks - 1
<1>1. t < tasks /\ t \in Nat /\ tasks \in Nat
  BY DEF TypeOK, TasksOK, Tasks
<1>2. ~(t < tasks - 1)
  BY DEF Orderly
<1>3. QED
  BY <1>1, <1>2

LEMMA OrderlyWhenOn ==
  ASSUME TypeOK, ListsOK, Orderly, NEW t \in Tasks, pc[t] \notin {"idle", "stop", "kill"},
         pc[t] \notin Ended, pc'[t] \notin {"stop", "kill"}, \A s \in Tasks \ {t} : pc'[s] = pc[s],
         Turns(t) \subseteq Turns(t)',
         UNCHANGED <<proc, entryOf, tasks, configured, deletion, clean>>
  PROVE  Orderly'
<1> SUFFICES ASSUME clean PROVE Orderly'
  BY DEF Orderly
<1>1. t = tasks - 1
  BY LastIsAlone
<1>2. LiveAreOf(t)
  BY <1>1 DEF Orderly
<1>3. LiveAreOf(t)'
  BY <1>2 DEF LiveAreOf, Staying
<1>4. \A s \in Tasks : s < tasks' - 1 => pc'[s] \in Ended
  BY <1>1 DEF Orderly, TypeOK, TasksOK, Tasks
<1>5. QED
  BY <1>1, <1>3, <1>4 DEF Orderly

LEMMA OrderlyWhenSpawned ==
  ASSUME TypeOK, ListsOK, Orderly, NEW t \in Tasks, Spawn(t)
  PROVE  Orderly'
<1> SUFFICES ASSUME clean PROVE Orderly'
  BY DEF Orderly, Spawn, history
<1>1. t = tasks - 1 /\ plan[t] = configured
  BY LastIsAlone DEF Spawn, Ended, ListsOK
<1>2. /\ at[t] \in 1 .. Len(configured) /\ at[t] \in Nat /\ Len(configured) \in Nat
      /\ configured \in Seq(Entry) /\ pc[t] = "spawn"
  BY <1>1 DEF Spawn, TypeOK, TasksOK, Looping
<1>3. LiveAreOf(t)
  BY <1>1, <1>2 DEF Orderly
<1>4. Turns(t) = 1 .. at[t] - 1 /\ Turns(t)' = 1 .. at[t]
  BY <1>2 DEF Turns, Spawn, Goto, TypeOK, TasksOK
<1>5. born + 1 \in Procs /\ proc[born + 1] = "none"
  BY RuntimeAssumption DEF Spawn, TypeOK, SystemOK, Procs
<1>6. /\ proc' = [proc EXCEPT ![born + 1] = "loading"]
      /\ entryOf' = [entryOf EXCEPT ![born + 1] = configured[at[t]]]
      /\ configured' = configured
  BY <1>1 DEF Spawn, Current
<1>7. /\ \A p \in Procs \ {born + 1} : proc'[p] = proc[p] /\ entryOf'[p] = entryOf[p]
      /\ entryOf'[born + 1] = configured[at[t]]
  BY <1>5, <1>6 DEF TypeOK, SystemOK
<1>a. Staying' \ {born + 1} = Staying \ {born + 1} /\ born + 1 \in Procs /\ Staying' \subseteq Procs
  BY <1>5, <1>7 DEF Staying, Spawn
<1>8. \A p \in Staying' : \E i \in 1 .. at[t] : entryOf'[p] = configured[i]
  <2>1. 1 .. at[t] - 1 \subseteq 1 .. at[t] /\ at[t] \in 1 .. at[t]
    BY <1>2
  <2>2. QED
    BY <1>3, <1>4, <1>7, <1>a, <2>1 DEF LiveAreOf
<1>b. born + 1 \notin Staying
  BY <1>5 DEF Staying, Live
<1>9. \A p \in Staying : entryOf[p] # configured[at[t]]
  <2> SUFFICES ASSUME NEW p \in Staying PROVE entryOf[p] # configured[at[t]]
    OBVIOUS
  <2>1. PICK i \in 1 .. at[t] - 1 : entryOf[p] = configured[i]
    BY <1>3, <1>4 DEF LiveAreOf
  <2>2. i \in DOMAIN configured /\ at[t] \in DOMAIN configured /\ i # at[t]
    BY <1>2
  <2>3. configured[i].id # configured[at[t]].id
    BY <2>2 DEF ListsOK, Valid
  <2>4. QED
    BY <2>1, <2>3
<1>10. \A p, q \in Staying' : entryOf'[p] = entryOf'[q] => p = q
  <2> SUFFICES ASSUME NEW p \in Staying', NEW q \in Staying', entryOf'[p] = entryOf'[q] PROVE p = q
    OBVIOUS
  <2>1. p \in Procs /\ q \in Procs
    BY <1>a
  <2>2. CASE p # born + 1 /\ q # born + 1
    BY <1>3, <1>7, <1>a, <2>1, <2>2 DEF LiveAreOf
  <2>3. CASE p = born + 1 /\ q # born + 1
    BY <1>7, <1>9, <1>a, <2>1, <2>3
  <2>4. CASE p # born + 1 /\ q = born + 1
    BY <1>7, <1>9, <1>a, <2>1, <2>4
  <2>5. QED
    BY <2>2, <2>3, <2>4
<1>11. LiveAreOf(t)'
  BY <1>4, <1>6, <1>8, <1>10 DEF LiveAreOf
<1>12. tasks' = tasks /\ pc'[t] = "push" /\ \A s \in Tasks \ {t} : pc'[s] = pc[s]
  BY DEF Spawn, Goto, TypeOK, TasksOK
<1>13. \A s \in Tasks : s < tasks' - 1 => pc'[s] \in Ended
  BY <1>1, <1>12 DEF Orderly, TypeOK, TasksOK, Tasks
<1>14. QED
  BY <1>1, <1>11, <1>12, <1>13 DEF Orderly

LEMMA OrderlyWhenStopped ==
  ASSUME TypeOK, Owned, Orderly, NEW t \in Tasks, Stop(t)
  PROVE  Orderly'
<1> SUFFICES ASSUME clean PROVE Orderly'
  BY DEF Orderly, Stop, history
<1>1. t = tasks - 1
  BY LastIsAlone DEF Stop, Ended
<1>2. /\ tasks' = tasks /\ pc'[t] = "kill" /\ \A s \in Tasks \ {t} : pc'[s] = pc[s]
      /\ hand'[t] = children /\ UNCHANGED <<proc, deletion>>
  BY DEF Stop, Goto, TypeOK, TasksOK, HandsOK
<1>3. \A s \in Tasks : s < tasks' - 1 => pc'[s] \in Ended
  BY <1>1, <1>2 DEF Orderly, TypeOK, TasksOK, Tasks
<1>4. \A s \in Tasks : hand[s] = {}
  <2> SUFFICES ASSUME NEW s \in Tasks, hand[s] # {} PROVE FALSE
    OBVIOUS
  <2>1. pc[s] \in {"kill", "push"} /\ pc[t] = "stop"
    BY DEF TypeOK, HandsOK, Stop
  <2>2. s = t
    BY <1>1, <2>1, LastIsAlone DEF Ended
  <2>3. QED
    BY <2>1, <2>2
<1>5. Staying' \subseteq hand'[t]
  BY <1>2, <1>4 DEF Staying, Owned, InReach
<1>6. QED
  BY <1>1, <1>2, <1>3, <1>5 DEF Orderly

LEMMA OrderlyWhenKilled ==
  ASSUME TypeOK, Orderly, NEW t \in Tasks, KillTaken(t)
  PROVE  Orderly'
<1> SUFFICES ASSUME clean PROVE Orderly'
  BY DEF Orderly, KillTaken, history
<1>1. t = tasks - 1
  BY LastIsAlone DEF KillTaken, Ended
<1>2. /\ tasks' = tasks /\ pc[t] = "kill" /\ pc'[t] = "clear"
      /\ \A s \in Tasks \ {t} : pc'[s] = pc[s]
      /\ Kill(hand[t]) /\ deletion' = deletion
  BY DEF KillTaken, Goto, TypeOK, TasksOK
<1>3. \A s \in Tasks : s < tasks' - 1 => pc'[s] \in Ended
  BY <1>1, <1>2 DEF Orderly, TypeOK, TasksOK, Tasks
<1>4. Staying \subseteq hand[t]
  BY <1>1, <1>2 DEF Orderly
<1>5. Staying' = {}
  BY <1>2, <1>4 DEF Staying, Kill, Live
<1>6. LiveAreOf(t)'
  BY <1>5 DEF LiveAreOf
<1>7. QED
  BY <1>1, <1>2, <1>3, <1>6 DEF Orderly

LEMMA OrderlyWhenStored ==
  ASSUME TypeOK, Orderly, NEW c, Store(c)
  PROVE  Orderly'
<1>1. clean' => \A t \in Tasks : t < tasks => pc[t] \in Ended
  BY Zenon DEF Store
<1>2. /\ tasks \in Tasks /\ tasks' - 1 = tasks /\ tasks \in Nat
      /\ pc' = [pc EXCEPT ![tasks] = "stop"]
  BY RuntimeAssumption DEF Store, TypeOK, TasksOK, Tasks
<1>3. pc'[tasks] = "stop" /\ \A t \in Tasks : t < tasks => pc'[t] = pc[t]
  BY <1>2 DEF TypeOK, TasksOK, Tasks
<1>4. QED
  BY <1>1, <1>2, <1>3 DEF Orderly

LEMMA AdvanceTurns ==
  ASSUME TypeOK, NEW t \in Tasks, NEW step, NEW after, Advance(t, step, after), UNCHANGED plan,
         \/ pc[t] \in {"spawn", "mark"} /\ step = "spawn" /\ after = "health"
         \/ pc[t] \in {"health", "poll", "answered"} /\ step = "health" /\ after = "done"
  PROVE  /\ Turns(t) \subseteq Turns(t)' /\ pc'[t] \notin {"stop", "kill"}
         /\ \A s \in Tasks \ {t} : pc'[s] = pc[s]
<1>1. /\ pc \in [Tasks -> Steps] /\ at \in [Tasks -> Nat] /\ plan[t] \in Seq(Entry)
      /\ at[t] \in 1 .. Len(plan[t]) /\ Len(plan[t]) \in Nat
  BY DEF TypeOK, TasksOK, Looping
<1>2. \A s \in Tasks \ {t} : pc'[s] = pc[s]
  BY <1>1 DEF Advance, Goto
<1>3. CASE at[t] = Len(plan[t])
  <2>1. pc'[t] = after
    BY <1>1, <1>3 DEF Advance, Goto
  <2>2. Turns(t)' = 1 .. Len(plan[t])
    BY <1>1, <2>1 DEF Turns
  <2>3. Turns(t) \subseteq 1 .. Len(plan[t])
    BY <1>1 DEF Turns
  <2>4. QED
    BY <1>2, <2>1, <2>2, <2>3
<1>4. CASE at[t] # Len(plan[t])
  <2>1. pc'[t] = step /\ at'[t] = at[t] + 1
    BY <1>1, <1>4 DEF Advance, Goto
  <2>2. CASE step = "spawn"
    <3>1. Turns(t)' = 1 .. at[t] + 1 - 1
      BY <1>1, <2>1, <2>2 DEF Turns
    <3>2. Turns(t) = 1 .. at[t] - 1 \/ Turns(t) = 1 .. at[t]
      BY <2>2 DEF Turns
    <3>3. QED
      BY <1>1, <1>2, <2>1, <2>2, <3>1, <3>2
  <2>3. CASE step = "health"
    <3>1. Turns(t)' = DOMAIN plan[t] /\ Turns(t) = DOMAIN plan[t]
      BY <2>1, <2>3 DEF Turns
    <3>2. QED
      BY <1>2, <2>1, <2>3, <3>1
  <2>4. QED
    BY <2>2, <2>3
<1>5. QED
  BY <1>3, <1>4

LEMMA OrderlyInv == Spec => []Orderly
<1>1. Init => Orderly
  BY DEF Init, Orderly, LiveAreOf, Staying, Live, Tasks
<1>2. TypeOK /\ Owned /\ ListsOK /\ Orderly /\ [Next]_vars => Orderly'
  <2> SUFFICES ASSUME TypeOK, Owned, ListsOK, Orderly, [Next]_vars PROVE Orderly'
    OBVIOUS
  <2>1. ASSUME NEW t \in Tasks, ManageStep(t) PROVE Orderly'
    <3>1. CASE Stop(t)
      BY <3>1, OrderlyWhenStopped
    <3>2. CASE Spawn(t)
      BY <3>2, OrderlyWhenSpawned
    <3>6. CASE KillTaken(t)
      BY <3>6, OrderlyWhenKilled
    <3>3. CASE Push(t) \/ Clear(t) \/ Begin(t) \/ Install(t) \/ InstallFails(t) \/ Poll(t) \/ Answered(t)
      <4>1. /\ pc[t] \notin Ended /\ pc[t] \notin {"idle", "stop", "kill"}
            /\ UNCHANGED <<proc, entryOf, plan, at, tasks, configured, deletion, clean>>
        BY <3>3 DEF Push, Clear, Begin, Install, InstallFails, Poll, Answered, Ended, system, history
      <4>2. PICK step \in Steps \ {"stop", "kill"} :
              /\ pc' = [pc EXCEPT ![t] = step]
              /\ \/ pc[t] \in {"health", "poll"} /\ step \in {"poll", "answered"}
                 \/ pc[t] = "push" /\ step = "mark"
                 \/ pc[t] \in {"clear", "begin", "install"}
        BY <3>3 DEF Push, Clear, Begin, Install, InstallFails, Poll, Answered, Goto, Steps, Looping, Ended
      <4>3. pc'[t] = step /\ \A s \in Tasks \ {t} : pc'[s] = pc[s]
        BY <4>2 DEF TypeOK, TasksOK
      <4>4. Turns(t) \subseteq Turns(t)'
        BY <4>1, <4>2, <4>3 DEF Turns
      <4>5. QED
        BY <4>1, <4>2, <4>3, <4>4, OrderlyWhenOn
    <3>4. CASE Mark(t) \/ SpawnFails(t) \/ Skip(t) \/ SetHealthy(t) \/ TimedOut(t)
      <4>1. /\ pc[t] \notin Ended /\ pc[t] \notin {"idle", "stop", "kill"}
            /\ UNCHANGED <<proc, entryOf, plan, tasks, configured, deletion, clean>>
        BY <3>4 DEF Mark, SpawnFails, Skip, SetHealthy, TimedOut, Ended, system, history
      <4>2. \/ pc[t] \in {"spawn", "mark"} /\ Advance(t, "spawn", "health")
            \/ pc[t] \in {"health", "poll", "answered"} /\ Advance(t, "health", "done")
        BY <3>4 DEF Mark, SpawnFails, Skip, SetHealthy, TimedOut
      <4>3. /\ Turns(t) \subseteq Turns(t)' /\ pc'[t] \notin {"stop", "kill"}
            /\ \A s \in Tasks \ {t} : pc'[s] = pc[s]
        BY <4>1, <4>2, AdvanceTurns
      <4>4. QED
        BY <4>1, <4>3, OrderlyWhenOn
    <3>5. QED
      BY <2>1, <3>1, <3>2, <3>3, <3>4, <3>6 DEF ManageStep
  <2>2. ASSUME NEW id \in Ids, DeleteModel(id) PROVE Orderly'
    <3>1. deletion.hand = {} /\ proc' = proc
      BY <2>2 DEF DeleteModel, TypeOK, HandsOK
    <3>2. Staying' \subseteq Staying
      BY <3>1 DEF Staying
    <3>3. UNCHANGED <<entryOf, pc, at, hand, plan, tasks, configured, clean>>
      BY <2>2 DEF DeleteModel, task, history
    <3>4. QED
      BY <3>2, <3>3, OrderlyWhenFewer
  <2>7. CASE KillOne
    <3>1. \A p \in Procs : proc'[p] \in Live => proc[p] \in Live /\ p \notin deletion.hand
      BY <2>7 DEF KillOne, Kill, Live
    <3>2. Staying' \subseteq Staying
      BY <3>1 DEF Staying
    <3>3. UNCHANGED <<entryOf, pc, at, hand, plan, tasks, configured, clean>>
      BY <2>7 DEF KillOne, task, history
    <3>4. QED
      BY <3>2, <3>3, OrderlyWhenFewer
  <2>3. ASSUME NEW p \in Procs, ProcStep(p) PROVE Orderly'
    <3>1. /\ \A q \in Procs : proc'[q] \in Live => proc[q] \in Live
          /\ UNCHANGED <<entryOf, pc, at, hand, plan, tasks, configured, deletion, clean>>
      BY <2>3, ProcEffect DEF task, history
    <3>2. Staying' \subseteq Staying
      BY <3>1 DEF Staying
    <3>3. QED
      BY <3>1, <3>2, OrderlyWhenFewer
  <2>4. CASE DeleteFails
    BY <2>4 DEF DeleteFails, Orderly
  <2>5. CASE /\ UNCHANGED <<proc, entryOf, pc, at, hand, plan, tasks, configured, clean>>
             /\ deletion'.hand = deletion.hand
    <3>1. Staying' = Staying
      BY <2>5 DEF Staying
    <3>2. QED
      BY <2>5, <3>1, OrderlyWhenFewer
  <2>8. CASE Forget
    <3>1. deletion'.hand = deletion.hand
      BY <2>8 DEF Forget, TypeOK
    <3>2. QED
      BY <2>5, <2>8, <3>1 DEF Forget, system, task, history
  <2>6. QED
    BY <2>1, <2>2, <2>3, <2>4, <2>5, <2>7, <2>8, OrderlyWhenStored
    DEF Next, Reload, DeleteReloads, InstallNow, Quiesced, vars, system, task, history
<1>3. QED
  BY <1>1, <1>2, TypeCorrect, OwnedInv, ListsInv, PTL DEF Spec

(* OneServerPerEntry: after reloads that did not overlap, only the servers of
   the configuration in force run, one for each entry. *)
THEOREM OnlyConfiguredRun == Spec => []OneServerPerEntry
<1>1. TypeOK /\ ListsOK /\ Orderly => OneServerPerEntry
  <2> SUFFICES ASSUME TypeOK, ListsOK, Orderly, Settled, clean PROVE OnlyConfigured
    BY DEF OneServerPerEntry
  <2>1. tasks - 1 \in Tasks /\ tasks - 1 < tasks
    BY RuntimeAssumption DEF TypeOK, TasksOK, Tasks
  <2>2. pc[tasks - 1] \in Ended
    BY <2>1 DEF Settled
  <2>3. LiveAreOf(tasks - 1)
    BY <2>2 DEF Orderly, Ended
  <2>a. \A p \in Procs : proc[p] \in Live => p \in Staying
    BY DEF Settled, NoDeletion, Staying
  <2>4. Turns(tasks - 1) \subseteq DOMAIN configured
    BY <2>2 DEF Turns, Ended, ListsOK
  <2>5. QED
    BY <2>3, <2>4, <2>a DEF LiveAreOf, OnlyConfigured, Range
<1>2. QED
  BY <1>1, TypeCorrect, ListsInv, OrderlyInv, PTL

-----------------------------------------------------------------------------
(* What the console shows. *)

Serves(e) == \E p \in Procs : proc[p] = "serving" /\ entryOf[p] = e

(* What is shown of entry i of the list of task t, as the loops of t go on. *)
Shown(t, i) ==
  LET id == plan[t][i].id IN
  /\ pc[t] \in {"install", "spawn", "push", "mark"} =>
       /\ id \notin healthy
       /\ IF i < at[t] THEN id \in running <=> id \notin failed
          ELSE id \notin running /\ id \notin failed
  /\ pc[t] \in {"health", "poll", "answered"} =>
       IF i < at[t] THEN id \in healthy <=> id \notin failed
       ELSE id \notin healthy /\ (id \in running <=> id \notin failed)
  /\ pc[t] = "done" => (id \in healthy <=> id \notin failed)
  /\ pc[t] \in Looping \cup {"done"} /\ id \in healthy => Serves(plan[t][i])

Tally(t) ==
  /\ pc[t] \in Looping => known = IdsOf(plan[t])
  /\ pc[t] \in {"poll", "answered"} => Current(t).id \in running
  /\ pc[t] = "answered" => Serves(Current(t))
  /\ \A i \in DOMAIN plan[t] : Shown(t, i)

(* As long as the tasks do not overlap, no process dies of itself and no
   deletion is under way, the flags tell how far the last task has come. *)
Honest == clean /\ deaths = 0 /\ deletion = NoDeletion => Tally(tasks - 1)

LEMMA ServesOn ==
  ASSUME \A p \in Procs : proc[p] = "serving" => proc'[p] = "serving" /\ entryOf'[p] = entryOf[p],
         NEW e, Serves(e)
  PROVE  Serves(e)'
BY DEF Serves

LEMMA TallyBegins ==
  ASSUME TypeOK, NEW t \in Tasks, Begin(t)
  PROVE  Tally(t)'
<1>1. /\ pc[t] = "begin" /\ at[t] = 1 /\ plan[t] \in Seq(Entry)
      /\ pc \in [Tasks -> Steps] /\ UNCHANGED <<plan, at>>
  BY DEF Begin, TypeOK, TasksOK, Looping
<1>2. CASE plan[t] = <<>>
  <2>1. pc'[t] = "done" /\ DOMAIN plan'[t] = {}
    BY <1>1, <1>2 DEF Begin, Goto
  <2>2. QED
    BY <2>1 DEF Tally, Looping
<1>3. CASE plan[t] # <<>>
  <2>1. /\ pc'[t] = "install" /\ at'[t] = 1 /\ known' = IdsOf(plan[t])
        /\ running' = {} /\ healthy' = {} /\ failed' = {}
    BY <1>1, <1>3 DEF Begin, Goto
  <2>2. QED
    BY <1>1, <2>1 DEF Tally, Shown, IdsOf
<1>4. QED
  BY <1>2, <1>3

(* A step to the next entry of the list. *)
LEMMA AdvanceEffect ==
  ASSUME TypeOK, NEW t \in Tasks, pc[t] \in Looping, NEW step, NEW after,
         Advance(t, step, after)
  PROVE  /\ at[t] \in 1 .. Len(plan[t]) /\ Len(plan[t]) \in Nat /\ plan[t] \in Seq(Entry)
         /\ \/ at[t] = Len(plan[t]) /\ pc'[t] = after /\ at'[t] = 1
            \/ at[t] < Len(plan[t]) /\ pc'[t] = step /\ at'[t] = at[t] + 1
<1>1. /\ at[t] \in 1 .. Len(plan[t]) /\ Len(plan[t]) \in Nat /\ plan[t] \in Seq(Entry)
      /\ pc \in [Tasks -> Steps] /\ at \in [Tasks -> Nat]
  BY DEF TypeOK, TasksOK
<1>2. QED
  BY <1>1 DEF Advance, Goto

LEMMA IdsDiffer ==
  ASSUME NEW c \in Seq(Entry), Valid(c), NEW i \in DOMAIN c, NEW j \in DOMAIN c
  PROVE  c[i].id \in IdsOf(c) /\ (c[i].id = c[j].id => i = j)
BY DEF Valid, IdsOf

(* The spawning loop: one entry gets its flag, or its error. *)
LEMMA TallySpawned ==
  ASSUME TypeOK, NEW t \in Tasks, Valid(plan[t]), Tally(t), Mark(t) \/ SpawnFails(t)
  PROVE  Tally(t)'
<1> DEFINE n == Len(plan[t])
           k == at[t]
           id == plan[t][k].id
<1>1. /\ pc[t] \in {"spawn", "mark"} /\ pc[t] \in Looping /\ Advance(t, "spawn", "health")
      /\ UNCHANGED <<plan, known, healthy, proc, entryOf>>
  BY DEF Mark, SpawnFails, Looping, system
<1>2. /\ k \in 1 .. n /\ n \in Nat /\ plan[t] \in Seq(Entry)
      /\ \/ k = n /\ pc'[t] = "health" /\ at'[t] = 1
         \/ k < n /\ pc'[t] = "spawn" /\ at'[t] = k + 1
  BY <1>1, AdvanceEffect
<1>3. known = IdsOf(plan[t]) /\ id \in known
      /\ \A i \in DOMAIN plan[t] : plan[t][i].id = id => i = k
  BY <1>1, <1>2, IdsDiffer DEF Tally
<1>4. \/ running' = running \cup {id} /\ failed' = failed
      \/ failed' = failed \cup {id} /\ running' = running
  BY <1>3 DEF Mark, SpawnFails, FailServer, Current
<1>5. ASSUME NEW i \in 1 .. n PROVE Shown(t, i)'
  <2>1. Shown(t, i) /\ plan'[t] = plan[t] /\ (i = k \/ plan[t][i].id # id)
    BY <1>1, <1>2, <1>3 DEF Tally
  <2> HIDE DEF id
  <2>2. /\ plan[t][i].id \notin healthy
        /\ i < k => (plan[t][i].id \in running <=> plan[t][i].id \notin failed)
        /\ i >= k => plan[t][i].id \notin running /\ plan[t][i].id \notin failed
    BY <1>1, <1>2, <2>1 DEF Shown
  <2>3. i <= k => (plan[t][i].id \in running' <=> plan[t][i].id \notin failed')
    BY <1>2, <1>4, <2>1, <2>2 DEF id
  <2>4. i > k => plan[t][i].id \notin running' /\ plan[t][i].id \notin failed'
    BY <1>2, <1>4, <2>1, <2>2 DEF id
  <2>5. CASE pc'[t] = "health" /\ at'[t] = 1 /\ k = n
    BY <1>1, <1>2, <2>1, <2>2, <2>3, <2>5 DEF Shown
  <2>6. CASE pc'[t] = "spawn" /\ at'[t] = k + 1
    BY <1>1, <1>2, <2>1, <2>2, <2>3, <2>4, <2>6 DEF Shown
  <2>7. QED
    BY <1>2, <2>5, <2>6
<1>6. QED
  BY <1>1, <1>2, <1>3, <1>5 DEF Tally

(* The polling loop: an entry is passed over, answers, or times out. *)
LEMMA TallyPolled ==
  ASSUME TypeOK, NEW t \in Tasks, Valid(plan[t]), Tally(t),
         Skip(t) \/ SetHealthy(t) \/ TimedOut(t)
  PROVE  Tally(t)'
<1> DEFINE n == Len(plan[t])
           k == at[t]
           id == plan[t][k].id
<1>1. /\ pc[t] \in {"health", "poll", "answered"} /\ pc[t] \in Looping
      /\ Advance(t, "health", "done")
      /\ UNCHANGED <<plan, known, running, proc, entryOf>>
  BY DEF Skip, SetHealthy, TimedOut, Looping, system, status
<1>2. /\ k \in 1 .. n /\ n \in Nat /\ plan[t] \in Seq(Entry)
      /\ \/ k = n /\ pc'[t] = "done" /\ at'[t] = 1
         \/ k < n /\ pc'[t] = "health" /\ at'[t] = k + 1
  BY <1>1, AdvanceEffect
<1>3. known = IdsOf(plan[t]) /\ id \in known
      /\ \A i \in DOMAIN plan[t] : plan[t][i].id = id => i = k
  BY <1>1, <1>2, IdsDiffer DEF Tally
<1>4. Shown(t, k) /\ id \notin healthy /\ (id \in running <=> id \notin failed)
  BY <1>1, <1>2 DEF Tally, Shown
<1>5. /\ id \in healthy' <=> id \notin failed'
      /\ id \in healthy' => Serves(plan[t][k])
      /\ healthy' \subseteq healthy \cup {id} /\ healthy \subseteq healthy'
      /\ failed' \subseteq failed \cup {id} /\ failed \subseteq failed'
  <2>1. CASE Skip(t)
    BY <1>4, <2>1 DEF Skip, status, Current
  <2>2. CASE SetHealthy(t)
    <3>1. /\ id \in running /\ Serves(plan[t][k]) /\ failed' = failed
          /\ healthy' = healthy \cup ({id} \cap known)
      BY <2>2 DEF SetHealthy, Tally, Current
    <3>2. QED
      BY <1>3, <1>4, <3>1
  <2>3. CASE TimedOut(t)
    BY <1>3, <1>4, <2>3 DEF TimedOut, FailServer, Current
  <2>4. QED
    BY <2>1, <2>2, <2>3
<1>6. ASSUME NEW i \in 1 .. n PROVE Shown(t, i)'
  <2>1. Shown(t, i) /\ plan'[t] = plan[t] /\ (i = k \/ plan[t][i].id # id)
    BY <1>1, <1>2, <1>3 DEF Tally
  <2> HIDE DEF id
  <2>2. /\ i < k => (plan[t][i].id \in healthy <=> plan[t][i].id \notin failed)
        /\ i >= k => /\ plan[t][i].id \notin healthy
                     /\ plan[t][i].id \in running <=> plan[t][i].id \notin failed
        /\ plan[t][i].id \in healthy => Serves(plan[t][i])
    BY <1>1, <1>2, <2>1 DEF Shown
  <2>3. i <= k => (plan[t][i].id \in healthy' <=> plan[t][i].id \notin failed')
    BY <1>2, <1>5, <2>1, <2>2 DEF id
  <2>4. i > k => /\ plan[t][i].id \notin healthy'
                 /\ plan[t][i].id \in running' <=> plan[t][i].id \notin failed'
    BY <1>1, <1>2, <1>5, <2>1, <2>2 DEF id
  <2>5. plan[t][i].id \in healthy' => Serves(plan[t][i])
    BY <1>5, <2>1, <2>2 DEF id
  <2>6. Serves(plan[t][i]) => Serves(plan[t][i])'
    BY <1>1, <2>1 DEF Serves
  <2>7. CASE pc'[t] = "done" /\ k = n
    BY <1>2, <2>1, <2>3, <2>5, <2>6, <2>7 DEF Shown
  <2>8. CASE pc'[t] = "health" /\ at'[t] = k + 1
    BY <1>2, <2>1, <2>3, <2>4, <2>5, <2>6, <2>8 DEF Shown
  <2>9. QED
    BY <1>2, <2>7, <2>8
<1>7. QED
  BY <1>1, <1>2, <1>3, <1>6 DEF Tally, Looping

(* The steps that turn no loop. *)
LEMMA TallyKept ==
  ASSUME TypeOK, NEW t \in Tasks, Tally(t), Install(t) \/ Spawn(t) \/ Push(t) \/ Poll(t)
  PROVE  Tally(t)'
<1>1. /\ UNCHANGED <<known, running, healthy, failed, plan, at>>
      /\ pc \in [Tasks -> Steps]
  BY DEF Install, Spawn, Push, Poll, status, TypeOK, TasksOK
<1>2. \A p \in Procs : proc[p] = "serving" => proc'[p] = "serving" /\ entryOf'[p] = entryOf[p]
  <2>1. CASE Spawn(t)
    <3>1. born + 1 \in Procs /\ proc[born + 1] = "none"
      BY <2>1, RuntimeAssumption DEF Spawn, TypeOK, SystemOK, Procs
    <3>2. QED
      BY <2>1, <3>1 DEF Spawn, TypeOK, SystemOK
  <2>2. CASE Install(t) \/ Push(t) \/ Poll(t)
    BY <2>2 DEF Install, Push, Poll, system
  <2>3. QED
    BY <2>1, <2>2
<1>3. \/ pc[t] = "install" /\ pc'[t] = "spawn"
      \/ pc[t] = "spawn" /\ pc'[t] = "push"
      \/ pc[t] = "push" /\ pc'[t] = "mark"
      \/ pc[t] = "health" /\ pc'[t] = "poll" /\ Current(t).id \in running
  BY <1>1 DEF Install, Spawn, Push, Poll, Goto
<1>4. \A i \in DOMAIN plan[t] : Shown(t, i)'
  <2> SUFFICES ASSUME NEW i \in DOMAIN plan[t] PROVE Shown(t, i)'
    OBVIOUS
  <2>1. Shown(t, i)
    BY DEF Tally
  <2>2. Serves(plan[t][i]) => Serves(plan[t][i])'
    BY <1>1, <1>2 DEF Serves
  <2>3. QED
    BY <1>1, <1>3, <2>1, <2>2 DEF Shown, Looping
<1>5. known' = IdsOf(plan'[t])
  BY <1>1, <1>3 DEF Tally, Looping
<1>6. pc'[t] = "poll" => Current(t)'.id \in running'
  BY <1>1, <1>3 DEF Current
<1>7. QED
  BY <1>1, <1>3, <1>4, <1>5, <1>6 DEF Tally

(* Whoever answers on the port is the server of this entry: what is alive was
   spawned for entries of this list, and their ports differ. *)
LEMMA TallyAnswered ==
  ASSUME TypeOK, NEW t \in Tasks, Valid(plan[t]), plan[t] = configured, LiveAreOf(t),
         deletion.hand = {}, Tally(t), Answered(t)
  PROVE  Tally(t)'
<1>1. /\ UNCHANGED <<known, running, healthy, failed, plan, at, proc, entryOf>>
      /\ pc[t] = "poll" /\ pc'[t] = "answered"
  BY DEF Answered, status, system, Goto, TypeOK, TasksOK
<1>2. at[t] \in DOMAIN plan[t]
  BY <1>1 DEF TypeOK, TasksOK, Looping
<1>3. PICK p \in Procs : proc[p] = "serving" /\ entryOf[p].port = Current(t).port
  BY DEF Answered
<1>4. PICK i \in DOMAIN plan[t] : entryOf[p] = plan[t][i]
  <2>1. Turns(t) = DOMAIN plan[t]
    BY <1>1 DEF Turns
  <2>2. QED
    BY <1>3, <2>1 DEF LiveAreOf, Staying, Live
<1>5. i = at[t]
  BY <1>2, <1>3, <1>4 DEF Valid, Current
<1>6. Serves(Current(t))
  BY <1>3, <1>4, <1>5 DEF Serves, Current
<1>7. Serves(Current(t))'
  BY <1>1, <1>6 DEF Serves, Current
<1>8. \A j \in DOMAIN plan[t] : Shown(t, j)'
  <2> SUFFICES ASSUME NEW j \in DOMAIN plan[t] PROVE Shown(t, j)'
    OBVIOUS
  <2>1. Shown(t, j) /\ (Serves(plan[t][j]) => Serves(plan[t][j])')
    BY <1>1 DEF Tally, Serves
  <2>2. QED
    BY <1>1, <2>1 DEF Shown, Looping
<1>9. QED
  BY <1>1, <1>7, <1>8 DEF Tally, Looping, Current

LEMMA ManageHonest ==
  ASSUME TypeOK, ListsOK, Orderly, Honest, clean, deaths = 0, deletion = NoDeletion,
         NEW t \in Tasks, ManageStep(t)
  PROVE  Tally(tasks - 1)'
<1>1. pc[t] # "idle" /\ pc[t] \notin Ended /\ tasks' = tasks
  BY DEF ManageStep, Stop, KillTaken, Clear, Begin, Install, InstallFails, Spawn, Push, Mark,
         SpawnFails, Skip, Poll, Answered, SetHealthy, TimedOut, Ended
<1>2. t = tasks - 1
  BY <1>1, LastIsAlone
<1>3. Tally(t) /\ plan[t] = configured /\ Valid(plan[t])
  BY <1>2 DEF Honest, ListsOK
<1>4. CASE Stop(t) \/ KillTaken(t) \/ Clear(t) \/ InstallFails(t)
  <2>1. pc'[t] \in {"kill", "clear", "begin", "aborted"}
    BY <1>4 DEF Stop, KillTaken, Clear, InstallFails, Goto, TypeOK, TasksOK
  <2>2. Tally(t)'
    BY <2>1 DEF Tally, Shown, Looping
  <2>3. QED
    BY <1>1, <1>2, <2>2
<1>5. CASE Answered(t)
  <2>1. LiveAreOf(t)
    BY <1>2, <1>5 DEF Orderly, Answered
  <2>2. Tally(t)'
    BY <1>3, <1>5, <2>1, TallyAnswered DEF NoDeletion
  <2>3. QED
    BY <1>1, <1>2, <2>2
<1>6. CASE ~(Stop(t) \/ KillTaken(t) \/ Clear(t) \/ InstallFails(t) \/ Answered(t))
  <2>1. Tally(t)'
    BY <1>3, <1>6, TallyBegins, TallyKept, TallySpawned, TallyPolled DEF ManageStep
  <2>2. QED
    BY <1>1, <1>2, <2>1
<1>7. QED
  BY <1>4, <1>5, <1>6

LEMMA TallyNew ==
  ASSUME TypeOK, NEW c, Store(c)
  PROVE  Tally(tasks - 1)'
<1>1. tasks \in Tasks /\ tasks' - 1 = tasks /\ pc' = [pc EXCEPT ![tasks] = "stop"]
  BY RuntimeAssumption DEF Store, TypeOK, TasksOK, Tasks
<1>2. pc'[tasks] = "stop"
  BY <1>1 DEF TypeOK, TasksOK
<1>3. QED
  BY <1>1, <1>2 DEF Tally, Shown, Looping

LEMMA TallyWhenSame ==
  ASSUME NEW t, Tally(t), UNCHANGED <<known, running, healthy, failed, pc, plan, at>>,
         \A p \in Procs : proc[p] = "serving" => proc'[p] = "serving" /\ entryOf'[p] = entryOf[p]
  PROVE  Tally(t)'
<1>1. \A e : Serves(e) => Serves(e)'
  BY ServesOn
<1>2. \A i \in DOMAIN plan[t] : Shown(t, i)'
  <2> SUFFICES ASSUME NEW i \in DOMAIN plan[t] PROVE Shown(t, i)'
    OBVIOUS
  <2>1. Shown(t, i) /\ (Serves(plan[t][i]) => Serves(plan[t][i])')
    BY <1>1 DEF Tally
  <2>2. QED
    BY <2>1 DEF Shown
<1>3. Serves(Current(t)) => Serves(Current(t))'
  BY <1>1 DEF Current
<1>4. QED
  BY <1>2, <1>3 DEF Tally, Current

LEMMA HonestInv == Spec => []Honest
<1>1. Init => Honest
  <2> SUFFICES ASSUME Init PROVE Tally(0)
    BY DEF Init, Honest
  <2>1. pc[0] = "begin"
    BY RuntimeAssumption DEF Init, Tasks
  <2>2. QED
    BY <2>1 DEF Tally, Shown, Looping
<1>2. TypeOK /\ ListsOK /\ Orderly /\ Honest /\ [Next]_vars => Honest'
  <2> SUFFICES ASSUME TypeOK, ListsOK, Orderly, Honest, [Next]_vars,
                      clean', deaths' = 0, deletion' = NoDeletion
               PROVE  Tally(tasks - 1)'
    BY DEF Honest
  <2>1. ASSUME NEW t \in Tasks, ManageStep(t) PROVE Tally(tasks - 1)'
    <3>1. UNCHANGED <<clean, deaths, deletion>>
      BY <2>1 DEF ManageStep, Stop, KillTaken, Clear, Begin, Install, InstallFails, Spawn, Push,
                  Mark, SpawnFails, Skip, Poll, Answered, SetHealthy, TimedOut, history
    <3>2. QED
      BY <2>1, <3>1, ManageHonest
  <2>2. ASSUME NEW c, Store(c) PROVE Tally(tasks - 1)'
    BY <2>2, TallyNew
  <2>3. ASSUME NEW p \in Procs, ProcStep(p) PROVE Tally(tasks - 1)'
    <3>0. deaths \in Nat /\ (Die(p) => deaths' = deaths + 1)
      BY DEF Die, TypeOK
    <3>a. ~Die(p)
      BY <3>0
    <3>b. UNCHANGED clean
      BY <2>3, ProcEffect DEF history
    <3>1. clean /\ UNCHANGED <<deaths, deletion, tasks>>
      BY <2>3, <3>a, <3>b DEF ProcStep, Serve, PortTaken, Exit, Becomes
    <3>2. UNCHANGED <<known, running, healthy, failed, pc, plan, at, entryOf>>
      BY <2>3 DEF ProcStep, Serve, PortTaken, Exit, Die, Becomes, status, task
    <3>3. \A q \in Procs : proc[q] = "serving" => proc'[q] = "serving"
      BY <2>3, <3>a DEF ProcStep, Serve, PortTaken, Exit, Becomes, TypeOK, SystemOK
    <3>4. QED
      BY <3>1, <3>2, <3>3, TallyWhenSame DEF Honest
  <2>4. ASSUME UNCHANGED <<known, running, healthy, failed, pc, plan, at, proc, entryOf,
                           clean, deaths, deletion, tasks>>
        PROVE  Tally(tasks - 1)'
    BY <2>4, TallyWhenSame DEF Honest
  <2>5. CASE DeleteFails
    BY <2>5 DEF DeleteFails
  <2>6. ASSUME NEW id, DeleteModel(id) PROVE FALSE
    BY <2>6 DEF DeleteModel, NoDeletion
  <2>7. CASE Forget \/ KillOne
    <3>1. deletion'.step \in {"forget", "reload"}
      BY <2>7 DEF Forget, KillOne, TypeOK
    <3>2. QED
      BY <3>1 DEF NoDeletion
  <2>8. QED
    BY <2>1, <2>2, <2>3, <2>4, <2>5, <2>6, <2>7
       DEF Next, Reload, DeleteReloads, InstallNow, Quiesced, vars, status, system, task, history
<1>3. QED
  BY <1>1, <1>2, TypeCorrect, ListsInv, OrderlyInv, PTL DEF Spec

(* StatusHonest: after tasks that did not overlap, with no server dead of itself,
   each configured server is shown as healthy, and its own process serves it, or
   with an error, and never both or neither. *)
THEOREM ConsoleTellsTruth == Spec => []StatusHonest
<1>1. TypeOK /\ Owned /\ ListsOK /\ Honest => StatusHonest
  <2> SUFFICES ASSUME TypeOK, Owned, ListsOK, Honest, Settled, clean, deaths = 0,
                      pc[tasks - 1] = "done", NEW i \in DOMAIN configured
               PROVE  /\ configured[i].id \in healthy <=> configured[i].id \notin failed
                      /\ configured[i].id \in healthy =>
                           \E p \in children : proc[p] = "serving" /\ entryOf[p] = configured[i]
    BY DEF StatusHonest
  <2>1. Shown(tasks - 1, i) /\ plan[tasks - 1] = configured
    BY DEF Honest, Settled, Tally, ListsOK
  <2>2. \A t \in Tasks : hand[t] = {}
    BY DEF Settled, TypeOK, HandsOK, TasksOK, Ended
  <2>3. \A p \in Procs : proc[p] = "serving" => p \in children
    BY <2>2 DEF Settled, NoDeletion, Owned, InReach, Live
  <2>4. QED
    BY <2>1, <2>3 DEF Shown, Serves
<1>2. QED
  BY <1>1, TypeCorrect, OwnedInv, ListsInv, HonestInv, PTL
=============================================================================
