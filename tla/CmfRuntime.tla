----------------------------- MODULE CmfRuntime -----------------------------
(***************************************************************************)
(* Managed local model servers (src/src/cmf_runtime.rs).  Start-up and     *)
(* every AppState::reload leave a task behind that stops the servers it    *)
(* finds and starts those of its own configuration: install cortiq if      *)
(* need be, spawn, poll each until it answers.  Nothing waits for these    *)
(* tasks, so those of close reloads overlap; delete_model stops one server *)
(* itself before it reloads.                                               *)
(*                                                                         *)
(* A step is what is done under one lock, or one await.  Of an entry of    *)
(* [[cmf.servers]] its id and port are kept; whether its file is there,    *)
(* and whether an install, a spawn or a save succeeds, is left open.       *)
(***************************************************************************)
EXTENDS Integers, Sequences, FiniteSets, FiniteSetsExt, Functions

CONSTANTS Ids, Ports,
          Configs,       \* the server lists an administrator may save
          AutoInstall,   \* [cmf].auto_install
          NoId,
          MaxReloads, MaxProcs, MaxDeaths        \* bounds

Entry == [id: Ids, port: Ports]
NoEntry == [port |-> 0]

(* Config::validate: ids are unique, and so are ports. *)
Valid(c) ==
  \A i, j \in DOMAIN c : i # j => c[i].id # c[j].id /\ c[i].port # c[j].port

ASSUME RuntimeAssumption ==
  /\ Configs \subseteq Seq(Entry) /\ \A c \in Configs : Valid(c)
  /\ AutoInstall \in BOOLEAN
  /\ NoId \notin Ids
  /\ MaxReloads \in Nat /\ MaxProcs \in Nat /\ MaxDeaths \in Nat

Tasks == 0 .. MaxReloads
Procs == 1 .. MaxProcs
IdsOf(c) == {c[i].id : i \in DOMAIN c}

(* A list without the entry of this id, which is in it. *)
Without(c, id) ==
  LET i == CHOOSE i \in DOMAIN c : c[i].id = id
  IN  [k \in 1 .. Len(c) - 1 |-> IF k < i THEN c[k] ELSE c[k + 1]]

-----------------------------------------------------------------------------
VARIABLES configured,   \* the server list of the live configuration
          installed,    \* `cortiq --version` answers
          children,     \* processes whose handles the runtime keeps
          known, running, healthy, failed,    \* CmfStatus: ids with a slot, flags
          proc,         \* Procs -> what the operating system has
          entryOf,      \* Procs -> the entry it was spawned for
          born,         \* processes spawned
          pc, plan, at, \* of a task: step, its server list, loop index,
          hand,         \* and the handles it holds itself, outside `children`
          tasks,        \* tasks spawned
          deletion,     \* of delete_model: step, id, edited list, handle held
          deaths        \* bounded counter

VARIABLES clean,        \* history: each task started after the earlier ones had
                        \* ended, and no delete_model stopped a server and then
                        \* could not save
          due           \* history: the servers in reach when a task was spawned

status == <<known, running, healthy, failed>>
system == <<children, proc, entryOf, born>>
task == <<pc, plan, at, hand>>
history == <<clean, due>>
vars == <<configured, installed, status, system, task, tasks, deletion, deaths, history>>

Looping == {"install", "spawn", "push", "mark", "health", "poll", "answered"}
Ended == {"done", "aborted"}
Steps == {"idle", "stop", "kill", "clear", "begin"} \cup Looping \cup Ended
Live == {"loading", "serving"}

NoDeletion == [step |-> "idle", id |-> NoId, edit |-> <<>>, hand |-> {}]

(* Handles that a stop or a stop_one has taken and has yet to kill. *)
Doomed == deletion.hand \cup UNION {hand[t] : t \in {u \in Tasks : pc[u] = "kill"}}

StatusOK ==
  /\ known \subseteq Ids /\ running \subseteq known
  /\ healthy \subseteq known /\ failed \subseteq known

SystemOK ==
  /\ born \in 0 .. MaxProcs
  /\ children \subseteq 1 .. born
  /\ proc \in [Procs -> Live \cup {"none", "killed", "dead"}]
  /\ entryOf \in [Procs -> Entry \cup {NoEntry}]
  /\ \A p \in Procs : IF p <= born THEN proc[p] # "none" /\ entryOf[p] \in Entry
                                   ELSE proc[p] = "none"

TasksOK ==
  /\ tasks \in 1 .. MaxReloads + 1
  /\ pc \in [Tasks -> Steps]
  /\ plan \in [Tasks -> Seq(Entry)]
  /\ at \in [Tasks -> Nat]
  /\ \A t \in Tasks : (t < tasks) <=> (pc[t] # "idle")
  /\ \A t \in Tasks : IF pc[t] \in Looping THEN at[t] \in 1 .. Len(plan[t]) ELSE at[t] = 1
  /\ \A t \in Tasks : pc[t] = "install" => at[t] = 1

HandsOK ==
  /\ hand \in [Tasks -> SUBSET (1 .. born)]
  /\ \A t \in Tasks : hand[t] # {} => pc[t] \in {"kill", "push"}
  /\ deletion.hand \subseteq 1 .. born
  /\ deletion.hand # {} => deletion.step = "kill"
  /\ due \in [Tasks -> SUBSET (1 .. born)]

TypeOK ==
  /\ configured \in Seq(Entry)
  /\ installed \in BOOLEAN
  /\ StatusOK /\ SystemOK /\ TasksOK /\ HandsOK
  /\ deletion \in [step: {"idle", "kill", "forget", "reload"}, id: Ids \cup {NoId},
                   edit: Seq(Entry), hand: SUBSET Procs]
  /\ deaths \in Nat
  /\ clean \in BOOLEAN

(* main spawns manage for the configuration it has read. *)
Init ==
  /\ configured \in Configs
  /\ installed \in BOOLEAN
  /\ children = {} /\ known = {} /\ running = {} /\ healthy = {} /\ failed = {}
  /\ proc = [p \in Procs |-> "none"]
  /\ entryOf = [p \in Procs |-> NoEntry]
  /\ born = 0
  /\ pc = [t \in Tasks |-> IF t = 0 THEN "begin" ELSE "idle"]
  /\ plan = [t \in Tasks |-> IF t = 0 THEN configured ELSE <<>>]
  /\ at = [t \in Tasks |-> 1]
  /\ hand = [t \in Tasks |-> {}]
  /\ tasks = 1
  /\ deletion = NoDeletion
  /\ deaths = 0
  /\ clean = TRUE
  /\ due = [t \in Tasks |-> {}]

-----------------------------------------------------------------------------
(* AppState::reload stores the configuration and spawns a task for it. *)
\* Slip: the new task starts servers without stopping the old ones.
StoreOnly(c) ==
  /\ tasks <= MaxReloads
  /\ configured' = c
  /\ tasks' = tasks + 1
  /\ pc' = [pc EXCEPT ![tasks] = "begin"]
  /\ plan' = [plan EXCEPT ![tasks] = c]
  /\ clean' = (clean /\ \A t \in Tasks : t < tasks => pc[t] \in Ended)
  /\ due' = [due EXCEPT ![tasks] = children]
  /\ UNCHANGED <<installed, status, system, at, hand, deaths>>

Store(c) ==
  /\ tasks <= MaxReloads
  /\ configured' = c
  /\ tasks' = tasks + 1
  /\ pc' = [pc EXCEPT ![tasks] = "stop"]
  /\ plan' = [plan EXCEPT ![tasks] = c]
  /\ clean' = (clean /\ \A t \in Tasks : t < tasks => pc[t] \in Ended)
  /\ due' = [due EXCEPT ![tasks] = children]
  /\ UNCHANGED <<installed, status, system, at, hand, deaths>>

(* Any handler that edits the configuration. *)
Reload(c) ==
  /\ Store(c)
  /\ UNCHANGED deletion

Goto(t, step) == pc' = [pc EXCEPT ![t] = step]

Kill(set) ==
  proc' = [p \in Procs |-> IF p \in set /\ proc[p] \in Live THEN "killed" ELSE proc[p]]

\* Slip: only the servers shown as running are stopped.
StopRunning(t) ==
  /\ pc[t] = "stop"
  /\ LET shown == {p \in children : entryOf[p].id \in running}
     IN  children' = children \ shown /\ hand' = [hand EXCEPT ![t] = shown]
  /\ Goto(t, "kill")
  /\ UNCHANGED <<configured, installed, status, proc, entryOf, born, plan, at, tasks,
                 deletion, deaths, history>>

(* CmfRuntime::stop: the handles are taken, under their lock; *)
Stop(t) ==
  /\ pc[t] = "stop"
  /\ children' = {} /\ hand' = [hand EXCEPT ![t] = children]
  /\ Goto(t, "kill")
  /\ UNCHANGED <<configured, installed, status, proc, entryOf, born, plan, at, tasks,
                 deletion, deaths, history>>

(* their processes are killed, without it; *)
KillTaken(t) ==
  /\ pc[t] = "kill"
  /\ Kill(hand[t]) /\ hand' = [hand EXCEPT ![t] = {}]
  /\ Goto(t, "clear")
  /\ UNCHANGED <<configured, installed, status, children, entryOf, born, plan, at, tasks,
                 deletion, deaths, history>>

(* and every slot is marked as stopped, under its lock. *)
Clear(t) ==
  /\ pc[t] = "clear"
  /\ running' = {} /\ healthy' = {}
  /\ Goto(t, "begin")
  /\ UNCHANGED <<configured, installed, known, failed, system, plan, at, hand, tasks,
                 deletion, deaths, history>>

\* Slip: new slots keep the errors of servers that were there before.
BeginKeepingErrors(t) ==
  /\ pc[t] = "begin"
  /\ IF plan[t] = <<>>
     THEN Goto(t, "done") /\ UNCHANGED status
     ELSE /\ Goto(t, "install")
          /\ known' = IdsOf(plan[t])
          /\ running' = {} /\ healthy' = {}
          /\ failed' = failed \cap IdsOf(plan[t])
  /\ UNCHANGED <<configured, installed, system, plan, at, hand, tasks, deletion, deaths, history>>

(* manage: nothing to do without servers; init_servers. *)
Begin(t) ==
  /\ pc[t] = "begin"
  /\ IF plan[t] = <<>>
     THEN Goto(t, "done") /\ UNCHANGED status
     ELSE /\ Goto(t, "install")
          /\ known' = IdsOf(plan[t])
          /\ running' = {} /\ healthy' = {} /\ failed' = {}
  /\ UNCHANGED <<configured, installed, system, plan, at, hand, tasks, deletion, deaths, history>>

(* The binary is there, or cargo installs it, which takes minutes; what cargo
   has installed need not be on the path. *)
Install(t) ==
  /\ pc[t] = "install"
  /\ \/ installed /\ UNCHANGED installed
     \/ ~installed /\ AutoInstall /\ installed' \in BOOLEAN
  /\ Goto(t, "spawn")
  /\ UNCHANGED <<configured, status, system, plan, at, hand, tasks, deletion, deaths, history>>

InstallFails(t) ==
  /\ pc[t] = "install" /\ ~installed
  /\ Goto(t, "aborted")
  /\ UNCHANGED <<configured, installed, status, system, plan, at, hand, tasks, deletion,
                 deaths, history>>

(* install_now, the button of the console. *)
InstallNow ==
  /\ ~installed
  /\ installed' = TRUE
  /\ UNCHANGED <<configured, status, system, task, tasks, deletion, deaths, history>>

-----------------------------------------------------------------------------
Current(t) == plan[t][at[t]]

(* The next turn of the loop of `step`, or what comes after the loop. *)
Advance(t, step, after) ==
  IF at[t] = Len(plan[t])
  THEN Goto(t, after) /\ at' = [at EXCEPT ![t] = 1]
  ELSE Goto(t, step) /\ at' = [at EXCEPT ![t] = at[t] + 1]

(* fail_server; set_running and set_healthy too change a slot only if it is
   there. *)
FailServer(id) == failed' = failed \cup ({id} \cap known)

(* spawn_serve: the process is there, its handle in this task only, *)
Spawn(t) ==
  /\ pc[t] = "spawn" /\ installed /\ born < MaxProcs
  /\ born' = born + 1
  /\ proc' = [proc EXCEPT ![born + 1] = "loading"]
  /\ entryOf' = [entryOf EXCEPT ![born + 1] = Current(t)]
  /\ hand' = [hand EXCEPT ![t] = {born + 1}]
  /\ Goto(t, "push")
  /\ UNCHANGED <<configured, installed, status, children, plan, at, tasks, deletion,
                 deaths, history>>

(* until add_child pushes it, under the lock of the handles. *)
Push(t) ==
  /\ pc[t] = "push"
  /\ children' = children \cup hand[t] /\ hand' = [hand EXCEPT ![t] = {}]
  /\ Goto(t, "mark")
  /\ UNCHANGED <<configured, installed, status, proc, entryOf, born, plan, at, tasks,
                 deletion, deaths, history>>

\* Slip: the flag is set for a server that has lost its slot.
MarkAlways(t) ==
  /\ pc[t] = "mark"
  /\ running' = running \cup {Current(t).id}
  /\ Advance(t, "spawn", "health")
  /\ UNCHANGED <<configured, installed, known, healthy, failed, system, plan, hand, tasks,
                 deletion, deaths, history>>

(* add_child then sets the flag, under the other lock. *)
Mark(t) ==
  /\ pc[t] = "mark"
  /\ running' = running \cup ({Current(t).id} \cap known)
  /\ Advance(t, "spawn", "health")
  /\ UNCHANGED <<configured, installed, known, healthy, failed, system, plan, hand, tasks,
                 deletion, deaths, history>>

(* The file is missing, or the process cannot be spawned. *)
SpawnFails(t) ==
  /\ pc[t] = "spawn"
  /\ FailServer(Current(t).id)
  /\ Advance(t, "spawn", "health")
  /\ UNCHANGED <<configured, installed, known, running, healthy, system, plan, hand, tasks,
                 deletion, deaths, history>>

(* is_running *)
Skip(t) ==
  /\ pc[t] = "health" /\ Current(t).id \notin running
  /\ Advance(t, "health", "done")
  /\ UNCHANGED <<configured, installed, status, system, plan, hand, tasks, deletion, deaths, history>>

Poll(t) ==
  /\ pc[t] = "health" /\ Current(t).id \in running
  /\ Goto(t, "poll")
  /\ UNCHANGED <<configured, installed, status, system, plan, at, hand, tasks, deletion,
                 deaths, history>>

(* wait_healthy: whoever serves on the port has answered, *)
Answered(t) ==
  /\ pc[t] = "poll"
  /\ \E p \in Procs : proc[p] = "serving" /\ entryOf[p].port = Current(t).port
  /\ Goto(t, "answered")
  /\ UNCHANGED <<configured, installed, status, system, plan, at, hand, tasks, deletion,
                 deaths, history>>

SetHealthy(t) ==
  /\ pc[t] = "answered"
  /\ healthy' = healthy \cup ({Current(t).id} \cap known)
  /\ Advance(t, "health", "done")
  /\ UNCHANGED <<configured, installed, known, running, failed, system, plan, hand, tasks,
                 deletion, deaths, history>>

(* or no one has for 240 tries. *)
TimedOut(t) ==
  /\ pc[t] = "poll"
  /\ FailServer(Current(t).id)
  /\ Advance(t, "health", "done")
  /\ UNCHANGED <<configured, installed, known, running, healthy, system, plan, hand, tasks,
                 deletion, deaths, history>>

-----------------------------------------------------------------------------
(* delete_model of a managed server: stop_one takes the first handle of the
   id, under the lock, *)
DeleteModel(id) ==
  /\ deletion.step = "idle" /\ tasks <= MaxReloads
  /\ id \in IdsOf(configured)
  /\ LET own == {p \in children : entryOf[p].id = id}
         first == {p \in own : \A q \in own : p <= q}
     IN  /\ children' = children \ first
         /\ deletion' = [step |-> "kill", id |-> id, edit |-> Without(configured, id),
                         hand |-> first]
  /\ UNCHANGED <<configured, installed, status, proc, entryOf, born, task, tasks, deaths,
                 history>>

(* kills its process, *)
KillOne ==
  /\ deletion.step = "kill"
  /\ Kill(deletion.hand)
  /\ deletion' = [deletion EXCEPT !.step = "forget", !.hand = {}]
  /\ UNCHANGED <<configured, installed, status, children, entryOf, born, task, tasks,
                 deaths, history>>

(* and drops the slot; *)
Forget ==
  /\ deletion.step = "forget"
  /\ known' = known \ {deletion.id} /\ running' = running \ {deletion.id}
  /\ healthy' = healthy \ {deletion.id} /\ failed' = failed \ {deletion.id}
  /\ deletion' = [deletion EXCEPT !.step = "reload"]
  /\ UNCHANGED <<configured, installed, system, task, tasks, deaths, history>>

(* the handler reloads, *)
DeleteReloads ==
  /\ deletion.step = "reload"
  /\ Store(deletion.edit)
  /\ deletion' = NoDeletion

(* or answers with the error of validate or save. *)
DeleteFails ==
  /\ deletion.step = "reload"
  /\ deletion' = NoDeletion
  /\ clean' = FALSE
  /\ UNCHANGED <<configured, installed, status, system, task, tasks, deaths, due>>

-----------------------------------------------------------------------------
(* The server processes.  A port belongs to the process that has bound it
   until that process is gone; a killed process no longer answers. *)
Bound(port) ==
  {p \in Procs : proc[p] \in {"serving", "killed"} /\ entryOf[p].port = port}

Becomes(p, state) ==
  /\ proc' = [proc EXCEPT ![p] = state]
  /\ UNCHANGED <<configured, installed, status, children, entryOf, born, task, tasks,
                 deletion, history>>

Serve(p) ==
  /\ proc[p] = "loading" /\ Bound(entryOf[p].port) = {}
  /\ Becomes(p, "serving") /\ UNCHANGED deaths

PortTaken(p) ==
  /\ proc[p] = "loading" /\ Bound(entryOf[p].port) # {}
  /\ Becomes(p, "dead") /\ UNCHANGED deaths

Exit(p) ==
  /\ proc[p] = "killed"
  /\ Becomes(p, "dead") /\ UNCHANGED deaths

(* A model that does not load, a crash; the runtime is not told. *)
Die(p) ==
  /\ proc[p] \in Live /\ deaths < MaxDeaths
  /\ deaths' = deaths + 1
  /\ Becomes(p, "dead")

-----------------------------------------------------------------------------
ManageStep(t) ==
  \/ Stop(t) \/ KillTaken(t) \/ Clear(t) \/ Begin(t) \/ Install(t) \/ InstallFails(t)
  \/ Spawn(t) \/ Push(t) \/ Mark(t) \/ SpawnFails(t)
  \/ Skip(t) \/ Poll(t) \/ Answered(t) \/ SetHealthy(t) \/ TimedOut(t)

ProcStep(p) == Serve(p) \/ PortTaken(p) \/ Exit(p) \/ Die(p)

Settled ==
  /\ deletion = NoDeletion
  /\ \A t \in Tasks : t < tasks => pc[t] \in Ended

Quiesced ==
  /\ Settled /\ tasks > MaxReloads
  /\ \A p \in Procs : proc[p] \notin {"loading", "killed"}
  /\ UNCHANGED vars

Next ==
  \/ \E c \in Configs : Reload(c)
  \/ \E t \in Tasks : ManageStep(t)
  \/ InstallNow
  \/ \E id \in Ids : DeleteModel(id)
  \/ KillOne \/ Forget \/ DeleteReloads \/ DeleteFails
  \/ \E p \in Procs : ProcStep(p)
  \/ Quiesced

Spec == Init /\ [][Next]_vars

-----------------------------------------------------------------------------
(* Whatever tasks and deletions interleave with a stop: a server whose handle
   the runtime kept when the reload came does not outlive the stop of that
   reload, unless another stop has taken its handle and is about to kill it. *)
StopStopsAll ==
  \A t \in Tasks : pc[t] \notin {"idle", "stop", "kill"} =>
    \A p \in due[t] : proc[p] \in Live => p \in Doomed

(* cmf_runtime.rs: "Stop all managed servers": no server that was running when
   the handles were taken outlives the stop.  Of tasks that overlap it is not
   so: one may have spawned a server and not yet pushed its handle. *)
StopLeavesNone ==
  [][\A t \in Tasks : pc[t] = "stop" /\ pc'[t] = "kill" =>
       \A p \in Procs : proc[p] \in Live => p \in Doomed']_vars

(* Requests for a configured server go to its port: once the tasks are over,
   only servers of the configuration in force run, one for each entry. *)
OnlyConfigured ==
  \A p \in Procs : proc[p] \in Live =>
    /\ entryOf[p] \in Range(configured)
    /\ \A q \in Procs : proc[q] \in Live /\ entryOf[q] = entryOf[p] => q = p

(* What the code keeps to: so it is when no two tasks overlapped. *)
OneServerPerEntry == Settled /\ clean => OnlyConfigured

(* config.rs: "the gateway spawns and supervises one `cortiq serve` per entry -
   each on its own port", none when manage_server is off; whenever reloads come. *)
OneServerPerEntryAlways == Settled => OnlyConfigured

(* What the console shows is so: when the tasks did not overlap and no process
   died of itself, each configured server is either shown as healthy, and its
   own process (not another on its port) serves it, or shown with an error. *)
StatusHonest ==
  Settled /\ clean /\ deaths = 0 /\ pc[tasks - 1] = "done" =>
    \A i \in DOMAIN configured :
      LET e == configured[i] IN
      /\ e.id \in healthy <=> e.id \notin failed
      /\ e.id \in healthy =>
           \E p \in children : proc[p] = "serving" /\ entryOf[p] = e

(* config.rs: "spawns and supervises": a server that is shown as running runs,
   even after one has died of itself. *)
RunningMeansAlive ==
  Settled /\ clean =>
    \A i \in DOMAIN configured :
      configured[i].id \in running =>
        \E p \in children : proc[p] \in Live /\ entryOf[p] = configured[i]
=============================================================================
