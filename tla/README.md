# cortiq-gateway in TLA+

This directory is a TLA+ model of the gateway under `src/`: an HTTP gateway that
routes chat requests to cloud providers and to local `cortiq serve` processes,
lets an administrator edit its configuration while it runs, and promotes the
local model for a task label once enough of its answers have been judged good.
It also translates streamed answers between client formats, caches answers by
similarity, supervises the local servers and runs model imports.
TLC checks the modules on small instances; TLAPS proves the theorems for every
value of the constants.

Paths below are relative to the repository (`src/pipeline.rs` is
`src/src/pipeline.rs` in PROJECT.json).

## 1. Inventory

| Component | Source | State | Operations | Talks to |
|---|---|---|---|---|
| Request pipeline | `src/pipeline.rs`, `src/model.rs` | one task per request: snapshot, decision, candidate list, cache key | `run`, `run_stream`, `resolve`, `run_inner`, `tap_stream`, `shadow_capture` | everything below except imports |
| Live configuration | `src/state.rs`, `registry.rs`, `routing.rs`, `router_client.rs` | `ArcSwap<Live>`: configuration, registry, routing table, router client | `build`, `local_candidates`, `candidates`, `route`, `reload`, `rebuild` | stored by the admin, loaded by requests |
| Configuration store, admin edits | `src/admin/mod.rs`, `src/config.rs`, `src/state.rs` | `gateway.toml`, `gateway.toml.tmp`, `.cmf` files | put/create/update/delete handlers, `save`, `load` | live configuration, local servers, secrets |
| Secret store | `src/secrets.rs` | map behind a lock, `secrets.toml` and its temporary file | `set`, `clear`, `persist`, `load` | configuration store (`rebuild`) |
| Promotion | `src/promotion.rs` | per label: two windows, state, soak counter; `judge.jsonl` | `record`, `replay`, `serves_local` | pipeline (serving), shadow tasks (judgments) |
| Statistics | `src/stats.rs` | totals, per-minute buckets, ring; `stats.jsonl` | `record`, `clear`, `replay`, `snapshot` | pipeline, admin |
| Semantic cache | `src/cache.rs` | queue of entries with a vector, a signature, a time; hit and miss counters | `lookup`, `insert`, `snapshot` | pipeline |
| Managed local servers | `src/cmf_runtime.rs` | child processes, a status per server | `manage`, `stop`, `stop_one`, `wait_healthy` | every reload spawns stop + manage |
| Import jobs | `src/import.rs` | job map, cancel handles, output files | `start_import`, `cancel`, `delete`, the converter task | admin (`register_import`) |
| Protocol adapters | `src/protocols/` | of a stream: a buffer, the usage told | translate client formats | pipeline |
| Providers | `src/providers/` | of a stream: a buffer, input tokens | HTTP calls, translate provider formats | pipeline |
| Start-up, console, benchmarks | `src/main.rs`, `src/admin/assets.rs`, `web/` | none | | |

What is hard here, and what correctness means for each part:

* **Pipeline.** Requests load the live configuration up to four times with awaits
  in between; candidates are filtered, missing, or fail; the cache outlives the
  configuration an answer was given under; a spawned shadow task works on yet
  another snapshot. Correct: failover in preference order, an error only when
  nothing is left, exactly one statistics record, one configuration per reply,
  every request settles.
* **Configuration and secrets.** Handlers do load, edit, validate, build, save,
  store with no lock around the sequence, and all saves share one temporary file.
  Correct: what runs always validates and builds, the file survives a kill at any
  point, memory and file agree, shared model files are not deleted.
* **Promotion.** Judgments of concurrent tasks are applied under a lock and
  appended without it; the file is replayed at start. Correct: a label is served
  locally only after it met the bar and only while within its limits, and a
  restart restores the table.
* **Statistics.** The clock is read before the lock, the log is appended (and
  cleared) after it. Correct: windows count each record once, memory is bounded,
  a restart restores what was shown.
* **Semantic cache.** Between a lookup and the insert of its answer other requests
  look up, insert and evict; entries expire by a clock read before the lock.
  Correct: what can be found is found, nothing else is, each lookup is counted
  once.
* **Local servers.** Every reload leaves a task that stops and starts servers, and
  nothing waits for it; handles and status are under different locks; the
  operating system frees a port only when the old process is gone. Correct: a stop
  reaches every server there was when its reload came, one server per entry, a
  status that says healthy is about the right process.
* **Imports.** A cancel, the end of the converter, a delete and a restart race for
  the state of a job and for its file; two jobs can have one output path. Correct:
  the file tells the same as the state, no converter is out of reach, an accepted
  cancel ends the job.
* **Streams.** Chunks are cut anywhere, and three chained generators each
  reassemble events; usage comes late, twice or never; either side may break off.
  Correct: the text arrives whole and in order, one well-formed message, one
  truthful record.

The hazards, each at its line, are in PROJECT.json.

## 2. Modules

| Module | Models | Used by |
|---|---|---|
| `LiveConfig` | one immutable configuration and the routing decisions it allows | `GatewayService`, `Pipeline` |
| `GatewayService` | abstract: what a client is promised | refined by `Pipeline` |
| `Pipeline` | `pipeline.rs`, request tasks, reloads, cache, shadow tasks | `MCPipeline`, `PipelineProofs` |
| `ConfigStore` | admin handlers, `reload`, `rebuild`, `save`, secrets, crash and restart | `MCConfigStore`, `ConfigStoreProofs` |
| `Journal` | JSONL files: append in two writes, what is readable back | `Promotion`, `Stats` |
| `Promotion` | `promotion.rs` | `MCPromotion`, `PromotionProofs` |
| `Stats` | `stats.rs` | `MCStats`, `StatsProofs` |
| `CmfRuntime` | `cmf_runtime.rs`, the tasks of `reload`, `delete_model`'s stop, the processes | `MCCmfRuntime`, `CmfRuntimeProofs` |
| `ImportService` | abstract: the life of an import as the console shows it | refined by `ImportJobs` |
| `ImportJobs` | `import.rs`: job store, tasks, handlers, converters, files | `MCImportJobs`, `ImportJobsProofs` |
| `AnswerStream` | abstract: a text delivered piece by piece | refined by `StreamRelay` |
| `StreamRelay` | the streaming halves of `protocols/`, `providers/`, and `tap_stream` | `MCStreamRelay`, `StreamRelayProofs` |
| `AnswerMemo` | abstract: the last N answers, found while similar and fresh | refined by `SemanticCache` |
| `SemanticCache` | `cache.rs` and its use in `Pipeline::run` | `MCSemanticCache`, `SemanticCacheProofs` |

Operators whose comment begins with "Slip" are plausible mistakes (a dropped
guard, a missing trim, a swapped field). Nothing uses them; PROJECT.json
("mutants") puts each in the place of the definition it spoils, and the property
named there must then fail.

### Pipeline

A task is cut at its awaits, and also between the two loads of `live` that
`run()` makes without an await, since another thread may store in between.
`pc[r]` names the await a request stands at; `snap[r]` is the snapshot that
`run_inner` takes; `todo[r]` holds the indices of candidates not tried yet, and
index 0 is the promoted local model that `run_inner` puts in front. `Reload(c)`
stores a new configuration. Shadow tasks (`job[r]`) take their own snapshot and
end in a judgment that may move a label, which is all this module knows of
promotion. Prompts are "p" and "q", answers are empty or not, costs and token
counts are left out, a provider call answers, fails, or opens a stream. The
cache is a set of entries, any of which may vanish at any time (expiry,
capacity). History variables: `failed`, `winner`, `window`.

`GatewayService` is what a client may rely on: each request is settled once, by
a model that some single configuration, live while the request was pending,
allows for it, or by a cached reply to the same directive and prompt. `Pipeline`
implements it under the mapping `ServicePhase`, `Len(records[r])`.

### ConfigStore

One action per shared access of a handler: the edit of the configuration in
force (`PutConfig` ... `RegisterImport`, each ending in `Submit`, which is
`reload`'s validation), `Build`, `Open`, `Write`, `Rename`, `Store`,
`RemoveFile`, and for secrets `PutSecret`, `Dump`, `Load`. Files are inodes, so
that two handlers that open the same temporary file write into each other's
text, and a rename takes whatever is there. `FileError` fails any file
operation, `Crash` kills the process at any point, `Start` loads what is on disk.
A configuration is the sets validation and deletion look at: model ids, ids with
an unknown provider, managed servers (listed and legacy), default, tier targets,
keys. An entry that is created or updated may name a provider that is not known,
which `Build` refuses. The spelling of a path is kept apart from the file it names (`FileAt`),
because `cmf_path_referenced` compares spellings. A handler's locals are cleared
when it replies. Ports, prices and names are left out, and duplicate ids are
refused where the handlers refuse them.

### Promotion

`Judge` is `record`'s locked part (push into both windows, advance the
lifecycle); `Write` is one of the two writes of `writeln!`; `ReplayNext` is one
line of the replay loop. The Wilson bound is compared in integers, for z = 1.96:
`WilsonAtLeast(s, n, <<a, b>>)` is `wilson_bound(s, n) >= a/b`, and `MCPromotion`
evaluates it on the examples of the unit tests. History: `applied` (the judgments
of each label since the table was last empty), `written` (judgments whose append is
done), `clean` (no judgment overlapped
another and no append was lost).

### Stats

`Stamp` reads the clock, `Count` is `record`'s locked part, `Write` the append;
`Clear` and `Truncate` are the two halves of `clear`. Time is a counter that
never goes back; a minute is `Minute` ticks. A record is its time and model, a
`Totals` the number of requests (errors, tokens and costs are summed in the same
places). The `enabled` switch and the Prometheus text are left out. History: `log`
(the records counted since the start or the last clear), `clean`, and the `era` of a
record.

### CmfRuntime

A task `t` is what `AppState::reload` (or `main`, task 0) spawns: `Stop` (the
handles are taken, under their lock), `KillTaken` (their processes are killed,
without it), `Clear` (the slots, under the other lock), `Begin` (`init_servers`),
`Install`, then the loops of `manage`: `Spawn` (the process is there) or
`SpawnFails`, `Push` and `Mark` (`add_child` holds the two locks one after the
other), `Skip`/`Poll`, `Answered` and `SetHealthy`, or `TimedOut`. `pc[t]` is the
step, `at[t]` the loop index, `plan[t]` the server list it was spawned with, and
`hand[t]` the handles the task itself holds: those its stop has taken and not yet
killed, or that of the process it has spawned and not yet pushed. `children` are
the handles the runtime keeps, `known`, `running`, `healthy`, `failed` the slots and
flags of `CmfStatus`. `DeleteModel`, `KillOne` and `Forget` are `stop_one`,
`DeleteReloads`/`DeleteFails` what the handler does after it. The processes are
external: `Serve`, `PortTaken`, `Exit`, `Die`; a port belongs to its process until
that has gone, also after it was killed. Version numbers, logs and thread counts
are left out. History: `clean`, and `due` (the servers in `children` when the reload
of a task came).

### ImportJobs

`Insert`, `SetCancel` are `start_import`; the spawned task is cut at each lock and
await. `Downloads` are the jobs of a repository with a .cmf in it: their task first
awaits the list of files (`Listed`). Then `Spawn` or `SpawnFails`, the `select!` as
`Waited`/`Notified`, for a conversion the join of the two readers of the converter's
pipes (`Joined`, inside the branch that `Waited` took), the three ends (`FinishDone`;
`CleanFailed`, `FinishFailed`; `Reap`, `CleanCancelled`, `SetCancelled`), and
`DropCancel`. At the listing and at the join (`Deaf`) the task hears no cancellation.
`Cancel`/`NotifyOne` and `Delete`/`DeleteFile`/`DeleteEntry` are the handlers, which
take the lock of the job map and of the handle map separately. A `Notify` is a permit
that waits for its task. The converter writes to the output path itself: a file is
the set of jobs whose bytes are in it, `open` is the descriptor, and a removed file
can still be written to by who has it open. `Restart` empties the maps and leaves
converters running. History: `asked`. `ImportService` is implemented under `Phase`,
`Succeeded`.

### StreamRelay

One stream. Bytes are pieces, two per event; a chunk is any run of pieces, so its
ends fall between or inside events. `Receive(n)` is a chunk passing through
`anthropic_to_openai_sse` (or nothing), `Relay` the next chunk passing through
`tap_stream` and `openai_to_anthropic_sse` or `chat_to_completions_sse` (or
nothing), `Deliver` an event taken by the client, `UpstreamEnds`, `Finish` and
`Close` the ends of the generators. `mid` and `out` are what a generator has
yielded and the next has not polled; nothing is read while something is left
(`Starved`), as polling does. An event ends with an empty line as "\n\n"; streams
whose lines end in CRLF, in which no generator would find an end, are not modelled.
`Read` and `Drain` are the loop all four generators
share: append if UTF-8, take complete events, keep the rest; `Left` and `Complete`
are functions of the number of pieces read. `ScriptsAssumption` says what is taken
from the providers: `[DONE]`, if at all, comes last, and no message starts after
the usage of the first. `UpstreamFails` and `Leave` are the two ways in which a stream is broken off.

### SemanticCache

`Begin` fixes signature and vector (with the embedding model of that moment),
`Look` reads the clock, `Hit`/`Miss` is the locked part of `lookup`, `Insert` the
locked part of `insert` with its eviction, `ReadHits`/`ReadMisses` the two loads of
`snapshot`. A vector is the pair of its model and prompt, and `Similarity` any
function to naturals. History: `log`, `asked`, `before`, `snapshot`. `AnswerMemo`
has no queue: the last `Capacity` of all answers, filtered by age.
`Pipeline` keeps its own, coarser cache: a set any member of which may vanish.

## 3. Runs that pass

**pipeline_safety** (`Pipeline.cfg`, about 853 000 states). Two requests out of
auto, pinned, pinned streaming, and streaming with tools; three configurations (routed over a cloud
model and a managed server, local-only with two servers, cloud only with no
default); one reload at any point; cache on. The three configurations make every
outcome of `resolve` happen: pin, local-only, router, router down, missing tier,
everything filtered, safety net. Two requests are enough for one to be answered
from the cache with the other's answer, and for a judgment of the one to promote
the label of the other; one reload is enough for any two snapshots of a task to
differ.
* `PreferenceRespected`: the model that answers was preceded only by candidates
  that were called and failed, and `failover` says so.
* `FailureExhaustive`: an error reaches the client only when every usable
  candidate failed and the safety net had nothing.
* `LedgerExact`: one record per settled request, agreeing with the reply.
* `PinDivertedOnlyByLocalOnly`: an answer to a pinned request comes from another
  model only through local-only, in force for the request itself or for the one
  whose answer the cache repeats.
* `ServicePromise`: refinement of `GatewayService`.

**pipeline_live** (`PipelineLive.cfg`). `EveryRequestSettles`, `EveryShadowEnds`.
Fairness: weak, on the steps of a request once it has arrived and on its shadow
task. The tokio runtime schedules every ready task, and each await ends if the
router (which has a timeout) and the providers answer or fail. The cache is off in
this run. The provider
clients have no timeout of their own, so for them this is an assumption about
the upstream, and it is listed as a hazard. No fairness on arrivals, drops,
reloads or cache eviction. Deadlock is checked: the only final states are those
where all slots are used up (`Quiesced`).

**config_store** (`ConfigStore.cfg`, about 859 000 states, 26 s). Two handlers, three requests of which
at most two overlap, one crash, two ids on one `.cmf` file, a body that moves
between static and managed models. Two handlers suffice for a race on the shared
temporary file, a third request sees the outcome, and the crash may fall between
any two accesses.
* `LiveServable`, `Restartable`: what runs validates and builds; a whole file
  always loads, and a file no two handlers raced over is whole. That a reload is
  undone by a rebuild, or an edit lost to another, they do not tell: what is left is
  servable as well.
* `MemoryMatchesDisk`: between requests that did not overlap, file and memory
  agree, also after failed writes (for the configuration) and restarts.
* `SharedFilesKept`: `delete_model` removes no file that a remaining model uses,
  if one file has one spelling and no other request overlapped. A registration
  between its check and its removal does lose the file.

**promotion** (`Promotion.cfg`, about 640 000 states, 8 s). One label, two tasks,
windows of 4, bar at 2 judgments with a Wilson bound of 1/20, demotion below a pass
rate of 1/2, soak 1, five judgments, one fault (a failed append or a crash). Five
judgments reach canary (2), full serving (3) and demotion (4 or 5), by hard fails as
well as by the pass rate; labels do not interact. The bar is below the demotion rate,
which the code does not exclude: `promote_lb` is configurable, `demote_pass` is not.
* `ServedWithinLimits`: no label is served while its window shows two recent hard
  fails, nor while it shows too low a pass rate, unless its last judgment has just
  made it a canary; then it has met the bar, and the next judgment demotes it.
* `ServingIsEarned`: the same lifecycle stated on the history of judgments.
* `RestartChangesNothing`: the file replays to the table, if no judgment overlapped
  another and no append was lost or cut short by a crash. With overlap, or behind an
  unfinished line, judgments are lost (`PromotionJournal.cfg`).

**stats** (`Stats.cfg`, 1.3 million states). Two tasks, two models, three
records, one clear, one fault, a ring of 2, minutes of two ticks, retention of
one minute, a clock of four ticks: a record can be late, a bucket can expire, the
ring overflows, replay drops a record by age.
* `SnapshotExact`: a window shows the requests counted in its minutes, each once.
* `MemoryBounded`: one bucket at most for each minute of the retention (of the maps
  inside a bucket, by model and label, nothing is said).
* `SurvivesRestart`: a restart shows the same, if every change was appended whole and
  in order (`clean`); what a crash within an append takes with it is not bounded.

**cmf_runtime** (`CmfRuntime.cfg`, about 2.2 million states, 60 s). Server lists:
none, one server, two of which the first has the port and the second the id of that
one, so that ports and ids are taken over; start-up and one reload or deletion, three
spawns, one death. Two tasks suffice to overlap at every step; the third spawn is
the one that meets a port that is still bound. Deadlock is checked: the only final
states are those in which all tasks have ended and no process is about to change
(`Quiesced`).
* `StopStopsAll`: a server that the runtime had a handle of when the reload came does
  not outlive the stop of that reload, unless another stop, or a deletion, has its
  handle and is about to kill it (`Doomed`); with overlap as well. Of a server that
  another task has spawned and not yet pushed this is not so: `CmfStop.cfg`.
* `OneServerPerEntry`: after tasks that did not overlap, only servers of the
  configuration in force run, at most one for each entry. With overlap:
  `CmfObsolete.cfg`.
* `StatusHonest`: then healthy means that the server's own process serves its
  port, and everything else is shown with an error.

**import_jobs** (`ImportJobs.cfg`, about 621 000 states, 70 s). A download and a
conversion that can only take the same path, and one restart. The second job is
needed for the races on the shared path; `OutputMatchesState`, which speaks of a path
with one job, bites while the other has not started (with two paths, `Outputs = {o1,
o2}`, it holds as well, and the theorem covers any number). No symmetry, since
`CancelEffective` is a liveness property. Fairness: weak, on `TaskStep`. The tokio
runtime runs ready tasks, and `wait` returns after `start_kill`. None on `AwaitStep`:
the HTTP client of the listing has no timeout, and a pipe is open as long as any
process that inherited it lives. None on the converter, which may run for ever.
* `ConverterReachable`: a running converter belongs to a running job that can be
  cancelled, unless a restart lost it.
* `OutputMatchesState`: a done job has its whole file, a failed or cancelled one
  leaves nothing, whichever of exit, cancel and clean-up came first.
* `CancelEffective`: an accepted cancel ends the job, whether it came before the
  task reached its `select!` or after, even if the converter never ends, unless the
  task waits for ever at the listing or at the join, where it hears none. That it
  does so without exception, `CancelAlways`, is refuted with `ImportCancel.cfg`.
* `ServicePromise`: refinement of `ImportService`.

**stream_relay** (`StreamRelay.cfg`, about 2 700 states). Six scripts (both
providers; usage once, twice or never; an error event; an empty stream), three
client formats, every cut into chunks. Few states, but the cuts are exhaustive, and
no generator keeps more than one unfinished event. Deadlock is checked. Fairness:
weak, on what the server does while the client stays and reads (`Reads`); nothing
is assumed of the provider, which may fall silent.
* `AnswerPromise`: refinement of `AnswerStream`: the text whole and in order,
  wherever between characters the chunks are cut.
* `EventOrder`: one message with one block for an Anthropic client, one [DONE],
  last, for a completions client.
* `RecordTruthful`: a completed stream is recorded once with the provider's last
  usage or the estimate, and the client was told the same.
* `EndReachesClient`: the provider's end reaches every client that stays.

**semantic_cache** (`SemanticCache.cfg`, about 768 000 states, 90 s). Four
requests with one signature and prompt under two embedding models (so that
similarities differ), a queue of two, a time to live of 0 (found within the second
only), one reload, symmetry. Three inserts evict, and the fourth request looks up among them.
* `MemoPromise`: refinement of `AnswerMemo`.
* `CountersExact`: each lookup is counted once, and a snapshot taken meanwhile lies
  between the counts at its begin and at its end.

CHECK_DEADLOCK is off in config_store, promotion, stats, import_jobs and
semantic_cache: there the bounded counters, jobs or requests run out and the model
stops, which the gateway does not.

## 4. Where code and text disagree

Each configuration checks one sentence of the repository against the code, and TLC
finds a behaviour that contradicts it; the finding in PROJECT.json quotes the
sentence. Three of them are runs of the project; the others are reproduced with
`tlc -config X.cfg M`, with the module in the last column.

| Configuration | Sentence | What happens | Module |
|---|---|---|---|
| `PipelineLocalOnly.cfg` (run pipeline_local_only) | use only local models | `local_candidates` appends the default, which may be a cloud model | `MCPipeline` |
| `ConfigRace.cfg` (run config_race) | on failure the file is unchanged | two saves share `gateway.toml.tmp` | `MCConfigStore` |
| `StreamCut.cfg` (run stream_cut) | the gateway translates through the canonical model | a chunk cut inside a character is skipped by every generator, and its events are lost | `MCStreamRelay` |
| `PipelinePin.cfg` | a pin never silently answers from a different model | a cached local-only answer is repeated after local-only is off | `MCPipeline` |
| `PipelineJudge.cfg` | only judge cloud-served answers | the answer of another managed server is taken as the reference | `MCPipeline` |
| `PipelineTools.cfg` | a model is selected if it supports the capabilities | the promoted local model goes in front after the filter | `MCPipeline` |
| `ConfigPaths.cfg` | no file that another model shares is deleted | two spellings of one path, which there are if `models_dir` is configured relative or leads through a symbolic link (the default is absolute) | `MCConfigStore` |
| `PromotionJournal.cfg` | a judgment is a line, replayed on startup | two texts on one line, both skipped | `MCPromotion` |
| `StatsClear.cfg` | clear the log | a record counted before is appended after | `MCStats` |
| `CmfStop.cfg` | a stop stops all managed servers | a task of another reload has spawned a process and not yet pushed its handle when the stop takes the handles | `MCCmfRuntime` |
| `CmfObsolete.cfg` | one `cortiq serve` per entry, each on its own port | a slow task of an earlier reload spawns its servers after the later stop | `MCCmfRuntime` |
| `CmfDeath.cfg` | spawns and supervises | a server that died of itself stays shown as running | `MCCmfRuntime` |
| `ImportShared.cfg` | cleans up its partial output | of two imports of one name, the failing one removes the file of the done one | `MCImportJobs` |
| `ImportCancel.cfg` | a notified task aborts its converter | the list of files never comes, or a pipe stays open after the converter ended: the task hears no cancellation | `MCImportJobs` |
| `CacheReload.cfg` | similarity to a previous request | vectors of two embedding models are compared after a reload | `MCSemanticCache` |

One more needs no configuration: a comment of `put_settings` in
`admin/mod.rs` says that the settings of managed servers apply on restart, while
`reload` stops and starts the servers at once, which is how `CmfRuntime` has it.

## 5. Theorems

**PipelineProofs.** Assumption: `ConfigsAssumption` (the configurations validate;
no id is empty).
* `TypeCorrect`, by `TypeInv`: `TypeOK` and `Decided`, that a request being tried
  or streamed, or with a shadow task, has a real task label, so that promoting it
  stays within the labels.
* `RecordedOnce`: `LedgerExact`, by `LedgerInv`, which adds that a request
  still on its way has no reply; without it the record of a refusal, which names
  no model, could disagree with the reply.
* `KeepsPromise`: `Pipeline` implements `GatewayService` for any number of
  requests, models, reloads. `PromiseInv` has three parts: a snapshot belongs to
  the window of its request (`SnapInWindow`); what is still to be tried, and
  registered, is eligible under that snapshot (`PlanEligible`), which covers the
  safety net and the promoted model that bypass the filter; a cache entry was
  given to an earlier settled request of the same directive and prompt
  (`CacheGiven`). With them every action maps to an abstract step or a stutter.
* `PreferredFirst`: `PreferenceRespected`; `ErrorsAreLast`: `FailureExhaustive`. The
  invariant `FailoverInv` relates the plan of a request to what is left of it: every
  usable candidate, and the promoted model in front, is still to be tried or was
  called in vain (`Covered`). `ResolveDecides` shows that `resolve` establishes this,
  `LoopCovers` that the loop keeps it.
* `PinsDivertedLocally`: `PinDivertedOnlyByLocalOnly`, by `PinInv`: an entry of the
  cache that is not the pinned model was given to a request under local-only that is
  done. Done, not streaming: a stream may be dropped, and its request with it.

**ConfigStoreProofs.** Assumption: `StoreAssumption` (finitely many handlers,
sets of ids, values and paths well formed).
* `TypeCorrect`, including that a new file always finds a free inode.
* `AlwaysServable`: `LiveServable` for any number of handlers, faults and crashes,
  by `Sound`: besides the configuration in force, every whole text in any inode
  is servable, every draft validates, and every draft past `Build` is servable.
  The texts are needed because a restart loads one, the drafts because one
  becomes a text.
* `RestartFindsWholeFile`: `Restartable`; `MemoryIsOnDisk`: `MemoryMatchesDisk`, both
  by `FilesInv`. Two parts hold always: files and temporary files never share an
  inode (`Separate`), and a file that does not parse holds no secret. The rest holds
  until requests overlap, and again from the next start: at most one request is in
  progress (`Lone`), what it has written is its own text (`Progress`), and memory
  and disk differ by what it still owes (`Agreement`). `ContinueAlone` is the step of
  a request that none overlaps; `StartInTurn` shows that a start establishes all of
  it from any disk it can start from, left-over temporary files included.
* `DeletionSparesUsed`: `SharedFilesKept`, from the further assumption
  `SpelledAlike` (no two paths name one file; section 4 shows what happens
  otherwise), by `DoomInv`: the path a deletion will remove is not used by the
  configuration it installs, and that is the one in force when it removes it.

**PromotionProofs.** Assumption: `PromotionAssumption` (sizes are naturals,
thresholds are fractions).
* `TypeCorrect`: no window exceeds its capacity and both have one length.
* `NeverServedOutsideLimits`: `ServedWithinLimits` for every window, bar, demotion
  rate and soak (0 included), whichever of bar and demotion rate is the higher, and
  every interleaving. The invariant is the property with the type invariant:
  `AdvanceLimited` shows one step of the lifecycle restores it (no hard fail in the
  window means none among the recent ones, `NoFailsNoRecentFails`).
* `NeverServedRegressed`: if the bar is not below the demotion rate
  (`BarAboveDemotion`, as with the defaults), no served label is one that the next
  judgment would demote as it stands. `BarNotRegressed` compares the fractions by
  cross multiplication.
* `ServingEarned`: `ServingIsEarned`, which speaks of the whole history of a label
  and not of its windows. The windows are the end of the history (`WindowsTell`,
  kept by `PushShows`), and `Earning` follows the lifecycle along it: which
  judgment met the bar, and that none since fell below the limits.
* `RestartKeepsTheTable`: `RestartChangesNothing`, for files of any length. The
  replay of a file is a function of the number of texts read; `ReplayExists` and
  `ReplayAgrees` show that there is exactly one such function, by which the replay
  of a file with one more text is one step more (`ReplayText`, `ReplayNewLine`).
  `Journalled` then says what file and table owe each other while a judgment is
  between its two writes, in a restart, or done with.

**StatsProofs.** Assumption: `StatsAssumption` (ring and minute at least 1) and
`NewLineAssumption` (a newline is not a record).
* `SnapshotCounts`: `SnapshotExact`, `BucketsBounded`: `MemoryBounded`, and
  `TypeCorrect`, all by `Inv`, whose heart is `Represents`: the ring is the end of
  the log (`Recents`); the buckets are `Faithful` to it (in order; a bucket not
  older than the retention holds the number of records of its minute that did not
  come late, `Holds`; each such record has one, `Covers`); and they lie on whole
  minutes (`OnGrid`) within the retention of each other (`Spread`). One case of
  `Placed` each is `FaithfulStarts`, `FaithfulFills`, `FaithfulIgnores`; trimming
  and the passing of time only narrow what is claimed. A sum over buckets is then
  the size of the set of records they divide up (`SumCounts`), and buckets on a
  grid within the retention are at most `Retention \div Minute + 1`
  (`SeriesBounded`). What the recursion `Replayed` computes represents the records
  of the file (`ReplayRepresents`), so that a start establishes the invariant, and
  no time lies in the future (`Past`).
* `RestartKeepsTheStatistics`: `SurvivesRestart`. `Journalled` says what memory and
  log owe each other while a record is between its two writes or a clear between
  its two halves; at a quiet moment both represent one sequence of records, and
  what represents the same shows the same.

**CmfRuntimeProofs.** Assumption: `RuntimeAssumption` (lists of entries with unique
ids and ports, as `Config::validate` requires).
* `TypeCorrect`: flags only in slots, handles only of spawned processes, loop
  indices within the lists.
* `StopReachesAll`: `StopStopsAll`, for any number of tasks and deletions that
  overlap. `DueReached` says of the servers that were in `children` when a task was
  spawned that, while alive, they are there still and the task's stop is to come, or
  that they are doomed: whoever takes a handle from `children` is about to kill.
* `OnlyConfiguredRun`: `OneServerPerEntry`. `Owned` says where the handle of a live
  server is: in `children`, with the task that spawned it, or with who is about to
  kill it. The invariant is `Orderly`: while `clean`, at most the last task is under
  way, its list is the configuration, what it has taken is all that runs until it is
  killed, and what it has spawned are the entries before its loop index, each once;
  with `ListsInv` (every list in use is valid).
* `ConsoleTellsTruth`: `StatusHonest`, by `Honest`: the flags of every entry tell how
  far the loops of the last task have come (`Shown`), and an entry that is shown as
  healthy is served. `TallyAnswered` is the step that needs the rest: who answers
  on the port is alive, hence (`Orderly`) spawned for an entry of this list, and
  ports differ.

**ImportJobsProofs.** Assumption: `ImportAssumption` (a path is not the absence of
one). One invariant `IInv`, of `TypeOK`, `Life` (what the step of a task says of
state, handle and converter of its job), `Evidence` (done, cancelled and deleting
have their reason) and `Files` (what is in a file no other job writes).
* `NoHiddenConverter`: `ConverterReachable`. `FileTellsState`: `OutputMatchesState`.
* `ImportsImplementService`: `ServicePromise`, any number of jobs sharing any paths.
* `TypeCorrect`: a handle is never left in the map without its job.

**SemanticCacheProofs.** Assumption: `CacheAssumption` (finitely many requests,
similarities are naturals, capacity at least 1).
* `TypeCorrect`: the queue never exceeds its capacity.
* `DashboardAddsUp`: `CountersExact`, with `SnapshotOK` for the snapshot under way.
* `CacheImplementsMemo`: `MemoPromise`. The heart is `QueueOK`: the queue is the end
  of the list of all answers ever stored (`EvictKeepsEnd` restores it), so that an
  index into the one is an index into the other (`FoundInLog`, `LogInQueue`); the
  cutoff of a lookup is that of the moment it is asked at (`LookupOK`).

**StreamRelayProofs.** Assumptions: `RelayAssumption` (the three client formats) and
`ScriptsAssumption` (see section 2). `TypeCorrect` and `OrderKept` hold of every cut,
also inside a character: neither needs the text to arrive. `RecordsTrue` and
`AnswerKept` have the hypothesis `Whole`: no event of a stream is `cut`, that is, no
chunk ends inside a character. Streams of ASCII text are whole, however they are
cut. Without the hypothesis both fail: the run stream_cut shows the text lost, and
with `RecordTruthful` in place of its invariant the estimate short of that text.
* The functions of `Left`, `Complete`, `Of` and `Translation` are recursive over the
  bytes or events. For each, one lemma shows that a function with these equations
  exists, one that it is unique, and so what it is for nothing and for one more
  (`DrainNothing`, `DrainMore`, `OfMore`, `TranslationMore`): what later inductions use.
* `TypeCorrect`: `TypeOK`, by `Typed`, which adds what the buffers, `mid`, `out` and
  `got` consist of: halves of events the provider sent or the translation made.
* `OrderKept`: `EventOrder`, by `Inv`. `Framed` says, for an Anthropic client, how
  what it has and what waits for it make up the frame: the opening, deltas only
  (`Flows`), the closing exactly once the stream is recorded. `EndsLast` is for a
  completions client: a `[DONE]` in the client's hands or waiting is the last, and
  then no generator holds a piece that could still become an event (`Exhausted`);
  without that part a later chunk might bring one after it.
* `RecordsTrue`: `RecordTruthful`, for whole streams, by `Intact`: what a generator
  keeps between two polls is a function of all that has passed it, whatever the
  chunks. `Reading` says it of the translation from the Anthropic format and what
  has `Arrived`; `Relayed` of `tap_stream` (`Counted`) and the client's translation
  (`Passed`) and the part of their `Source` that does not wait in `mid`; `Booked` that
  a stream is recorded once, and only when nothing waits. A chunk more keeps it
  because reading, translating and selecting in two steps are the same at once
  (`DrainConcat`, `TranslationConcat`, `OfConcat`). At the end, decoding the bytes of
  a list of events gives the list back (`DecodeWhole`), and the translation keeps
  deltas and the last usage (`TranslationSays`, `TranslationCounts`), so that the
  record is the one `Due` (`EndTells`, `RecordIsDue`).
* `AnswerKept`: `AnswerPromise`, for whole streams. By `Intact`, what the client has
  of the text is a beginning of what the last generators have read
  (`ReceivedBegins`), and that of what the provider says (`SourceSays`); at the end
  each is all of it (`TextTrue`). `Deliver` then shows more or nothing
  (`DeliverShows`), `Close` completes, `Leave` and `UpstreamFails` break, and all
  other steps stutter (`StepService`).

## 6. Model-checked only

* Liveness: `EveryRequestSettles`, `EveryShadowEnds`, `CancelEffective`,
  `EndReachesClient`. The prover does not handle fairness.

Inductions over data (a file of any length, a sum over any set) are proved without
the library's induction theorems, which take an operator as parameter: as statements
about a set of numbers that holds 0 and successors (`SetInduction`, from the least
element of what is missing), or about a smallest counterexample (`SumCounts`).

## 7. Not modelled

* `put_protocols` and the sections of `put_settings` other than `[cmf]`: they
  change fields no other modelled part reads.
* Read-only handlers, probes, authentication, tokens, asset serving.
* The translation of requests and of answers that are not streamed, and the calls
  of the providers that are not streamed: functions without state; the pipeline
  sees their outcomes. Tool calls within a stream are among "other" events.
* Of the local servers: versions, logs, thread and GPU settings. Of imports:
  progress, logs, the search on HuggingFace, the arguments of the converter. Of the
  cache: vector arithmetic and costs saved. Of statistics: token and cost sums, the
  Prometheus text, pagination.
* The refusals of the chat handlers before a request reaches the pipeline (protocol
  disabled, no messages): they leave no record. `Arrive` is a request handed to `run`
  or `run_stream`.
* Files removed by `delete_model` while an import writes them: `ConfigStore` and
  `ImportJobs` are not composed.

## 8. Plan

1. Done: every component that has state is modelled; every safety property and
   refinement a passing run checks is a theorem.
2. `Promotion` composed with the shadow condition of `Pipeline`: a label that is
   served locally gets no further judgments while the reference is a local answer,
   so that nothing demotes it (the hazard at `promotion.rs:249`).
3. `ImportJobs` composed with `register_import` and `delete_model`.
