------------------------------ MODULE Pipeline ------------------------------
(***************************************************************************)
(* The request path of the gateway (src/src/pipeline.rs): requests run as  *)
(* concurrent tasks while an administrator reloads the configuration and   *)
(* shadow judgments promote and demote task labels.                        *)
(*                                                                         *)
(* A task is cut at its awaits (embedding, router, provider, stream): what *)
(* it does between two of them is one action.  The two snapshots of `live` *)
(* that run() takes with no await in between are separate actions, because *)
(* another thread may store a new `Live` between the loads.                *)
(***************************************************************************)
EXTENDS LiveConfig, FiniteSets

CONSTANTS Requests,   \* request slots, each used once
          CacheOn,    \* [cache].enabled: read once, at start
          MaxReloads  \* bound on the reloads of one behaviour

VARIABLES live,       \* AppState::live, an ArcSwap<Live>
          reloads,    \* how often it was stored (bounded)
          promoted,   \* task labels Promotion::serves_local answers TRUE for
          cache,      \* SemanticCache entries: [pin, prompt, model]
          pc,         \* Requests -> where the task is
          request,    \* Requests -> what the client asked
          cacheKey,   \* Requests -> run() holds a cache key for the answer
          shadowCfg,  \* Requests -> the Live whose [shadow] run() captured
          snap,       \* Requests -> the Live run_inner / run_stream works on
          decision,   \* Requests -> route decision, with the candidate list
          front,      \* Requests -> promoted local model put at index 0
          todo,       \* Requests -> indices of the candidates still to try
          attempt,    \* Requests -> the counter `attempt`
          reply,      \* Requests -> model that answered, or NoModel
          records,    \* Requests -> its RequestRecords in the statistics
          job         \* Requests -> the shadow_capture task it spawned

(* History, read by no action: the indices of the candidates called in vain,
   the index that answered, and the configurations live since the arrival. *)
VARIABLES failed, winner, window

plan == <<snap, decision, front, todo, attempt, failed>>
vars == <<live, reloads, promoted, cache, pc, request, cacheKey, shadowCfg, plan,
          reply, records, job, winner, window>>

Settled == {"done", "failed", "gone"}
Sources == {"none", "local", "pinned", "router", "fallback"}
Record == [model: Models \cup {NoModel}, source: Sources \cup {"cache"},
           outcome: {"ok", "error"}, failover: BOOLEAN]

NoDecision == Decision("none", "none", "none", <<>>)
DecisionType ==
  [source: Sources, label: Labels \cup LocalLabels \cup {"none"},
   tier: Tiers \cup LocalLabels \cup {"none"}, cands: Seq(Models \cup {NoModel})]

TypeOK ==
  /\ live \in Configs
  /\ reloads \in Nat
  /\ promoted \subseteq Labels \cup LocalLabels
  /\ cache \subseteq [pin: Models \cup {NoModel}, prompt: Prompts, model: Models]
  /\ pc \in [Requests -> {"idle", "embedding", "planning", "starting",
                          "resolving", "trying", "streaming"} \cup Settled]
  /\ request \in [Requests -> Asks]
  /\ cacheKey \in [Requests -> BOOLEAN]
  /\ shadowCfg \in [Requests -> Configs]
  /\ snap \in [Requests -> Configs]
  /\ decision \in [Requests -> DecisionType]
  /\ front \in [Requests -> Models \cup {NoModel}]
  /\ todo \in [Requests -> SUBSET Nat]
  /\ attempt \in [Requests -> Nat]
  /\ reply \in [Requests -> Models \cup {NoModel}]
  /\ records \in [Requests -> Seq(Record)]
  /\ job \in [Requests -> {"none", "spawned", "judging"}]
  /\ failed \in [Requests -> SUBSET Nat]
  /\ winner \in [Requests -> Nat]
  /\ window \in [Requests -> SUBSET Configs]

Init ==
  /\ live \in Configs
  /\ reloads = 0
  /\ promoted = {}
  /\ cache = {}
  /\ pc = [r \in Requests |-> "idle"]
  /\ request \in [Requests -> Asks]
  /\ cacheKey = [r \in Requests |-> FALSE]
  /\ shadowCfg = [r \in Requests |-> live]
  /\ snap = [r \in Requests |-> live]
  /\ decision = [r \in Requests |-> NoDecision]
  /\ front = [r \in Requests |-> NoModel]
  /\ todo = [r \in Requests |-> {}]
  /\ attempt = [r \in Requests |-> 0]
  /\ reply = [r \in Requests |-> NoModel]
  /\ records = [r \in Requests |-> <<>>]
  /\ job = [r \in Requests |-> "none"]
  /\ failed = [r \in Requests |-> {}]
  /\ winner = [r \in Requests |-> 0]
  /\ window = [r \in Requests |-> {}]

Goto(r, l) == pc' = [pc EXCEPT ![r] = l]

(* Stats::record: one more RequestRecord of request r. *)
Log(r, model, source, outcome, failover) ==
  records' = [records EXCEPT ![r] = Append(@,
    [model |-> model, source |-> source, outcome |-> outcome,
     failover |-> failover])]

-----------------------------------------------------------------------------
(* The administrator: AppState::reload stores another Live.  (Storing an equal
   one would change nothing.) *)
Reload(c) ==
  /\ reloads < MaxReloads /\ c # live
  /\ reloads' = reloads + 1
  /\ live' = c
  /\ window' = [r \in Requests |->
       IF pc[r] \in Settled \cup {"idle", "streaming"} THEN window[r]
       ELSE window[r] \cup {c}]
  /\ UNCHANGED <<promoted, cache, pc, request, cacheKey, shadowCfg, plan,
                 reply, records, job, winner>>

(* An entry of the semantic cache expires or is evicted. *)
Forget(e) ==
  /\ cache' = cache \ {e}
  /\ UNCHANGED <<live, reloads, promoted, pc, request, cacheKey, shadowCfg, plan, reply,
                 records, job, winner, window>>

(* A protocol handler calls run, or run_stream, which has no cache and no
   shadow loop. *)
Arrive(r) ==
  /\ pc[r] = "idle"
  /\ Goto(r, IF request[r].stream THEN "starting"
             ELSE IF CacheOn THEN "embedding" ELSE "planning")
  /\ window' = [window EXCEPT ![r] = {live}]
  /\ UNCHANGED <<live, reloads, promoted, cache, request, cacheKey, shadowCfg, plan,
                 reply, records, job, winner>>

\* Slip: entries of all directives share one partition.
CacheHitAnyDirective(r, e) ==
  /\ pc[r] = "embedding" /\ e.prompt = request[r].prompt
  /\ reply' = [reply EXCEPT ![r] = e.model]
  /\ Log(r, e.model, "cache", "ok", FALSE)
  /\ Goto(r, "done")
  /\ UNCHANGED <<live, reloads, promoted, cache, request, cacheKey, shadowCfg,
                 plan, job, winner, window>>

(* The embedding is there and the cache holds an answer to the same directive
   close enough to the prompt: reply with it, recording a "cache" success. *)
CacheHit(r, e) ==
  /\ pc[r] = "embedding"
  /\ e.pin = request[r].pin /\ e.prompt = request[r].prompt
  /\ reply' = [reply EXCEPT ![r] = e.model]
  /\ Log(r, e.model, "cache", "ok", FALSE)
  /\ Goto(r, "done")
  /\ UNCHANGED <<live, reloads, promoted, cache, request, cacheKey, shadowCfg, plan,
                 job, winner, window>>

(* A miss keeps the key for the answer; no embedding (no model for it, an
   upstream error), no key. *)
CacheMiss(r, embedded) ==
  /\ pc[r] = "embedding"
  /\ embedded => ~\E e \in cache : e.pin = request[r].pin
                                   /\ e.prompt = request[r].prompt
  /\ cacheKey' = [cacheKey EXCEPT ![r] = embedded]
  /\ Goto(r, "planning")
  /\ UNCHANGED <<live, reloads, promoted, cache, request, shadowCfg, plan, reply,
                 records, job, winner, window>>

CaptureShadow(r) ==
  /\ pc[r] = "planning"
  /\ shadowCfg' = [shadowCfg EXCEPT ![r] = live]
  /\ Goto(r, "starting")
  /\ UNCHANGED <<live, reloads, promoted, cache, request, cacheKey, plan, reply,
                 records, job, winner, window>>

TakeSnapshot(r) ==
  /\ pc[r] = "starting"
  /\ snap' = [snap EXCEPT ![r] = live]
  /\ Goto(r, "resolving")
  /\ UNCHANGED <<live, reloads, promoted, cache, request, cacheKey, shadowCfg, decision,
                 front, todo, attempt, failed, reply, records, job, winner,
                 window>>

-----------------------------------------------------------------------------
\* Slip: the capability filter looks at the registry only.
KeptRegistered(c, q, s) == {i \in DOMAIN s : s[i] \in c.models}

(* Positions of the candidates that survive the capability filter. *)
Kept(c, q, s) == {i \in DOMAIN s : Fits(c, q, s[i])}

\* Slip: the safety net is left out.
NettedNever(c, q, d) == {d}

(* The safety net: an unpinned request left with no candidate takes the local
   ones, when the gateway manages servers. *)
Netted(c, q, d) ==
  IF Kept(c, q, d.cands) # {} \/ Pinned(q) \/ ~c.manage THEN {d}
  ELSE {[d EXCEPT !.cands = s] : s \in LocalCandidates(c)}

(* A promoted label is served by the local model first: run_inner only, never
   for a pin or a hard tier, nor when the model is among the candidates. *)
LocalFirst(c, q, d) ==
  /\ ~q.stream /\ ~Pinned(q)
  /\ c.serve /\ c.local # NoModel
  /\ d.label \in promoted
  /\ d.tier \notin HardTiers
  /\ \A i \in Kept(c, q, d.cands) : d.cands[i] # c.local

(* resolve() fails: no usable candidate.  Recorded and reported at once. *)
Refuse(r, d) ==
  /\ Kept(snap[r], request[r], d.cands) = {}
  /\ Log(r, NoModel, "none", "error", FALSE)
  /\ decision' = [decision EXCEPT ![r] = d]
  /\ Goto(r, "failed")
  /\ UNCHANGED <<front, todo>>

Plan(r, d) ==
  LET kept  == Kept(snap[r], request[r], d.cands)
      first == LocalFirst(snap[r], request[r], d)
  IN  /\ kept # {}
      /\ decision' = [decision EXCEPT ![r] = d]
      /\ front' = [front EXCEPT ![r] = IF first THEN snap[r].local ELSE NoModel]
      /\ todo' = [todo EXCEPT ![r] = IF first THEN kept \cup {0} ELSE kept]
      /\ Goto(r, "trying")
      /\ UNCHANGED records

\* Slip: an empty candidate list is waited out instead of refused.
ResolveWaits(r) ==
  /\ pc[r] = "resolving"
  /\ \E d \in Decisions(snap[r], request[r]) : Plan(r, d)
  /\ UNCHANGED <<live, reloads, promoted, cache, request, cacheKey, shadowCfg,
                 snap, attempt, failed, reply, job, winner, window>>

Resolve(r) ==
  /\ pc[r] = "resolving"
  /\ \E d \in Decisions(snap[r], request[r]) :
       \E e \in Netted(snap[r], request[r], d) : Refuse(r, e) \/ Plan(r, e)
  /\ UNCHANGED <<live, reloads, promoted, cache, request, cacheKey, shadowCfg, snap,
                 attempt, failed, reply, job, winner, window>>

-----------------------------------------------------------------------------
(* The candidate at position i; position 0 is the promoted local model. *)
ModelAt(r, i) == IF i = 0 THEN front[r] ELSE decision[r].cands[i]

\* Slip: the remaining candidates are tried in no order.
AtAnyCandidate(r, i) == pc[r] = "trying" /\ i \in todo[r]

(* The failover loop is at position i. *)
AtCandidate(r, i) ==
  /\ pc[r] = "trying"
  /\ i \in todo[r] /\ \A j \in todo[r] : i <= j

(* `None => continue`: an id with no provider is passed over, uncounted. *)
Skip(r, i) ==
  /\ AtCandidate(r, i)
  /\ ModelAt(r, i) \notin snap[r].models
  /\ todo' = [todo EXCEPT ![r] = @ \ {i}]
  /\ UNCHANGED <<live, reloads, promoted, cache, pc, request, cacheKey, shadowCfg, snap,
                 decision, front, attempt, failed, reply, records, job, winner,
                 window>>

CallFails(r, i) ==
  /\ AtCandidate(r, i)
  /\ ModelAt(r, i) \in snap[r].models
  /\ todo' = [todo EXCEPT ![r] = @ \ {i}]
  /\ attempt' = [attempt EXCEPT ![r] = @ + 1]
  /\ failed' = [failed EXCEPT ![r] = @ \cup {i}]
  /\ UNCHANGED <<live, reloads, promoted, cache, pc, request, cacheKey, shadowCfg, snap,
                 decision, front, reply, records, job, winner, window>>

\* Slip: run_stream returns the last error without record_error.
GiveUpUnrecorded(r) ==
  /\ pc[r] = "trying" /\ todo[r] = {}
  /\ IF request[r].stream THEN UNCHANGED records
     ELSE Log(r, NoModel, "none", "error", FALSE)
  /\ Goto(r, "failed")
  /\ UNCHANGED <<live, reloads, promoted, cache, request, cacheKey, shadowCfg,
                 plan, reply, job, winner, window>>

GiveUp(r) ==
  /\ pc[r] = "trying" /\ todo[r] = {}
  /\ Log(r, NoModel, "none", "error", FALSE)
  /\ Goto(r, "failed")
  /\ UNCHANGED <<live, reloads, promoted, cache, request, cacheKey, shadowCfg, plan,
                 reply, job, winner, window>>

(* run() spawns shadow_capture for a sampled answer unless the model that
   answered is the shadow's own local model. *)
Shadows(r, m) ==
  /\ shadowCfg[r].shadow
  /\ m # shadowCfg[r].local

(* A provider answers: run() records it, stores it in the cache, may spawn the
   shadow judgment, and replies.  An empty answer is neither stored nor judged. *)
CallAnswers(r, i, empty, sampled) ==
  LET m == ModelAt(r, i) IN
  /\ AtCandidate(r, i)
  /\ m \in snap[r].models
  /\ ~request[r].stream
  /\ reply' = [reply EXCEPT ![r] = m]
  /\ winner' = [winner EXCEPT ![r] = i]
  /\ Log(r, m, decision[r].source, "ok", attempt[r] > 0)
  /\ cache' = IF empty \/ ~cacheKey[r] THEN cache
              ELSE cache \cup {[pin |-> request[r].pin,
                                prompt |-> request[r].prompt, model |-> m]}
  /\ job' = IF empty \/ ~sampled \/ ~Shadows(r, m) THEN job
            ELSE [job EXCEPT ![r] = "spawned"]
  /\ Goto(r, "done")
  /\ UNCHANGED <<live, reloads, promoted, request, cacheKey, shadowCfg, plan, window>>

(* run_stream: the upstream stream is open and the client gets its headers. *)
StreamOpens(r, i) ==
  LET m == ModelAt(r, i) IN
  /\ AtCandidate(r, i)
  /\ m \in snap[r].models
  /\ request[r].stream
  /\ reply' = [reply EXCEPT ![r] = m]
  /\ winner' = [winner EXCEPT ![r] = i]
  /\ Goto(r, "streaming")
  /\ UNCHANGED <<live, reloads, promoted, cache, request, cacheKey, shadowCfg, plan,
                 records, job, window>>

(* tap_stream is polled to the end of the upstream stream and records it; an
   error item among the chunks makes the record an error. *)
StreamEnds(r, outcome) ==
  /\ pc[r] = "streaming"
  /\ Log(r, reply[r], decision[r].source, outcome, attempt[r] > 0)
  /\ Goto(r, "done")
  /\ UNCHANGED <<live, reloads, promoted, cache, request, cacheKey, shadowCfg, plan,
                 reply, job, winner, window>>

(* Dropped at an await: the client disconnected, or the adapter above the
   stream stopped polling after an error.  Nothing is recorded. *)
Awaiting(r) ==
  \/ pc[r] \in {"embedding", "streaming"}
  \/ pc[r] = "resolving" /\ NeedsRouter(snap[r], request[r])
  \/ \E i \in todo[r] : AtCandidate(r, i) /\ ModelAt(r, i) \in snap[r].models

Drop(r) ==
  /\ Awaiting(r)
  /\ Goto(r, "gone")
  /\ UNCHANGED <<live, reloads, promoted, cache, request, cacheKey, shadowCfg, plan,
                 reply, records, job, winner, window>>

-----------------------------------------------------------------------------
(* shadow_capture, a task of its own on yet another snapshot: it takes both
   providers, asks the local model, then the judge, and records the verdict.
   Any failure ends it silently. *)
Advance(r, l) ==
  /\ job' = [job EXCEPT ![r] = l]
  /\ UNCHANGED <<live, reloads, cache, pc, request, cacheKey, shadowCfg, plan, reply,
                 records, winner, window>>

ShadowStarts(r) ==
  /\ job[r] = "spawned"
  /\ {shadowCfg[r].local, shadowCfg[r].judge} \subseteq live.models
  /\ Advance(r, "judging")
  /\ UNCHANGED promoted

\* Slip: a missing provider leaves the task waiting for it.
ShadowFailsLate(r) ==
  /\ job[r] = "judging"
  /\ Advance(r, "none")
  /\ UNCHANGED promoted

ShadowFails(r) ==
  /\ job[r] # "none"
  /\ job[r] = "spawned" =>
       ~({shadowCfg[r].local, shadowCfg[r].judge} \subseteq live.models)
  /\ Advance(r, "none")
  /\ UNCHANGED promoted

(* The judgment may promote the label, demote it, or leave it. *)
ShadowJudged(r) ==
  LET l == decision[r].label IN
  /\ job[r] = "judging"
  /\ promoted' \in {promoted, promoted \cup {l}, promoted \ {l}}
  /\ Advance(r, "none")

-----------------------------------------------------------------------------
RequestStep(r) ==
  \/ Arrive(r)
  \/ \E e \in cache : CacheHit(r, e)
  \/ \E b \in BOOLEAN : CacheMiss(r, b)
  \/ CaptureShadow(r)
  \/ TakeSnapshot(r)
  \/ Resolve(r)
  \/ \E i \in todo[r] :
       \/ Skip(r, i)
       \/ CallFails(r, i)
       \/ StreamOpens(r, i)
       \/ \E empty, sampled \in BOOLEAN : CallAnswers(r, i, empty, sampled)
  \/ GiveUp(r)
  \/ \E o \in {"ok", "error"} : StreamEnds(r, o)
  \/ Drop(r)

ShadowStep(r) ==
  ShadowStarts(r) \/ ShadowFails(r) \/ ShadowJudged(r)

(* Every slot is used up: the bounded model, not the gateway, has no more to do. *)
Quiesced ==
  /\ \A r \in Requests : pc[r] \in Settled /\ job[r] = "none"
  /\ UNCHANGED vars

Next ==
  \/ Quiesced
  \/ \E c \in Configs : Reload(c)
  \/ \E e \in cache : Forget(e)
  \/ \E r \in Requests : RequestStep(r) \/ ShadowStep(r)

Spec == Init /\ [][Next]_vars

(* The runtime schedules every ready task, and the router, the providers and
   the embedding model answer or fail in the end: the router client has a
   timeout, the others are assumed to (they have none of their own). Clients
   need not arrive, leave, or see the cache forget. *)
Progress(r) == RequestStep(r) /\ ~Arrive(r) /\ ~Drop(r)

FairSpec ==
  Spec /\ \A r \in Requests : WF_vars(Progress(r)) /\ WF_vars(ShadowStep(r))

-----------------------------------------------------------------------------
(* A provider's answer settled r, or is being streamed to it. *)
AnsweredByCall(r) ==
  pc[r] \in {"done", "streaming"} /\ decision[r] # NoDecision

(* Failover follows the preference order: the model that answers was preceded
   by no usable candidate that had not been called and failed first, and the
   reply is flagged `failover` exactly when such a call failed. *)
ByPreference(r) ==
  AnsweredByCall(r) =>
    /\ \A i \in Kept(snap[r], request[r], decision[r].cands) :
         i < winner[r] => i \in failed[r]
    /\ front[r] \in snap[r].models /\ winner[r] > 0 => 0 \in failed[r]
    /\ pc[r] = "done" => (records[r][1].failover <=> failed[r] # {})

PreferenceRespected == \A r \in Requests : ByPreference(r)

(* The client gets an error only when nothing is left to try: every usable
   candidate was called in vain, and if none was usable the managed servers
   and the default could not have served the request either. *)
Exhausted(r) ==
  LET c == snap[r]
      q == request[r]
  IN  /\ Kept(c, q, decision[r].cands) \subseteq failed[r]
      /\ front[r] \in c.models => 0 \in failed[r]
      /\ failed[r] = {} /\ ~Pinned(q) /\ c.manage =>
           \A m \in Range(c.servers) \cup {c.default} : ~Fits(c, q, m)

FailureExhaustive == \A r \in Requests : pc[r] = "failed" => Exhausted(r)

(* The statistics hold exactly one record of a request that was answered or
   refused, agreeing with what the client got, and none of any other: neither
   failover nor the cache nor a stream records twice. *)
LedgerExact ==
  \A r \in Requests :
    IF pc[r] \in {"done", "failed"}
    THEN /\ Len(records[r]) = 1
         /\ records[r][1].model = reply[r]
         /\ pc[r] = "failed" => records[r][1].outcome = "error"
    ELSE records[r] = <<>>

(* A pin is answered by another model only because of [cmf].local_only: under
   it, or by the cache repeating an answer given to the same pin under it. *)
PinDivertedOnlyByLocalOnly ==
  \A r \in Requests :
    Pinned(request[r]) /\ pc[r] \in {"done", "streaming"} /\ reply[r] # request[r].pin =>
    \E o \in Requests : /\ snap[o].localOnly /\ AnsweredByCall(o)
                         /\ request[o].pin = request[r].pin
                         /\ reply[o] = reply[r]

(* The gateway keeps its promise to clients (module GatewayService). *)
ServicePhase(r) ==
  CASE pc[r] \in {"idle", "failed", "gone", "streaming"} -> pc[r]
    [] pc[r] = "done" -> "answered"
    [] OTHER -> "pending"

Service == INSTANCE GatewayService
             WITH phase <- [r \in Requests |-> ServicePhase(r)],
                  ledger <- [r \in Requests |-> Len(records[r])]

ServicePromise == Service!Spec

(* Every request that arrived is settled in the end, however often the
   configuration is reloaded meanwhile, and every shadow task ends. *)
EveryRequestSettles ==
  \A r \in Requests : pc[r] # "idle" ~> pc[r] \in Settled

EveryShadowEnds ==
  \A r \in Requests : job[r] # "none" ~> job[r] = "none"

-----------------------------------------------------------------------------
(* Statements of the documentation and the comments that the code breaks. *)

(* pipeline.rs: "An explicit pin must never silently answer from a different
   model", here of requests that no local-only configuration served. *)
PinNeverSilentlyReplaced ==
  \A r \in Requests :
    Pinned(request[r]) /\ pc[r] = "done" /\ ~AnsweredByCall(r)
      => reply[r] = request[r].pin

(* config.rs: with local_only, "use ONLY local models". *)
LocalOnlyStaysLocal ==
  \A r \in Requests : AnsweredByCall(r) /\ snap[r].localOnly
                        => reply[r] \in Range(snap[r].servers)

(* pipeline.rs: "Only judge CLOUD-served answers". *)
OnlyCloudJudged ==
  \A r \in Requests : job[r] # "none" => reply[r] \in snap[r].static

(* docs/ROUTING.md: a candidate is selected only if it "supports the required
   capabilities". *)
ToolsHonoured ==
  \A r \in Requests : AnsweredByCall(r) /\ request[r].tools
                        => reply[r] \in snap[r].tools
=============================================================================
