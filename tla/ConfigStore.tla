----------------------------- MODULE ConfigStore -----------------------------
(***************************************************************************)
(* The administrator's side of the gateway: the admin handlers             *)
(* (src/src/admin/mod.rs) edit a copy of the configuration in force and    *)
(* hand it to AppState::reload (src/src/state.rs), which validates it,     *)
(* builds a new `Live`, saves gateway.toml and stores the `Live`.  The     *)
(* secret handlers change the SecretStore, persist it, and rebuild `Live`. *)
(*                                                                         *)
(* No lock spans a handler and the server is multi-threaded, so handlers   *)
(* interleave at every shared access: the load of `live`, the read of the  *)
(* secrets, each file operation, and the store.  Both files are written    *)
(* through one temporary file each (open-truncate, write, rename).  The    *)
(* process may be killed at any point and started again.                   *)
(***************************************************************************)
EXTENDS Naturals, FiniteSets

CONSTANTS Ids,        \* model ids
          NoId,       \* the empty id
          Keys,       \* client API keys
          Values,     \* values of the provider secret
          NoValue,    \* the secret is not in the store
          Files,      \* .cmf files on disk
          Paths,      \* spellings of their names
          NoPath,     \* a cloud model has no file
          FileAt,     \* path -> the file it names
          StaticPath, \* id -> models_dir/<model>.cmf, as a [[models]] entry
          ServerPath, \* id -> the path its managed server is registered with
          Bodies,     \* configurations an administrator may PUT
          CmfBodies,  \* [cmf] sections an administrator may PUT
          Routings,   \* [routing] sections an administrator may PUT
          Handlers,   \* admin requests that may be in progress at once
          MaxRequests, MaxCrashes, \* bounds
          MaxOverlapping           \* bound on those that begin while another runs

ConfigType ==
  [models: SUBSET Ids,           \* [[models]]
   unknown: SUBSET Ids,          \* those of a provider the gateway does not know
   manage: BOOLEAN,              \* [cmf].manage_server
   listed: SUBSET Ids,           \* [cmf].servers
   legacy: Ids \cup {NoId},      \* [cmf].model_id, when local_model is set
   default: Ids \cup {NoId},     \* routing.default
   targets: SUBSET Ids,          \* every id in routing.tiers
   keys: SUBSET Keys]            \* [[api_keys]]

ASSUME StoreAssumption ==
  /\ IsFiniteSet(Handlers)
  /\ NoId \notin Ids /\ NoValue \notin Values /\ NoPath \notin Paths
  /\ FileAt \in [Paths -> Files]
  /\ StaticPath \in [Ids -> Paths \cup {NoPath}]
  /\ ServerPath \in [Ids -> Paths]
  /\ Bodies \subseteq ConfigType
  /\ CmfBodies \subseteq [manage: BOOLEAN, listed: SUBSET Ids, legacy: Ids \cup {NoId}]
  /\ Routings \subseteq [default: Ids \cup {NoId}, targets: SUBSET Ids]

(* CmfCfg::effective_servers. *)
Effective(c) ==
  IF ~c.manage THEN {}
  ELSE IF c.listed # {} THEN c.listed
  ELSE {c.legacy} \ {NoId}

(* Config::validate, where ids are the pool of static and managed models. *)
Valid(c) ==
  LET ids == c.models \cup Effective(c) IN
  /\ c.models \cap Effective(c) = {}
  /\ c.default \in ids \cup {NoId}
  /\ c.targets \subseteq ids

(* Live::build: the registry knows every provider it is asked for. *)
Buildable(c) == c.unknown \cap c.models = {}

Servable(c) == Valid(c) /\ Buildable(c)

\* Slip: only managed servers are looked at.
ReferencedByServers(c, p) == \E m \in Effective(c) : ServerPath[m] = p

(* cmf_path_referenced compares spellings. *)
Referenced(c, p) ==
  \/ \E m \in Effective(c) : ServerPath[m] = p
  \/ \E m \in c.models : StaticPath[m] = p

-----------------------------------------------------------------------------
Kinds == {"config", "secret"}
Inodes == 1..(2 * Cardinality(Handlers) + 4)
NoInode == 0

VARIABLES live,      \* the `Live` in force: its configuration and secret
          values,    \* SecretStore::values, in memory
          file,      \* Kinds -> inode of gateway.toml, secrets.toml
          tmp,       \* Kinds -> inode of their .tmp file, or NoInode
          data,      \* Inodes -> what is written there
          cmfs       \* the .cmf files that exist

(* A handler: where it is, what it works on, and how it replied. *)
VARIABLES pc,        \* Handlers -> idle | dumping | loading | building | opening |
                     \*             writing | renaming | storing | removing
          kind,      \* Handlers -> the kind of file it saves
          draft,     \* Handlers -> the configuration it means to install
          secret,    \* Handlers -> the secret it persists, or builds with
          fd,        \* Handlers -> inode it has open
          doomed,    \* Handlers -> path to remove after the reload
          reply      \* Handlers -> none | ok | error

VARIABLES up,        \* the process runs
          requests, crashes,  \* bounded counters

(* History: the number of each request, and whether since the start of the
   process two handlers overlapped or a file operation failed. *)
          number, overlapped, faulted

disk == <<file, tmp, data>>
handlers == <<pc, kind, draft, secret, fd, doomed, reply, number>>
vars == <<live, values, disk, cmfs, handlers, up, requests, crashes, overlapped, faulted>>

NoConfig == [models |-> {}, unknown |-> {}, manage |-> FALSE, listed |-> {},
             legacy |-> NoId, default |-> NoId, targets |-> {}, keys |-> {}]

(* What a file holds: a whole text, nothing yet, or part of one or of two.
   `by` is the number of the request that wrote it. *)
Content(state, cfg, value, by) ==
  [state |-> state, cfg |-> cfg, value |-> value, by |-> by]
Blank == Content("empty", NoConfig, NoValue, 0)
Scrap == Content("garbage", NoConfig, NoValue, 0)
ContentType ==
  [state: {"whole", "empty", "garbage"}, cfg: ConfigType,
   value: Values \cup {NoValue}, by: Nat]

TypeOK ==
  /\ live \in [cfg: ConfigType, secret: Values \cup {NoValue}]
  /\ values \in Values \cup {NoValue}
  /\ file \in [Kinds -> Inodes]
  /\ tmp \in [Kinds -> Inodes \cup {NoInode}]
  /\ data \in [Inodes -> ContentType]
  /\ cmfs \subseteq Files
  /\ pc \in [Handlers -> {"idle", "dumping", "loading", "building", "opening",
                          "writing", "renaming", "storing", "removing"}]
  /\ kind \in [Handlers -> Kinds]
  /\ draft \in [Handlers -> ConfigType]
  /\ secret \in [Handlers -> Values \cup {NoValue}]
  /\ fd \in [Handlers -> Inodes \cup {NoInode}]
  /\ doomed \in [Handlers -> Paths \cup {NoPath}]
  /\ reply \in [Handlers -> {"none", "ok", "error"}]
  /\ number \in [Handlers -> Nat]
  /\ up \in BOOLEAN /\ overlapped \in BOOLEAN /\ faulted \in BOOLEAN
  /\ requests \in Nat /\ crashes \in Nat

(* A gateway just started from a configuration file that loads. *)
Init ==
  /\ live \in [cfg: {c \in Bodies : Servable(c)}, secret: {NoValue}]
  /\ values = NoValue
  /\ file = [k \in Kinds |-> IF k = "config" THEN 1 ELSE 2]
  /\ tmp = [k \in Kinds |-> NoInode]
  /\ data = [i \in Inodes |->
       IF i = 1 THEN Content("whole", live.cfg, NoValue, 0)
       ELSE IF i = 2 THEN Content("whole", NoConfig, NoValue, 0) ELSE Blank]
  /\ cmfs = Files
  /\ pc = [h \in Handlers |-> "idle"]
  /\ kind = [h \in Handlers |-> "config"]
  /\ draft = [h \in Handlers |-> NoConfig]
  /\ secret = [h \in Handlers |-> NoValue]
  /\ fd = [h \in Handlers |-> NoInode]
  /\ doomed = [h \in Handlers |-> NoPath]
  /\ reply = [h \in Handlers |-> "none"]
  /\ number = [h \in Handlers |-> 0]
  /\ up = TRUE /\ overlapped = FALSE /\ faulted = FALSE
  /\ requests = 0 /\ crashes = 0

Goto(h, l) == pc' = [pc EXCEPT ![h] = l]

locals == <<draft, secret, doomed>>

(* The handler is through, and its locals are gone. *)
Reply(h, r) ==
  /\ Goto(h, "idle")
  /\ reply' = [reply EXCEPT ![h] = r]
  /\ draft' = [draft EXCEPT ![h] = NoConfig]
  /\ secret' = [secret EXCEPT ![h] = NoValue]
  /\ doomed' = [doomed EXCEPT ![h] = NoPath]

-----------------------------------------------------------------------------
(* The handlers of admin/mod.rs that edit the configuration: each clones the
   configuration in force and edits the clone. *)

(* A request reaches an idle handler. *)
Busy == \E h \in Handlers : pc[h] # "idle"

Begin(h) ==
  /\ up /\ pc[h] = "idle"
  /\ requests < IF Busy THEN MaxOverlapping ELSE MaxRequests
  /\ requests' = requests + 1
  /\ number' = [number EXCEPT ![h] = requests + 1]
  /\ overlapped' = (overlapped \/ Busy)
  /\ UNCHANGED <<live, disk, cmfs, up, crashes, faulted>>

\* Slip: validation is left to the next start.
SubmitUnvalidated(h, c, p) ==
  /\ Goto(h, "building")
  /\ draft' = [draft EXCEPT ![h] = c]
  /\ doomed' = [doomed EXCEPT ![h] = p]
  /\ kind' = [kind EXCEPT ![h] = "config"]
  /\ reply' = [reply EXCEPT ![h] = "none"]
  /\ UNCHANGED <<values, secret, fd>>

(* The request is wrong: an unknown id, a duplicate one, or a configuration
   that does not validate. *)
Refuse(h) ==
  /\ Reply(h, "error")
  /\ UNCHANGED <<values, kind, fd>>

(* The first step of reload; p is the path to remove afterwards. *)
Submit(h, c, p) ==
  IF ~Valid(c) THEN Refuse(h)
  ELSE /\ Goto(h, "building")
       /\ draft' = [draft EXCEPT ![h] = c]
       /\ doomed' = [doomed EXCEPT ![h] = p]
       /\ kind' = [kind EXCEPT ![h] = "config"]
       /\ reply' = [reply EXCEPT ![h] = "none"]
       /\ UNCHANGED <<values, secret, fd>>

PutConfig(h, c) == Begin(h) /\ Submit(h, c, NoPath)

(* known: the provider named in the body is one the registry can build. *)
CreateModel(h, m, known) ==
  /\ Begin(h)
  /\ IF m \in live.cfg.models THEN Refuse(h)
     ELSE Submit(h, [live.cfg EXCEPT !.models = @ \cup {m},
                                     !.unknown = IF known THEN @ \ {m} ELSE @ \cup {m}],
                 NoPath)

(* The entry `id` is replaced by one called m, of a provider that is known or
   not; routing keeps its targets. *)
UpdateModel(h, id, m, known) ==
  /\ Begin(h)
  /\ IF id \notin live.cfg.models \/ (m # id /\ m \in live.cfg.models) THEN Refuse(h)
     ELSE Submit(h, [live.cfg EXCEPT !.models = (@ \ {id}) \cup {m},
                                     !.unknown = IF known THEN @ \ {id, m}
                                                 ELSE (@ \ {id}) \cup {m}], NoPath)

\* strip_id_from_routing
Stripped(c, id) ==
  [c EXCEPT !.default = IF @ = id THEN NoId ELSE @, !.targets = @ \ {id}]

(* The configuration without id: a managed server leaves the list, or ends the
   legacy single server; a static model leaves the pool. *)
Without(c, id) ==
  IF id \in c.models THEN [c EXCEPT !.models = @ \ {id}, !.unknown = @ \ {id}]
  ELSE IF id \in c.listed THEN [c EXCEPT !.listed = @ \ {id}]
  ELSE [c EXCEPT !.legacy = NoId, !.manage = FALSE]

DeleteModel(h, id) ==
  LET c == Stripped(Without(live.cfg, id), id)
      p == IF id \in live.cfg.models THEN StaticPath[id] ELSE ServerPath[id]
  IN  /\ Begin(h)
      /\ IF id \notin live.cfg.models \cup Effective(live.cfg) THEN Refuse(h)
         ELSE Submit(h, c, IF Referenced(c, p) THEN NoPath ELSE p)

PutRouting(h, r) ==
  /\ Begin(h)
  /\ Submit(h, [live.cfg EXCEPT !.default = r.default, !.targets = r.targets], NoPath)

(* put_settings, of which the [cmf] section is what other parts depend on. *)
PutSettings(h, s) ==
  /\ Begin(h)
  /\ Submit(h, [live.cfg EXCEPT !.manage = s.manage, !.listed = s.listed,
                                !.legacy = s.legacy], NoPath)

CreateKey(h, k) ==
  /\ Begin(h)
  /\ IF k \in live.cfg.keys THEN Refuse(h)
     ELSE Submit(h, [live.cfg EXCEPT !.keys = @ \cup {k}], NoPath)

DeleteKey(h, k) ==
  /\ Begin(h)
  /\ IF k \notin live.cfg.keys THEN Refuse(h)
     ELSE Submit(h, [live.cfg EXCEPT !.keys = @ \ {k}], NoPath)

(* A finished import becomes a managed server, or a static local model. *)
RegisterImport(h, id) ==
  LET taken == \/ id \in live.cfg.models \cup live.cfg.listed
               \/ \E m \in live.cfg.listed : ServerPath[m] = ServerPath[id]
  IN  /\ Begin(h)
      /\ IF taken THEN Refuse(h)
         ELSE IF live.cfg.manage
         THEN Submit(h, [live.cfg EXCEPT !.listed = @ \cup {id}], NoPath)
         ELSE Submit(h, [live.cfg EXCEPT !.models = @ \cup {id},
                                         !.unknown = @ \ {id}], NoPath)

(* set_secret and clear_secret change the map under its lock. *)
PutSecret(h, v) ==
  /\ Begin(h)
  /\ values' = v
  /\ Goto(h, "dumping")
  /\ kind' = [kind EXCEPT ![h] = "secret"]
  /\ reply' = [reply EXCEPT ![h] = "none"]
  /\ UNCHANGED <<locals, fd>>

-----------------------------------------------------------------------------
(* The steps the handlers share. *)

Quietly == UNCHANGED <<up, requests, crashes, number, overlapped>>

(* persist() copies the map, under its lock again. *)
Dump(h) ==
  /\ pc[h] = "dumping"
  /\ secret' = [secret EXCEPT ![h] = values]
  /\ Goto(h, "opening")
  /\ Quietly /\ UNCHANGED <<live, values, disk, cmfs, kind, draft, fd, doomed, reply, faulted>>

(* rebuild() starts from the configuration in force. *)
Load(h) ==
  /\ pc[h] = "loading"
  /\ draft' = [draft EXCEPT ![h] = live.cfg]
  /\ Goto(h, "building")
  /\ Quietly /\ UNCHANGED <<live, values, disk, cmfs, kind, secret, fd, doomed, reply, faulted>>

\* Slip: the providers keep the keys they had.
BuildStale(h) ==
  /\ pc[h] = "building"
  /\ IF Buildable(draft[h])
     THEN /\ secret' = [secret EXCEPT ![h] = live.secret]
          /\ Goto(h, IF kind[h] = "config" THEN "opening" ELSE "storing")
          /\ UNCHANGED <<draft, doomed, reply>>
     ELSE Reply(h, "error")
  /\ Quietly /\ UNCHANGED <<live, values, disk, cmfs, kind, fd, faulted>>

(* Live::build reads the secrets; an unknown provider ends the request. *)
Build(h) ==
  /\ pc[h] = "building"
  /\ IF Buildable(draft[h])
     THEN /\ secret' = [secret EXCEPT ![h] = values]
          /\ Goto(h, IF kind[h] = "config" THEN "opening" ELSE "storing")
          /\ UNCHANGED <<draft, doomed, reply>>
     ELSE Reply(h, "error")
  /\ Quietly /\ UNCHANGED <<live, values, disk, cmfs, kind, fd, faulted>>

(* Config::save and SecretStore::persist: fs::write opens the temporary file,
   truncating the one that is there, ... *)
InUse == {file[k] : k \in Kinds} \cup {tmp[k] : k \in Kinds} \cup {fd[h] : h \in Handlers}

Open(h) ==
  LET k == kind[h]
      i == IF tmp[k] # NoInode THEN tmp[k] ELSE CHOOSE j \in Inodes : j \notin InUse
  IN  /\ pc[h] = "opening"
      /\ tmp' = [tmp EXCEPT ![k] = i]
      /\ data' = [data EXCEPT ![i] = Blank]
      /\ fd' = [fd EXCEPT ![h] = i]
      /\ Goto(h, "writing")
      /\ Quietly /\ UNCHANGED <<live, values, file, cmfs, kind, draft, secret, doomed,
                                reply, faulted>>

(* ... and writes it from its start, whatever another writer left behind it. *)
Text(h) == Content("whole", IF kind[h] = "config" THEN draft[h] ELSE NoConfig,
                   IF kind[h] = "secret" THEN secret[h] ELSE NoValue, number[h])

Write(h) ==
  /\ pc[h] = "writing"
  /\ \E t \in IF data[fd[h]] = Blank THEN {Text(h)} ELSE {Text(h), Scrap} :
       data' = [data EXCEPT ![fd[h]] = t]
  /\ fd' = [fd EXCEPT ![h] = NoInode]
  /\ Goto(h, "renaming")
  /\ Quietly /\ UNCHANGED <<live, values, file, tmp, cmfs, kind, draft, secret, doomed,
                            reply, faulted>>

\* Slip: the file that is moved need not exist.
RenameUnchecked(h) ==
  LET k == kind[h] IN
  /\ pc[h] = "renaming"
  /\ file' = [file EXCEPT ![k] = tmp[k]]
  /\ tmp' = [tmp EXCEPT ![k] = NoInode]
  /\ Goto(h, IF k = "config" THEN "storing" ELSE "loading")
  /\ Quietly /\ UNCHANGED <<live, values, data, cmfs, kind, draft, secret, fd, doomed,
                            reply, faulted>>

(* rename(2) replaces the file, whose old text is gone; it fails when another
   handler has renamed the temporary file away. *)
Rename(h) ==
  LET k == kind[h] IN
  /\ pc[h] = "renaming"
  /\ IF tmp[k] = NoInode
     THEN Reply(h, "error") /\ UNCHANGED disk
     ELSE /\ file' = [file EXCEPT ![k] = tmp[k]]
          /\ tmp' = [tmp EXCEPT ![k] = NoInode]
          /\ data' = [data EXCEPT ![file[k]] = Blank]
          /\ Goto(h, IF k = "config" THEN "storing" ELSE "loading")
          /\ UNCHANGED <<locals, reply>>
  /\ Quietly /\ UNCHANGED <<live, values, cmfs, kind, fd, faulted>>

\* Slip: a failed write is renamed all the same.
FileErrorIgnored(h) ==
  /\ pc[h] = "writing"
  /\ data' = [data EXCEPT ![fd[h]] = Scrap]
  /\ fd' = [fd EXCEPT ![h] = NoInode]
  /\ Goto(h, "renaming")
  /\ faulted' = TRUE
  /\ Quietly /\ UNCHANGED <<live, values, file, tmp, cmfs, kind, draft, secret, doomed,
                            reply>>

(* Creating, writing or renaming the file fails: `?` answers with the error. *)
FileError(h) ==
  /\ pc[h] \in {"opening", "writing", "renaming"}
  /\ data' = IF pc[h] = "writing" THEN [data EXCEPT ![fd[h]] = Scrap] ELSE data
  /\ fd' = [fd EXCEPT ![h] = NoInode]
  /\ Reply(h, "error")
  /\ faulted' = TRUE
  /\ Quietly /\ UNCHANGED <<live, values, file, tmp, cmfs, kind>>

(* ArcSwap::store *)
Store(h) ==
  /\ pc[h] = "storing"
  /\ live' = [cfg |-> draft[h], secret |-> secret[h]]
  /\ IF doomed[h] = NoPath THEN Reply(h, "ok")
     ELSE Goto(h, "removing") /\ UNCHANGED <<locals, reply>>
  /\ Quietly /\ UNCHANGED <<values, disk, cmfs, kind, fd, faulted>>

(* delete_model removes the file last; it replies ok whether or not it could. *)
RemoveFile(h) ==
  /\ pc[h] = "removing"
  /\ cmfs' \in {cmfs, cmfs \ {FileAt[doomed[h]]}}
  /\ Reply(h, "ok")
  /\ Quietly /\ UNCHANGED <<live, values, disk, kind, fd, faulted>>

-----------------------------------------------------------------------------
(* The process is killed: every handler is gone, and the memory. *)
Crash ==
  /\ up /\ crashes < MaxCrashes
  /\ up' = FALSE
  /\ crashes' = crashes + 1
  /\ pc' = [h \in Handlers |-> "idle"]
  /\ fd' = [h \in Handlers |-> NoInode]
  /\ draft' = [h \in Handlers |-> NoConfig]
  /\ secret' = [h \in Handlers |-> NoValue]
  /\ doomed' = [h \in Handlers |-> NoPath]
  /\ reply' = [h \in Handlers |-> "none"]
  /\ UNCHANGED <<live, values, disk, cmfs, kind, number, requests, overlapped, faulted>>

Loads(x) == x.state = "whole" /\ Servable(x.cfg)

(* Config::load, SecretStore::load (no secret in a file that does not parse),
   SharedState::build. *)
Start ==
  LET c == data[file["config"]]
      s == data[file["secret"]]
      v == IF s.state = "whole" THEN s.value ELSE NoValue
  IN  /\ ~up /\ Loads(c)
      /\ up' = TRUE
      /\ values' = v
      /\ live' = [cfg |-> c.cfg, secret |-> v]
      /\ overlapped' = FALSE /\ faulted' = FALSE
      /\ UNCHANGED <<disk, cmfs, handlers, requests, crashes>>

Request(h) ==
  \/ \E c \in Bodies : PutConfig(h, c)
  \/ \E m \in Ids, known \in BOOLEAN :
       CreateModel(h, m, known) \/ \E id \in Ids : UpdateModel(h, id, m, known)
  \/ \E id \in Ids : DeleteModel(h, id)
  \/ \E r \in Routings : PutRouting(h, r)
  \/ \E s \in CmfBodies : PutSettings(h, s)
  \/ \E k \in Keys : CreateKey(h, k) \/ DeleteKey(h, k)
  \/ \E id \in Ids : RegisterImport(h, id)
  \/ \E v \in Values \cup {NoValue} : PutSecret(h, v)

Continue(h) ==
  \/ Dump(h) \/ Load(h) \/ Build(h)
  \/ Open(h) \/ Write(h) \/ Rename(h) \/ FileError(h)
  \/ Store(h) \/ RemoveFile(h)

Next ==
  \/ \E h \in Handlers : Request(h) \/ Continue(h)
  \/ Crash
  \/ Start

Spec == Init /\ [][Next]_vars

-----------------------------------------------------------------------------
(* What the gateway runs on is a configuration that validates and builds, so
   that every routing target has a provider: whatever handlers interleave,
   whatever file operations fail, and whatever a restart finds on disk. *)
LiveServable == Servable(live.cfg)

(* The only way to lose the configuration is two savers tearing the file: a
   whole gateway.toml always loads, and one no two handlers raced over is
   whole, at every point where the process may be killed. *)
Restartable ==
  LET c == data[file["config"]] IN
  /\ c.state = "whole" => Servable(c.cfg)
  /\ ~overlapped => c.state = "whole"

(* Between requests that did not overlap, the file is what the gateway runs
   on, and so is the secret, unless writing a file failed. *)
MemoryMatchesDisk ==
  up /\ ~overlapped /\ ~Busy =>
    /\ data[file["config"]].cfg = live.cfg
    /\ ~faulted => /\ live.secret = values
                   /\ data[file["secret"]].value = values

(* The .cmf files that models of a configuration use. *)
InService(c) ==
  {FileAt[p] : p \in {StaticPath[m] : m \in c.models} \ {NoPath}}
    \cup {FileAt[ServerPath[m]] : m \in Effective(c)}

(* delete_model never removes a .cmf file that a model of the configuration
   in force uses, unless another request came in between. It needs paths that
   name one file to be spelled alike. *)
SharedFilesKept ==
  [][~overlapped => (cmfs \ cmfs') \cap InService(live.cfg) = {}]_vars

(* state.rs: "If any step fails, the active state and file are left
   unchanged." A request that was answered with an error is not the one whose
   text the file holds. *)
FailedReloadLeavesFile ==
  \A h \in Handlers : reply[h] = "error" =>
    data[file["config"]].by # number[h]
=============================================================================
