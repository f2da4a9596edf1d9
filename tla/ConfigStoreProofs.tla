-------------------------- MODULE ConfigStoreProofs --------------------------
(***************************************************************************)
(* Theorems of module ConfigStore, for every set of models, handlers,      *)
(* bodies and bounds, with every interleaving, failure and crash: of the   *)
(* requests first, of the files and the restart after them.                *)
(***************************************************************************)
EXTENDS ConfigStore, FiniteSetTheorems, TLAPS

USE DEF disk, handlers, vars, locals, Goto, Quietly

-----------------------------------------------------------------------------
(* Type correctness. *)

LEMMA InodesFinite ==
  /\ IsFiniteSet(Inodes) /\ Cardinality(Inodes) = 2 * Cardinality(Handlers) + 4
  /\ Cardinality(Handlers) \in Nat /\ Inodes \subseteq Nat \ {0}
<1>1. Cardinality(Handlers) \in Nat
  BY StoreAssumption, FS_CardinalityType
<1> DEFINE n == 2 * Cardinality(Handlers) + 4
<1>2. n \in Nat /\ n >= 1
  BY <1>1
<1>3. IsFiniteSet(1..n) /\ Cardinality(1..n) = n
  <2> HIDE DEF n
  <2>1. QED
    BY <1>2, FS_Interval
<1>4. QED
  BY <1>1, <1>3 DEF Inodes

LEMMA UnionBound ==
  ASSUME NEW S, NEW T, IsFiniteSet(S), IsFiniteSet(T),
         NEW m \in Nat, NEW n \in Nat, Cardinality(S) <= m, Cardinality(T) <= n
  PROVE  IsFiniteSet(S \cup T) /\ Cardinality(S \cup T) <= m + n
<1>1. /\ IsFiniteSet(S \cup T)
      /\ Cardinality(S \cup T) = Cardinality(S) + Cardinality(T) - Cardinality(S \cap T)
  BY FS_Union
<1>2. IsFiniteSet(S \cap T)
  BY FS_Subset, S \cap T \in SUBSET S
<1>3. /\ Cardinality(S) \in Nat /\ Cardinality(T) \in Nat
      /\ Cardinality(S \cap T) \in Nat
  BY <1>2, FS_CardinalityType
<1>4. QED
  BY <1>1, <1>3

LEMMA PairBound ==
  ASSUME NEW a, NEW b
  PROVE  IsFiniteSet({a, b}) /\ Cardinality({a, b}) <= 2
<1>1. \A x : IsFiniteSet({x}) /\ Cardinality({x}) = 1
  BY FS_Singleton, Zenon
<1>2. {a, b} = {a} \cup {b}
  OBVIOUS
<1>3. Cardinality({a}) <= 1 /\ Cardinality({b}) <= 1
  BY <1>1
<1>4. IsFiniteSet({a} \cup {b}) /\ Cardinality({a} \cup {b}) <= 1 + 1
  BY <1>1, <1>3, UnionBound
<1>5. QED
  BY <1>2, <1>4

(* There is always an inode for a new file: files, temporary files and open
   files cannot use all of them up. *)
LEMMA FreshInode ==
  ASSUME TypeOK, Handlers # {}
  PROVE  \E j \in Inodes : j \notin InUse
<1> DEFINE F == {file["config"], file["secret"]}
           T == {tmp["config"], tmp["secret"]}
           D == {fd[h] : h \in Handlers}
<1>1. fd \in Surjection(Handlers, D)
  BY DEF TypeOK, Surjection
<1>2. IsFiniteSet(D) /\ Cardinality(D) <= Cardinality(Handlers)
  BY <1>1, StoreAssumption, FS_Surjection
<1>3. IsFiniteSet(F) /\ Cardinality(F) <= 2
  BY PairBound
<1>4. IsFiniteSet(T) /\ Cardinality(T) <= 2
  BY PairBound
<1>5. InUse = (F \cup T) \cup D
  BY DEF InUse, Kinds
<1> HIDE DEF F, T, D
<1>6. IsFiniteSet(F \cup T) /\ Cardinality(F \cup T) <= 4
  <2>1. IsFiniteSet(F \cup T) /\ Cardinality(F \cup T) <= 2 + 2
    BY <1>3, <1>4, UnionBound
  <2>2. QED
    BY <2>1
<1>7. IsFiniteSet(InUse) /\ Cardinality(InUse) <= 4 + Cardinality(Handlers)
  BY <1>2, <1>5, <1>6, UnionBound, InodesFinite
<1>8. Cardinality(Handlers) # 0
  BY FS_EmptySet, StoreAssumption
<1>9. ASSUME Inodes \subseteq InUse PROVE FALSE
  <2>1. Cardinality(Inodes) <= Cardinality(InUse) /\ Cardinality(InUse) \in Nat
    BY <1>7, <1>9, FS_Subset, FS_CardinalityType
  <2>2. QED
    BY <1>7, <1>8, <2>1, InodesFinite
<1>10. QED
  BY <1>9

LEMMA NoConfigServable == NoConfig \in ConfigType /\ Servable(NoConfig)
BY DEF NoConfig, ConfigType, Servable, Valid, Buildable, Effective

LEMMA TextTyped ==
  ASSUME TypeOK, NEW h \in Handlers
  PROVE  {Text(h), Blank, Scrap} \subseteq ContentType
BY NoConfigServable DEF TypeOK, Text, Blank, Scrap, Content, ContentType, Kinds

LEMMA TypeInit == Init => TypeOK
<1> SUFFICES ASSUME Init PROVE TypeOK
  OBVIOUS
<1>1. live \in [cfg: ConfigType, secret: Values \cup {NoValue}]
  BY StoreAssumption DEF Init
<1>2. {1, 2} \subseteq Inodes
  BY InodesFinite DEF Inodes
<1>3. data \in [Inodes -> ContentType]
  BY <1>1, NoConfigServable DEF Init, Content, Blank, ContentType
<1>4. QED
  BY <1>1, <1>2, <1>3, NoConfigServable DEF Init, TypeOK, Kinds

LEMMA RefuseTyped ==
  ASSUME TypeOK, NEW h \in Handlers, Begin(h), Refuse(h)
  PROVE  TypeOK'
BY NoConfigServable DEF TypeOK, Begin, Refuse, Reply

LEMMA SubmitTyped ==
  ASSUME TypeOK, NEW h \in Handlers, NEW c \in ConfigType, NEW f \in Paths \cup {NoPath},
         Begin(h), Submit(h, c, f)
  PROVE  TypeOK'
<1>1. CASE Refuse(h)
  BY <1>1, RefuseTyped
<1>2. CASE ~Refuse(h)
  BY <1>2, NoConfigServable DEF TypeOK, Begin, Submit, Kinds
<1>3. QED
  BY <1>1, <1>2

(* The edits of the handlers yield configurations. *)
LEMMA EditsTyped ==
  ASSUME NEW c \in ConfigType, NEW id \in Ids, NEW m \in Ids
  PROVE  /\ [c EXCEPT !.models = @ \cup {m}, !.unknown = @ \ {m}] \in ConfigType
         /\ [c EXCEPT !.models = @ \cup {m}, !.unknown = @ \cup {m}] \in ConfigType
         /\ [c EXCEPT !.models = (@ \ {id}) \cup {m}, !.unknown = @ \ {id, m}] \in ConfigType
         /\ [c EXCEPT !.models = (@ \ {id}) \cup {m},
                      !.unknown = (@ \ {id}) \cup {m}] \in ConfigType
         /\ [c EXCEPT !.listed = @ \cup {id}] \in ConfigType
         /\ Without(c, id) \in ConfigType
         /\ Stripped(c, id) \in ConfigType
BY DEF ConfigType, Without, Stripped

LEMMA RequestTyped ==
  ASSUME TypeOK, NEW h \in Handlers, Request(h)
  PROVE  TypeOK'
<1>0. live.cfg \in ConfigType /\ NoPath \in Paths \cup {NoPath}
      /\ \A id \in Ids : {StaticPath[id], ServerPath[id]} \subseteq Paths \cup {NoPath}
  BY StoreAssumption DEF TypeOK
<1>1. ASSUME NEW c \in Bodies, PutConfig(h, c) PROVE TypeOK'
  BY <1>1, StoreAssumption, SubmitTyped DEF PutConfig
<1>2. ASSUME NEW m \in Ids, NEW known \in BOOLEAN, CreateModel(h, m, known) PROVE TypeOK'
  <2>1. CASE Begin(h) /\ Refuse(h)
    BY <2>1, RefuseTyped
  <2>2. CASE Begin(h) /\ Submit(h, [live.cfg EXCEPT !.models = @ \cup {m},
                                      !.unknown = @ \ {m}], NoPath)
    BY <2>2, <1>0, EditsTyped, SubmitTyped
  <2>3. CASE Begin(h) /\ Submit(h, [live.cfg EXCEPT !.models = @ \cup {m},
                                      !.unknown = @ \cup {m}], NoPath)
    BY <2>3, <1>0, EditsTyped, SubmitTyped
  <2>4. QED
    BY <1>2, <2>1, <2>2, <2>3 DEF CreateModel
<1>3. ASSUME NEW id \in Ids, NEW m \in Ids, NEW known \in BOOLEAN,
             UpdateModel(h, id, m, known)
      PROVE  TypeOK'
  <2>1. CASE Begin(h) /\ Refuse(h)
    BY <2>1, RefuseTyped
  <2>2. CASE Begin(h) /\ Submit(h, [live.cfg EXCEPT !.models = (@ \ {id}) \cup {m},
                                      !.unknown = @ \ {id, m}], NoPath)
    BY <2>2, <1>0, EditsTyped, SubmitTyped
  <2>3. CASE Begin(h) /\ Submit(h, [live.cfg EXCEPT !.models = (@ \ {id}) \cup {m},
                                      !.unknown = (@ \ {id}) \cup {m}], NoPath)
    BY <2>3, <1>0, EditsTyped, SubmitTyped
  <2>4. QED
    BY <1>3, <2>1, <2>2, <2>3 DEF UpdateModel
<1>4. ASSUME NEW id \in Ids, DeleteModel(h, id) PROVE TypeOK'
  <2>1. CASE Begin(h) /\ Refuse(h)
    BY <2>1, RefuseTyped
  <2>2. CASE Begin(h) /\ ~Refuse(h)
    <3>1. Stripped(Without(live.cfg, id), id) \in ConfigType
      BY <1>0, EditsTyped
    <3>2. PICK f \in Paths \cup {NoPath} : Submit(h, Stripped(Without(live.cfg, id), id), f)
      BY <1>4, <1>0, <2>2 DEF DeleteModel
    <3>3. QED
      BY <2>2, <3>1, <3>2, SubmitTyped
  <2>3. QED
    BY <1>4, <2>1, <2>2 DEF DeleteModel
<1>5. ASSUME NEW r \in Routings, PutRouting(h, r) PROVE TypeOK'
  <2>1. [live.cfg EXCEPT !.default = r.default, !.targets = r.targets] \in ConfigType
    BY <1>0, StoreAssumption DEF ConfigType
  <2>2. QED
    BY <1>0, <1>5, <2>1, SubmitTyped DEF PutRouting
<1>6. ASSUME NEW s \in CmfBodies, PutSettings(h, s) PROVE TypeOK'
  <2>1. [live.cfg EXCEPT !.manage = s.manage, !.listed = s.listed, !.legacy = s.legacy]
          \in ConfigType
    BY <1>0, StoreAssumption DEF ConfigType
  <2>2. QED
    BY <1>0, <1>6, <2>1, SubmitTyped DEF PutSettings
<1>7. ASSUME NEW k \in Keys, CreateKey(h, k) \/ DeleteKey(h, k) PROVE TypeOK'
  <2>1. /\ [live.cfg EXCEPT !.keys = @ \cup {k}] \in ConfigType
        /\ [live.cfg EXCEPT !.keys = @ \ {k}] \in ConfigType
    BY <1>0 DEF ConfigType
  <2>2. CASE Begin(h) /\ Refuse(h)
    BY <2>2, RefuseTyped
  <2>3. CASE Begin(h) /\ ~Refuse(h)
    BY <1>0, <1>7, <2>1, <2>3, SubmitTyped DEF CreateKey, DeleteKey
  <2>4. QED
    BY <1>7, <2>2, <2>3 DEF CreateKey, DeleteKey
<1>8. ASSUME NEW id \in Ids, RegisterImport(h, id) PROVE TypeOK'
  <2>1. CASE Begin(h) /\ Refuse(h)
    BY <2>1, RefuseTyped
  <2>2. CASE Begin(h) /\ ~Refuse(h)
    <3>1. \/ Submit(h, [live.cfg EXCEPT !.listed = @ \cup {id}], NoPath)
          \/ Submit(h, [live.cfg EXCEPT !.models = @ \cup {id}, !.unknown = @ \ {id}], NoPath)
      BY <1>8, <2>2 DEF RegisterImport
    <3>2. QED
      BY <2>2, <3>1, <1>0, EditsTyped, SubmitTyped
  <2>3. QED
    BY <1>8, <2>1, <2>2 DEF RegisterImport
<1>9. ASSUME NEW v \in Values \cup {NoValue}, PutSecret(h, v) PROVE TypeOK'
  BY <1>9 DEF PutSecret, Begin, TypeOK, Kinds
<1>10. QED
  BY <1>1, <1>2, <1>3, <1>4, <1>5, <1>6, <1>7, <1>8, <1>9 DEF Request

LEMMA TypeStep == TypeOK /\ [Next]_vars => TypeOK'
<1> SUFFICES ASSUME TypeOK, [Next]_vars PROVE TypeOK'
  OBVIOUS
<1>0. live.cfg \in ConfigType /\ live.secret \in Values \cup {NoValue}
  BY DEF TypeOK
<1>1. CASE UNCHANGED vars
  BY <1>1 DEF TypeOK
<1>2. ASSUME NEW h \in Handlers, Request(h) PROVE TypeOK'
  BY <1>2, RequestTyped
<1>3. ASSUME NEW h \in Handlers, Continue(h) PROVE TypeOK'
  <2>0. {Text(h), Blank, Scrap} \subseteq ContentType /\ NoConfig \in ConfigType
    BY TextTyped, NoConfigServable
  <2>1. CASE Dump(h)
    BY <2>1 DEF Dump, TypeOK
  <2>2. CASE Load(h)
    BY <1>0, <2>2 DEF Load, TypeOK
  <2>3. CASE Build(h)
    BY <2>0, <2>3 DEF Build, Reply, TypeOK
  <2>4. CASE Open(h)
    <3> DEFINE i == IF tmp[kind[h]] # NoInode THEN tmp[kind[h]]
                    ELSE CHOOSE j \in Inodes : j \notin InUse
    <3>1. i \in Inodes
      BY FreshInode DEF TypeOK
    <3>2. /\ tmp' = [tmp EXCEPT ![kind[h]] = i]
          /\ data' = [data EXCEPT ![i] = Blank]
          /\ fd' = [fd EXCEPT ![h] = i]
          /\ Goto(h, "writing")
          /\ UNCHANGED <<live, values, file, cmfs, kind, draft, secret, doomed, reply,
                         faulted, up, requests, crashes, number, overlapped>>
      BY <2>4 DEF Open
    <3> HIDE DEF i
    <3>3. QED
      BY <2>0, <3>1, <3>2 DEF TypeOK
  <2>5. CASE Write(h)
    <3>1. PICK t \in ContentType : data' = [data EXCEPT ![fd[h]] = t]
      BY <2>0, <2>5 DEF Write
    <3>2. QED
      BY <2>5, <3>1 DEF Write, TypeOK
  <2>6. CASE Rename(h)
    <3>1. CASE tmp[kind[h]] = NoInode
      BY <2>0, <2>6, <3>1 DEF Rename, Reply, TypeOK
    <3>2. CASE tmp[kind[h]] # NoInode
      <4>1. tmp[kind[h]] \in Inodes /\ kind[h] \in Kinds
        BY <3>2 DEF TypeOK
      <4>2. QED
        BY <2>0, <2>6, <3>2, <4>1 DEF Rename, TypeOK
    <3>3. QED
      BY <3>1, <3>2
  <2>7. CASE FileError(h)
    BY <2>0, <2>7 DEF FileError, Reply, TypeOK
  <2>8. CASE Store(h)
    BY <2>0, <2>8 DEF Store, Reply, TypeOK
  <2>9. CASE RemoveFile(h)
    BY <2>0, <2>9 DEF RemoveFile, Reply, TypeOK
  <2>10. QED
    BY <1>3, <2>1, <2>2, <2>3, <2>4, <2>5, <2>6, <2>7, <2>8, <2>9 DEF Continue
<1>4. CASE Crash
  <2>1. /\ draft' \in [Handlers -> ConfigType]
        /\ secret' \in [Handlers -> Values \cup {NoValue}]
        /\ doomed' \in [Handlers -> Paths \cup {NoPath}]
        /\ fd' \in [Handlers -> Inodes \cup {NoInode}]
    BY <1>4, NoConfigServable DEF Crash
  <2>2. up' \in BOOLEAN /\ overlapped' \in BOOLEAN /\ faulted' \in BOOLEAN
    <3>1. up' = FALSE /\ overlapped' = overlapped /\ faulted' = faulted
      BY <1>4 DEF Crash
    <3>2. QED
      BY <3>1, Zenon DEF TypeOK
  <2>3. /\ pc' = [h \in Handlers |-> "idle"] /\ reply' = [h \in Handlers |-> "none"]
        /\ crashes' \in Nat /\ UNCHANGED <<live, values, disk, cmfs, kind, number, requests>>
    BY <1>4 DEF Crash, TypeOK
  <2>4. QED
    BY <2>1, <2>2, <2>3 DEF TypeOK
<1>5. CASE Start
  <2>1. data[file["config"]] \in ContentType /\ data[file["secret"]] \in ContentType
    BY DEF TypeOK, Kinds
  <2>2. QED
    BY <1>5, <2>1 DEF Start, TypeOK, ContentType
<1>6. QED
  BY <1>1, <1>2, <1>3, <1>4, <1>5 DEF Next

-----------------------------------------------------------------------------
(* The configuration in force. *)

(* Every text that is whole, and every configuration on its way to the file
   or to `live`, is one that validates and builds. *)
Sound ==
  /\ LiveServable
  /\ \A i \in Inodes : data[i].state = "whole" => Servable(data[i].cfg)
  /\ \A h \in Handlers :
       /\ Valid(draft[h])
       /\ pc[h] # "building" => Servable(draft[h])

LEMMA SoundInit == Init => Sound
<1> SUFFICES ASSUME Init PROVE Sound
  OBVIOUS
<1>1. Servable(live.cfg)
  BY DEF Init
<1>2. \A i \in Inodes : data[i].state = "whole" => Servable(data[i].cfg)
  BY <1>1, NoConfigServable DEF Init, Content, Blank
<1>3. QED
  BY <1>1, <1>2, NoConfigServable DEF Init, Sound, LiveServable, Servable

LEMMA SubmitSound ==
  ASSUME TypeOK, Sound, NEW h \in Handlers, NEW c, NEW f, Begin(h), Submit(h, c, f)
  PROVE  Sound'
<1>1. CASE Refuse(h)
  BY <1>1, NoConfigServable DEF Sound, LiveServable, Servable, TypeOK, Begin, Refuse, Reply
<1>2. CASE ~Refuse(h)
  BY <1>2 DEF Sound, LiveServable, TypeOK, Begin, Submit
<1>3. QED
  BY <1>1, <1>2

LEMMA SoundStep == TypeOK /\ Sound /\ [Next]_vars => Sound'
<1> SUFFICES ASSUME TypeOK, Sound, [Next]_vars PROVE Sound'
  OBVIOUS
<1>0. Valid(NoConfig) /\ Servable(NoConfig)
  BY NoConfigServable DEF Servable
<1>1. CASE UNCHANGED vars
  BY <1>1 DEF Sound, LiveServable
<1>2. ASSUME NEW h \in Handlers, Request(h) PROVE Sound'
  <2>1. ASSUME Begin(h), Refuse(h) PROVE Sound'
    BY <1>0, <2>1 DEF Sound, LiveServable, TypeOK, Begin, Refuse, Reply
  <2>2. ASSUME NEW v, PutSecret(h, v) PROVE Sound'
    BY <2>2 DEF Sound, LiveServable, TypeOK, PutSecret, Begin
  <2>3. QED
    BY <1>2, <2>1, <2>2, SubmitSound
       DEF Request, PutConfig, CreateModel, UpdateModel, DeleteModel, PutRouting,
           PutSettings, CreateKey, DeleteKey, RegisterImport
<1>3. ASSUME NEW h \in Handlers, Continue(h) PROVE Sound'
  <2> USE <1>0 DEF Sound, LiveServable
  <2>1. CASE Dump(h)
    BY <2>1 DEF Dump, TypeOK
  <2>2. CASE Load(h)
    BY <2>2 DEF Load, TypeOK, Servable
  <2>3. CASE Build(h)
    BY <2>3 DEF Build, Reply, TypeOK, Servable
  <2>4. CASE Open(h)
    BY <2>4 DEF Open, TypeOK, Blank, Content
  <2>5. CASE Write(h)
    <3>1. Servable(Text(h).cfg)
      BY <2>5 DEF Write, Text, Content
    <3>2. Blank.state # "whole" /\ Scrap.state # "whole"
      BY DEF Blank, Scrap, Content
    <3>3. PICK t \in {Text(h), Scrap} : data' = [data EXCEPT ![fd[h]] = t]
      BY <2>5 DEF Write
    <3>4. QED
      BY <2>5, <3>1, <3>2, <3>3 DEF Write, TypeOK
  <2>6. CASE Rename(h)
    BY <2>6 DEF Rename, Reply, TypeOK, Blank, Content
  <2>7. CASE FileError(h)
    BY <2>7 DEF FileError, Reply, TypeOK, Scrap, Content
  <2>8. CASE Store(h)
    BY <2>8 DEF Store, Reply, TypeOK
  <2>9. CASE RemoveFile(h)
    BY <2>9 DEF RemoveFile, Reply, TypeOK
  <2>10. QED
    BY <1>3, <2>1, <2>2, <2>3, <2>4, <2>5, <2>6, <2>7, <2>8, <2>9 DEF Continue
<1>4. CASE Crash
  BY <1>0, <1>4 DEF Crash, Sound, LiveServable, TypeOK
<1>5. CASE Start
  BY <1>5 DEF Start, Loads, Sound, LiveServable, TypeOK
<1>6. QED
  BY <1>1, <1>2, <1>3, <1>4, <1>5 DEF Next

(* Every variable keeps its type; there is always an inode for a new file. *)
THEOREM TypeCorrect == Spec => []TypeOK
BY TypeInit, TypeStep, PTL DEF Spec

(* The gateway always runs on a configuration that validates and builds: no
   interleaving of handlers, no failure of a file operation and no restart
   makes it route to a model it has no provider for. *)
THEOREM AlwaysServable == Spec => []LiveServable
<1>1. Spec => [](TypeOK /\ Sound)
  BY TypeInit, TypeStep, SoundInit, SoundStep, PTL DEF Spec
<1>2. Sound => LiveServable
  BY DEF Sound
<1>3. QED
  BY <1>1, <1>2, PTL

-----------------------------------------------------------------------------
(* The files: what a restart finds, that memory and disk agree between requests,
   and that no .cmf file in use is removed, as long as no two requests
   overlapped.  A history in which they did does not end the obligation: the
   next start of the process begins it anew, on whatever temporary files the
   race has left. *)

-----------------------------------------------------------------------------
(* The inductive invariant. *)

(* No two names share an inode. *)
Separate ==
  /\ file["config"] # file["secret"]
  /\ \A k \in Kinds : tmp[k] # NoInode => \A j \in Kinds : tmp[k] # file[j]
  /\ tmp["config"] # NoInode => tmp["config"] # tmp["secret"]

(* A file that does not parse holds no secret. *)
NoStrayValue == \A i \in Inodes : data[i].state # "whole" => data[i].value = NoValue

DownIsIdle == ~up => ~Busy

(* The requests that no other overlapped: h is the only one in progress. *)
Lone == \A g, h \in Handlers : pc[g] # "idle" /\ pc[h] # "idle" => g = h

ConfigWhole == data[file["config"]].state = "whole"

(* What a request has done at the point it has reached. *)
Progress(h) ==
  /\ pc[h] = "writing" => /\ tmp[kind[h]] # NoInode
                          /\ fd[h] = tmp[kind[h]]
                          /\ data[fd[h]] = Blank
  /\ pc[h] = "renaming" => /\ tmp[kind[h]] # NoInode
                           /\ data[tmp[kind[h]]] = Text(h)
  /\ pc[h] \in {"dumping", "loading"} => kind[h] = "secret"
  /\ pc[h] \in {"opening", "writing", "renaming", "storing"} => secret[h] = values
  /\ pc[h] \in {"building", "storing"} /\ kind[h] = "secret" => draft[h] = live.cfg

ConfigSaved(h) == kind[h] = "config" /\ pc[h] = "storing"
SecretUnsaved(h) == kind[h] = "secret" /\ pc[h] \in {"dumping", "opening", "writing", "renaming"}
SecretUnused(h) ==
  SecretUnsaved(h) \/ (kind[h] = "secret" /\ pc[h] \in {"loading", "building", "storing"})

(* Memory and disk differ only by what the request in progress owes. *)
Agreement ==
  /\ \A h \in Handlers : ConfigSaved(h) => data[file["config"]].cfg = draft[h]
  /\ (\A h \in Handlers : ~ConfigSaved(h)) => data[file["config"]].cfg = live.cfg
  /\ ~faulted => /\ (\A h \in Handlers : ~SecretUnused(h)) => live.secret = values
                 /\ (\A h \in Handlers : ~SecretUnsaved(h)) =>
                      data[file["secret"]].value = values

InTurn ==
  ~overlapped => /\ Lone
                 /\ ConfigWhole
                 /\ \A h \in Handlers : Progress(h)
                 /\ up => Agreement

FilesInv == Separate /\ NoStrayValue /\ DownIsIdle /\ InTurn

-----------------------------------------------------------------------------
(* The steps, one part of the invariant at a time. *)

LEMMA FilesInit == Init => FilesInv
<1> SUFFICES ASSUME Init PROVE FilesInv
  OBVIOUS
<1>1. {1, 2} \subseteq Inodes /\ "config" \in Kinds /\ "secret" \in Kinds
  BY InodesFinite DEF Inodes, Kinds
<1>2. /\ file["config"] = 1 /\ file["secret"] = 2 /\ \A k \in Kinds : tmp[k] = NoInode
      /\ \A h \in Handlers : pc[h] = "idle"
  BY DEF Init, Kinds
<1>3. /\ data[1] = Content("whole", live.cfg, NoValue, 0)
      /\ data[2] = Content("whole", NoConfig, NoValue, 0)
      /\ \A i \in Inodes : data[i].value = NoValue
  BY <1>1 DEF Init, Blank, Content
<1>4. live.secret = NoValue /\ values = NoValue
  BY DEF Init
<1>5. Separate
  BY <1>1, <1>2 DEF Separate, Kinds, NoInode
<1>6. Agreement
  BY <1>2, <1>3, <1>4 DEF Agreement, ConfigSaved, SecretUnsaved, SecretUnused, Content
<1>7. QED
  BY <1>2, <1>3, <1>5, <1>6
     DEF FilesInv, NoStrayValue, DownIsIdle, Busy, InTurn, Lone, ConfigWhole, Progress,
         Content

(* What a request does as it arrives. *)
LEMMA RequestEffect ==
  ASSUME TypeOK, NEW h \in Handlers, Request(h)
  PROVE  /\ up /\ pc[h] = "idle" /\ overlapped' = (overlapped \/ Busy)
         /\ UNCHANGED <<live, disk, fd, up, faulted>>
         /\ \A g \in Handlers \ {h} : pc'[g] = pc[g]
         /\ \/ pc'[h] = "idle" /\ values' = values
            \/ pc'[h] = "building" /\ kind'[h] = "config" /\ values' = values
            \/ pc'[h] = "dumping" /\ kind'[h] = "secret"
<1>1. Begin(h)
  BY DEF Request, PutConfig, CreateModel, UpdateModel, DeleteModel, PutRouting,
         PutSettings, CreateKey, DeleteKey, RegisterImport, PutSecret
<1>2. CASE Refuse(h)
  BY <1>1, <1>2 DEF Begin, Refuse, Reply, TypeOK
<1>3. ASSUME NEW c, NEW f, Submit(h, c, f), ~Refuse(h)
      PROVE  /\ pc' = [pc EXCEPT ![h] = "building"] /\ kind' = [kind EXCEPT ![h] = "config"]
             /\ UNCHANGED <<values, fd>>
  BY <1>3 DEF Submit
<1>4. CASE \E c, f : Submit(h, c, f) /\ ~Refuse(h)
  BY <1>1, <1>3, <1>4 DEF Begin, TypeOK
<1>5. ASSUME NEW v, PutSecret(h, v)
      PROVE  /\ pc' = [pc EXCEPT ![h] = "dumping"] /\ kind' = [kind EXCEPT ![h] = "secret"]
             /\ UNCHANGED fd
  BY <1>5 DEF PutSecret
<1>6. CASE \E v : PutSecret(h, v)
  BY <1>1, <1>5, <1>6 DEF Begin, TypeOK
<1>7. QED
  BY <1>2, <1>4, <1>6
     DEF Request, PutConfig, CreateModel, UpdateModel, DeleteModel, PutRouting,
         PutSettings, CreateKey, DeleteKey, RegisterImport

(* fs::write opens the temporary file that is there, or a new one. *)
LEMMA OpenEffect ==
  ASSUME TypeOK, NEW h \in Handlers, Open(h)
  PROVE  \E i \in Inodes :
           /\ tmp[kind[h]] = i \/ (tmp[kind[h]] = NoInode /\ i \notin InUse)
           /\ tmp' = [tmp EXCEPT ![kind[h]] = i]
           /\ data' = [data EXCEPT ![i] = Blank]
           /\ fd' = [fd EXCEPT ![h] = i]
<1> DEFINE i == IF tmp[kind[h]] # NoInode THEN tmp[kind[h]]
                ELSE CHOOSE j \in Inodes : j \notin InUse
<1>1. i \in Inodes /\ (tmp[kind[h]] = i \/ (tmp[kind[h]] = NoInode /\ i \notin InUse))
  BY FreshInode DEF TypeOK
<1>2. /\ tmp' = [tmp EXCEPT ![kind[h]] = i]
      /\ data' = [data EXCEPT ![i] = Blank]
      /\ fd' = [fd EXCEPT ![h] = i]
  BY DEF Open
<1> HIDE DEF i
<1>3. QED
  BY <1>1, <1>2

LEMMA ContinueEffect ==
  ASSUME TypeOK, NEW h \in Handlers, Continue(h)
  PROVE  /\ pc[h] # "idle"
         /\ \A g \in Handlers \ {h} : pc'[g] = pc[g]
         /\ UNCHANGED <<kind, number, up, overlapped>>
BY DEF Continue, Dump, Load, Build, Open, Write, Rename, FileError, Store, RemoveFile,
       Reply, TypeOK

LEMMA SeparateStep == TypeOK /\ Separate /\ [Next]_vars => Separate'
<1> SUFFICES ASSUME TypeOK, Separate, [Next]_vars PROVE Separate'
  OBVIOUS
<1>1. CASE UNCHANGED <<file, tmp>>
  BY <1>1 DEF Separate
<1>2. ASSUME NEW h \in Handlers, Open(h) PROVE Separate'
  <2>1. PICK i \in Inodes :
           /\ tmp[kind[h]] = i \/ (tmp[kind[h]] = NoInode /\ i \notin InUse)
           /\ tmp' = [tmp EXCEPT ![kind[h]] = i]
    BY <1>2, OpenEffect
  <2>2. kind[h] \in Kinds /\ file' = file
    BY <1>2 DEF TypeOK, Open
  <2>3. CASE tmp[kind[h]] = i
    BY <2>1, <2>2, <2>3 DEF Separate, TypeOK
  <2>4. CASE i \notin InUse
    <3>1. \A j \in Kinds : i # file[j] /\ i # tmp[j]
      BY <2>4 DEF InUse
    <3>2. QED
      BY <2>1, <2>2, <3>1 DEF Separate, TypeOK, Kinds
  <2>5. QED
    BY <2>1, <2>3, <2>4
<1>3. ASSUME NEW h \in Handlers, Rename(h) PROVE Separate'
  BY <1>3 DEF Rename, Separate, TypeOK, Kinds
<1>4. ASSUME NEW h \in Handlers, Request(h) PROVE UNCHANGED <<file, tmp>>
  BY <1>4, RequestEffect
<1>5. ASSUME NEW h \in Handlers, Continue(h), ~Open(h), ~Rename(h)
      PROVE  UNCHANGED <<file, tmp>>
  BY <1>5 DEF Continue, Dump, Load, Build, Write, FileError, Store, RemoveFile
<1>6. CASE Crash \/ Start
  BY <1>1, <1>6 DEF Crash, Start
<1>7. QED
  BY <1>1, <1>2, <1>3, <1>4, <1>5, <1>6 DEF Next

LEMMA StrayStep == TypeOK /\ NoStrayValue /\ [Next]_vars => NoStrayValue'
<1> SUFFICES ASSUME TypeOK, NoStrayValue, [Next]_vars PROVE NoStrayValue'
  OBVIOUS
<1>0. Blank.value = NoValue /\ Scrap.value = NoValue /\ \A h : Text(h).state = "whole"
  BY DEF Blank, Scrap, Text, Content
<1>1. CASE UNCHANGED data
  BY <1>1 DEF NoStrayValue
<1>2. ASSUME NEW h \in Handlers, Continue(h), ~UNCHANGED data
      PROVE  \E i, t : data' = [data EXCEPT ![i] = t] /\ t \in {Blank, Scrap, Text(h)}
  <2>1. CASE Open(h)
    BY <2>1, OpenEffect
  <2>2. CASE ~Open(h)
    BY <1>2, <2>2 DEF Continue, Dump, Load, Build, Write, Rename, FileError, Store, RemoveFile
  <2>3. QED
    BY <2>1, <2>2
<1>3. ASSUME NEW h \in Handlers, Continue(h) PROVE NoStrayValue'
  BY <1>0, <1>1, <1>2, <1>3 DEF NoStrayValue, TypeOK
<1>4. ASSUME NEW h \in Handlers, Request(h) PROVE NoStrayValue'
  BY <1>1, <1>4, RequestEffect
<1>5. CASE Crash \/ Start \/ UNCHANGED vars
  BY <1>1, <1>5 DEF Crash, Start
<1>6. QED
  BY <1>3, <1>4, <1>5 DEF Next

LEMMA DownStep == TypeOK /\ DownIsIdle /\ [Next]_vars => DownIsIdle'
<1> SUFFICES ASSUME TypeOK, DownIsIdle, [Next]_vars PROVE DownIsIdle'
  OBVIOUS
<1>1. ASSUME NEW h \in Handlers, Request(h) PROVE DownIsIdle'
  BY <1>1, RequestEffect DEF DownIsIdle
<1>2. ASSUME NEW h \in Handlers, Continue(h) PROVE DownIsIdle'
  BY <1>2, ContinueEffect DEF DownIsIdle, Busy
<1>3. CASE Crash \/ Start \/ UNCHANGED vars
  BY <1>3 DEF Crash, Start, DownIsIdle, Busy
<1>4. QED
  BY <1>1, <1>2, <1>3 DEF Next

LEMMA RequestInTurn ==
  ASSUME TypeOK, InTurn, NEW h \in Handlers, Request(h)
  PROVE  InTurn'
<1>1. CASE overlapped \/ Busy
  BY <1>1, RequestEffect DEF InTurn
<1>2. CASE ~overlapped /\ ~Busy
  <2>1. /\ \A g \in Handlers : pc[g] = "idle"
        /\ \A g \in Handlers \ {h} : pc'[g] = "idle"
        /\ up /\ ConfigWhole /\ Agreement
    BY <1>2, RequestEffect DEF Busy, InTurn
  <2>2. /\ UNCHANGED <<live, data, file, up, faulted>>
        /\ \/ pc'[h] = "idle" /\ values' = values
           \/ pc'[h] = "building" /\ kind'[h] = "config" /\ values' = values
           \/ pc'[h] = "dumping" /\ kind'[h] = "secret"
    BY RequestEffect
  <2>3. Lone' /\ ConfigWhole'
    BY <2>1, <2>2 DEF Lone, ConfigWhole
  <2>4. \A g \in Handlers : Progress(g)'
    BY <2>1, <2>2 DEF Progress
  <2>5. /\ data[file["config"]].cfg = live.cfg
        /\ ~faulted => live.secret = values /\ data[file["secret"]].value = values
    BY <2>1 DEF Agreement, ConfigSaved, SecretUnsaved, SecretUnused
  <2>6. Agreement'
    BY <2>1, <2>2, <2>5 DEF Agreement, ConfigSaved, SecretUnsaved, SecretUnused
  <2>7. QED
    BY <2>3, <2>4, <2>6 DEF InTurn
<1>3. QED
  BY <1>1, <1>2

(* The agreement, where h is the only request in progress. *)
AgreementFor(h) ==
  /\ data[file["config"]].cfg = IF ConfigSaved(h) THEN draft[h] ELSE live.cfg
  /\ ~faulted => /\ ~SecretUnused(h) => live.secret = values
                 /\ ~SecretUnsaved(h) => data[file["secret"]].value = values

(* A request that none overlaps takes one step. *)
LEMMA ContinueAlone ==
  ASSUME TypeOK, Sound, Separate, NEW h \in Handlers, Continue(h),
         ConfigWhole, Progress(h), AgreementFor(h)
  PROVE  ConfigWhole' /\ Progress(h)' /\ AgreementFor(h)'
<1> USE DEF ConfigWhole, Progress, AgreementFor, ConfigSaved, SecretUnsaved, SecretUnused
<1>0. /\ kind[h] \in Kinds /\ \A k \in Kinds : file[k] \in Inodes
      /\ Kinds = {"config", "secret"}
  BY DEF TypeOK, Kinds
<1>1. CASE Dump(h)
  BY <1>1 DEF Dump, TypeOK
<1>2. CASE Load(h)
  BY <1>2 DEF Load, TypeOK
<1>3. CASE Build(h)
  <2>1. kind[h] = "secret" => Buildable(draft[h])
    BY <1>3 DEF Build, Sound, LiveServable, Servable
  <2>2. QED
    BY <1>0, <1>3, <2>1 DEF Build, Reply, TypeOK
<1>4. CASE Open(h)
  <2>1. PICK i \in Inodes :
          /\ tmp[kind[h]] = i \/ (tmp[kind[h]] = NoInode /\ i \notin InUse)
          /\ tmp' = [tmp EXCEPT ![kind[h]] = i]
          /\ data' = [data EXCEPT ![i] = Blank]
          /\ fd' = [fd EXCEPT ![h] = i]
    BY <1>4, OpenEffect
  <2>2. \A k \in Kinds : i # file[k]
    BY <1>0, <2>1 DEF InUse, Separate, NoInode, Inodes
  <2>3. i # NoInode
    BY InodesFinite DEF NoInode
  <2>4. /\ pc[h] = "opening" /\ pc' = [pc EXCEPT ![h] = "writing"]
        /\ UNCHANGED <<live, values, file, kind, draft, secret, faulted>>
    BY <1>4 DEF Open
  <2>5. pc'[h] = "writing" /\ data'[i] = Blank /\ fd'[h] = i /\ tmp'[kind'[h]] = i
    BY <1>0, <2>1, <2>4 DEF TypeOK
  <2>6. \A k \in Kinds : data'[file'[k]] = data[file[k]]
    BY <1>0, <2>1, <2>2, <2>4 DEF TypeOK
  <2>7. QED
    BY <1>0, <2>3, <2>4, <2>5, <2>6
<1>5. CASE Write(h)
  <2>1. data' = [data EXCEPT ![tmp[kind[h]]] = Text(h)]
    BY <1>5 DEF Write
  <2>2. \A k \in Kinds : tmp[kind[h]] # file[k]
    BY <1>0, <1>5 DEF Write, Separate
  <2>3. QED
    BY <1>0, <1>5, <2>1, <2>2 DEF Write, TypeOK, Text
<1>6. CASE Rename(h)
  <2>1. /\ file' = [file EXCEPT ![kind[h]] = tmp[kind[h]]]
        /\ data' = [data EXCEPT ![file[kind[h]]] = Blank]
        /\ data[tmp[kind[h]]] = Text(h)
        /\ pc' = [pc EXCEPT ![h] = IF kind[h] = "config" THEN "storing" ELSE "loading"]
        /\ UNCHANGED <<live, values, kind, draft, secret, fd, faulted>>
    BY <1>6 DEF Rename
  <2>2. /\ \A k \in Kinds : tmp[kind[h]] # file[k]
        /\ file["config"] # file["secret"] /\ secret[h] = values
    BY <1>0, <1>6 DEF Rename, Separate
  <2>3. data'[tmp[kind[h]]] = Text(h)
    BY <1>0, <1>6, <2>1, <2>2 DEF Rename, TypeOK
  <2>4. CASE kind[h] = "config"
    <3>1. Text(h).state = "whole" /\ Text(h).cfg = draft[h]
      BY <2>4 DEF Text, Content
    <3>2. /\ file'["config"] = tmp["config"] /\ file'["secret"] = file["secret"]
          /\ data'[file["secret"]] = data[file["secret"]] /\ pc'[h] = "storing"
      BY <1>0, <2>1, <2>2, <2>4 DEF TypeOK
    <3>3. QED
      BY <1>6, <2>1, <2>2, <2>3, <2>4, <3>1, <3>2 DEF Rename
  <2>5. CASE kind[h] = "secret"
    <3>1. Text(h).value = secret[h]
      BY <2>5 DEF Text, Content
    <3>2. /\ file'["secret"] = tmp["secret"] /\ file'["config"] = file["config"]
          /\ data'[file["config"]] = data[file["config"]] /\ pc'[h] = "loading"
      BY <1>0, <2>1, <2>2, <2>5 DEF TypeOK
    <3>3. QED
      BY <1>6, <2>1, <2>2, <2>3, <2>5, <3>1, <3>2 DEF Rename
  <2>6. QED
    BY <1>0, <2>4, <2>5
<1>7. CASE FileError(h)
  <2>1. pc[h] = "writing" => \A k \in Kinds : fd[h] # file[k]
    BY <1>0 DEF Separate
  <2>2. QED
    BY <1>0, <1>7, <2>1 DEF FileError, Reply, TypeOK
<1>8. CASE Store(h)
  BY <1>0, <1>8 DEF Store, Reply, TypeOK
<1>9. CASE RemoveFile(h)
  BY <1>9 DEF RemoveFile, Reply, TypeOK
<1>10. QED
  BY <1>1, <1>2, <1>3, <1>4, <1>5, <1>6, <1>7, <1>8, <1>9 DEF Continue

LEMMA ContinueInTurn ==
  ASSUME TypeOK, Sound, Separate, DownIsIdle, InTurn, NEW h \in Handlers, Continue(h)
  PROVE  InTurn'
<1>1. CASE overlapped
  BY <1>1, ContinueEffect DEF InTurn
<1>2. CASE ~overlapped
  <2>1. /\ \A g \in Handlers \ {h} : pc[g] = "idle" /\ pc'[g] = "idle"
        /\ up /\ up' = up
    BY <1>2, ContinueEffect DEF InTurn, Lone, DownIsIdle, Busy
  <2>2. AgreementFor(h)
    BY <1>2, <2>1
       DEF InTurn, Agreement, AgreementFor, ConfigSaved, SecretUnsaved, SecretUnused
  <2>3. ConfigWhole' /\ Progress(h)' /\ AgreementFor(h)'
    BY <1>2, <2>2, ContinueAlone DEF InTurn
  <2>4. Lone' /\ \A g \in Handlers : Progress(g)'
    BY <2>1, <2>3 DEF Lone, Progress
  <2>5. Agreement'
    BY <2>1, <2>3
       DEF Agreement, AgreementFor, ConfigSaved, SecretUnsaved, SecretUnused
  <2>6. QED
    BY <2>3, <2>4, <2>5 DEF InTurn
<1>3. QED
  BY <1>1, <1>2

(* A start finds the file that it loads, and takes memory from it. *)
LEMMA StartInTurn ==
  ASSUME TypeOK, NoStrayValue, DownIsIdle, Start
  PROVE  InTurn'
<1>1. \A h \in Handlers : pc'[h] = "idle"
  BY DEF Start, DownIsIdle, Busy
<1>2. /\ ConfigWhole /\ live'.cfg = data[file["config"]].cfg
      /\ live'.secret = values' /\ UNCHANGED <<file, data>>
  BY DEF Start, Loads, ConfigWhole
<1>3. values' = data[file["secret"]].value
  <2>1. file["secret"] \in Inodes
    BY DEF TypeOK, Kinds
  <2>2. QED
    BY <2>1 DEF Start, NoStrayValue
<1>4. QED
  BY <1>1, <1>2, <1>3
     DEF InTurn, Lone, ConfigWhole, Progress, Agreement, ConfigSaved, SecretUnsaved,
         SecretUnused

LEMMA FilesStep == TypeOK /\ Sound /\ FilesInv /\ [Next]_vars => FilesInv'
<1> SUFFICES ASSUME TypeOK, Sound, FilesInv, [Next]_vars PROVE FilesInv'
  OBVIOUS
<1>1. Separate' /\ NoStrayValue' /\ DownIsIdle'
  BY SeparateStep, StrayStep, DownStep DEF FilesInv
<1>2. CASE \E h \in Handlers : Request(h) \/ Continue(h)
  BY <1>1, <1>2, RequestInTurn, ContinueInTurn DEF FilesInv
<1>3. CASE Start
  BY <1>1, <1>3, StartInTurn DEF FilesInv
<1>4. CASE Crash
  BY <1>1, <1>4 DEF Crash, FilesInv, InTurn, Lone, ConfigWhole, Progress
<1>5. CASE UNCHANGED vars
  <2>1. InTurn'
    BY <1>5 DEF FilesInv, InTurn, Lone, ConfigWhole, Progress, Agreement, ConfigSaved,
                SecretUnsaved, SecretUnused, Text
  <2>2. QED
    BY <1>1, <2>1 DEF FilesInv
<1>6. QED
  BY <1>2, <1>3, <1>4, <1>5 DEF Next

LEMMA InvariantHolds == Spec => [](TypeOK /\ Sound /\ FilesInv)
BY TypeInit, TypeStep, SoundInit, SoundStep, FilesInit, FilesStep, PTL DEF Spec

-----------------------------------------------------------------------------
(* Wherever the process is killed, gateway.toml is whole if no two requests
   overlapped since it started, and what is whole validates and builds. *)
THEOREM RestartFindsWholeFile == Spec => []Restartable
<1>1. TypeOK /\ Sound /\ FilesInv => Restartable
  BY DEF Sound, FilesInv, InTurn, ConfigWhole, Restartable, TypeOK, Kinds
<1>2. QED
  BY <1>1, InvariantHolds, PTL

(* Between requests that did not overlap, gateway.toml holds the configuration
   in force, and secrets.toml the secret, unless a file operation failed. *)
THEOREM MemoryIsOnDisk == Spec => []MemoryMatchesDisk
<1>1. TypeOK /\ Sound /\ FilesInv => MemoryMatchesDisk
  BY DEF FilesInv, InTurn, Agreement, ConfigSaved, SecretUnsaved, SecretUnused, Busy,
         MemoryMatchesDisk
<1>2. QED
  BY <1>1, InvariantHolds, PTL

-----------------------------------------------------------------------------
(* The .cmf files. *)

(* What delete_model will remove, the configuration it installs does not use;
   once that is installed, it is the one in force. *)
Harmless(h) ==
  /\ pc[h] \in {"dumping", "loading"} => kind[h] = "secret"
  /\ doomed[h] # NoPath => /\ kind[h] = "config" /\ pc[h] # "idle"
                           /\ ~Referenced(draft[h], doomed[h])
  /\ pc[h] = "removing" => doomed[h] # NoPath /\ (~overlapped => live.cfg = draft[h])

DoomInv == \A h \in Handlers : Harmless(h)

LEMMA RequestHarmless ==
  ASSUME TypeOK, DoomInv, NEW h \in Handlers, Request(h)
  PROVE  DoomInv'
<1>1. Begin(h) /\ pc[h] = "idle" /\ doomed[h] = NoPath
  BY DEF Request, PutConfig, CreateModel, UpdateModel, DeleteModel, PutRouting,
         PutSettings, CreateKey, DeleteKey, RegisterImport, PutSecret, Begin, DoomInv, Harmless
<1>2. ASSUME NEW g \in Handlers, g # h,
             pc'[g] = pc[g], kind'[g] = kind[g], doomed'[g] = doomed[g], draft'[g] = draft[g]
      PROVE  Harmless(g)'
  <2>1. live' = live /\ (pc[g] # "idle" => overlapped')
    BY <1>1 DEF Begin, Busy
  <2>2. Harmless(g) /\ ~Referenced(draft[g], doomed[g])' = ~Referenced(draft[g], doomed[g])
    BY <1>2 DEF DoomInv, Referenced, Effective
  <2>3. QED
    BY <1>2, <2>1, <2>2 DEF Harmless
<1>3. ASSUME Refuse(h) PROVE DoomInv'
  <2>1. pc'[h] = "idle" /\ doomed'[h] = NoPath
    BY <1>3 DEF Refuse, Reply, TypeOK
  <2>2. \A g \in Handlers \ {h} : /\ pc'[g] = pc[g] /\ kind'[g] = kind[g]
                                  /\ doomed'[g] = doomed[g] /\ draft'[g] = draft[g]
    BY <1>3 DEF Refuse, Reply, TypeOK
  <2>3. QED
    BY <1>2, <2>1, <2>2 DEF DoomInv, Harmless
<1>4. ASSUME NEW c, NEW f, Submit(h, c, f), ~Refuse(h), f # NoPath => ~Referenced(c, f)
      PROVE  DoomInv'
  <2>1. /\ pc'[h] = "building" /\ kind'[h] = "config"
        /\ doomed'[h] = f /\ draft'[h] = c
    BY <1>4 DEF Submit, TypeOK
  <2>2. \A g \in Handlers \ {h} : /\ pc'[g] = pc[g] /\ kind'[g] = kind[g]
                                  /\ doomed'[g] = doomed[g] /\ draft'[g] = draft[g]
    BY <1>4 DEF Submit, TypeOK
  <2>3. Harmless(h)'
    BY <1>4, <2>1 DEF Harmless, Referenced, Effective
  <2>4. QED
    BY <1>2, <2>2, <2>3 DEF DoomInv
<1>5. ASSUME NEW v, PutSecret(h, v) PROVE DoomInv'
  <2>1. /\ pc'[h] = "dumping" /\ kind'[h] = "secret" /\ doomed'[h] = NoPath
        /\ \A g \in Handlers \ {h} : /\ pc'[g] = pc[g] /\ kind'[g] = kind[g]
                                     /\ doomed'[g] = doomed[g] /\ draft'[g] = draft[g]
    BY <1>1, <1>5 DEF PutSecret, TypeOK
  <2>2. QED
    BY <1>2, <2>1 DEF DoomInv, Harmless
<1>6. ASSUME NEW id, DeleteModel(h, id), ~Refuse(h)
      PROVE  \E c, f : Submit(h, c, f) /\ (f # NoPath => ~Referenced(c, f))
  BY <1>6 DEF DeleteModel
<1>7. QED
  BY <1>3, <1>4, <1>5, <1>6
     DEF Request, PutConfig, CreateModel, UpdateModel, PutRouting, PutSettings,
         CreateKey, DeleteKey, RegisterImport, DeleteModel

LEMMA ContinueHarmless ==
  ASSUME TypeOK, InTurn, DoomInv, NEW h \in Handlers, Continue(h)
  PROVE  DoomInv'
<1>0. Harmless(h) /\ kind[h] \in Kinds
  BY DEF DoomInv, TypeOK
<1>1. ASSUME NEW g \in Handlers, g # h PROVE Harmless(g)'
  <2>1. pc'[g] = pc[g] /\ UNCHANGED <<kind, overlapped>>
    BY <1>1, ContinueEffect
  <2>2. doomed'[g] = doomed[g] /\ draft'[g] = draft[g]
    BY <1>1 DEF Continue, Dump, Load, Build, Open, Write, Rename, FileError, Store,
                RemoveFile, Reply, TypeOK
  <2>3. ~overlapped => pc[g] = "idle"
    BY <1>1, ContinueEffect DEF InTurn, Lone
  <2>4. QED
    BY <2>1, <2>2, <2>3 DEF DoomInv, Harmless, Referenced, Effective
<1> SUFFICES Harmless(h)'
  BY <1>1 DEF DoomInv
<1>2. ASSUME doomed'[h] = NoPath, pc'[h] = "idle" PROVE Harmless(h)'
  BY <1>2 DEF Harmless
<1>3. ASSUME UNCHANGED <<draft, doomed, kind>>, pc'[h] \notin {"idle", "removing", "dumping"},
             pc'[h] = "loading" => kind[h] = "secret"
      PROVE  Harmless(h)'
  BY <1>0, <1>3 DEF Harmless, Referenced, Effective
<1>4. CASE Dump(h) \/ Build(h) \/ Rename(h)
  BY <1>0, <1>2, <1>3, <1>4 DEF Dump, Build, Rename, Reply, TypeOK, Kinds
<1>5. CASE Open(h)
  <2>1. UNCHANGED <<draft, doomed, kind>> /\ pc' = [pc EXCEPT ![h] = "writing"]
    BY <1>5 DEF Open
  <2>2. QED
    BY <1>3, <2>1 DEF TypeOK
<1>6. CASE Write(h)
  BY <1>3, <1>6 DEF Write, TypeOK
<1>7. CASE Load(h)
  BY <1>0, <1>7 DEF Load, Harmless, TypeOK
<1>8. CASE FileError(h) \/ RemoveFile(h)
  BY <1>2, <1>8 DEF FileError, RemoveFile, Reply, TypeOK
<1>9. CASE Store(h)
  <2>1. CASE doomed[h] = NoPath
    BY <1>2, <1>9, <2>1 DEF Store, Reply, TypeOK
  <2>2. CASE doomed[h] # NoPath
    BY <1>0, <1>9, <2>2 DEF Store, Harmless, Referenced, Effective, TypeOK
  <2>3. QED
    BY <2>1, <2>2
<1>10. QED
  BY <1>4, <1>5, <1>6, <1>7, <1>8, <1>9 DEF Continue

LEMMA DoomStep == TypeOK /\ DownIsIdle /\ InTurn /\ DoomInv /\ [Next]_vars => DoomInv'
<1> SUFFICES ASSUME TypeOK, DownIsIdle, InTurn, DoomInv, [Next]_vars PROVE DoomInv'
  OBVIOUS
<1>1. CASE \E h \in Handlers : Request(h) \/ Continue(h)
  BY <1>1, RequestHarmless, ContinueHarmless
<1>2. CASE Crash
  BY <1>2 DEF Crash, DoomInv, Harmless
<1>3. CASE Start
  BY <1>3 DEF Start, DownIsIdle, Busy, DoomInv, Harmless
<1>4. CASE UNCHANGED vars
  BY <1>4 DEF DoomInv, Harmless, Referenced, Effective
<1>5. QED
  BY <1>1, <1>2, <1>3, <1>4 DEF Next

SpelledAlike == \A p, q \in Paths : FileAt[p] = FileAt[q] => p = q

(* A file that the configuration in force uses has the spelling it is used by. *)
LEMMA UsedIsReferenced ==
  ASSUME TypeOK, SpelledAlike, NEW p \in Paths, FileAt[p] \in InService(live.cfg)
  PROVE  Referenced(live.cfg, p)
<1>1. Effective(live.cfg) \subseteq Ids /\ live.cfg.models \subseteq Ids
  BY DEF TypeOK, ConfigType, Effective
<1>2. CASE \E m \in Effective(live.cfg) : FileAt[p] = FileAt[ServerPath[m]]
  BY <1>1, <1>2, StoreAssumption DEF SpelledAlike, Referenced
<1>3. CASE \E m \in live.cfg.models : StaticPath[m] # NoPath /\ FileAt[p] = FileAt[StaticPath[m]]
  BY <1>1, <1>3, StoreAssumption DEF SpelledAlike, Referenced
<1>4. QED
  BY <1>2, <1>3 DEF InService

LEMMA OnlyDoomedRemoved ==
  ASSUME TypeOK, DoomInv, SpelledAlike, [Next]_vars, ~overlapped
  PROVE  (cmfs \ cmfs') \cap InService(live.cfg) = {}
<1>1. ASSUME NEW h \in Handlers, RemoveFile(h)
      PROVE  (cmfs \ cmfs') \cap InService(live.cfg) = {}
  <2>1. /\ cmfs \ cmfs' \subseteq {FileAt[doomed[h]]}
        /\ doomed[h] \in Paths /\ ~Referenced(live.cfg, doomed[h])
    BY <1>1 DEF RemoveFile, DoomInv, Harmless, TypeOK
  <2>2. QED
    BY <2>1, UsedIsReferenced
<1>2. ASSUME NEW h \in Handlers, Request(h) PROVE cmfs' = cmfs
  BY <1>2 DEF Request, PutConfig, CreateModel, UpdateModel, DeleteModel, PutRouting,
              PutSettings, CreateKey, DeleteKey, RegisterImport, PutSecret, Begin
<1>3. ASSUME NEW h \in Handlers, Continue(h), ~RemoveFile(h) PROVE cmfs' = cmfs
  BY <1>3 DEF Continue, Dump, Load, Build, Open, Write, Rename, FileError, Store
<1>4. CASE Crash \/ Start \/ UNCHANGED vars
  BY <1>4 DEF Crash, Start
<1>5. QED
  BY <1>1, <1>2, <1>3, <1>4 DEF Next

(* delete_model removes no .cmf file that a model of the configuration in force
   uses, unless another request came in between, if no two paths name one file. *)
THEOREM DeletionSparesUsed == SpelledAlike => (Spec => SharedFilesKept)
<1> SUFFICES ASSUME SpelledAlike PROVE Spec => SharedFilesKept
  OBVIOUS
<1>1. Init => DoomInv
  BY DEF Init, DoomInv, Harmless
<1>2. TypeOK /\ FilesInv /\ DoomInv /\ [Next]_vars => DoomInv'
  BY DoomStep DEF FilesInv
<1>3. TypeOK /\ DoomInv /\ [Next]_vars
        => [~overlapped => (cmfs \ cmfs') \cap InService(live.cfg) = {}]_vars
  BY OnlyDoomedRemoved
<1>4. QED
  BY <1>1, <1>2, <1>3, InvariantHolds, PTL DEF Spec, SharedFilesKept
=============================================================================
