---------------------------- MODULE SemanticCache ----------------------------
(***************************************************************************)
(* The semantic cache (src/src/cache.rs) under the requests that use it    *)
(* (Pipeline::run): a request embeds its prompt, looks it up, and if it    *)
(* misses calls a model and stores the answer.  The cache is one queue     *)
(* under a lock, with counters beside it; time passes between the steps.   *)
(* A cache that is off does nothing and is left out.                       *)
(***************************************************************************)
EXTENDS Naturals, Sequences, FiniteSets

CONSTANTS Requests, Sigs, Prompts,
          Embedders,            \* embedding models
          Similarity(_, _),     \* of two vectors <<embedder, prompt>>
          Threshold, TTL,
          MaxEntries,           \* max(1) of [cache].max_entries
          MaxTime, MaxReloads   \* bounds

ASSUME CacheAssumption ==
  /\ IsFiniteSet(Requests) /\ Embedders # {}
  /\ \A v, w \in Embedders \X Prompts : Similarity(v, w) \in Nat
  /\ Threshold \in Nat
  /\ MaxEntries \in Nat \ {0} /\ TTL \in Nat /\ MaxTime \in Nat /\ MaxReloads \in Nat

VARIABLES entries,   \* SemanticCache.entries, front first
          hits, misses,
          embedder,  \* the embedding model of the live configuration
          reloads,
          clock,     \* SystemTime, assumed not to be set back
          pc,        \* Requests -> where run() is
          key,       \* Requests -> [sig, vec], or {} before
          cutoff,    \* Requests -> the cutoff of its lookup
          found,     \* Requests -> the request whose answer it got, or {}
          seen       \* the hits a snapshot under way has read, or {}

(* History: every entry ever pushed, the time of each lookup, the lookups made
   when a snapshot began, and the last snapshot. *)
VARIABLES log, asked, before, snapshot

vars == <<entries, hits, misses, embedder, reloads, clock, pc, key, cutoff, found, seen,
          log, asked, before, snapshot>>

Vecs == Embedders \X Prompts
Entries == [sig : Sigs, vec : Vecs, ts : Nat, by : Requests]

TypeOK ==
  /\ entries \in Seq(Entries) /\ Len(entries) <= MaxEntries
  /\ hits \in Nat /\ misses \in Nat
  /\ embedder \in Embedders /\ reloads \in Nat /\ clock \in Nat
  /\ pc \in [Requests -> {"idle", "embedding", "looking", "calling", "hit", "stored", "gone"}]
  /\ key \in [Requests -> SUBSET [sig : Sigs, vec : Vecs]]
  /\ cutoff \in [Requests -> Nat]
  /\ found \in [Requests -> SUBSET Requests]
  /\ seen \subseteq Nat

Init ==
  /\ entries = <<>> /\ hits = 0 /\ misses = 0
  /\ embedder \in Embedders /\ reloads = 0 /\ clock = 0
  /\ pc = [r \in Requests |-> "idle"]
  /\ key = [r \in Requests |-> {}]
  /\ cutoff = [r \in Requests |-> 0]
  /\ found = [r \in Requests |-> {}]
  /\ seen = {}
  /\ log = <<>> /\ asked = [r \in Requests |-> {}] /\ before = 0 /\ snapshot = {}

Goto(r, from, to) == pc[r] = from /\ pc' = [pc EXCEPT ![r] = to]

-----------------------------------------------------------------------------
(* run: the key of the request, and the embedding model of this moment. *)
Begin(r, s, p) ==
  /\ Goto(r, "idle", "embedding")
  /\ key' = [key EXCEPT ![r] = {[sig |-> s, vec |-> <<embedder, p>>]}]
  /\ UNCHANGED <<entries, hits, misses, embedder, reloads, clock, cutoff, found, seen,
                 log, asked, before, snapshot>>

(* The embedding, or the answer of the model, fails or is empty, or the client
   leaves: the cache is not touched (again). *)
GiveUp(r) ==
  /\ Goto(r, "embedding", "gone") \/ Goto(r, "calling", "gone")
  /\ UNCHANGED <<entries, hits, misses, embedder, reloads, clock, key, cutoff, found, seen,
                 log, asked, before, snapshot>>

(* lookup: the clock is read before the lock is taken, *)
Look(r) ==
  /\ Goto(r, "embedding", "looking")
  /\ cutoff' = [cutoff EXCEPT ![r] = IF clock > TTL THEN clock - TTL ELSE 0]
  /\ asked' = [asked EXCEPT ![r] = {clock}]
  /\ UNCHANGED <<entries, hits, misses, embedder, reloads, clock, key, found, seen,
                 log, before, snapshot>>

(* and under it the most similar of the usable entries is taken, the first of
   equals; *)
Usable(r) ==
  {i \in 1 .. Len(entries) : \E k \in key[r] :
     /\ entries[i].sig = k.sig /\ entries[i].ts >= cutoff[r]
     /\ Similarity(entries[i].vec, k.vec) >= Threshold}

Beats(r, i, j) ==
  \A k \in key[r] :
    LET si == Similarity(entries[i].vec, k.vec)
        sj == Similarity(entries[j].vec, k.vec)
    IN  si > sj \/ (si = sj /\ i <= j)

Hit(r, i) ==
  /\ i \in Usable(r) /\ \A j \in Usable(r) : Beats(r, i, j)
  /\ Goto(r, "looking", "hit")
  /\ hits' = hits + 1
  /\ found' = [found EXCEPT ![r] = {entries[i].by}]
  /\ UNCHANGED <<entries, misses, embedder, reloads, clock, key, cutoff, seen,
                 log, asked, before, snapshot>>

\* Slip: misses are counted when the answer is stored.
MissUncounted(r) ==
  /\ Usable(r) = {}
  /\ Goto(r, "looking", "calling")
  /\ UNCHANGED <<entries, hits, misses, embedder, reloads, clock, key, cutoff, found, seen,
                 log, asked, before, snapshot>>

(* without one the model is called. *)
Miss(r) ==
  /\ Usable(r) = {}
  /\ Goto(r, "looking", "calling")
  /\ misses' = misses + 1
  /\ UNCHANGED <<entries, hits, embedder, reloads, clock, key, cutoff, found, seen,
                 log, asked, before, snapshot>>

\* Slips: one entry too many is kept; the newest entry makes room.
LastButOne(s) ==
  IF Len(s) > MaxEntries + 1 THEN SubSeq(s, Len(s) - MaxEntries + 1, Len(s)) ELSE s

KeepOldest(s) == IF Len(s) > MaxEntries THEN SubSeq(s, 1, MaxEntries) ELSE s

(* while inner.len() > max_entries: pop_front *)
Evict(s) == IF Len(s) > MaxEntries THEN SubSeq(s, Len(s) - MaxEntries + 1, Len(s)) ELSE s

(* insert: the answer is pushed, with the time of the push, by each of the
   requests that missed it. *)
Insert(r) ==
  /\ Goto(r, "calling", "stored")
  /\ \E k \in key[r] :
       LET e == [sig |-> k.sig, vec |-> k.vec, ts |-> clock, by |-> r]
       IN  entries' = Evict(Append(entries, e)) /\ log' = Append(log, e)
  /\ UNCHANGED <<hits, misses, embedder, reloads, clock, key, cutoff, found, seen,
                 asked, before, snapshot>>

(* snapshot: the counters are read one after the other. *)
ReadHits ==
  /\ seen = {} /\ snapshot = {}
  /\ seen' = {hits}
  /\ before' = hits + misses
  /\ UNCHANGED <<entries, hits, misses, embedder, reloads, clock, pc, key, cutoff, found,
                 log, asked, snapshot>>

ReadMisses ==
  /\ seen # {}
  /\ seen' = {}
  /\ snapshot' = {[hits |-> h, misses |-> misses] : h \in seen}
  /\ UNCHANGED <<entries, hits, misses, embedder, reloads, clock, pc, key, cutoff, found,
                 log, asked, before>>

(* The configuration names another embedding model; the cache is kept. *)
Reload(m) ==
  /\ reloads < MaxReloads /\ m # embedder
  /\ reloads' = reloads + 1
  /\ embedder' = m
  /\ UNCHANGED <<entries, hits, misses, clock, pc, key, cutoff, found, seen,
                 log, asked, before, snapshot>>

Tick ==
  /\ clock < MaxTime
  /\ clock' = clock + 1
  /\ UNCHANGED <<entries, hits, misses, embedder, reloads, pc, key, cutoff, found, seen,
                 log, asked, before, snapshot>>

Next ==
  \/ \E r \in Requests :
       \/ \E s \in Sigs, p \in Prompts : Begin(r, s, p)
       \/ GiveUp(r) \/ Look(r) \/ Miss(r) \/ Insert(r)
       \/ \E i \in Usable(r) : Hit(r, i)
  \/ ReadHits \/ ReadMisses \/ \E m \in Embedders : Reload(m)
  \/ Tick

Spec == Init /\ [][Next]_vars

-----------------------------------------------------------------------------
Missed(r) == asked[r] # {} /\ pc[r] \notin {"looking", "hit"}

(* What a request has asked of the cache, and what it got. *)
Asked == [r \in Requests |->
            {[sig |-> k.sig, vec |-> k.vec, at |-> t] : k \in key[r], t \in asked[r]}]
Result == [r \in Requests |-> IF pc[r] = "hit" THEN found[r]
                              ELSE IF Missed(r) THEN {"miss"} ELSE {}]

Memo == INSTANCE AnswerMemo
        WITH Questions <- Requests, Capacity <- MaxEntries, asked <- Asked, result <- Result

(* Refinement: among concurrent requests, whatever time passes between their
   steps, the queue with its cutoffs acts as the last answers stored, an answer
   that can be found is found, and the most similar one is taken. *)
MemoPromise == Memo!Spec

(* The dashboard's numbers add up: each lookup is counted once, as what it was,
   and a snapshot taken among lookups shows no fewer than had been made when it
   began and no more than when it ended. *)
CountersExact ==
  /\ hits = Cardinality({r \in Requests : pc[r] = "hit"})
  /\ misses = Cardinality({r \in Requests : Missed(r)})
  /\ \A s \in snapshot : before <= s.hits + s.misses /\ s.hits + s.misses <= hits + misses

(* cache.rs, "the cosine similarity to a previous request": of two vectors of one
   embedding model. *)
ComparedInOneSpace ==
  \A r \in Requests : pc[r] = "hit" =>
    \E k \in key[r], i \in 1 .. Len(log) :
      log[i].by \in found[r] /\ log[i].vec[1] = k.vec[1]
=============================================================================
