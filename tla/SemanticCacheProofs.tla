------------------------ MODULE SemanticCacheProofs ------------------------
(***************************************************************************)
(* For any number of requests, any capacity, time to live and similarity:  *)
(* the queue of SemanticCache is the end of the list of all answers ever   *)
(* stored, its counters are exact, and it implements AnswerMemo.           *)
(***************************************************************************)
EXTENDS SemanticCache, FiniteSetTheorems, TLAPS

Keys == [sig : Sigs, vec : Vecs]

(* The queue q is the last MaxEntries of the answers stored, l. *)
EndOf(q, l) ==
  /\ l \in Seq(Entries)
  /\ q \in Seq(Entries)
  /\ Len(q) = IF Len(l) <= MaxEntries THEN Len(l) ELSE MaxEntries
  /\ \A i \in 1 .. Len(q) : q[i] = l[Len(l) - Len(q) + i]

QueueOK == EndOf(entries, log)

(* A request has its key from the start, and its cutoff from the lookup. *)
KeyOK ==
  \A r \in Requests : IF pc[r] = "idle" THEN key[r] = {} ELSE \E k \in Keys : key[r] = {k}

CutoffAt(r, t) ==
  asked[r] = {t} /\ cutoff[r] = IF t > TTL THEN t - TTL ELSE 0

LookupOK ==
  /\ asked \in [Requests -> SUBSET Nat]
  /\ \A r \in Requests :
       /\ pc[r] \in {"idle", "embedding"} => asked[r] = {}
       /\ pc[r] \in {"looking", "calling", "hit", "stored"} => \E t \in Nat : CutoffAt(r, t)

(* Only requests that are through have stored an answer. *)
StoredOK == \A i \in 1 .. Len(log) : pc[log[i].by] = "stored"

(* A snapshot under way has read hits that, with the misses of now, are no fewer
   than the lookups made before it began. *)
SnapshotOK ==
  /\ before \in Nat
  /\ snapshot \subseteq [hits : Nat, misses : Nat]
  /\ \A h \in seen : h <= hits /\ before <= h + misses

IInv ==
  /\ TypeOK /\ QueueOK /\ KeyOK /\ LookupOK /\ StoredOK /\ SnapshotOK /\ CountersExact

-----------------------------------------------------------------------------
(* What Evict does to a queue that has got one entry too many. *)
LEMMA EvictKeepsEnd ==
  ASSUME QueueOK, NEW e \in Entries
  PROVE  EndOf(Evict(Append(entries, e)), Append(log, e))
<1> DEFINE s == Append(entries, e)
           l == Append(log, e)
           q == Evict(s)
<1> SUFFICES EndOf(q, l)
  OBVIOUS
<1>1. /\ s \in Seq(Entries) /\ Len(s) = Len(entries) + 1
      /\ l \in Seq(Entries) /\ Len(l) = Len(log) + 1
      /\ Len(entries) \in Nat /\ Len(log) \in Nat
      /\ \A i \in 1 .. Len(entries) : s[i] = entries[i]
      /\ s[Len(entries) + 1] = e
      /\ \A i \in 1 .. Len(log) : l[i] = log[i]
      /\ l[Len(log) + 1] = e
  BY DEF QueueOK, EndOf
<1>2. MaxEntries \in Nat /\ MaxEntries > 0
  BY CacheAssumption
<1>3. \A i \in 1 .. Len(s) : s[i] = l[Len(log) - Len(entries) + i]
  <2> TAKE i \in 1 .. Len(s)
  <2>1. Len(log) - Len(entries) \in Nat
    BY <1>1, <1>2 DEF QueueOK, EndOf
  <2>2. CASE i \in 1 .. Len(entries)
    <3>1. Len(log) - Len(entries) + i \in 1 .. Len(log)
      BY <1>1, <2>1, <2>2
    <3> HIDE DEF s, l
    <3> QED BY <1>1, <2>2, <3>1 DEF QueueOK, EndOf
  <2>3. CASE i = Len(entries) + 1
    <3>1. Len(log) - Len(entries) + i = Len(log) + 1
      BY <1>1, <2>3
    <3> QED BY <1>1, <2>3, <3>1
  <2>4. i \in 1 .. Len(entries) \/ i = Len(entries) + 1
    <3> HIDE DEF s
    <3> QED BY <1>1
  <2> QED BY <2>2, <2>3, <2>4
<1>4. CASE Len(s) > MaxEntries
  <2>1. Len(entries) = MaxEntries /\ Len(log) >= MaxEntries
    BY <1>1, <1>2, <1>4 DEF QueueOK, EndOf
  <2>2. q = SubSeq(s, 2, Len(s))
    <3>1. Len(s) - MaxEntries + 1 = 2
      BY <1>1, <1>2, <2>1
    <3> QED BY <1>4, <3>1 DEF Evict
  <2>3. /\ q \in Seq(Entries) /\ Len(q) = MaxEntries
        /\ \A i \in 1 .. MaxEntries : q[i] = s[i + 1]
    <3> HIDE DEF s
    <3>1. SubSeq(s, 2, Len(s)) \in Seq(Entries) /\ Len(SubSeq(s, 2, Len(s))) = Len(s) - 1
      BY <1>1, <1>2, <2>1
    <3>2. \A i \in 1 .. Len(s) - 1 : SubSeq(s, 2, Len(s))[i] = s[i + 1]
      BY <1>1, <1>2, <2>1
    <3>3. Len(s) - 1 = MaxEntries
      BY <1>1, <1>2, <2>1
    <3> QED BY <2>2, <3>1, <3>2, <3>3
  <2>4. \A i \in 1 .. Len(q) : q[i] = l[Len(l) - Len(q) + i]
    <3> TAKE i \in 1 .. Len(q)
    <3>1. i \in 1 .. MaxEntries /\ i + 1 \in 1 .. Len(s)
      BY <1>1, <1>2, <2>1, <2>3
    <3>2. q[i] = l[Len(log) - Len(entries) + (i + 1)]
      BY <1>3, <2>3, <3>1
    <3>3. Len(log) - Len(entries) + (i + 1) = Len(l) - Len(q) + i
      BY <1>1, <1>2, <2>1, <2>3
    <3> QED BY <3>2, <3>3
  <2>5. Len(q) = IF Len(l) <= MaxEntries THEN Len(l) ELSE MaxEntries
    <3> HIDE DEF q, l
    <3> QED BY <1>1, <1>2, <2>1, <2>3
  <2> HIDE DEF q, l
  <2> QED BY <1>1, <2>3, <2>4, <2>5 DEF EndOf
<1>5. CASE ~(Len(s) > MaxEntries)
  <2>1. q = s
    BY <1>5 DEF Evict
  <2>2. Len(log) = Len(entries) /\ Len(l) <= MaxEntries
    BY <1>1, <1>2, <1>5 DEF QueueOK, EndOf
  <2>3. Len(l) = Len(s)
    BY <1>1, <2>2
  <2>4. \A i \in 1 .. Len(s) : s[i] = l[Len(l) - Len(s) + i]
    <3> TAKE i \in 1 .. Len(s)
    <3>1. Len(log) - Len(entries) + i = Len(l) - Len(s) + i
      BY <1>1, <2>2
    <3> QED BY <1>3, <3>1
  <2>5. /\ q \in Seq(Entries) /\ l \in Seq(Entries)
        /\ Len(q) = IF Len(l) <= MaxEntries THEN Len(l) ELSE MaxEntries
    <3> HIDE DEF q, s, l
    <3> QED BY <1>1, <2>1, <2>2, <2>3
  <2>6. \A i \in 1 .. Len(q) : q[i] = l[Len(l) - Len(q) + i]
    <3> HIDE DEF q, s, l
    <3> QED BY <2>1, <2>4
  <2> HIDE DEF q, l
  <2> QED BY <2>5, <2>6 DEF EndOf
<1> QED BY <1>4, <1>5


(* A step of one request: where it stands, and where the others stand. *)
LEMMA GotoFacts ==
  ASSUME TypeOK, NEW r \in Requests, NEW from, NEW to, Goto(r, from, to)
  PROVE  /\ pc[r] = from /\ pc'[r] = to
         /\ \A q \in Requests \ {r} : pc'[q] = pc[q]
BY DEF Goto, TypeOK

LEMMA GotoTyped ==
  ASSUME TypeOK, NEW r \in Requests, NEW from,
         NEW to \in {"embedding", "looking", "calling", "hit", "stored", "gone"},
         Goto(r, from, to)
  PROVE  pc' \in [Requests -> {"idle", "embedding", "looking", "calling", "hit", "stored", "gone"}]
BY DEF Goto, TypeOK

-----------------------------------------------------------------------------
(* Type correctness is preserved. *)
LEMMA TypeStep ==
  ASSUME TypeOK, QueueOK, KeyOK, [Next]_vars
  PROVE  TypeOK'
<1> USE CacheAssumption
<1>1. ASSUME NEW r \in Requests, NEW s \in Sigs, NEW p \in Prompts, Begin(r, s, p)
      PROVE  TypeOK'
  <2>1. pc' \in [Requests -> {"idle", "embedding", "looking", "calling", "hit", "stored", "gone"}]
    BY <1>1, GotoTyped DEF Begin
  <2>2. key' \in [Requests -> SUBSET [sig : Sigs, vec : Vecs]]
    <3>1. [sig |-> s, vec |-> <<embedder, p>>] \in [sig : Sigs, vec : Vecs]
      BY DEF TypeOK, Vecs
    <3> QED BY <1>1, <3>1 DEF Begin, TypeOK
  <2> QED BY <1>1, <2>1, <2>2 DEF Begin, TypeOK
<1>2. ASSUME NEW r \in Requests, GiveUp(r)
      PROVE  TypeOK'
  BY <1>2, GotoTyped DEF GiveUp, TypeOK
<1>3. ASSUME NEW r \in Requests, Look(r)
      PROVE  TypeOK'
  <2>1. pc' \in [Requests -> {"idle", "embedding", "looking", "calling", "hit", "stored", "gone"}]
    BY <1>3, GotoTyped DEF Look
  <2>2. cutoff' \in [Requests -> Nat]
    <3>1. (IF clock > TTL THEN clock - TTL ELSE 0) \in Nat
      BY DEF TypeOK
    <3> QED BY <1>3, <3>1 DEF Look, TypeOK
  <2> QED BY <1>3, <2>1, <2>2 DEF Look, TypeOK
<1>4. ASSUME NEW r \in Requests, NEW i \in Usable(r), Hit(r, i)
      PROVE  TypeOK'
  <2>1. pc' \in [Requests -> {"idle", "embedding", "looking", "calling", "hit", "stored", "gone"}]
    BY <1>4, GotoTyped DEF Hit
  <2>2. found' \in [Requests -> SUBSET Requests]
    <3>1. entries[i] \in Entries
      BY <1>4 DEF Usable, TypeOK
    <3>2. entries[i].by \in Requests
      BY <3>1 DEF Entries
    <3> QED BY <1>4, <3>2 DEF Hit, TypeOK
  <2>3. hits' \in Nat
    BY <1>4 DEF Hit, TypeOK
  <2> QED BY <1>4, <2>1, <2>2, <2>3 DEF Hit, TypeOK
<1>5. ASSUME NEW r \in Requests, Miss(r)
      PROVE  TypeOK'
  BY <1>5, GotoTyped DEF Miss, TypeOK
<1>6. ASSUME NEW r \in Requests, Insert(r)
      PROVE  TypeOK'
  <2>1. pc' \in [Requests -> {"idle", "embedding", "looking", "calling", "hit", "stored", "gone"}]
    BY <1>6, GotoTyped DEF Insert
  <2>2. EndOf(entries', log')
    <3>1. PICK k \in key[r] :
            /\ entries' = Evict(Append(entries, [sig |-> k.sig, vec |-> k.vec, ts |-> clock, by |-> r]))
            /\ log' = Append(log, [sig |-> k.sig, vec |-> k.vec, ts |-> clock, by |-> r])
      BY <1>6 DEF Insert
    <3>2. [sig |-> k.sig, vec |-> k.vec, ts |-> clock, by |-> r] \in Entries
      BY DEF TypeOK, Entries
    <3> QED BY <3>1, <3>2, EvictKeepsEnd
  <2>3. entries' \in Seq(Entries) /\ Len(entries') <= MaxEntries
    BY <2>2 DEF EndOf
  <2> QED BY <1>6, <2>1, <2>3 DEF Insert, TypeOK
<1>7. CASE ReadHits
  BY <1>7 DEF ReadHits, TypeOK
<1>8. CASE ReadMisses
  BY <1>8 DEF ReadMisses, TypeOK
<1>9. ASSUME NEW m \in Embedders, Reload(m)
      PROVE  TypeOK'
  BY <1>9 DEF Reload, TypeOK
<1>10. CASE Tick
  BY <1>10 DEF Tick, TypeOK
<1>11. CASE UNCHANGED vars
  BY <1>11 DEF vars, TypeOK
<1> QED BY <1>1, <1>2, <1>3, <1>4, <1>5, <1>6, <1>7, <1>8, <1>9, <1>10, <1>11 DEF Next

LEMMA QueueStep ==
  ASSUME TypeOK, QueueOK, [Next]_vars
  PROVE  QueueOK'
<1>1. ASSUME NEW r \in Requests, Insert(r)
      PROVE  QueueOK'
  <2>1. PICK k \in key[r] :
          /\ entries' = Evict(Append(entries, [sig |-> k.sig, vec |-> k.vec, ts |-> clock, by |-> r]))
          /\ log' = Append(log, [sig |-> k.sig, vec |-> k.vec, ts |-> clock, by |-> r])
    BY <1>1 DEF Insert
  <2>2. [sig |-> k.sig, vec |-> k.vec, ts |-> clock, by |-> r] \in Entries
    BY DEF TypeOK, Entries
  <2>3. EndOf(entries', log')
    BY <2>1, <2>2, EvictKeepsEnd
  <2> QED BY <2>3 DEF QueueOK, EndOf
<1>2. CASE UNCHANGED <<entries, log>>
  BY <1>2 DEF QueueOK, EndOf
<1> QED BY <1>1, <1>2 DEF Next, vars, Begin, GiveUp, Look, Hit, Miss, ReadHits, ReadMisses,
                          Reload, Tick

(* What a request knows does not change behind its back. *)
LEMMA KeyStep ==
  ASSUME TypeOK, KeyOK, [Next]_vars
  PROVE  KeyOK'
<1>1. ASSUME NEW r \in Requests, NEW s \in Sigs, NEW p \in Prompts, Begin(r, s, p)
      PROVE  KeyOK'
  <2>1. [sig |-> s, vec |-> <<embedder, p>>] \in Keys
    BY DEF TypeOK, Keys, Vecs
  <2>2. pc'[r] = "embedding" /\ \A q \in Requests \ {r} : pc'[q] = pc[q]
    BY <1>1, GotoFacts DEF Begin
  <2>3. /\ key'[r] = {[sig |-> s, vec |-> <<embedder, p>>]}
        /\ \A q \in Requests \ {r} : key'[q] = key[q]
    BY <1>1 DEF Begin, TypeOK
  <2> QED BY <2>1, <2>2, <2>3 DEF KeyOK
<1>2. ASSUME NEW r \in Requests, UNCHANGED key, pc[r] # "idle", pc'[r] # "idle",
             \A q \in Requests \ {r} : pc'[q] = pc[q]
      PROVE  KeyOK'
  BY <1>2 DEF KeyOK
<1>3. CASE UNCHANGED <<pc, key>>
  BY <1>3 DEF KeyOK
<1>4. ASSUME NEW r \in Requests, NEW i \in Usable(r), Hit(r, i)
      PROVE  KeyOK'
  BY <1>2, <1>4, GotoFacts DEF Hit
<1>5. ASSUME NEW r \in Requests, GiveUp(r) \/ Look(r) \/ Miss(r) \/ Insert(r)
      PROVE  KeyOK'
  BY <1>2, <1>5, GotoFacts DEF GiveUp, Look, Miss, Insert
<1> QED BY <1>1, <1>3, <1>4, <1>5 DEF Next, vars, ReadHits, ReadMisses, Reload, Tick

LEMMA LookupStep ==
  ASSUME TypeOK, LookupOK, [Next]_vars
  PROVE  LookupOK'
<1>1. ASSUME NEW r \in Requests, Look(r)
      PROVE  LookupOK'
  <2>1. pc'[r] = "looking" /\ \A q \in Requests \ {r} : pc'[q] = pc[q]
    BY <1>1, GotoFacts DEF Look
  <2>2. /\ asked' \in [Requests -> SUBSET Nat]
        /\ asked'[r] = {clock} /\ cutoff'[r] = IF clock > TTL THEN clock - TTL ELSE 0
        /\ \A q \in Requests \ {r} : asked'[q] = asked[q] /\ cutoff'[q] = cutoff[q]
    BY <1>1 DEF Look, LookupOK, TypeOK
  <2>3. \E t \in Nat : CutoffAt(r, t)'
    <3>1. clock \in Nat
      BY DEF TypeOK
    <3>2. ASSUME NEW t \in Nat, t = clock
          PROVE  CutoffAt(r, t)'
      BY <2>2, <3>2 DEF CutoffAt
    <3> QED BY <3>1, <3>2
  <2>4. \A q \in Requests \ {r} : \A t \in Nat : CutoffAt(q, t) => CutoffAt(q, t)'
    BY <2>2 DEF CutoffAt
  <2>5. ASSUME NEW q \in Requests
        PROVE  /\ pc'[q] \in {"idle", "embedding"} => asked'[q] = {}
               /\ pc'[q] \in {"looking", "calling", "hit", "stored"} =>
                    \E t \in Nat : CutoffAt(q, t)'
    <3>1. CASE q = r
      <4>1. \E t \in Nat : CutoffAt(q, t)'
        BY <2>3, <3>1
      <4> QED BY <2>1, <3>1, <4>1
    <3>2. CASE q # r
      <4>1. pc'[q] = pc[q] /\ asked'[q] = asked[q]
        BY <2>1, <2>2, <3>2
      <4> QED BY <2>4, <3>2, <4>1 DEF LookupOK
    <3> QED BY <3>1, <3>2
  <2> QED BY <2>2, <2>5 DEF LookupOK
<1>2. ASSUME NEW r \in Requests, UNCHANGED <<asked, cutoff>>,
             \A q \in Requests \ {r} : pc'[q] = pc[q],
             \/ pc[r] = "idle" /\ pc'[r] = "embedding"
             \/ pc'[r] = "gone"
             \/ pc[r] \in {"looking", "calling"} /\ pc'[r] \in {"calling", "hit", "stored"}
      PROVE  LookupOK'
  <2>1. \A q \in Requests, t \in Nat : CutoffAt(q, t)' <=> CutoffAt(q, t)
    BY <1>2 DEF CutoffAt
  <2> QED BY <1>2, <2>1 DEF LookupOK
<1>3. CASE UNCHANGED <<pc, asked, cutoff>>
  BY <1>3 DEF LookupOK, CutoffAt
<1>4. ASSUME NEW r \in Requests, NEW i \in Usable(r), Hit(r, i)
      PROVE  LookupOK'
  BY <1>2, <1>4, GotoFacts DEF Hit
<1>5. ASSUME NEW r \in Requests, NEW s \in Sigs, NEW p \in Prompts, Begin(r, s, p)
      PROVE  LookupOK'
  BY <1>2, <1>5, GotoFacts DEF Begin
<1>6. ASSUME NEW r \in Requests, GiveUp(r) \/ Miss(r) \/ Insert(r)
      PROVE  LookupOK'
  BY <1>2, <1>6, GotoFacts DEF GiveUp, Miss, Insert
<1> QED BY <1>1, <1>3, <1>4, <1>5, <1>6 DEF Next, vars, ReadHits, ReadMisses, Reload, Tick

(* Whoever has stored an answer is through, and stores no other. *)
LEMMA StoredStep ==
  ASSUME TypeOK, QueueOK, StoredOK, [Next]_vars
  PROVE  StoredOK'
<1>1. \A i \in 1 .. Len(log) : log[i].by \in Requests
  <2>1. \A i \in 1 .. Len(log) : log[i] \in Entries
    BY DEF QueueOK, EndOf
  <2> QED BY <2>1 DEF Entries
<1>2. ASSUME NEW r \in Requests, Insert(r)
      PROVE  StoredOK'
  <2>1. PICK k \in key[r] :
          log' = Append(log, [sig |-> k.sig, vec |-> k.vec, ts |-> clock, by |-> r])
    BY <1>2 DEF Insert
  <2>2. /\ pc'[r] = "stored" /\ pc[r] = "calling"
        /\ \A q \in Requests \ {r} : pc'[q] = pc[q]
    BY <1>2, GotoFacts DEF Insert
  <2>3. /\ Len(log) \in Nat /\ Len(log') = Len(log) + 1
        /\ \A i \in 1 .. Len(log) : log'[i] = log[i]
        /\ log'[Len(log) + 1].by = r
    BY <2>1 DEF QueueOK, EndOf
  <2> SUFFICES ASSUME NEW i \in 1 .. Len(log')
               PROVE  pc'[log'[i].by] = "stored"
    BY DEF StoredOK
  <2>4. i \in 1 .. Len(log) \/ i = Len(log) + 1
    BY <2>3
  <2>5. CASE i \in 1 .. Len(log)
    <3>1. log'[i].by = log[i].by
      BY <2>3, <2>5
    <3>2. pc[log[i].by] = "stored"
      BY <2>5 DEF StoredOK
    <3> QED BY <1>1, <2>2, <2>5, <3>1, <3>2
  <2>6. CASE i = Len(log) + 1
    BY <2>2, <2>3, <2>6
  <2> QED BY <2>4, <2>5, <2>6
<1>3. ASSUME NEW r \in Requests, UNCHANGED log, pc[r] # "stored",
             \A q \in Requests \ {r} : pc'[q] = pc[q]
      PROVE  StoredOK'
  BY <1>1, <1>3 DEF StoredOK
<1>4. CASE UNCHANGED <<pc, log>>
  BY <1>4 DEF StoredOK
<1>5. ASSUME NEW r \in Requests, NEW i \in Usable(r), Hit(r, i)
      PROVE  StoredOK'
  BY <1>3, <1>5, GotoFacts DEF Hit
<1>6. ASSUME NEW r \in Requests, NEW s \in Sigs, NEW p \in Prompts, Begin(r, s, p)
      PROVE  StoredOK'
  BY <1>3, <1>6, GotoFacts DEF Begin
<1>7. ASSUME NEW r \in Requests, GiveUp(r) \/ Look(r) \/ Miss(r)
      PROVE  StoredOK'
  BY <1>3, <1>7, GotoFacts DEF GiveUp, Look, Miss
<1> QED BY <1>2, <1>4, <1>5, <1>6, <1>7 DEF Next, vars, ReadHits, ReadMisses, Reload, Tick

-----------------------------------------------------------------------------
(* Counters. *)
HitSet == {r \in Requests : pc[r] = "hit"}
MissSet == {r \in Requests : Missed(r)}

Counted == hits = Cardinality(HitSet) /\ misses = Cardinality(MissSet)

LEMMA CountedKept ==
  ASSUME Counted, UNCHANGED <<hits, misses>>, HitSet' = HitSet, MissSet' = MissSet
  PROVE  Counted'
BY DEF Counted

LEMMA CountOne ==
  ASSUME NEW S \in SUBSET Requests, NEW r \in Requests \ S
  PROVE  Cardinality(S \cup {r}) = Cardinality(S) + 1
<1>1. IsFiniteSet(S)
  BY CacheAssumption, FS_Subset
<1> QED BY <1>1, FS_AddElement

(* The steps of a request that count nothing. *)
LEMMA SilentStep ==
  ASSUME TypeOK, LookupOK, Counted, NEW r \in Requests,
         UNCHANGED <<hits, misses>>,
         \A q \in Requests \ {r} : pc'[q] = pc[q] /\ asked'[q] = asked[q],
         pc[r] # "hit", pc'[r] # "hit",
         Missed(r)' <=> Missed(r)
  PROVE  Counted'
<1>1. HitSet' = HitSet
  BY DEF HitSet
<1>2. \A q \in Requests : Missed(q)' <=> Missed(q)
  BY DEF Missed
<1>3. MissSet' = MissSet
  BY <1>2 DEF MissSet
<1> QED BY <1>1, <1>3, CountedKept

LEMMA CountedStep ==
  ASSUME TypeOK, LookupOK, Counted, [Next]_vars
  PROVE  Counted'
<1>1. ASSUME NEW r \in Requests, NEW s \in Sigs, NEW p \in Prompts, Begin(r, s, p)
      PROVE  Counted'
  <2>1. /\ pc[r] = "idle" /\ pc'[r] = "embedding"
        /\ \A q \in Requests \ {r} : pc'[q] = pc[q]
    BY <1>1, GotoFacts DEF Begin
  <2>2. UNCHANGED <<hits, misses, asked>> /\ asked[r] = {}
    BY <1>1, <2>1 DEF Begin, LookupOK
  <2>3. Missed(r)' <=> Missed(r)
    BY <2>2 DEF Missed
  <2> QED BY <2>1, <2>2, <2>3, SilentStep
<1>2. ASSUME NEW r \in Requests, GiveUp(r)
      PROVE  Counted'
  <2>1. /\ pc[r] \in {"embedding", "calling"} /\ pc'[r] = "gone"
        /\ \A q \in Requests \ {r} : pc'[q] = pc[q]
    BY <1>2, GotoFacts DEF GiveUp
  <2>2. UNCHANGED <<hits, misses, asked>>
    BY <1>2 DEF GiveUp
  <2>3. Missed(r)' <=> Missed(r)
    BY <2>1, <2>2 DEF Missed
  <2> QED BY <2>1, <2>2, <2>3, SilentStep
<1>3. ASSUME NEW r \in Requests, Look(r)
      PROVE  Counted'
  <2>1. /\ pc[r] = "embedding" /\ pc'[r] = "looking"
        /\ \A q \in Requests \ {r} : pc'[q] = pc[q]
    BY <1>3, GotoFacts DEF Look
  <2>2. /\ UNCHANGED <<hits, misses>> /\ asked[r] = {}
        /\ \A q \in Requests \ {r} : asked'[q] = asked[q]
    BY <1>3, <2>1 DEF Look, LookupOK
  <2>3. Missed(r)' <=> Missed(r)
    BY <2>1, <2>2 DEF Missed
  <2> QED BY <2>1, <2>2, <2>3, SilentStep
<1>4. ASSUME NEW r \in Requests, Insert(r)
      PROVE  Counted'
  <2>1. /\ pc[r] = "calling" /\ pc'[r] = "stored"
        /\ \A q \in Requests \ {r} : pc'[q] = pc[q]
    BY <1>4, GotoFacts DEF Insert
  <2>2. UNCHANGED <<hits, misses, asked>>
    BY <1>4 DEF Insert
  <2>3. Missed(r)' <=> Missed(r)
    BY <2>1, <2>2 DEF Missed
  <2> QED BY <2>1, <2>2, <2>3, SilentStep
<1>5. ASSUME NEW r \in Requests, NEW i \in Usable(r), Hit(r, i)
      PROVE  Counted'
  <2>1. /\ pc[r] = "looking" /\ pc'[r] = "hit"
        /\ \A q \in Requests \ {r} : pc'[q] = pc[q]
    BY <1>5, GotoFacts DEF Hit
  <2>2. hits' = hits + 1 /\ misses' = misses /\ asked' = asked
    BY <1>5 DEF Hit
  <2>3. HitSet' = HitSet \cup {r} /\ r \notin HitSet
    BY <2>1 DEF HitSet
  <2>4. \A q \in Requests : Missed(q)' <=> Missed(q)
    BY <2>1, <2>2 DEF Missed
  <2>5. MissSet' = MissSet
    BY <2>4 DEF MissSet
  <2>6. Cardinality(HitSet \cup {r}) = Cardinality(HitSet) + 1
    BY <2>3, CountOne DEF HitSet
  <2> QED BY <2>2, <2>3, <2>5, <2>6 DEF Counted
<1>6. ASSUME NEW r \in Requests, Miss(r)
      PROVE  Counted'
  <2>1. /\ pc[r] = "looking" /\ pc'[r] = "calling"
        /\ \A q \in Requests \ {r} : pc'[q] = pc[q]
    BY <1>6, GotoFacts DEF Miss
  <2>2. hits' = hits /\ misses' = misses + 1 /\ asked' = asked
    BY <1>6 DEF Miss
  <2>3. HitSet' = HitSet
    BY <2>1 DEF HitSet
  <2>4. asked[r] # {}
    BY <2>1 DEF LookupOK, CutoffAt
  <2>5. /\ Missed(r)' /\ ~Missed(r)
        /\ \A q \in Requests \ {r} : Missed(q)' <=> Missed(q)
    BY <2>1, <2>2, <2>4 DEF Missed
  <2>6. MissSet' = MissSet \cup {r} /\ r \notin MissSet
    BY <2>5 DEF MissSet
  <2>7. Cardinality(MissSet \cup {r}) = Cardinality(MissSet) + 1
    BY <2>6, CountOne DEF MissSet
  <2> QED BY <2>2, <2>3, <2>6, <2>7 DEF Counted
<1>7. CASE UNCHANGED <<pc, asked, hits, misses>>
  <2>1. HitSet' = HitSet
    BY <1>7 DEF HitSet
  <2>2. \A q \in Requests : Missed(q)' <=> Missed(q)
    BY <1>7 DEF Missed
  <2>3. MissSet' = MissSet
    BY <2>2 DEF MissSet
  <2> QED BY <1>7, <2>1, <2>3, CountedKept
<1> QED BY <1>1, <1>2, <1>3, <1>4, <1>5, <1>6, <1>7
        DEF Next, vars, ReadHits, ReadMisses, Reload, Tick

(* What the last snapshot showed, and what the one under way will show. *)
Bounded ==
  \A s \in snapshot : before <= s.hits + s.misses /\ s.hits + s.misses <= hits + misses

LEMMA SnapshotStep ==
  ASSUME TypeOK, SnapshotOK, Bounded, [Next]_vars
  PROVE  SnapshotOK' /\ Bounded'
<1>1. CASE ReadHits
  BY <1>1 DEF ReadHits, SnapshotOK, Bounded, TypeOK
<1>2. CASE ReadMisses
  <2>1. ASSUME NEW s \in snapshot'
        PROVE  /\ s \in [hits : Nat, misses : Nat]
               /\ before <= s.hits + s.misses /\ s.hits + s.misses <= hits + misses
    <3>1. PICK h \in seen : s = [hits |-> h, misses |-> misses]
      BY <1>2, <2>1 DEF ReadMisses
    <3> QED BY <3>1 DEF SnapshotOK, TypeOK
  <2>2. UNCHANGED <<hits, misses, before>> /\ seen' = {}
    BY <1>2 DEF ReadMisses
  <2> QED BY <2>1, <2>2 DEF SnapshotOK, Bounded
<1>3. CASE /\ UNCHANGED <<seen, snapshot, before>>
           /\ \/ UNCHANGED <<hits, misses>>
              \/ hits' = hits + 1 /\ misses' = misses
              \/ hits' = hits /\ misses' = misses + 1
  <2>1. /\ hits \in Nat /\ misses \in Nat /\ hits' \in Nat /\ misses' \in Nat
        /\ hits <= hits' /\ misses <= misses'
    BY <1>3 DEF TypeOK
  <2>2. \A h \in seen : h \in Nat
    BY DEF TypeOK
  <2>3. \A s \in snapshot : s.hits \in Nat /\ s.misses \in Nat
    BY DEF SnapshotOK
  <2> QED BY <1>3, <2>1, <2>2, <2>3 DEF SnapshotOK, Bounded
<1> QED BY <1>1, <1>2, <1>3 DEF Next, vars, Begin, GiveUp, Look, Hit, Miss, Insert, Reload, Tick

-----------------------------------------------------------------------------
LEMMA InitInv == Init => IInv
<1> SUFFICES ASSUME Init PROVE IInv
  OBVIOUS
<1> USE CacheAssumption
<1>1. TypeOK
  BY DEF Init, TypeOK
<1>2. QueueOK
  BY DEF Init, QueueOK, EndOf
<1>3. KeyOK
  BY DEF Init, KeyOK
<1>4. LookupOK
  BY DEF Init, LookupOK
<1>5. StoredOK
  BY DEF Init, StoredOK
<1>6. SnapshotOK
  BY DEF Init, SnapshotOK
<1>7. CountersExact
  <2>1. \A r \in Requests : pc[r] # "hit" /\ ~Missed(r)
    BY DEF Init, Missed
  <2>2. {r \in Requests : pc[r] = "hit"} = {} /\ {r \in Requests : Missed(r)} = {}
    BY <2>1
  <2>3. Cardinality({}) = 0
    BY FS_EmptySet
  <2> QED BY <2>2, <2>3 DEF Init, CountersExact
<1> QED BY <1>1, <1>2, <1>3, <1>4, <1>5, <1>6, <1>7 DEF IInv

LEMMA StepInv == IInv /\ [Next]_vars => IInv'
<1> SUFFICES ASSUME IInv, [Next]_vars PROVE IInv'
  OBVIOUS
<1>1. TypeOK' /\ QueueOK' /\ KeyOK' /\ LookupOK' /\ StoredOK'
  BY TypeStep, QueueStep, KeyStep, LookupStep, StoredStep DEF IInv
<1>2. Counted /\ Bounded
  BY DEF IInv, CountersExact, Counted, Bounded, HitSet, MissSet
<1>3. Counted' /\ SnapshotOK' /\ Bounded'
  BY <1>2, CountedStep, SnapshotStep DEF IInv
<1>4. CountersExact'
  BY <1>3 DEF CountersExact, Counted, Bounded, HitSet, MissSet
<1> QED BY <1>1, <1>3, <1>4 DEF IInv

THEOREM Invariance == Spec => []IInv
BY InitInv, StepInv, PTL DEF Spec

(* The queue never exceeds its capacity, and all state is of its type. *)
THEOREM TypeCorrect == Spec => []TypeOK
<1>1. IInv => TypeOK
  BY DEF IInv
<1> QED BY <1>1, Invariance, PTL

(* Every lookup is counted once, as what it was, and a snapshot is between the
   lookups made when it began and those made when it ended. *)
THEOREM DashboardAddsUp == Spec => []CountersExact
<1>1. IInv => CountersExact
  BY DEF IInv
<1> QED BY <1>1, Invariance, PTL

-----------------------------------------------------------------------------
(* Refinement.  A request that has asked has one question. *)
LEMMA OneQuestion ==
  ASSUME KeyOK, LookupOK, NEW r \in Requests,
         pc[r] \in {"looking", "calling", "hit", "stored"}
  PROVE  \E k \in Keys, t \in Nat :
           /\ key[r] = {k} /\ CutoffAt(r, t)
           /\ Asked[r] = {[sig |-> k.sig, vec |-> k.vec, at |-> t]}
<1>1. PICK k \in Keys : key[r] = {k}
  BY DEF KeyOK
<1>2. PICK t \in Nat : CutoffAt(r, t)
  BY DEF LookupOK
<1>3. Asked[r] = {[sig |-> kk.sig, vec |-> kk.vec, at |-> tt] : kk \in key[r], tt \in asked[r]}
  BY DEF Asked
<1>4. Asked[r] = {[sig |-> k.sig, vec |-> k.vec, at |-> t]}
  BY <1>1, <1>2, <1>3 DEF CutoffAt
<1> QED BY <1>1, <1>2, <1>4

(* What can be found in the queue is what fits in the log. *)
LEMMA FoundInLog ==
  ASSUME IInv, NEW r \in Requests, NEW i \in Usable(r), pc[r] = "looking"
  PROVE  LET j == Len(log) - Len(entries) + i
         IN  j \in 1 .. Len(log) /\ entries[i] = log[j] /\ Memo!Fits(r, j)
<1> DEFINE j == Len(log) - Len(entries) + i
<1> USE CacheAssumption
<1>1. PICK k \in Keys, t \in Nat :
        /\ key[r] = {k} /\ CutoffAt(r, t)
        /\ Asked[r] = {[sig |-> k.sig, vec |-> k.vec, at |-> t]}
  BY OneQuestion DEF IInv
<1>2. /\ i \in 1 .. Len(entries)
      /\ entries[i].sig = k.sig /\ entries[i].ts >= cutoff[r]
      /\ Similarity(entries[i].vec, k.vec) >= Threshold
  BY <1>1 DEF Usable
<1>3. /\ Len(entries) \in Nat /\ Len(log) \in Nat
      /\ Len(entries) <= MaxEntries /\ Len(entries) <= Len(log)
      /\ entries[i] = log[j] /\ entries[i] \in Entries
  <2>1. /\ Len(entries) \in Nat /\ Len(log) \in Nat
        /\ Len(entries) = IF Len(log) <= MaxEntries THEN Len(log) ELSE MaxEntries
    BY DEF IInv, QueueOK, EndOf
  <2>2. entries[i] = log[Len(log) - Len(entries) + i]
    BY <1>2 DEF IInv, QueueOK, EndOf
  <2>3. entries[i] \in Entries
    BY <1>2 DEF IInv, QueueOK, EndOf
  <2> QED BY <2>1, <2>2, <2>3
<1>4. j \in 1 .. Len(log) /\ j + MaxEntries > Len(log)
  BY <1>2, <1>3
<1>5. entries[i].ts \in Nat
  BY <1>3 DEF Entries
<1>6. entries[i].ts + TTL >= t
  BY <1>1, <1>2, <1>5 DEF CutoffAt
<1> DEFINE a == [sig |-> k.sig, vec |-> k.vec, at |-> t]
<1>7. a \in Asked[r] /\ a.sig = k.sig /\ a.vec = k.vec /\ a.at = t
  BY <1>1
<1>8. Memo!Fits(r, j)
  <2> HIDE DEF a, j
  <2> QED BY <1>2, <1>3, <1>4, <1>6, <1>7 DEF Memo!Fits
<1> QED BY <1>3, <1>4, <1>8

(* And the other way round. *)
LEMMA LogInQueue ==
  ASSUME IInv, NEW r \in Requests, NEW j \in 1 .. Len(log), Memo!Fits(r, j),
         pc[r] = "looking"
  PROVE  LET i == j - (Len(log) - Len(entries))
         IN  i \in Usable(r) /\ entries[i] = log[j]
<1> DEFINE i == j - (Len(log) - Len(entries))
<1> USE CacheAssumption
<1>1. PICK k \in Keys, t \in Nat :
        /\ key[r] = {k} /\ CutoffAt(r, t)
        /\ Asked[r] = {[sig |-> k.sig, vec |-> k.vec, at |-> t]}
  BY OneQuestion DEF IInv
<1>2. /\ j + MaxEntries > Len(log)
      /\ log[j].sig = k.sig /\ log[j].ts + TTL >= t
      /\ Similarity(log[j].vec, k.vec) >= Threshold
  BY <1>1 DEF Memo!Fits
<1>3. /\ Len(entries) \in Nat /\ Len(log) \in Nat
      /\ Len(entries) = IF Len(log) <= MaxEntries THEN Len(log) ELSE MaxEntries
  BY DEF IInv, QueueOK, EndOf
<1>4. i \in 1 .. Len(entries) /\ Len(log) - Len(entries) + i = j
  BY <1>2, <1>3
<1>5. entries[i] = log[j] /\ log[j] \in Entries
  <2> HIDE DEF i
  <2>1. entries[i] = log[Len(log) - Len(entries) + i]
    BY <1>4 DEF IInv, QueueOK, EndOf
  <2>2. log[j] \in Entries
    BY DEF IInv, QueueOK, EndOf
  <2> QED BY <1>4, <2>1, <2>2
<1>6. log[j].ts \in Nat
  BY <1>5 DEF Entries
<1>7. entries[i].ts >= cutoff[r]
  <2> HIDE DEF i
  <2> QED BY <1>1, <1>2, <1>5, <1>6 DEF CutoffAt
<1>8. i \in Usable(r)
  <2> HIDE DEF i
  <2> QED BY <1>1, <1>2, <1>4, <1>5, <1>7 DEF Usable
<1> QED BY <1>5, <1>8

(* Where nothing of a request changes but where it stands, its question stays. *)
LEMMA AskedKept ==
  ASSUME UNCHANGED <<key, asked>>
  PROVE  Asked' = Asked
BY DEF Asked

LEMMA ResultKept ==
  ASSUME NEW r \in Requests,
         \A q \in Requests \ {r} : pc'[q] = pc[q] /\ asked'[q] = asked[q] /\ found'[q] = found[q],
         Result'[r] = Result[r]
  PROVE  Result' = Result
<1>1. \A q \in Requests \ {r} : Result'[q] = Result[q]
  BY DEF Result, Missed
<1> QED BY <1>1 DEF Result

LEMMA ResultBecomes ==
  ASSUME NEW r \in Requests, NEW v,
         \A q \in Requests \ {r} : pc'[q] = pc[q] /\ asked'[q] = asked[q] /\ found'[q] = found[q],
         Result'[r] = v
  PROVE  Result' = [Result EXCEPT ![r] = v]
<1>1. \A q \in Requests \ {r} : Result'[q] = Result[q]
  BY DEF Result, Missed
<1>2. Result = [q \in Requests |-> Result[q]] /\ Result' = [q \in Requests |-> Result'[q]]
  BY DEF Result
<1> DEFINE f == Result
           g == Result'
<1> HIDE DEF f, g
<1>3. g = [f EXCEPT ![r] = v]
  BY <1>1, <1>2 DEF f, g
<1> QED BY <1>3 DEF f, g

memo == <<log, clock, Asked, Result>>

LEMMA StepPromise ==
  ASSUME IInv, [Next]_vars
  PROVE  [Memo!Next]_memo
<1>1. ASSUME NEW r \in Requests, NEW s \in Sigs, NEW p \in Prompts, Begin(r, s, p)
      PROVE  UNCHANGED memo
  <2>1. /\ pc[r] = "idle" /\ pc'[r] = "embedding"
        /\ \A q \in Requests \ {r} : pc'[q] = pc[q]
    BY <1>1, GotoFacts DEF Begin, IInv
  <2>2. /\ UNCHANGED <<log, clock, asked, found>> /\ asked[r] = {}
        /\ \A q \in Requests \ {r} : key'[q] = key[q]
    BY <1>1, <2>1 DEF Begin, IInv, LookupOK, TypeOK
  <2>3. Asked' = Asked
    <3>1. Asked[r] = {} /\ Asked'[r] = {}
      BY <2>2 DEF Asked
    <3>2. \A q \in Requests \ {r} : Asked'[q] = Asked[q]
      BY <2>2 DEF Asked
    <3> QED BY <3>1, <3>2 DEF Asked
  <2>4. Result'[r] = Result[r]
    BY <2>1, <2>2 DEF Result, Missed
  <2>5. Result' = Result
    BY <2>1, <2>2, <2>4, ResultKept
  <2> QED BY <2>2, <2>3, <2>5 DEF memo
<1>2. ASSUME NEW r \in Requests, GiveUp(r)
      PROVE  UNCHANGED memo
  <2>1. /\ pc[r] \in {"embedding", "calling"} /\ pc'[r] = "gone"
        /\ \A q \in Requests \ {r} : pc'[q] = pc[q]
    BY <1>2, GotoFacts DEF GiveUp, IInv
  <2>2. UNCHANGED <<log, clock, key, asked, found>>
    BY <1>2 DEF GiveUp
  <2>3. Result'[r] = Result[r]
    BY <2>1, <2>2 DEF Result, Missed
  <2> QED BY <2>1, <2>2, <2>3, AskedKept, ResultKept DEF memo
<1>3. ASSUME NEW r \in Requests, Look(r)
      PROVE  Memo!Next
  <2>1. /\ pc[r] = "embedding" /\ pc'[r] = "looking"
        /\ \A q \in Requests \ {r} : pc'[q] = pc[q]
    BY <1>3, GotoFacts DEF Look, IInv
  <2>2. /\ UNCHANGED <<log, clock, key, found>> /\ asked[r] = {} /\ asked'[r] = {clock}
        /\ \A q \in Requests \ {r} : asked'[q] = asked[q]
    BY <1>3, <2>1 DEF Look, IInv, LookupOK
  <2>3. PICK k \in Keys : key[r] = {k}
    BY <2>1 DEF IInv, KeyOK
  <2>4. Asked[r] = {} /\ Asked'[r] = {[sig |-> k.sig, vec |-> k.vec, at |-> clock]}
    BY <2>2, <2>3 DEF Asked
  <2>5. Asked' = [Asked EXCEPT ![r] = {[sig |-> k.sig, vec |-> k.vec, at |-> clock]}]
    <3>1. \A q \in Requests \ {r} : Asked'[q] = Asked[q]
      BY <2>2 DEF Asked
    <3>2. /\ Asked = [q \in Requests |-> Asked[q]]
          /\ Asked' = [q \in Requests |-> Asked'[q]]
      BY DEF Asked
    <3> QED BY <2>4, <3>1, <3>2
  <2>6. Result'[r] = Result[r]
    BY <2>1, <2>2 DEF Result, Missed
  <2>7. Result' = Result
    BY <2>1, <2>2, <2>6, ResultKept
  <2>8. Memo!Ask(r, k.sig, k.vec)
    BY <2>2, <2>4, <2>5, <2>7 DEF Memo!Ask
  <2>9. k.sig \in Sigs /\ k.vec \in Vecs
    BY DEF Keys
  <2> QED BY <2>8, <2>9 DEF Memo!Next
<1>4. ASSUME NEW r \in Requests, NEW i \in Usable(r), Hit(r, i)
      PROVE  Memo!Next
  <2> DEFINE j == Len(log) - Len(entries) + i
  <2>1. /\ pc[r] = "looking" /\ pc'[r] = "hit"
        /\ \A q \in Requests \ {r} : pc'[q] = pc[q]
    BY <1>4, GotoFacts DEF Hit, IInv
  <2>2. UNCHANGED <<log, clock, key, asked>>
    BY <1>4 DEF Hit
  <2>3. /\ found'[r] = {entries[i].by}
        /\ \A q \in Requests \ {r} : found'[q] = found[q]
    BY <1>4 DEF Hit, IInv, TypeOK
  <2>4. j \in 1 .. Len(log) /\ entries[i] = log[j] /\ Memo!Fits(r, j)
    BY <2>1, FoundInLog
  <2>5. ~ \E j2 \in 1 .. Len(log) : Memo!Fits(r, j2) /\ Memo!Closer(r, j2, j)
    <3> SUFFICES ASSUME NEW j2 \in 1 .. Len(log), Memo!Fits(r, j2), Memo!Closer(r, j2, j)
                 PROVE  FALSE
      OBVIOUS
    <3> DEFINE i2 == j2 - (Len(log) - Len(entries))
    <3>1. i2 \in Usable(r) /\ entries[i2] = log[j2]
      BY <2>1, LogInQueue
    <3>2. PICK k \in Keys, t \in Nat :
            key[r] = {k} /\ Asked[r] = {[sig |-> k.sig, vec |-> k.vec, at |-> t]}
      BY <2>1, OneQuestion DEF IInv
    <3>3. Similarity(log[j2].vec, k.vec) > Similarity(log[j].vec, k.vec)
      BY <3>2 DEF Memo!Closer
    <3>4. Beats(r, i, i2)
      BY <1>4, <3>1 DEF Hit
    <3> HIDE DEF i2, j
    <3>5. \/ Similarity(log[j].vec, k.vec) > Similarity(log[j2].vec, k.vec)
          \/ Similarity(log[j].vec, k.vec) = Similarity(log[j2].vec, k.vec)
      BY <2>4, <3>1, <3>2, <3>4 DEF Beats
    <3>6. log[j] \in Entries /\ log[j2] \in Entries
      BY <2>4 DEF IInv, QueueOK, EndOf
    <3>7. /\ Similarity(log[j].vec, k.vec) \in Nat
          /\ Similarity(log[j2].vec, k.vec) \in Nat
      <4>1. log[j].vec \in Vecs /\ log[j2].vec \in Vecs /\ k.vec \in Vecs
        BY <3>6 DEF Entries, Keys
      <4> QED BY <4>1, CacheAssumption DEF Vecs
    <3> QED BY <3>3, <3>5, <3>7
  <2> HIDE DEF j
  <2>6. Result[r] = {} /\ Result'[r] = {log[j].by}
    BY <2>1, <2>3, <2>4 DEF Result, Missed
  <2>7. Result' = [Result EXCEPT ![r] = {log[j].by}]
    BY <2>1, <2>2, <2>3, <2>6, ResultBecomes
  <2>8. Asked' = Asked
    BY <2>2, AskedKept
  <2>9. Memo!Hit(r, j)
    BY <2>2, <2>4, <2>5, <2>6, <2>7, <2>8 DEF Memo!Hit
  <2> QED BY <2>4, <2>9 DEF Memo!Next
<1>5. ASSUME NEW r \in Requests, Miss(r)
      PROVE  Memo!Next
  <2>1. /\ pc[r] = "looking" /\ pc'[r] = "calling"
        /\ \A q \in Requests \ {r} : pc'[q] = pc[q]
    BY <1>5, GotoFacts DEF Miss, IInv
  <2>2. UNCHANGED <<log, clock, key, asked, found>>
    BY <1>5 DEF Miss
  <2>3. Asked[r] # {} /\ asked[r] # {}
    BY <2>1, OneQuestion DEF IInv, CutoffAt
  <2>4. \A j \in 1 .. Len(log) : ~Memo!Fits(r, j)
    BY <1>5, <2>1, LogInQueue DEF Miss
  <2>5. Result[r] = {} /\ Result'[r] = {"miss"}
    BY <2>1, <2>2, <2>3 DEF Result, Missed
  <2>6. Result' = [Result EXCEPT ![r] = {"miss"}]
    BY <2>1, <2>2, <2>5, ResultBecomes
  <2>7. Memo!Miss(r)
    BY <2>2, <2>3, <2>4, <2>5, <2>6, AskedKept DEF Memo!Miss
  <2> QED BY <2>7 DEF Memo!Next
<1>6. ASSUME NEW r \in Requests, Insert(r)
      PROVE  Memo!Next
  <2>1. /\ pc[r] = "calling" /\ pc'[r] = "stored"
        /\ \A q \in Requests \ {r} : pc'[q] = pc[q]
    BY <1>6, GotoFacts DEF Insert, IInv
  <2>2. UNCHANGED <<clock, key, asked, found>>
    BY <1>6 DEF Insert
  <2>3. PICK k \in Keys, t \in Nat :
          /\ key[r] = {k} /\ CutoffAt(r, t)
          /\ Asked[r] = {[sig |-> k.sig, vec |-> k.vec, at |-> t]}
    BY <2>1, OneQuestion DEF IInv
  <2>4. log' = Append(log, [sig |-> k.sig, vec |-> k.vec, ts |-> clock, by |-> r])
    BY <1>6, <2>3 DEF Insert
  <2>5. \A i \in 1 .. Len(log) : log[i].by # r
    BY <2>1 DEF IInv, StoredOK
  <2>6. Result[r] = {"miss"} /\ Result'[r] = {"miss"}
    BY <2>1, <2>2, <2>3 DEF Result, Missed, CutoffAt
  <2>7. Result' = Result
    BY <2>1, <2>2, <2>6, ResultKept
  <2>8. Asked' = Asked
    BY <2>2, AskedKept
  <2> DEFINE a == [sig |-> k.sig, vec |-> k.vec, at |-> t]
  <2>9. a \in Asked[r] /\ a.sig = k.sig /\ a.vec = k.vec
    BY <2>3
  <2>10. Memo!Store(r)
    <3> HIDE DEF a
    <3> QED BY <2>2, <2>4, <2>5, <2>6, <2>7, <2>8, <2>9 DEF Memo!Store
  <2> QED BY <2>10 DEF Memo!Next
<1>7. CASE ReadHits \/ ReadMisses \/ \E m \in Embedders : Reload(m)
  <2>1. UNCHANGED <<log, clock, pc, key, asked, found>>
    BY <1>7 DEF ReadHits, ReadMisses, Reload
  <2> QED BY <2>1 DEF memo, Asked, Result, Missed
<1>8. CASE Tick
  <2>1. UNCHANGED <<log, pc, key, asked, found>> /\ clock' = clock + 1
    BY <1>8 DEF Tick
  <2>2. Asked' = Asked /\ Result' = Result
    BY <2>1 DEF Asked, Result, Missed
  <2> QED BY <2>1, <2>2 DEF Memo!Next, Memo!Tick
<1>9. CASE UNCHANGED vars
  <2>1. UNCHANGED <<log, clock, pc, key, asked, found>>
    BY <1>9 DEF vars
  <2> QED BY <2>1 DEF memo, Asked, Result, Missed
<1> QED BY <1>1, <1>2, <1>3, <1>4, <1>5, <1>6, <1>7, <1>8, <1>9 DEF Next

(* The cache with its cutoffs, evictions and concurrent requests implements the
   list of answers, for every capacity, time to live and similarity. *)
THEOREM CacheImplementsMemo == Spec => MemoPromise
<1>1. Init => Memo!Init
  BY DEF Init, Memo!Init, Asked, Result, Missed
<1>2. IInv /\ [Next]_vars => [Memo!Next]_<<log, clock, Asked, Result>>
  BY StepPromise DEF memo
<1> QED BY <1>1, <1>2, Invariance, PTL DEF Spec, MemoPromise, Memo!Spec

=============================================================================
