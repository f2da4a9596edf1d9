---------------------------- MODULE StatsProofs ----------------------------
(***************************************************************************)
(* Theorems of module Stats, for every set of models and tasks, ring size, *)
(* retention and length of a minute, and however requests, clears, faults  *)
(* and restarts interleave.                                                *)
(***************************************************************************)
EXTENDS Stats, FiniteSetTheorems, WellFoundedInduction, TLAPS

-----------------------------------------------------------------------------
(* Natural numbers, said of sets. *)

LEMMA LeastElement ==
  ASSUME NEW T, T \subseteq Nat, T # {}
  PROVE  \E x \in T : \A y \in T : x <= y
<1> DEFINE Less == OpToRel(<, Nat)
<1>1. IsWellFoundedOn(Less, Nat)
  BY NatLessThanWellFounded
<1>2. PICK x \in T : \A y \in T : ~(<<y, x>> \in Less)
  <2> HIDE DEF Less
  <2>1. QED
    BY <1>1, WFMin
<1>3. ASSUME NEW y \in T, y < x PROVE FALSE
  <2>1. <<y, x>> \in Less
    BY <1>3 DEF OpToRel
  <2>2. QED
    BY <1>2, <2>1
<1>4. \A y \in T : x <= y
  BY <1>3
<1>5. QED
  BY <1>4

LEMMA SetInduction ==
  ASSUME NEW S, 0 \in S, \A n \in Nat : n \in S => n + 1 \in S
  PROVE  Nat \subseteq S
<1> DEFINE Missing == Nat \ S
<1> SUFFICES ASSUME Missing # {} PROVE FALSE
  OBVIOUS
<1>1. PICK x \in Missing : \A y \in Missing : x <= y
  BY LeastElement
<1>2. x \in Nat /\ x # 0 /\ x - 1 \in Nat /\ (x - 1) + 1 = x
  OBVIOUS
<1>3. x - 1 \in Missing
  BY <1>2
<1>4. QED
  BY <1>1, <1>2, <1>3

-----------------------------------------------------------------------------
(* Sums over sets of indices. *)

Any(s) == CHOOSE x \in s : TRUE
SumStep(f, g, s) == IF s = {} THEN 0 ELSE f[Any(s)] + g[s \ {Any(s)}]
IsSum(g, f, I) == g = [s \in SUBSET I |-> SumStep(f, g, s)]

LEMMA SumIs ==
  ASSUME NEW f, NEW I
  PROVE  SumFunctionOnSet(f, I) = (CHOOSE g : IsSum(g, f, I))[I]
BY Zenon DEF SumFunctionOnSet, FoldFunctionOnSet, MapThenFoldSet, IsSum, SumStep, Any

(* The sum of the sizes of the classes is the size of the set: f[i] is the number
   of the elements of W whose class is i. *)
LEMMA SumCounts ==
  ASSUME NEW I, IsFiniteSet(I), NEW W, IsFiniteSet(W), NEW c \in [W -> I],
         NEW f, \A i \in I : f[i] = Cardinality({x \in W : c[x] = i})
  PROVE  SumFunctionOnSet(f, I) = Cardinality(W)
<1> DEFINE In(s) == {x \in W : c[x] \in s}
           g == [s \in SUBSET I |-> Cardinality(In(s))]
           h == CHOOSE k : IsSum(k, f, I)
<1>1. \A s \in SUBSET I : s # {} => Any(s) \in s
  BY DEF Any
<1>2. ASSUME NEW s \in SUBSET I PROVE g[s] = SumStep(f, g, s)
  <2>1. CASE s = {}
    <3>1. In(s) = {}
      BY <2>1
    <3>2. QED
      BY <2>1, <3>1, FS_EmptySet DEF SumStep
  <2>2. CASE s # {}
    <3> DEFINE a == Any(s)
               One == {x \in W : c[x] = a}
               Rest == In(s \ {a})
    <3>1. a \in s
      BY <1>1, <2>2
    <3> HIDE DEF a
    <3>2. In(s) = One \cup Rest /\ One \cap Rest = {}
      BY <3>1
    <3>3. IsFiniteSet(One) /\ IsFiniteSet(Rest)
      <4>1. One \in SUBSET W /\ Rest \in SUBSET W
        OBVIOUS
      <4>2. QED
        BY <4>1, FS_Subset
    <3>4. Cardinality(In(s)) = Cardinality(One) + Cardinality(Rest) - Cardinality({})
      <4> HIDE DEF In, One, Rest
      <4>1. QED
        BY <3>2, <3>3, FS_Union
    <3>5. Cardinality({}) = 0
      BY FS_EmptySet
    <3>6. Cardinality(One) \in Nat /\ Cardinality(Rest) \in Nat
      BY <3>3, FS_CardinalityType
    <3>7. Cardinality(One) = f[a]
      BY <3>1
    <3>8. g[s \ {a}] = Cardinality(Rest) /\ g[s] = Cardinality(In(s))
      OBVIOUS
    <3> HIDE DEF g, One, Rest, In
    <3>9. g[s] = f[a] + g[s \ {a}]
      BY <3>4, <3>5, <3>6, <3>7, <3>8
    <3>10. QED
      BY <2>2, <3>9 DEF SumStep, a
  <2>3. QED
    BY <2>1, <2>2
<1>3. IsSum(g, f, I)
  <2>1. g = [s \in SUBSET I |-> g[s]]
    OBVIOUS
  <2> HIDE DEF g
  <2>2. QED
    BY <1>2, <2>1 DEF IsSum
<1>4. IsSum(h, f, I)
  <2> HIDE DEF g
  <2>1. QED
    BY <1>3
<1> HIDE DEF h, g
<1>5. \A s \in SUBSET I : h[s] = SumStep(f, h, s) /\ g[s] = SumStep(f, g, s)
  BY <1>3, <1>4 DEF IsSum
<1>6. \A s \in SUBSET I : h[s] = g[s]
  <2> DEFINE T == {s \in SUBSET I : h[s] # g[s]}
             Less == StrictSubsetOrdering(I)
  <2> SUFFICES ASSUME T # {} PROVE FALSE
    OBVIOUS
  <2>1. IsWellFoundedOn(Less, SUBSET I)
    BY FS_StrictSubsetOrderingWellFounded, FS_FiniteSubsetsOfFinite
  <2>2. PICK s \in T : \A u \in T : ~(<<u, s>> \in Less)
    <3>1. T \subseteq SUBSET I
      OBVIOUS
    <3> HIDE DEF T, Less
    <3>2. QED
      BY <2>1, <3>1, WFMin
  <2>3. s # {}
    BY <1>5 DEF SumStep
  <2> DEFINE u == s \ {Any(s)}
  <2>4. Any(s) \in s /\ u \in SUBSET I /\ u \subseteq s /\ u # s
    BY <1>1, <2>3
  <2>5. <<u, s>> \in Less
    BY <2>4 DEF StrictSubsetOrdering
  <2>6. h[u] = g[u]
    BY <2>2, <2>4, <2>5
  <2>7. h[s] = g[s]
    BY <1>5, <2>3, <2>6 DEF SumStep
  <2>8. QED
    BY <2>7
<1>7. SumFunctionOnSet(f, I) = g[I]
  BY <1>6, SumIs DEF h
<1>8. In(I) = W
  OBVIOUS
<1>9. QED
  BY <1>7, <1>8 DEF g

-----------------------------------------------------------------------------
(* The operators on buckets. *)

LEMMA Division ==
  ASSUME NEW t \in Int, NEW m \in Int, m > 0
  PROVE  t = m * (t \div m) + (t % m)
BY Z3

LEMMA MinuteIs ==
  ASSUME NEW ts \in Nat
  PROVE  /\ MinuteOf(ts) \in Nat
         /\ MinuteOf(ts) <= ts
         /\ \E n \in Nat : MinuteOf(ts) = n * Minute
<1>1. Minute \in Nat /\ Minute > 0
  BY StatsAssumption
<1>2. ts % Minute \in 0 .. Minute - 1 /\ ts \div Minute \in Nat
      /\ ts = Minute * (ts \div Minute) + (ts % Minute)
  <2>1. ts % Minute \in 0 .. Minute - 1 /\ ts \div Minute \in Nat
    BY <1>1
  <2>2. ts \in Int /\ Minute \in Int
    BY <1>1
  <2>3. ts = Minute * (ts \div Minute) + (ts % Minute)
    BY <1>1, <2>2, Division
  <2>4. QED
    BY <2>1, <2>3
<1>3. MinuteOf(ts) = (ts \div Minute) * Minute
  BY <1>1, <1>2 DEF MinuteOf
<1>4. MinuteOf(ts) \in Nat /\ MinuteOf(ts) <= ts
  BY <1>1, <1>2, <1>3 DEF MinuteOf
<1>5. QED
  BY <1>2, <1>3, <1>4

Increased(f, m) == [f EXCEPT ![m] = @ + 1]

LEMMA FillIs ==
  ASSUME NEW b \in Bucket, NEW r \in Record
  PROVE  FillBucket(b, r) = [minute |-> b.minute, requests |-> b.requests + 1,
                             byModel |-> Increased(b.byModel, r.model)]
<1> DEFINE k == Increased(b.byModel, r.model)
<1>1. FillBucket(b, r) = [b EXCEPT !.requests = @ + 1, !.byModel = k]
  BY DEF FillBucket, Increased, Bucket
<1> HIDE DEF k
<1>2. QED
  BY <1>1 DEF Bucket, k

LEMMA FillType ==
  ASSUME NEW b \in Bucket, NEW r \in Record
  PROVE  FillBucket(b, r) \in Bucket
<1>1. r.model \in Models /\ b.byModel \in [Models -> Nat]
  BY DEF Record, Bucket
<1>2. Increased(b.byModel, r.model) \in [Models -> Nat]
  BY <1>1 DEF Increased
<1>3. QED
  BY <1>2, FillIs DEF Bucket

(* The bucket a record starts. *)
Fresh(r) == FillBucket([minute |-> MinuteOf(r.ts), requests |-> 0, byModel |-> None], r)

LEMMA FreshIs ==
  ASSUME NEW r \in Record
  PROVE  /\ Fresh(r) \in Bucket
         /\ Fresh(r) = [minute |-> MinuteOf(r.ts), requests |-> 1,
                        byModel |-> Increased(None, r.model)]
<1> DEFINE b == [minute |-> MinuteOf(r.ts), requests |-> 0, byModel |-> None]
<1>1. r.ts \in Nat
  BY DEF Record
<1>2. b \in Bucket
  BY <1>1, MinuteIs DEF Bucket, None
<1>3. b.minute = MinuteOf(r.ts) /\ b.requests = 0 /\ b.byModel = None
  OBVIOUS
<1> HIDE DEF b
<1>4. QED
  BY <1>2, <1>3, FillIs, FillType DEF Fresh, b

Tail1(q) == q[Len(q)]

LEMMA PlacedIs ==
  ASSUME NEW q \in Seq(Bucket), NEW r \in Record
  PROVE  LET m == MinuteOf(r.ts) IN
         /\ Placed(q, r) \in Seq(Bucket)
         /\ q = <<>> => Placed(q, r) = <<Fresh(r)>>
         /\ q # <<>> =>
              /\ Tail1(q).minute = m =>
                   Placed(q, r) = [q EXCEPT ![Len(q)] = FillBucket(Tail1(q), r)]
              /\ Tail1(q).minute > m => Placed(q, r) = q
              /\ Tail1(q).minute < m => Placed(q, r) = Append(q, Fresh(r))
<1> DEFINE m == MinuteOf(r.ts)
           new == FillBucket([minute |-> m, requests |-> 0, byModel |-> None], r)
           last == Tail1(q)
<1>1. m \in Nat
  BY MinuteIs DEF Record
<1>2. new = Fresh(r) /\ new \in Bucket
  BY FreshIs DEF Fresh
<1> HIDE DEF m, new
<1>3. CASE q = <<>>
  <2>1. Placed(q, r) = <<new>>
    BY <1>3 DEF Placed, new, m
  <2>2. QED
    BY <1>2, <1>3, <2>1
<1>4. CASE q # <<>>
  <2>1. last \in Bucket /\ Len(q) \in 1 .. Len(q)
    BY <1>4 DEF Tail1
  <2>2. last.minute \in Nat
    BY <2>1 DEF Bucket
  <2>3. Placed(q, r) = CASE last.minute = m -> [q EXCEPT ![Len(q)] = FillBucket(last, r)]
                         [] last.minute > m -> q
                         [] last.minute < m -> Append(q, new)
    BY <1>4 DEF Placed, new, m, Tail1
  <2>4. FillBucket(last, r) \in Bucket
    BY <2>1, FillType
  <2> HIDE DEF last
  <2>5. /\ last.minute = m => Placed(q, r) = [q EXCEPT ![Len(q)] = FillBucket(last, r)]
        /\ last.minute > m => Placed(q, r) = q
        /\ last.minute < m => Placed(q, r) = Append(q, new)
    BY <1>1, <2>2, <2>3
  <2>6. [q EXCEPT ![Len(q)] = FillBucket(last, r)] \in Seq(Bucket)
    <3> DEFINE b == FillBucket(last, r)
    <3>1. b \in Bucket
      BY <2>4
    <3> HIDE DEF b
    <3>2. [q EXCEPT ![Len(q)] = b] \in Seq(Bucket)
      BY <1>4, <3>1
    <3>3. QED
      BY <3>2 DEF b
  <2>7. Append(q, new) \in Seq(Bucket)
    BY <1>2
  <2>8. Placed(q, r) \in Seq(Bucket)
    <3>1. last.minute = m \/ last.minute > m \/ last.minute < m
      <4> DEFINE k == last.minute
      <4>1. k \in Nat
        BY <2>2
      <4> HIDE DEF k, m
      <4>2. k = m \/ k > m \/ k < m
        BY <1>1, <4>1
      <4>3. QED
        BY <4>2 DEF k
    <3>2. q \in Seq(Bucket)
      OBVIOUS
    <3> HIDE DEF m, new
    <3>3. QED
      BY <2>5, <2>6, <2>7, <3>1, <3>2, Zenon
  <2>9. QED
    BY <1>2, <1>4, <2>5, <2>8 DEF last, m
<1>5. QED
  BY <1>3, <1>4

(* Trim drops the buckets before the first that is not older than the cutoff. *)
LEMMA TrimIs ==
  ASSUME NEW q \in Seq(Bucket), NEW c \in Nat
  PROVE  \E n \in 0 .. Len(q) :
           /\ Trim(q, c) \in Seq(Bucket)
           /\ Len(Trim(q, c)) = Len(q) - n
           /\ \A i \in 1 .. Len(q) - n : Trim(q, c)[i] = q[n + i]
           /\ \A i \in 1 .. n : q[i].minute < c
           /\ n < Len(q) => ~(q[n + 1].minute < c)
<1> DEFINE old == {i \in DOMAIN q : \A k \in 1 .. i : q[k].minute < c}
           Young == {i \in DOMAIN q : ~(q[i].minute < c)}
<1>1. DOMAIN q = 1 .. Len(q) /\ Len(q) \in Nat
  OBVIOUS
<1>2. \E n \in 0 .. Len(q) : /\ old = 1 .. n
                             /\ \A i \in 1 .. n : q[i].minute < c
                             /\ n < Len(q) => ~(q[n + 1].minute < c)
  <2>1. CASE Young = {}
    <3>1. \A i \in 1 .. Len(q) : q[i].minute < c
      BY <1>1, <2>1
    <3>2. old = 1 .. Len(q)
      BY <1>1, <3>1
    <3>3. Len(q) \in 0 .. Len(q) /\ ~(Len(q) < Len(q))
      BY <1>1
    <3> HIDE DEF old
    <3>4. QED
      BY <3>1, <3>2, <3>3, Zenon
  <2>2. CASE Young # {}
    <3>1. Young \subseteq Nat
      BY <1>1
    <3>2. PICK x \in Young : \A y \in Young : x <= y
      <4> HIDE DEF Young
      <4>1. QED
        BY <2>2, <3>1, LeastElement
    <3>3. x \in 1 .. Len(q) /\ ~(q[x].minute < c)
      BY <1>1, <3>2
    <3>4. \A i \in 1 .. x - 1 : q[i].minute < c
      BY <1>1, <3>2, <3>3
    <3>5. old = 1 .. x - 1
      <4>1. \A i \in old : i \in 1 .. x - 1
        BY <1>1, <3>3
      <4>2. \A i \in 1 .. x - 1 : i \in old
        BY <1>1, <3>3, <3>4
      <4>3. QED
        BY <4>1, <4>2
    <3>6. x - 1 \in 0 .. Len(q) /\ (x - 1) + 1 = x
      BY <1>1, <3>3
    <3> HIDE DEF old, Young
    <3>7. QED
      BY <3>3, <3>4, <3>5, <3>6
  <2>3. QED
    BY <2>1, <2>2
<1>3. PICK n \in 0 .. Len(q) : /\ old = 1 .. n
                               /\ \A i \in 1 .. n : q[i].minute < c
                               /\ n < Len(q) => ~(q[n + 1].minute < c)
  BY <1>2
<1>4. Cardinality(old) = n
  <2>1. n \in Nat
    BY <1>1
  <2>2. Cardinality(1 .. n) = n - 1 + 1
    BY <2>1, FS_Interval
  <2> HIDE DEF old
  <2>3. QED
    BY <1>3, <2>1, <2>2
<1>5. Trim(q, c) = SubSeq(q, n + 1, Len(q))
  BY <1>4 DEF Trim
<1>6. /\ SubSeq(q, n + 1, Len(q)) \in Seq(Bucket)
      /\ Len(SubSeq(q, n + 1, Len(q))) = Len(q) - n
  OBVIOUS
<1>7. \A i \in 1 .. Len(q) - n : SubSeq(q, n + 1, Len(q))[i] = q[n + i]
  OBVIOUS
<1>8. QED
  BY <1>3, <1>5, <1>6, <1>7

-----------------------------------------------------------------------------
(* What a bucket should hold: the records of its minute that did not come after
   one of a later minute. *)

LateIn(L, i) == \E j \in 1 .. i - 1 : MinuteOf(L[j].ts) > MinuteOf(L[i].ts)

Of(L, m) == {i \in DOMAIN L : MinuteOf(L[i].ts) = m /\ ~LateIn(L, i)}
OfModel(L, m, x) == {i \in Of(L, m) : L[i].model = x}

Tallied(b, L) ==
  /\ b.requests = Cardinality(Of(L, b.minute))
  /\ \A x \in Models : b.byModel[x] = Cardinality(OfModel(L, b.minute, x))

LEMMA OfFinite ==
  ASSUME NEW L \in Seq(Record), NEW m
  PROVE  /\ IsFiniteSet(Of(L, m)) /\ Cardinality(Of(L, m)) \in Nat
         /\ \A x : IsFiniteSet(OfModel(L, m, x)) /\ Cardinality(OfModel(L, m, x)) \in Nat
<1>1. IsFiniteSet(DOMAIN L)
  <2>1. DOMAIN L = 1 .. Len(L) /\ Len(L) \in Nat
    OBVIOUS
  <2>2. QED
    BY <2>1, FS_Interval
<1>2. Of(L, m) \in SUBSET DOMAIN L
  BY DEF Of
<1>3. \A x : OfModel(L, m, x) \in SUBSET DOMAIN L
  BY <1>2 DEF OfModel
<1>4. QED
  BY <1>1, <1>2, <1>3, FS_Subset, FS_CardinalityType

LEMMA MinutesOf ==
  ASSUME NEW L \in Seq(Record)
  PROVE  \A i \in DOMAIN L : MinuteOf(L[i].ts) \in Nat /\ MinuteOf(L[i].ts) <= L[i].ts
                             /\ L[i].ts \in Nat
<1> SUFFICES ASSUME NEW i \in DOMAIN L
             PROVE  MinuteOf(L[i].ts) \in Nat /\ MinuteOf(L[i].ts) <= L[i].ts
                    /\ L[i].ts \in Nat
  OBVIOUS
<1>1. L[i].ts \in Nat
  <2>1. L[i] \in Record
    OBVIOUS
  <2>2. QED
    BY <2>1 DEF Record
<1>2. QED
  BY <1>1, MinuteIs

(* One more record. *)
LEMMA OfAppend ==
  ASSUME NEW L \in Seq(Record), NEW r \in Record
  PROVE  LET e == Append(L, r)
             n == Len(L) + 1
             late == \E j \in DOMAIN L : MinuteOf(L[j].ts) > MinuteOf(r.ts)
         IN  /\ e \in Seq(Record) /\ DOMAIN e = DOMAIN L \cup {n} /\ n \notin DOMAIN L
             /\ e[n] = r /\ \A i \in DOMAIN L : e[i] = L[i]
             /\ LateIn(e, n) <=> late
             /\ \A i \in DOMAIN L : LateIn(e, i) <=> LateIn(L, i)
             /\ \A m : Of(e, m) = IF MinuteOf(r.ts) = m /\ ~late
                                  THEN Of(L, m) \cup {n} ELSE Of(L, m)
<1> DEFINE e == Append(L, r)
           n == Len(L) + 1
           late == \E j \in DOMAIN L : MinuteOf(L[j].ts) > MinuteOf(r.ts)
<1>1. e \in Seq(Record) /\ DOMAIN e = DOMAIN L \cup {n} /\ n \notin DOMAIN L
      /\ e[n] = r /\ (\A i \in DOMAIN L : e[i] = L[i])
      /\ DOMAIN L = 1 .. Len(L) /\ Len(L) \in Nat /\ n - 1 = Len(L)
  OBVIOUS
<1> HIDE DEF e, n
<1>2. LateIn(e, n) <=> late
  BY <1>1 DEF LateIn
<1>3. ASSUME NEW i \in DOMAIN L PROVE LateIn(e, i) <=> LateIn(L, i)
  <2>1. \A j \in 1 .. i - 1 : j \in DOMAIN L
    BY <1>1
  <2>2. QED
    BY <1>1, <2>1 DEF LateIn
<1> HIDE DEF late
<1>4. \A m : Of(e, m) = IF MinuteOf(r.ts) = m /\ ~late
                       THEN Of(L, m) \cup {n} ELSE Of(L, m)
  BY <1>1, <1>2, <1>3 DEF Of
<1>5. QED
  BY <1>1, <1>2, <1>3, <1>4 DEF e, n, late

LEMMA TallyKept ==
  ASSUME NEW L \in Seq(Record), NEW r \in Record, NEW b \in Bucket, Tallied(b, L),
         \/ MinuteOf(r.ts) # b.minute
         \/ \E j \in DOMAIN L : MinuteOf(L[j].ts) > MinuteOf(r.ts)
  PROVE  Tallied(b, Append(L, r))
<1>1. Of(Append(L, r), b.minute) = Of(L, b.minute)
  <2> DEFINE n == Len(L) + 1
             late == \E j \in DOMAIN L : MinuteOf(L[j].ts) > MinuteOf(r.ts)
  <2>1. \A m : Of(Append(L, r), m) = IF MinuteOf(r.ts) = m /\ ~late
                                     THEN Of(L, m) \cup {n} ELSE Of(L, m)
    BY OfAppend
  <2>2. ~(MinuteOf(r.ts) = b.minute /\ ~late)
    OBVIOUS
  <2> HIDE DEF late, n
  <2>3. QED
    BY <2>1, <2>2, Zenon
<1>2. ASSUME NEW x PROVE OfModel(Append(L, r), b.minute, x) = OfModel(L, b.minute, x)
  <2>1. \A i \in Of(L, b.minute) : i \in DOMAIN L
    BY DEF Of
  <2>2. \A i \in DOMAIN L : Append(L, r)[i] = L[i]
    OBVIOUS
  <2>3. QED
    BY <1>1, <2>1, <2>2 DEF OfModel
<1>3. QED
  BY <1>1, <1>2 DEF Tallied

LEMMA TallyFilled ==
  ASSUME NEW L \in Seq(Record), NEW r \in Record, NEW b \in Bucket, Tallied(b, L),
         MinuteOf(r.ts) = b.minute,
         ~\E j \in DOMAIN L : MinuteOf(L[j].ts) > MinuteOf(r.ts)
  PROVE  Tallied(FillBucket(b, r), Append(L, r))
<1> DEFINE e == Append(L, r)
           n == Len(L) + 1
           m == b.minute
           d == FillBucket(b, r)
<1>1. n \notin DOMAIN L
  OBVIOUS
<1>2. Of(e, m) = Of(L, m) \cup {n}
  BY OfAppend, Zenon
<1>3. ASSUME NEW x
      PROVE  OfModel(e, m, x) = IF r.model = x THEN OfModel(L, m, x) \cup {n}
                                ELSE OfModel(L, m, x)
  <2>1. \A i \in Of(L, m) : i \in DOMAIN L
    BY DEF Of
  <2>2. (\A i \in DOMAIN L : e[i] = L[i]) /\ e[n] = r
    OBVIOUS
  <2> HIDE DEF e, n
  <2>3. QED
    BY <1>2, <2>1, <2>2 DEF OfModel
<1>4. n \notin Of(L, m) /\ \A x : n \notin OfModel(L, m, x)
  BY <1>1 DEF Of, OfModel
<1> HIDE DEF e, n
<1>5. Cardinality(Of(e, m)) = Cardinality(Of(L, m)) + 1
  BY <1>2, <1>4, OfFinite, FS_AddElement
<1>6. \A x : Cardinality(OfModel(L, m, x) \cup {n}) = Cardinality(OfModel(L, m, x)) + 1
  BY <1>4, OfFinite, FS_AddElement
<1>7. d.minute = m /\ d.requests = b.requests + 1 /\ d.byModel = Increased(b.byModel, r.model)
  BY FillIs
<1>8. r.model \in Models /\ b.byModel \in [Models -> Nat]
  BY DEF Record, Bucket
<1>9. \A x \in Models : d.byModel[x] = IF x = r.model THEN b.byModel[x] + 1 ELSE b.byModel[x]
  BY <1>7, <1>8 DEF Increased
<1> HIDE DEF d, m
<1>10. b.requests = Cardinality(Of(L, m))
       /\ \A x \in Models : b.byModel[x] = Cardinality(OfModel(L, m, x))
  BY DEF Tallied, m
<1>11. \A x \in Models : d.byModel[x] = Cardinality(OfModel(e, m, x))
  BY <1>3, <1>6, <1>9, <1>10
<1>12. d.requests = Cardinality(Of(e, m))
  BY <1>5, <1>7, <1>10
<1>13. QED
  BY <1>7, <1>11, <1>12 DEF Tallied, d, e

LEMMA TallyFresh ==
  ASSUME NEW L \in Seq(Record), NEW r \in Record,
         \A j \in DOMAIN L : MinuteOf(L[j].ts) < MinuteOf(r.ts)
  PROVE  Tallied(Fresh(r), Append(L, r))
<1> DEFINE m == MinuteOf(r.ts)
           b == [minute |-> m, requests |-> 0, byModel |-> None]
<1>1. m \in Nat
  BY MinuteIs DEF Record
<1> HIDE DEF m
<1>2. b \in Bucket
  BY <1>1 DEF Bucket, None
<1>3. \A j \in DOMAIN L : MinuteOf(L[j].ts) \in Nat /\ MinuteOf(L[j].ts) < m
  BY MinutesOf DEF m
<1>4. Of(L, m) = {} /\ \A x : OfModel(L, m, x) = {}
  BY <1>1, <1>3 DEF Of, OfModel
<1>5. b.minute = m /\ b.requests = 0 /\ \A x \in Models : b.byModel[x] = 0
  BY DEF None
<1> HIDE DEF b
<1>6. Tallied(b, L)
  BY <1>4, <1>5, FS_EmptySet DEF Tallied
<1>7. ~\E j \in DOMAIN L : MinuteOf(L[j].ts) > MinuteOf(r.ts)
  BY <1>1, <1>3 DEF m
<1>8. Tallied(FillBucket(b, r), Append(L, r))
  BY <1>2, <1>5, <1>6, <1>7, TallyFilled DEF m
<1>9. QED
  BY <1>8 DEF Fresh, b, m

-----------------------------------------------------------------------------
(* The series. *)

Ordered(q) == \A i, j \in DOMAIN q : i < j => q[i].minute < q[j].minute

(* The buckets of q tell the truth about the log L from time c on. *)
Holds(q, L, c) ==
  \A k \in DOMAIN q : q[k].minute >= c =>
    Tallied(q[k], L) /\ \E j \in DOMAIN L : MinuteOf(L[j].ts) = q[k].minute

Covers(q, L, c) ==
  \A i \in DOMAIN L : MinuteOf(L[i].ts) >= c =>
    /\ q # <<>>
    /\ MinuteOf(L[i].ts) <= Tail1(q).minute
    /\ LateIn(L, i) \/ \E k \in DOMAIN q : q[k].minute = MinuteOf(L[i].ts)

Faithful(q, L, c) == Ordered(q) /\ Holds(q, L, c) /\ Covers(q, L, c)

(* Append, for a sequence whose elements need not be named. *)
LEMMA Appended ==
  ASSUME NEW S, NEW q \in Seq(S), NEW b \in S
  PROVE  LET p == Append(q, b)
             h == Len(q) + 1
         IN  /\ p \in Seq(S) /\ p # <<>> /\ Len(p) = h
             /\ DOMAIN p = DOMAIN q \cup {h} /\ h \notin DOMAIN q /\ p[h] = b
             /\ \A k \in DOMAIN q : p[k] = q[k] /\ k < h
             /\ \A k \in DOMAIN q : k \in 1 .. Len(q) /\ k <= Len(q) /\ q # <<>>
             /\ q # <<>> => Len(q) \in DOMAIN q
<1>1. Append(q, b) \in Seq(S) /\ Len(Append(q, b)) = Len(q) + 1 /\ Append(q, b) # <<>>
  <2>1. Append(q, b) \in Seq(S) /\ Len(Append(q, b)) = Len(q) + 1
    OBVIOUS
  <2>2. Len(q) + 1 # 0
    OBVIOUS
  <2>3. QED
    BY <2>1, <2>2
<1>2. \A k \in 1 .. Len(q) : Append(q, b)[k] = q[k]
  OBVIOUS
<1>3. Append(q, b)[Len(q) + 1] = b
  OBVIOUS
<1>4. DOMAIN q = 1 .. Len(q) /\ Len(q) \in Nat /\ (q = <<>> <=> Len(q) = 0)
  OBVIOUS
<1>5. DOMAIN Append(q, b) = 1 .. Len(q) + 1
  BY <1>1
<1>6. DOMAIN Append(q, b) = DOMAIN q \cup {Len(q) + 1} /\ Len(q) + 1 \notin DOMAIN q
  BY <1>4, <1>5
<1>7. \A k \in DOMAIN q : k \in 1 .. Len(q) /\ k <= Len(q) /\ q # <<>> /\ k < Len(q) + 1
  BY <1>4
<1>8. q # <<>> => Len(q) \in DOMAIN q
  BY <1>4
<1>9. QED
  BY <1>1, <1>2, <1>3, <1>6, <1>7, <1>8

LEMMA BucketMinutes ==
  ASSUME NEW q \in Seq(Bucket)
  PROVE  \A k \in DOMAIN q : q[k].minute \in Nat /\ q[k] \in Bucket
<1>1. \A k \in DOMAIN q : q[k] \in Bucket
  OBVIOUS
<1>2. QED
  BY <1>1 DEF Bucket

(* Time passes. *)
LEMMA FaithfulLater ==
  ASSUME NEW q \in Seq(Bucket), NEW L \in Seq(Record), NEW c \in Nat, NEW d \in Nat,
         c <= d, Faithful(q, L, c)
  PROVE  Faithful(q, L, d)
<1>1. \A k \in DOMAIN q : q[k].minute >= d => q[k].minute >= c
  BY BucketMinutes
<1>2. \A i \in DOMAIN L : MinuteOf(L[i].ts) >= d => MinuteOf(L[i].ts) >= c
  BY MinutesOf
<1>3. QED
  BY <1>1, <1>2 DEF Faithful, Holds, Covers

(* A record that is too old to matter is noted. *)
LEMMA FaithfulSkips ==
  ASSUME NEW q \in Seq(Bucket), NEW L \in Seq(Record), NEW c \in Nat,
         NEW r \in Record, MinuteOf(r.ts) < c, Faithful(q, L, c)
  PROVE  Faithful(q, Append(L, r), c)
<1> DEFINE e == Append(L, r)
           n == Len(L) + 1
<1>1. /\ DOMAIN e = DOMAIN L \cup {n}
      /\ e[n] = r /\ \A i \in DOMAIN L : e[i] = L[i]
      /\ \A i \in DOMAIN L : LateIn(e, i) <=> LateIn(L, i)
  BY OfAppend
<1>2. MinuteOf(r.ts) \in Nat
  BY MinuteIs DEF Record
<1>3. ASSUME NEW k \in DOMAIN q, q[k].minute >= c
      PROVE  Tallied(q[k], e) /\ \E j \in DOMAIN e : MinuteOf(e[j].ts) = q[k].minute
  <2>1. Tallied(q[k], L) /\ \E j \in DOMAIN L : MinuteOf(L[j].ts) = q[k].minute
    BY <1>3 DEF Faithful, Holds
  <2>2. MinuteOf(r.ts) # q[k].minute /\ q[k] \in Bucket
    BY <1>2, <1>3, BucketMinutes
  <2>3. Tallied(q[k], e)
    BY <2>1, <2>2, TallyKept
  <2> HIDE DEF e, n
  <2>4. QED
    BY <1>1, <2>1, <2>3
<1> HIDE DEF e, n
<1>4. ~(MinuteOf(e[n].ts) >= c)
  BY <1>1, <1>2
<1>5. Covers(q, e, c)
  BY <1>1, <1>4 DEF Faithful, Covers
<1>6. QED
  BY <1>3, <1>5 DEF Faithful, Holds, e

(* A record that starts a bucket. *)
LEMMA FaithfulStarts ==
  ASSUME NEW q \in Seq(Bucket), NEW L \in Seq(Record), NEW c \in Nat, NEW r \in Record,
         Faithful(q, L, c), q # <<>> => Tail1(q).minute < MinuteOf(r.ts)
  PROVE  Faithful(Append(q, Fresh(r)), Append(L, r), c)
<1> DEFINE e == Append(L, r)
           n == Len(L) + 1
           b == Fresh(r)
           p == Append(q, b)
           h == Len(q) + 1
           m == MinuteOf(r.ts)
<1>1. /\ DOMAIN e = DOMAIN L \cup {n}
      /\ e[n] = r /\ \A i \in DOMAIN L : e[i] = L[i]
      /\ \A i \in DOMAIN L : LateIn(e, i) <=> LateIn(L, i)
  BY OfAppend
<1>2. m \in Nat
  BY MinuteIs DEF Record
<1>3. b \in Bucket /\ b.minute = m
  BY FreshIs
<1>4. /\ DOMAIN p = DOMAIN q \cup {h} /\ h \notin DOMAIN q /\ p[h] = b
      /\ (\A k \in DOMAIN q : p[k] = q[k] /\ k < h /\ k <= Len(q)) /\ p # <<>> /\ Len(p) = h
      /\ (q # <<>> => Len(q) \in DOMAIN q)
      /\ \A k \in DOMAIN q : k \in 1 .. Len(q) /\ q # <<>>
  <2>1. b \in Bucket
    BY <1>3
  <2> HIDE DEF b
  <2>2. QED
    BY <2>1, Appended
<1>5. \A k \in DOMAIN q : q[k].minute \in Nat /\ q[k] \in Bucket
  BY BucketMinutes
<1>6. \A i \in DOMAIN L : MinuteOf(L[i].ts) \in Nat
  BY MinutesOf
<1> HIDE DEF e, n, b, p, h, m
<1>7. \A k \in DOMAIN q : q[k].minute <= Tail1(q).minute /\ Tail1(q).minute \in Nat
  BY <1>4, <1>5 DEF Faithful, Ordered, Tail1
<1>8. \A k \in DOMAIN q : q[k].minute < m
  BY <1>2, <1>4, <1>5, <1>7 DEF m
<1>9. Ordered(p)
  <2> SUFFICES ASSUME NEW i \in DOMAIN p, NEW j \in DOMAIN p, i < j
               PROVE  p[i].minute < p[j].minute
    BY DEF Ordered
  <2>1. CASE j = h
    <3>1. i \in DOMAIN q
      BY <1>4, <2>1
    <3>2. QED
      BY <1>3, <1>4, <1>8, <2>1, <3>1
  <2>2. CASE j # h
    <3>1. j \in DOMAIN q /\ i \in DOMAIN q
      BY <1>4, <2>2
    <3>2. QED
      BY <1>4, <3>1 DEF Faithful, Ordered
  <2>3. QED
    BY <2>1, <2>2
<1>10. ASSUME m >= c PROVE \A j \in DOMAIN L : MinuteOf(L[j].ts) < m
  <2> SUFFICES ASSUME NEW j \in DOMAIN L, ~(MinuteOf(L[j].ts) < m) PROVE FALSE
    OBVIOUS
  <2>1. MinuteOf(L[j].ts) >= c
    BY <1>2, <1>6, <1>10
  <2>2. q # <<>> /\ MinuteOf(L[j].ts) <= Tail1(q).minute
    BY <2>1 DEF Faithful, Covers
  <2>3. Tail1(q).minute \in Nat /\ Tail1(q).minute < m
    BY <1>4, <1>7, <2>2 DEF m
  <2>4. QED
    BY <1>2, <1>6, <2>2, <2>3
<1>11. ASSUME NEW k \in DOMAIN p, p[k].minute >= c
       PROVE  Tallied(p[k], e) /\ \E j \in DOMAIN e : MinuteOf(e[j].ts) = p[k].minute
  <2>1. CASE k = h
    <3>1. \A j \in DOMAIN L : MinuteOf(L[j].ts) < m
      BY <1>3, <1>4, <1>10, <1>11, <2>1
    <3>2. Tallied(b, e)
      BY <3>1, TallyFresh DEF b, e, m
    <3>3. QED
      BY <1>1, <1>3, <1>4, <2>1, <3>2 DEF m
  <2>2. CASE k # h
    <3>1. k \in DOMAIN q /\ p[k] = q[k]
      BY <1>4, <2>2
    <3>2. Tallied(q[k], L) /\ \E j \in DOMAIN L : MinuteOf(L[j].ts) = q[k].minute
      BY <1>11, <3>1 DEF Faithful, Holds
    <3>3. m # q[k].minute
      BY <1>2, <1>5, <1>8, <3>1
    <3>4. Tallied(q[k], e)
      BY <1>5, <3>1, <3>2, <3>3, TallyKept DEF m, e
    <3>5. QED
      BY <1>1, <3>1, <3>2, <3>4
  <2>3. QED
    BY <2>1, <2>2
<1>12. Covers(p, e, c)
  <2>1. Tail1(p).minute = m
    BY <1>3, <1>4 DEF Tail1
  <2> SUFFICES ASSUME NEW i \in DOMAIN e, MinuteOf(e[i].ts) >= c
               PROVE  /\ MinuteOf(e[i].ts) <= Tail1(p).minute
                      /\ LateIn(e, i) \/ \E k \in DOMAIN p : p[k].minute = MinuteOf(e[i].ts)
    BY <1>4 DEF Covers
  <2>2. CASE i = n
    BY <1>1, <1>2, <1>3, <1>4, <2>1, <2>2 DEF m
  <2>3. CASE i # n
    <3>1. i \in DOMAIN L /\ e[i] = L[i]
      BY <1>1, <2>3
    <3>2. /\ q # <<>> /\ MinuteOf(L[i].ts) <= Tail1(q).minute
          /\ LateIn(L, i) \/ \E k \in DOMAIN q : q[k].minute = MinuteOf(L[i].ts)
      BY <3>1 DEF Faithful, Covers
    <3>3. Tail1(q).minute \in Nat /\ Tail1(q).minute < m
      BY <1>4, <1>7, <3>2 DEF m
    <3>4. MinuteOf(L[i].ts) <= m
      BY <1>2, <1>6, <3>1, <3>2, <3>3
    <3>5. QED
      BY <1>1, <1>4, <2>1, <3>1, <3>2, <3>4
  <2>4. QED
    BY <2>2, <2>3
<1>13. QED
  BY <1>9, <1>11, <1>12 DEF Faithful, Holds, p, e, b

(* A record that belongs to the last bucket. *)
LEMMA FaithfulFills ==
  ASSUME NEW q \in Seq(Bucket), NEW L \in Seq(Record), NEW c \in Nat, NEW r \in Record,
         Faithful(q, L, c), q # <<>>, Tail1(q).minute = MinuteOf(r.ts)
  PROVE  Faithful([q EXCEPT ![Len(q)] = FillBucket(Tail1(q), r)], Append(L, r), c)
<1> DEFINE e == Append(L, r)
           n == Len(L) + 1
           b == FillBucket(Tail1(q), r)
           h == Len(q)
           p == [q EXCEPT ![h] = b]
           m == MinuteOf(r.ts)
<1>1. /\ DOMAIN e = DOMAIN L \cup {n}
      /\ e[n] = r /\ \A i \in DOMAIN L : e[i] = L[i]
      /\ \A i \in DOMAIN L : LateIn(e, i) <=> LateIn(L, i)
  BY OfAppend
<1>2. m \in Nat
  BY MinuteIs DEF Record
<1>3. h \in DOMAIN q /\ Tail1(q) = q[h] /\ \A k \in DOMAIN q : k \in 1 .. h
  BY DEF Tail1
<1>4. \A k \in DOMAIN q : q[k].minute \in Nat /\ q[k] \in Bucket
  BY BucketMinutes
<1>5. b \in Bucket /\ b.minute = m
  BY <1>3, <1>4, FillIs, FillType
<1> HIDE DEF b
<1>6. p \in Seq(Bucket) /\ Len(p) = h /\ DOMAIN p = DOMAIN q /\ p[h] = b /\ p # <<>>
      /\ \A k \in DOMAIN q : k # h => p[k] = q[k]
  BY <1>3, <1>5
<1>7. \A i \in DOMAIN L : MinuteOf(L[i].ts) \in Nat
  BY MinutesOf
<1> HIDE DEF e, n, p, h, m
<1>8. \A k \in DOMAIN q : p[k].minute = q[k].minute
  BY <1>3, <1>5, <1>6 DEF m
<1>9. \A k \in DOMAIN q : k # h => q[k].minute < m
  BY <1>3 DEF Faithful, Ordered, m
<1>10. ASSUME m >= c PROVE ~\E j \in DOMAIN L : MinuteOf(L[j].ts) > m
  <2> SUFFICES ASSUME NEW j \in DOMAIN L, MinuteOf(L[j].ts) > m PROVE FALSE
    OBVIOUS
  <2>1. MinuteOf(L[j].ts) >= c
    BY <1>2, <1>7, <1>10
  <2>2. MinuteOf(L[j].ts) <= m
    BY <2>1 DEF Faithful, Covers, m
  <2>3. QED
    BY <1>2, <1>7, <2>2
<1>11. ASSUME NEW k \in DOMAIN q, p[k].minute >= c
       PROVE  Tallied(p[k], e) /\ \E j \in DOMAIN e : MinuteOf(e[j].ts) = p[k].minute
  <2>1. Tallied(q[k], L) /\ \E j \in DOMAIN L : MinuteOf(L[j].ts) = q[k].minute
    BY <1>8, <1>11 DEF Faithful, Holds
  <2>2. \E j \in DOMAIN e : MinuteOf(e[j].ts) = p[k].minute
    BY <1>1, <1>8, <2>1
  <2>3. CASE k = h
    <3>1. ~\E j \in DOMAIN L : MinuteOf(L[j].ts) > m
      BY <1>5, <1>6, <1>10, <1>11, <2>3
    <3>2. Tallied(FillBucket(Tail1(q), r), e)
      BY <1>3, <1>4, <2>1, <2>3, <3>1, TallyFilled DEF e, m
    <3>3. QED
      BY <1>6, <2>2, <2>3, <3>2 DEF b
  <2>4. CASE k # h
    <3>1. m # q[k].minute
      BY <1>2, <1>4, <1>9, <2>4
    <3>2. Tallied(q[k], e)
      BY <1>4, <2>1, <3>1, TallyKept DEF m, e
    <3>3. QED
      BY <1>6, <2>2, <2>4, <3>2
  <2>5. QED
    BY <2>3, <2>4
<1>12. Ordered(p)
  BY <1>6, <1>8 DEF Faithful, Ordered
<1>13. Covers(p, e, c)
  <2>1. Tail1(p).minute = m
    BY <1>5, <1>6 DEF Tail1
  <2> SUFFICES ASSUME NEW i \in DOMAIN e, MinuteOf(e[i].ts) >= c
               PROVE  /\ MinuteOf(e[i].ts) <= Tail1(p).minute
                      /\ LateIn(e, i) \/ \E k \in DOMAIN p : p[k].minute = MinuteOf(e[i].ts)
    BY <1>6 DEF Covers
  <2>2. CASE i = n
    BY <1>1, <1>2, <1>3, <1>5, <1>6, <2>1, <2>2 DEF m
  <2>3. CASE i # n
    <3>1. i \in DOMAIN L /\ e[i] = L[i]
      BY <1>1, <2>3
    <3>2. /\ MinuteOf(L[i].ts) <= m
          /\ LateIn(L, i) \/ \E k \in DOMAIN q : q[k].minute = MinuteOf(L[i].ts)
      BY <3>1 DEF Faithful, Covers, m
    <3>3. QED
      BY <1>1, <1>6, <1>8, <2>1, <3>1, <3>2
  <2>4. QED
    BY <2>2, <2>3
<1>14. QED
  BY <1>6, <1>11, <1>12, <1>13 DEF Faithful, Holds, p, e, b, h

(* A record that came after one of a later minute. *)
LEMMA FaithfulIgnores ==
  ASSUME NEW q \in Seq(Bucket), NEW L \in Seq(Record), NEW c \in Nat, NEW r \in Record,
         Faithful(q, L, c), q # <<>>, Tail1(q).minute > MinuteOf(r.ts)
  PROVE  Faithful(q, Append(L, r), c)
<1> DEFINE e == Append(L, r)
           n == Len(L) + 1
           h == Len(q)
           m == MinuteOf(r.ts)
           late == \E j \in DOMAIN L : MinuteOf(L[j].ts) > m
<1>1. /\ DOMAIN e = DOMAIN L \cup {n}
      /\ e[n] = r /\ (\A i \in DOMAIN L : e[i] = L[i])
      /\ (\A i \in DOMAIN L : LateIn(e, i) <=> LateIn(L, i))
      /\ LateIn(e, n) <=> late
  BY OfAppend
<1>2. m \in Nat
  BY MinuteIs DEF Record
<1>3. h \in DOMAIN q /\ Tail1(q) = q[h]
  BY DEF Tail1
<1>4. \A k \in DOMAIN q : q[k].minute \in Nat /\ q[k] \in Bucket
  BY BucketMinutes
<1> HIDE DEF e, n, h, m
<1>5. q[h].minute > m /\ q[h].minute \in Nat
  BY <1>3, <1>4 DEF m
<1>6. ASSUME m >= c PROVE late
  <2>1. q[h].minute >= c
    BY <1>2, <1>5, <1>6
  <2>2. \E j \in DOMAIN L : MinuteOf(L[j].ts) = q[h].minute
    BY <1>3, <2>1 DEF Faithful, Holds
  <2>3. QED
    BY <1>5, <2>2
<1>7. ASSUME NEW k \in DOMAIN q, q[k].minute >= c
      PROVE  Tallied(q[k], e) /\ \E j \in DOMAIN e : MinuteOf(e[j].ts) = q[k].minute
  <2>1. Tallied(q[k], L) /\ \E j \in DOMAIN L : MinuteOf(L[j].ts) = q[k].minute
    BY <1>7 DEF Faithful, Holds
  <2>2. m # q[k].minute \/ late
    BY <1>2, <1>6, <1>7
  <2>3. Tallied(q[k], e)
    BY <1>4, <2>1, <2>2, TallyKept DEF m, e
  <2>4. QED
    BY <1>1, <2>1, <2>3
<1> HIDE DEF late
<1>8. ASSUME NEW i \in DOMAIN e, MinuteOf(e[i].ts) >= c
      PROVE  /\ MinuteOf(e[i].ts) <= Tail1(q).minute
             /\ LateIn(e, i) \/ \E k \in DOMAIN q : q[k].minute = MinuteOf(e[i].ts)
  <2>1. CASE i = n
    <3>1. MinuteOf(e[i].ts) = m
      BY <1>1, <2>1 DEF m
    <3>2. late
      BY <1>6, <1>8, <3>1
    <3>3. QED
      BY <1>1, <1>2, <1>3, <1>5, <2>1, <3>1, <3>2
  <2>2. CASE i # n
    <3>1. i \in DOMAIN L /\ e[i] = L[i]
      BY <1>1, <2>2
    <3>2. QED
      BY <1>1, <1>8, <3>1 DEF Faithful, Covers
  <2>3. QED
    BY <2>1, <2>2
<1>9. QED
  BY <1>7, <1>8 DEF Faithful, Holds, Covers, e

LEMMA FaithfulPlaced ==
  ASSUME NEW q \in Seq(Bucket), NEW L \in Seq(Record), NEW c \in Nat, NEW r \in Record,
         Faithful(q, L, c)
  PROVE  Faithful(Placed(q, r), Append(L, r), c)
<1> DEFINE m == MinuteOf(r.ts)
<1>1. m \in Nat
  BY MinuteIs DEF Record
<1>2. CASE q = <<>>
  <2> DEFINE b == Fresh(r)
  <2>a. Placed(q, r) = <<b>>
    BY <1>2, PlacedIs
  <2> HIDE DEF b
  <2>1. Placed(q, r) = Append(q, b)
    BY <1>2, <2>a
  <2>2. QED
    BY <1>2, <2>1, FaithfulStarts DEF b
<1>3. CASE q # <<>>
  <2>1. Tail1(q).minute \in Nat
    <3>1. Len(q) \in DOMAIN q
      BY <1>3
    <3>2. QED
      BY <3>1, BucketMinutes DEF Tail1
  <2>2. CASE Tail1(q).minute = m
    BY <1>3, <2>2, PlacedIs, FaithfulFills
  <2>3. CASE Tail1(q).minute > m
    BY <1>3, <2>3, PlacedIs, FaithfulIgnores
  <2>4. CASE Tail1(q).minute < m
    <3>1. Placed(q, r) = Append(q, Fresh(r))
      BY <1>3, <2>4, PlacedIs
    <3>2. QED
      BY <2>4, <3>1, FaithfulStarts
  <2>5. QED
    BY <1>1, <2>1, <2>2, <2>3, <2>4
<1>4. QED
  BY <1>2, <1>3

LEMMA FaithfulTrimmed ==
  ASSUME NEW q \in Seq(Bucket), NEW L \in Seq(Record), NEW c \in Nat, Faithful(q, L, c)
  PROVE  Faithful(Trim(q, c), L, c)
<1> DEFINE p == Trim(q, c)
<1>1. PICK n \in 0 .. Len(q) :
        /\ p \in Seq(Bucket)
        /\ Len(p) = Len(q) - n
        /\ \A i \in 1 .. Len(q) - n : p[i] = q[n + i]
        /\ \A i \in 1 .. n : q[i].minute < c
        /\ n < Len(q) => ~(q[n + 1].minute < c)
  BY TrimIs
<1> HIDE DEF p
<1>2. /\ DOMAIN q = 1 .. Len(q) /\ Len(q) \in Nat /\ n \in Nat /\ n <= Len(q)
      /\ DOMAIN p = 1 .. Len(q) - n
      /\ p # <<>> <=> n < Len(q)
  BY <1>1
<1>3. \A i \in DOMAIN p : n + i \in DOMAIN q /\ p[i] = q[n + i]
  BY <1>1, <1>2
<1>4. \A i \in DOMAIN L : MinuteOf(L[i].ts) \in Nat
  BY MinutesOf
<1>5. \A k \in DOMAIN q : q[k].minute \in Nat
  BY BucketMinutes
<1>6. Ordered(p)
  <2> SUFFICES ASSUME NEW i \in DOMAIN p, NEW j \in DOMAIN p, i < j
               PROVE  p[i].minute < p[j].minute
    BY DEF Ordered
  <2>1. n + i < n + j
    BY <1>2
  <2>2. QED
    BY <1>3, <2>1 DEF Faithful, Ordered
<1>7. Holds(p, L, c)
  BY <1>3 DEF Faithful, Holds
<1>8. ASSUME NEW i \in DOMAIN L, MinuteOf(L[i].ts) >= c
      PROVE  /\ p # <<>>
             /\ MinuteOf(L[i].ts) <= Tail1(p).minute
             /\ LateIn(L, i) \/ \E k \in DOMAIN p : p[k].minute = MinuteOf(L[i].ts)
  <2>1. /\ q # <<>> /\ MinuteOf(L[i].ts) <= Tail1(q).minute
        /\ LateIn(L, i) \/ \E k \in DOMAIN q : q[k].minute = MinuteOf(L[i].ts)
    BY <1>8 DEF Faithful, Covers
  <2>2. Len(q) \in DOMAIN q /\ Tail1(q) = q[Len(q)]
    BY <2>1 DEF Tail1
  <2>3. ~(Tail1(q).minute < c)
    BY <1>4, <1>5, <1>8, <2>1, <2>2
  <2>4. n < Len(q)
    BY <1>1, <1>2, <2>2, <2>3
  <2>5. Tail1(p) = Tail1(q)
    <3>1. Len(q) - n \in DOMAIN p /\ n + (Len(q) - n) = Len(q)
      BY <1>2, <2>4
    <3>2. QED
      BY <1>1, <1>3, <2>2, <3>1 DEF Tail1
  <2>6. ASSUME NEW k \in DOMAIN q, q[k].minute = MinuteOf(L[i].ts)
        PROVE  \E j \in DOMAIN p : p[j].minute = MinuteOf(L[i].ts)
    <3>1. ~(k \in 1 .. n)
      BY <1>1, <1>4, <1>8, <2>6
    <3>2. k - n \in DOMAIN p /\ n + (k - n) = k
      BY <1>2, <3>1
    <3>3. QED
      BY <1>3, <2>6, <3>2
  <2>7. QED
    BY <1>2, <2>1, <2>4, <2>5, <2>6
<1>9. QED
  BY <1>6, <1>7, <1>8 DEF Faithful, Covers, p

-----------------------------------------------------------------------------
(* The ring of recent requests is the end of the log. *)

Recents(q, L) ==
  /\ Len(q) <= RingSize /\ Len(q) <= Len(L)
  /\ Len(q) = RingSize \/ Len(q) = Len(L)
  /\ \A i \in 1 .. Len(q) : q[i] = L[(Len(L) - Len(q)) + i]

LEMMA PushRecents ==
  ASSUME NEW q \in Seq(Record), NEW L \in Seq(Record), NEW r \in Record, Recents(q, L)
  PROVE  PushRecent(q, r) \in Seq(Record) /\ Recents(PushRecent(q, r), Append(L, r))
<1> DEFINE e == Append(L, r)
           p == Append(q, r)
<1>1. /\ p \in Seq(Record) /\ Len(p) = Len(q) + 1 /\ Len(q) \in Nat /\ p[Len(q) + 1] = r
      /\ \A i \in 1 .. Len(q) : p[i] = q[i]
  OBVIOUS
<1>2. /\ Len(e) = Len(L) + 1 /\ Len(L) \in Nat /\ e[Len(L) + 1] = r
      /\ \A i \in 1 .. Len(L) : e[i] = L[i]
  OBVIOUS
<1>3. RingSize \in Nat /\ RingSize > 0
  BY StatsAssumption
<1>4. PushRecent(q, r) = IF Len(q) < RingSize THEN p ELSE Tail(p)
  BY DEF PushRecent
<1> HIDE DEF e, p
<1>5. \A i \in 1 .. Len(p) : p[i] = e[(Len(e) - Len(p)) + i]
  <2> SUFFICES ASSUME NEW i \in 1 .. Len(p) PROVE p[i] = e[(Len(e) - Len(p)) + i]
    OBVIOUS
  <2>1. Len(q) <= Len(L)
    BY DEF Recents
  <2>2. (Len(e) - Len(p)) + i = (Len(L) - Len(q)) + i
    BY <1>1, <1>2
  <2>3. CASE i = Len(q) + 1
    <3>1. (Len(L) - Len(q)) + i = Len(L) + 1
      BY <1>1, <1>2, <2>3
    <3>2. QED
      BY <1>1, <1>2, <2>2, <2>3, <3>1
  <2>4. CASE i # Len(q) + 1
    <3>1. i \in 1 .. Len(q) /\ (Len(L) - Len(q)) + i \in 1 .. Len(L)
      BY <1>1, <1>2, <2>1, <2>4
    <3>2. q[i] = L[(Len(L) - Len(q)) + i]
      BY <3>1 DEF Recents
    <3>3. QED
      BY <1>1, <1>2, <2>2, <3>1, <3>2
  <2>5. QED
    BY <2>3, <2>4
<1>6. CASE Len(q) < RingSize
  <2>1. Len(q) = Len(L)
    BY <1>1, <1>3, <1>6 DEF Recents
  <2>2. Recents(p, e)
    BY <1>1, <1>2, <1>3, <1>5, <1>6, <2>1 DEF Recents
  <2>3. QED
    BY <1>1, <1>4, <1>6, <2>2 DEF e
<1>7. CASE ~(Len(q) < RingSize)
  <2> DEFINE s == Tail(p)
  <2>1. Len(q) = RingSize /\ RingSize <= Len(L)
    BY <1>1, <1>2, <1>3, <1>7 DEF Recents
  <2>2. p # <<>>
    BY <1>1
  <2>3. s \in Seq(Record) /\ Len(s) = Len(p) - 1
    BY <1>1, <2>2
  <2>4. \A i \in 1 .. Len(p) - 1 : s[i] = p[i + 1]
    BY <1>1, <2>2
  <2> HIDE DEF s
  <2>5. ASSUME NEW i \in 1 .. Len(s) PROVE s[i] = e[(Len(e) - Len(s)) + i]
    <3>1. i \in 1 .. Len(p) - 1 /\ i + 1 \in 1 .. Len(p)
      BY <1>1, <2>3
    <3>2. (Len(e) - Len(s)) + i = (Len(e) - Len(p)) + (i + 1)
      BY <1>1, <1>2, <2>3, <3>1
    <3>3. s[i] = p[i + 1]
      BY <2>4, <3>1
    <3>4. p[i + 1] = e[(Len(e) - Len(p)) + (i + 1)]
      BY <1>5, <3>1
    <3>5. QED
      BY <3>2, <3>3, <3>4
  <2>6. Recents(s, e)
    BY <1>1, <1>2, <1>3, <2>1, <2>3, <2>5 DEF Recents
  <2>7. QED
    BY <1>4, <1>7, <2>3, <2>6 DEF s, e
<1>8. QED
  BY <1>6, <1>7

LEMMA RecentsUnique ==
  ASSUME NEW q \in Seq(Record), NEW p \in Seq(Record), NEW L \in Seq(Record),
         Recents(q, L), Recents(p, L)
  PROVE  q = p
<1>1. Len(q) \in Nat /\ Len(p) \in Nat /\ Len(L) \in Nat /\ RingSize \in Nat
  BY StatsAssumption
<1>2. Len(q) = Len(p)
  BY <1>1 DEF Recents
<1>3. \A i \in 1 .. Len(q) : q[i] = p[i]
  BY <1>2 DEF Recents
<1>4. QED
  BY <1>2, <1>3

-----------------------------------------------------------------------------
(* The statistics s represent, at time t, the log L. *)

OnGrid(q, t) ==
  \A k \in DOMAIN q : q[k].minute <= t /\ \E n \in Nat : q[k].minute = n * Minute

Spread(q) == \A i, j \in DOMAIN q : q[j].minute <= q[i].minute + Retention

Represents(s, L, t) ==
  /\ s \in Inner /\ L \in Seq(Record)
  /\ Recents(s.recent, L)
  /\ Faithful(s.buckets, L, Cutoff(t, Retention))
  /\ OnGrid(s.buckets, t)
  /\ Spread(s.buckets)

LEMMA CutoffIs ==
  ASSUME NEW t \in Nat, NEW range \in 0 .. Retention
  PROVE  /\ Cutoff(t, range) \in Nat /\ Cutoff(t, range) <= t
         /\ t <= Cutoff(t, range) + range
         /\ Cutoff(t, Retention) <= Cutoff(t, range)
         /\ \A u \in Nat : t <= u => Cutoff(t, range) <= Cutoff(u, range)
<1>1. Retention \in Nat /\ range \in Nat /\ range <= Retention
  BY StatsAssumption
<1>2. QED
  BY <1>1 DEF Cutoff

LEMMA DefaultRepresents ==
  ASSUME NEW t \in Nat
  PROVE  Represents(Default, <<>>, t)
<1>1. Default \in Inner /\ <<>> \in Seq(Record) /\ Default.recent = <<>> /\ Default.buckets = <<>>
  BY DEF Default, Inner, None
<1>2. RingSize \in Nat /\ Len(<<>>) = 0 /\ DOMAIN <<>> = {}
  BY StatsAssumption
<1>3. Recents(<<>>, <<>>)
  BY <1>2 DEF Recents
<1>4. Faithful(<<>>, <<>>, Cutoff(t, Retention))
  BY <1>2 DEF Faithful, Ordered, Holds, Covers
<1>5. OnGrid(<<>>, t) /\ Spread(<<>>)
  BY <1>2 DEF OnGrid, Spread
<1> HIDE DEF Default
<1>6. QED
  BY <1>1, <1>3, <1>4, <1>5, Zenon DEF Represents

LEMMA RepresentsLater ==
  ASSUME NEW s, NEW L, NEW t \in Nat, NEW u \in Nat, t <= u, Represents(s, L, t)
  PROVE  Represents(s, L, u)
<1>1. s.buckets \in Seq(Bucket)
  BY DEF Represents, Inner
<1>2. L \in Seq(Record) /\ Faithful(s.buckets, L, Cutoff(t, Retention))
  BY DEF Represents
<1>3. /\ Cutoff(t, Retention) \in Nat /\ Cutoff(u, Retention) \in Nat
      /\ Cutoff(t, Retention) <= Cutoff(u, Retention)
  <2>1. Retention \in 0 .. Retention
    BY StatsAssumption
  <2>2. QED
    BY <2>1, CutoffIs
<1>4. Faithful(s.buckets, L, Cutoff(u, Retention))
  BY <1>1, <1>2, <1>3, FaithfulLater
<1>5. OnGrid(s.buckets, u)
  <2>1. \A k \in DOMAIN s.buckets : s.buckets[k].minute \in Nat
    BY <1>1, BucketMinutes
  <2>2. QED
    BY <2>1 DEF Represents, OnGrid
<1>6. QED
  BY <1>4, <1>5 DEF Represents

LEMMA PlacedOnGrid ==
  ASSUME NEW q \in Seq(Bucket), NEW r \in Record, NEW t \in Nat, r.ts <= t, OnGrid(q, t)
  PROVE  OnGrid(Placed(q, r), t)
<1> DEFINE m == MinuteOf(r.ts)
           b == Fresh(r)
<1>1. m \in Nat /\ m <= t /\ \E n \in Nat : m = n * Minute
  <2>1. r.ts \in Nat
    BY DEF Record
  <2>2. m \in Nat /\ m <= r.ts /\ \E n \in Nat : m = n * Minute
    BY <2>1, MinuteIs
  <2> HIDE DEF m
  <2>3. m <= t
    BY <2>1, <2>2
  <2>4. QED
    BY <2>2, <2>3
<1>2. b \in Bucket /\ b.minute = m
  BY FreshIs
<1>3. /\ q = <<>> => Placed(q, r) = <<b>>
      /\ q # <<>> =>
           /\ Tail1(q).minute = m => Placed(q, r) = [q EXCEPT ![Len(q)] = FillBucket(Tail1(q), r)]
           /\ Tail1(q).minute > m => Placed(q, r) = q
           /\ Tail1(q).minute < m => Placed(q, r) = Append(q, b)
  BY PlacedIs
<1> HIDE DEF b, m
<1>4. CASE q = <<>>
  <2>1. DOMAIN <<b>> = {1} /\ <<b>>[1] = b
    OBVIOUS
  <2>2. QED
    BY <1>1, <1>2, <1>3, <1>4, <2>1 DEF OnGrid
<1>5. CASE q # <<>>
  <2>1. Len(q) \in DOMAIN q /\ Tail1(q) = q[Len(q)]
    BY <1>5 DEF Tail1
  <2>2. Tail1(q) \in Bucket /\ Tail1(q).minute \in Nat
    BY <2>1, BucketMinutes
  <2>3. CASE Tail1(q).minute = m
    <3> DEFINE d == FillBucket(Tail1(q), r)
               p == [q EXCEPT ![Len(q)] = d]
    <3>1. d.minute = m
      BY <2>2, <2>3, FillIs
    <3> HIDE DEF d
    <3>2. DOMAIN p = DOMAIN q /\ p[Len(q)] = d /\ \A k \in DOMAIN q : k # Len(q) => p[k] = q[k]
      BY <2>1
    <3>3. Placed(q, r) = p
      BY <1>3, <1>5, <2>3 DEF d
    <3> HIDE DEF p
    <3>4. QED
      BY <1>1, <3>1, <3>2, <3>3 DEF OnGrid
  <2>4. CASE Tail1(q).minute > m
    BY <1>3, <1>5, <2>4
  <2>5. CASE Tail1(q).minute < m
    <3> DEFINE p == Append(q, b)
    <3>1. /\ DOMAIN p = DOMAIN q \cup {Len(q) + 1} /\ p[Len(q) + 1] = b
          /\ \A k \in DOMAIN q : p[k] = q[k]
      BY <1>2, Appended
    <3>2. Placed(q, r) = p
      BY <1>3, <1>5, <2>5
    <3> HIDE DEF p
    <3>3. QED
      BY <1>1, <1>2, <3>1, <3>2 DEF OnGrid
  <2>6. QED
    BY <1>1, <2>2, <2>3, <2>4, <2>5
<1>6. QED
  BY <1>4, <1>5

(* After a trim at time t the whole series lies within the retention. *)
LEMMA TrimSpreads ==
  ASSUME NEW q \in Seq(Bucket), NEW t \in Nat, OnGrid(q, t), Ordered(q)
  PROVE  LET p == Trim(q, Cutoff(t, Retention)) IN
         p \in Seq(Bucket) /\ OnGrid(p, t) /\ Spread(p)
<1> DEFINE c == Cutoff(t, Retention)
           p == Trim(q, c)
<1>1. c \in Nat /\ t <= c + Retention /\ Retention \in Nat
  BY StatsAssumption, CutoffIs
<1> HIDE DEF c
<1>2. PICK n \in 0 .. Len(q) :
        /\ p \in Seq(Bucket)
        /\ Len(p) = Len(q) - n
        /\ \A i \in 1 .. Len(q) - n : p[i] = q[n + i]
        /\ \A i \in 1 .. n : q[i].minute < c
        /\ n < Len(q) => ~(q[n + 1].minute < c)
  BY <1>1, TrimIs
<1> HIDE DEF p
<1>3. DOMAIN q = 1 .. Len(q) /\ Len(q) \in Nat /\ n \in Nat /\ DOMAIN p = 1 .. Len(q) - n
  BY <1>2
<1>4. \A k \in DOMAIN q : q[k].minute \in Nat
  BY BucketMinutes
<1>5. ASSUME NEW i \in DOMAIN p
      PROVE  n + i \in DOMAIN q /\ p[i] = q[n + i] /\ p[i].minute \in Nat
             /\ c <= p[i].minute /\ p[i].minute <= t
  <2>1. n + i \in DOMAIN q /\ p[i] = q[n + i] /\ n + 1 \in DOMAIN q /\ n < Len(q)
    BY <1>2, <1>3
  <2>2. q[n + 1].minute <= q[n + i].minute
    <3>1. CASE i = 1
      BY <1>4, <2>1, <3>1
    <3>2. CASE i # 1
      <4>1. n + 1 < n + i
        BY <1>3, <3>2
      <4>2. QED
        BY <1>4, <2>1, <4>1 DEF Ordered
    <3>3. QED
      BY <3>1, <3>2
  <2>3. ~(q[n + 1].minute < c)
    BY <1>2, <2>1
  <2>4. QED
    BY <1>1, <1>4, <2>1, <2>2, <2>3 DEF OnGrid
<1>6. OnGrid(p, t)
  BY <1>5 DEF OnGrid
<1>7. Spread(p)
  BY <1>1, <1>5 DEF Spread
<1>8. QED
  BY <1>2, <1>6, <1>7 DEF p, c

(* One more record, counted. *)
Counted(s, r, t) ==
  [total |-> s.total + 1,
   byModel |-> Increased(s.byModel, r.model),
   buckets |-> Trim(Placed(s.buckets, r), Cutoff(t, Retention)),
   recent |-> PushRecent(s.recent, r)]

LEMMA CountedIs ==
  ASSUME NEW s \in Inner, NEW r \in Record, NEW t
  PROVE  /\ [ApplyAggregates(s, r, t) EXCEPT !.recent = PushRecent(@, r)] = Counted(s, r, t)
         /\ ApplyAggregates([s EXCEPT !.recent = PushRecent(@, r)], r, t) = Counted(s, r, t)
<1> DEFINE n == Increased(s.byModel, r.model)
           b == Trim(Placed(s.buckets, r), Cutoff(t, Retention))
           p == PushRecent(s.recent, r)
           u == [s EXCEPT !.recent = PushRecent(@, r)]
<1>1. ApplyAggregates(s, r, t) = [s EXCEPT !.total = @ + 1, !.byModel = n, !.buckets = b]
  BY DEF ApplyAggregates, Increased, Inner
<1>2. u = [s EXCEPT !.recent = p]
  BY DEF Inner
<1>3. u.total = s.total /\ u.byModel = s.byModel /\ u.buckets = s.buckets /\ u.recent = p
  BY <1>2 DEF Inner
<1>4. ApplyAggregates(u, r, t) = [u EXCEPT !.total = @ + 1, !.byModel = n, !.buckets = b]
  BY <1>2, <1>3 DEF ApplyAggregates, Increased, Inner
<1> HIDE DEF n, b, p, u
<1>5. ApplyAggregates(u, r, t) = [s EXCEPT !.total = @ + 1, !.byModel = n, !.buckets = b,
                                           !.recent = p]
  BY <1>2, <1>4 DEF Inner
<1>6. [s EXCEPT !.total = @ + 1, !.byModel = n, !.buckets = b, !.recent = p]
        = [total |-> s.total + 1, byModel |-> n, buckets |-> b, recent |-> p]
  <2>1. PICK x, y, z, w : s = [total |-> x, byModel |-> y, buckets |-> z, recent |-> w]
    BY DEF Inner
  <2>2. s.total = x
    BY <2>1
  <2>3. [s EXCEPT !.total = @ + 1, !.byModel = n, !.buckets = b, !.recent = p]
          = [total |-> x + 1, byModel |-> n, buckets |-> b, recent |-> p]
    <3> DEFINE f == [total |-> x + 1, byModel |-> y, buckets |-> z, recent |-> w]
               g == [total |-> x + 1, byModel |-> n, buckets |-> z, recent |-> w]
               h == [total |-> x + 1, byModel |-> n, buckets |-> b, recent |-> w]
    <3>1. [s EXCEPT !.total = @ + 1] = f
      BY <2>1
    <3>2. [f EXCEPT !.byModel = n] = g
      OBVIOUS
    <3>3. [g EXCEPT !.buckets = b] = h
      OBVIOUS
    <3>4. [h EXCEPT !.recent = p]
            = [total |-> x + 1, byModel |-> n, buckets |-> b, recent |-> p]
      OBVIOUS
    <3> HIDE DEF f, g, h
    <3>5. QED
      BY <3>1, <3>2, <3>3, <3>4
  <2>4. QED
    BY <2>2, <2>3
<1>7. ApplyAggregates(u, r, t)
        = [total |-> s.total + 1, byModel |-> n, buckets |-> b, recent |-> p]
  BY <1>5, <1>6
<1>8. [ApplyAggregates(s, r, t) EXCEPT !.recent = PushRecent(@, r)]
        = [total |-> s.total + 1, byModel |-> n, buckets |-> b, recent |-> p]
  <2>1. [s EXCEPT !.total = @ + 1, !.byModel = n, !.buckets = b].recent = s.recent
    BY DEF Inner
  <2>2. [ApplyAggregates(s, r, t) EXCEPT !.recent = PushRecent(@, r)]
          = [s EXCEPT !.total = @ + 1, !.byModel = n, !.buckets = b, !.recent = p]
    BY <1>1, <2>1 DEF Inner, p
  <2>3. QED
    BY <1>6, <2>2
<1>9. QED
  BY <1>7, <1>8 DEF Counted, n, b, p, u

LEMMA CountedRepresents ==
  ASSUME NEW s, NEW L, NEW t \in Nat, NEW r \in Record, r.ts <= t, Represents(s, L, t)
  PROVE  Represents(Counted(s, r, t), Append(L, r), t)
<1> DEFINE c == Cutoff(t, Retention)
           q == Placed(s.buckets, r)
           p == Trim(q, c)
           d == Counted(s, r, t)
<1>1. s \in Inner /\ s.total \in Nat /\ s.byModel \in [Models -> Nat]
      /\ s.buckets \in Seq(Bucket) /\ s.recent \in Seq(Record) /\ L \in Seq(Record)
  BY DEF Represents, Inner
<1>2. PushRecent(s.recent, r) \in Seq(Record)
      /\ Recents(PushRecent(s.recent, r), Append(L, r))
  BY <1>1, PushRecents DEF Represents
<1>3. c \in Nat
  BY StatsAssumption, CutoffIs
<1> HIDE DEF c
<1>4. q \in Seq(Bucket)
  BY <1>1, PlacedIs
<1>5. Faithful(q, Append(L, r), c)
  BY <1>1, <1>3, FaithfulPlaced DEF Represents, c
<1>6. OnGrid(q, t)
  BY <1>1, PlacedOnGrid DEF Represents
<1> HIDE DEF q
<1>7. p \in Seq(Bucket) /\ OnGrid(p, t) /\ Spread(p)
  BY <1>4, <1>5, <1>6, TrimSpreads DEF Faithful, c
<1>8. Append(L, r) \in Seq(Record)
  BY <1>1
<1>9. Faithful(p, Append(L, r), c)
  BY <1>3, <1>4, <1>5, <1>8, FaithfulTrimmed
<1>10. d.total = s.total + 1 /\ d.byModel = Increased(s.byModel, r.model)
       /\ d.buckets = p /\ d.recent = PushRecent(s.recent, r)
  BY DEF Counted, p, q, c
<1>11. Increased(s.byModel, r.model) \in [Models -> Nat]
  BY <1>1 DEF Increased, Record
<1> HIDE DEF p
<1>12. d \in Inner
  BY <1>1, <1>2, <1>7, <1>11 DEF Counted, Inner, p, q, c
<1> HIDE DEF d
<1>13. Faithful(d.buckets, Append(L, r), c) /\ Recents(d.recent, Append(L, r))
       /\ OnGrid(d.buckets, t) /\ Spread(d.buckets)
  BY <1>2, <1>7, <1>9, <1>10
<1>14. Represents(d, Append(L, r), t)
  BY <1>8, <1>12, <1>13 DEF Represents, c
<1>15. QED
  BY <1>14 DEF d

(* One more record, too old for the series. *)
LEMMA SkippedRepresents ==
  ASSUME NEW s, NEW L, NEW t \in Nat, NEW r \in Record,
         ~(r.ts >= Cutoff(t, Retention)), Represents(s, L, t)
  PROVE  Represents([s EXCEPT !.recent = PushRecent(@, r)], Append(L, r), t)
<1> DEFINE c == Cutoff(t, Retention)
           d == [s EXCEPT !.recent = PushRecent(@, r)]
<1>1. s \in Inner /\ s.buckets \in Seq(Bucket) /\ s.recent \in Seq(Record) /\ L \in Seq(Record)
  BY DEF Represents, Inner
<1>2. PushRecent(s.recent, r) \in Seq(Record)
      /\ Recents(PushRecent(s.recent, r), Append(L, r))
  BY <1>1, PushRecents DEF Represents
<1>3. c \in Nat
  BY StatsAssumption, CutoffIs
<1>4. MinuteOf(r.ts) < c
  <2>1. r.ts \in Nat /\ ~(r.ts >= c)
    BY DEF Record
  <2>2. MinuteOf(r.ts) \in Nat /\ MinuteOf(r.ts) <= r.ts
    BY <2>1, MinuteIs
  <2> HIDE DEF c
  <2>3. QED
    BY <1>3, <2>1, <2>2
<1>5. Faithful(s.buckets, Append(L, r), c)
  BY <1>1, <1>3, <1>4, FaithfulSkips DEF Represents
<1>6. d.buckets = s.buckets /\ d.recent = PushRecent(s.recent, r)
  BY <1>1 DEF Inner
<1>7. d \in Inner
  BY <1>1, <1>2 DEF Inner
<1>8. Append(L, r) \in Seq(Record)
  BY <1>1
<1> HIDE DEF d
<1>9. Faithful(d.buckets, Append(L, r), c) /\ Recents(d.recent, Append(L, r))
      /\ OnGrid(d.buckets, t) /\ Spread(d.buckets)
  BY <1>2, <1>5, <1>6 DEF Represents
<1>10. Represents(d, Append(L, r), t)
  BY <1>7, <1>8, <1>9 DEF Represents
<1>11. QED
  BY <1>10 DEF d

-----------------------------------------------------------------------------
(* The replay of a file and its records, as functions of the number of texts
   read. *)

ReplayStep(g, f, t, i) ==
  IF i = 0 THEN Default
  ELSE IF i \notin Readable(f) THEN g[i - 1]
       ELSE LET s == [g[i - 1] EXCEPT !.recent = PushRecent(@, f[i])]
            IN  IF f[i].ts >= Cutoff(t, Retention) THEN ApplyAggregates(s, f[i], t) ELSE s

IsReplay(g, f, t, n) == g = [i \in 0 .. n |-> ReplayStep(g, f, t, i)]

RecordsStep(u, f, i) ==
  IF i = 0 THEN <<>>
  ELSE IF i \in Readable(f) THEN Append(u[i - 1], f[i]) ELSE u[i - 1]

IsRecords(u, f, n) == u = [i \in 0 .. n |-> RecordsStep(u, f, i)]

After(f, t) == CHOOSE g : IsReplay(g, f, t, Len(f))
UpTo(f) == CHOOSE u : IsRecords(u, f, Len(f))

LEMMA ReplayExists ==
  ASSUME NEW f, NEW t, NEW m \in Nat
  PROVE  \E g : IsReplay(g, f, t, m)
<1> DEFINE S == {n \in Nat : \E g : IsReplay(g, f, t, n)}
<1>1. 0 \in S
  <2> DEFINE g == [i \in 0 .. 0 |-> Default]
  <2>1. \A i \in 0 .. 0 : ReplayStep(g, f, t, i) = Default
    BY DEF ReplayStep
  <2>2. IsReplay(g, f, t, 0)
    BY <2>1 DEF IsReplay
  <2>3. QED
    BY <2>2
<1>2. ASSUME NEW n \in Nat, n \in S PROVE n + 1 \in S
  <2>1. PICK g : IsReplay(g, f, t, n)
    BY <1>2
  <2> DEFINE h == [i \in 0 .. n + 1 |-> IF i <= n THEN g[i] ELSE ReplayStep(g, f, t, i)]
  <2>2. \A i \in 0 .. n : g[i] = ReplayStep(g, f, t, i)
    BY <2>1 DEF IsReplay
  <2>3. \A i \in 0 .. n + 1 : h[i] = ReplayStep(g, f, t, i)
    BY <2>2
  <2>4. \A i \in 0 .. n : h[i] = g[i]
    OBVIOUS
  <2>5. h = [i \in 0 .. n + 1 |-> h[i]]
    OBVIOUS
  <2> HIDE DEF h
  <2>6. ASSUME NEW i \in 0 .. n + 1 PROVE ReplayStep(g, f, t, i) = ReplayStep(h, f, t, i)
    <3>1. i > 0 => g[i - 1] = h[i - 1]
      BY <2>4
    <3>2. QED
      BY <3>1 DEF ReplayStep
  <2>7. h = [i \in 0 .. n + 1 |-> ReplayStep(h, f, t, i)]
    BY <2>3, <2>5, <2>6
  <2>8. IsReplay(h, f, t, n + 1)
    BY <2>7 DEF IsReplay
  <2>9. QED
    BY <2>8
<1>3. Nat \subseteq S
  <2> HIDE DEF S
  <2>1. QED
    BY <1>1, <1>2, SetInduction
<1>4. QED
  BY <1>3

LEMMA RecordsExist ==
  ASSUME NEW f, NEW m \in Nat
  PROVE  \E g : IsRecords(g, f, m)
<1> DEFINE S == {n \in Nat : \E g : IsRecords(g, f, n)}
<1>1. 0 \in S
  <2> DEFINE g == [i \in 0 .. 0 |-> <<>>]
  <2>1. \A i \in 0 .. 0 : RecordsStep(g, f, i) = <<>>
    BY DEF RecordsStep
  <2>2. IsRecords(g, f, 0)
    BY <2>1 DEF IsRecords
  <2>3. QED
    BY <2>2
<1>2. ASSUME NEW n \in Nat, n \in S PROVE n + 1 \in S
  <2>1. PICK g : IsRecords(g, f, n)
    BY <1>2
  <2> DEFINE h == [i \in 0 .. n + 1 |-> IF i <= n THEN g[i] ELSE RecordsStep(g, f, i)]
  <2>2. \A i \in 0 .. n : g[i] = RecordsStep(g, f, i)
    BY <2>1 DEF IsRecords
  <2>3. \A i \in 0 .. n + 1 : h[i] = RecordsStep(g, f, i)
    BY <2>2
  <2>4. \A i \in 0 .. n : h[i] = g[i]
    OBVIOUS
  <2>5. h = [i \in 0 .. n + 1 |-> h[i]]
    OBVIOUS
  <2> HIDE DEF h
  <2>6. ASSUME NEW i \in 0 .. n + 1 PROVE RecordsStep(g, f, i) = RecordsStep(h, f, i)
    <3>1. i > 0 => g[i - 1] = h[i - 1]
      BY <2>4
    <3>2. QED
      BY <3>1 DEF RecordsStep
  <2>7. h = [i \in 0 .. n + 1 |-> RecordsStep(h, f, i)]
    BY <2>3, <2>5, <2>6
  <2>8. IsRecords(h, f, n + 1)
    BY <2>7 DEF IsRecords
  <2>9. QED
    BY <2>8
<1>3. Nat \subseteq S
  <2> HIDE DEF S
  <2>1. QED
    BY <1>1, <1>2, SetInduction
<1>4. QED
  BY <1>3

LEMMA ReplayIs ==
  ASSUME NEW f \in Seq(Text), NEW t
  PROVE  /\ Replayed(f, t) = After(f, t)[Len(f)]
         /\ \A i \in 0 .. Len(f) : After(f, t)[i] = ReplayStep(After(f, t), f, t, i)
<1>1. Len(f) \in Nat
  OBVIOUS
<1>2. \E g : IsReplay(g, f, t, Len(f))
  BY <1>1, ReplayExists
<1> DEFINE g == After(f, t)
<1>3. IsReplay(g, f, t, Len(f))
  BY <1>2 DEF After
<1>4. Replayed(f, t) = g[Len(f)]
  BY Zenon DEF Replayed, After, IsReplay, ReplayStep
<1> HIDE DEF g
<1>5. \A i \in 0 .. Len(f) : g[i] = ReplayStep(g, f, t, i)
  BY <1>3 DEF IsReplay
<1>6. QED
  BY <1>4, <1>5 DEF g

LEMMA RecordsIs ==
  ASSUME NEW f \in Seq(Text)
  PROVE  /\ Records(f) = UpTo(f)[Len(f)]
         /\ IsRecords(UpTo(f), f, Len(f))
         /\ \A i \in 0 .. Len(f) : UpTo(f)[i] = RecordsStep(UpTo(f), f, i)
<1>1. Len(f) \in Nat
  OBVIOUS
<1>2. \E u : IsRecords(u, f, Len(f))
  BY <1>1, RecordsExist
<1> DEFINE u == UpTo(f)
<1>3. IsRecords(u, f, Len(f))
  BY <1>2 DEF UpTo
<1>4. Records(f) = u[Len(f)]
  BY Zenon DEF Records, UpTo, IsRecords, RecordsStep
<1> HIDE DEF u
<1>5. \A i \in 0 .. Len(f) : u[i] = RecordsStep(u, f, i)
  BY <1>3 DEF IsRecords
<1>6. QED
  BY <1>3, <1>4, <1>5 DEF u

LEMMA ReplayRepresents ==
  ASSUME NEW f \in Seq(Text), NEW t \in Nat,
         \A i \in DOMAIN f : f[i] # NewLine => f[i].ts <= t
  PROVE  Represents(Replayed(f, t), Records(f), t)
<1> DEFINE g == After(f, t)
           u == UpTo(f)
           S == {i \in Nat : i <= Len(f) => Represents(g[i], u[i], t)}
<1>0. Len(f) \in Nat
  OBVIOUS
<1>1. (\A i \in 0 .. Len(f) : g[i] = ReplayStep(g, f, t, i)) /\ Replayed(f, t) = g[Len(f)]
  BY ReplayIs
<1>2. (\A i \in 0 .. Len(f) : u[i] = RecordsStep(u, f, i)) /\ Records(f) = u[Len(f)]
  BY RecordsIs
<1> HIDE DEF g, u
<1>3. 0 \in S
  <2>0. g[0] = ReplayStep(g, f, t, 0) /\ u[0] = RecordsStep(u, f, 0)
    BY <1>0, <1>1, <1>2
  <2>1. g[0] = Default /\ u[0] = <<>>
    BY <2>0, Zenon DEF ReplayStep, RecordsStep
  <2>2. QED
    BY <2>1, DefaultRepresents
<1>4. ASSUME NEW n \in Nat, n \in S PROVE n + 1 \in S
  <2> SUFFICES ASSUME n + 1 <= Len(f) PROVE Represents(g[n + 1], u[n + 1], t)
    OBVIOUS
  <2> DEFINE i == n + 1
  <2>1. i \in 0 .. Len(f) /\ i # 0 /\ i - 1 = n /\ i \in DOMAIN f
    BY <1>0
  <2>2. Represents(g[n], u[n], t)
    BY <1>0, <1>4
  <2> HIDE DEF i
  <2>3. CASE i \notin Readable(f)
    <3>1. g[i] = g[n] /\ u[i] = u[n]
      BY <1>1, <1>2, <2>1, <2>3 DEF ReplayStep, RecordsStep
    <3>2. QED
      BY <2>2, <3>1 DEF i
  <2>4. CASE i \in Readable(f)
    <3> DEFINE r == f[i]
               s == [g[n] EXCEPT !.recent = PushRecent(@, r)]
    <3>1. r \in Record /\ r.ts <= t
      BY <2>1, <2>4 DEF Readable, Text
    <3>2. u[i] = Append(u[n], r)
      BY <1>2, <2>1, <2>4 DEF RecordsStep
    <3>3. g[i] = IF r.ts >= Cutoff(t, Retention) THEN ApplyAggregates(s, r, t) ELSE s
      BY <1>1, <2>1, <2>4 DEF ReplayStep
    <3> HIDE DEF r
    <3>4. CASE r.ts >= Cutoff(t, Retention)
      <4>1. g[n] \in Inner
        BY <2>2 DEF Represents
      <4>2. g[i] = Counted(g[n], r, t)
        BY <3>1, <3>3, <3>4, <4>1, CountedIs
      <4>3. QED
        BY <2>2, <3>1, <3>2, <4>2, CountedRepresents DEF i
    <3>5. CASE ~(r.ts >= Cutoff(t, Retention))
      <4>1. g[i] = s
        BY <3>3, <3>5
      <4>2. Represents(s, Append(u[n], r), t)
        BY <2>2, <3>1, <3>5, SkippedRepresents
      <4>3. QED
        BY <3>2, <4>1, <4>2 DEF i
    <3>6. QED
      BY <3>4, <3>5
  <2>5. QED
    BY <2>3, <2>4
<1>5. Nat \subseteq S
  <2> HIDE DEF S
  <2>1. QED
    BY <1>3, <1>4, SetInduction
<1>6. QED
  BY <1>0, <1>1, <1>2, <1>5

AgreeUpTo(f, e, k) ==
  \A i \in 1 .. k : (i \in Readable(f) <=> i \in Readable(e)) /\ f[i] = e[i]

LEMMA RecordsAgree ==
  ASSUME NEW f, NEW e, NEW u, NEW v, NEW m \in Nat, NEW n \in Nat,
         IsRecords(u, f, m), IsRecords(v, e, n),
         NEW k \in Nat, k <= m, k <= n, AgreeUpTo(f, e, k)
  PROVE  u[k] = v[k]
<1> DEFINE S == {i \in Nat : i <= k => u[i] = v[i]}
<1>0. /\ \A i \in 0 .. m : u[i] = RecordsStep(u, f, i)
      /\ \A i \in 0 .. n : v[i] = RecordsStep(v, e, i)
  BY DEF IsRecords
<1>1. 0 \in S
  <2>1. u[0] = <<>> /\ v[0] = <<>>
    BY <1>0 DEF RecordsStep
  <2>2. QED
    BY <2>1
<1>2. ASSUME NEW i \in Nat, i \in S PROVE i + 1 \in S
  <2> SUFFICES ASSUME i + 1 <= k PROVE u[i + 1] = v[i + 1]
    OBVIOUS
  <2>1. i + 1 \in 0 .. m /\ i + 1 \in 0 .. n /\ i + 1 \in 1 .. k /\ (i + 1) - 1 = i /\ i + 1 # 0
    OBVIOUS
  <2>2. u[i] = v[i]
    BY <1>2
  <2>3. u[i + 1] = IF i + 1 \in Readable(f) THEN Append(u[i], f[i + 1]) ELSE u[i]
    BY <1>0, <2>1 DEF RecordsStep
  <2>4. v[i + 1] = IF i + 1 \in Readable(e) THEN Append(v[i], e[i + 1]) ELSE v[i]
    BY <1>0, <2>1 DEF RecordsStep
  <2>5. QED
    BY <2>1, <2>2, <2>3, <2>4 DEF AgreeUpTo
<1>3. Nat \subseteq S
  <2> HIDE DEF S
  <2>1. QED
    BY <1>1, <1>2, SetInduction
<1>4. QED
  BY <1>3

Ended(f) == f = <<>> \/ f[Len(f)] = NewLine

(* A text that starts a line of its own is the last record, *)
LEMMA RecordsText ==
  ASSUME NEW f \in Seq(Text), Ended(f), NEW r \in Record
  PROVE  Records(Append(f, r)) = Append(Records(f), r)
<1> DEFINE e == Append(f, r)
           n == Len(f)
<1>1. e \in Seq(Text) /\ Len(e) = n + 1 /\ n \in Nat /\ e[n + 1] = r
      /\ \A i \in 1 .. n : e[i] = f[i]
  <2>1. r \in Text
    BY DEF Text
  <2>2. QED
    BY <2>1
<1>a. f # <<>> => n # 0
  OBVIOUS
<1> HIDE DEF e
<1>2. n + 1 \in Readable(e)
  BY <1>1, <1>a, NewLineAssumption DEF Readable, Ended
<1>3. \A i \in 1 .. n : i \in Readable(f) <=> i \in Readable(e)
  BY <1>1, <1>a DEF Readable, Ended
<1>4. UpTo(e)[n] = UpTo(f)[n]
  <2>1. IsRecords(UpTo(e), e, n + 1) /\ IsRecords(UpTo(f), f, n)
    BY <1>1, RecordsIs
  <2>2. AgreeUpTo(e, f, n)
    BY <1>1, <1>3 DEF AgreeUpTo
  <2>3. n \in Nat /\ n + 1 \in Nat /\ n <= n + 1 /\ n <= n
    BY <1>1
  <2> HIDE DEF n
  <2>4. QED
    BY <2>1, <2>2, <2>3, RecordsAgree, SMTT(30)
<1>5. UpTo(e)[n + 1] = Append(UpTo(e)[n], r)
  <2>1. n + 1 \in 0 .. n + 1 /\ (n + 1) - 1 = n /\ n + 1 # 0
    BY <1>1
  <2>2. UpTo(e)[n + 1] = RecordsStep(UpTo(e), e, n + 1)
    BY <1>1, <2>1, RecordsIs
  <2> HIDE DEF n
  <2>3. QED
    BY <1>1, <1>2, <2>1, <2>2 DEF RecordsStep
<1>6. QED
  BY <1>1, <1>4, <1>5, RecordsIs DEF e

(* and the end of a line is none. *)
LEMMA RecordsNewLine ==
  ASSUME NEW f \in Seq(Text)
  PROVE  Records(Append(f, NewLine)) = Records(f)
<1> DEFINE e == Append(f, NewLine)
           n == Len(f)
<1>1. e \in Seq(Text) /\ Len(e) = n + 1 /\ n \in Nat /\ e[n + 1] = NewLine
      /\ \A i \in 1 .. n : e[i] = f[i]
  <2>1. NewLine \in Text
    BY DEF Text
  <2>2. QED
    BY <2>1
<1> HIDE DEF e
<1>2. n + 1 \notin Readable(e)
  BY <1>1 DEF Readable
<1>3. \A i \in 1 .. n : i \in Readable(f) <=> i \in Readable(e)
  BY <1>1 DEF Readable
<1>4. UpTo(e)[n] = UpTo(f)[n]
  <2>1. IsRecords(UpTo(e), e, n + 1) /\ IsRecords(UpTo(f), f, n)
    BY <1>1, RecordsIs
  <2>2. AgreeUpTo(e, f, n)
    BY <1>1, <1>3 DEF AgreeUpTo
  <2>3. n \in Nat /\ n + 1 \in Nat /\ n <= n + 1 /\ n <= n
    BY <1>1
  <2> HIDE DEF n
  <2>4. QED
    BY <2>1, <2>2, <2>3, RecordsAgree, SMTT(30)
<1>5. UpTo(e)[n + 1] = UpTo(e)[n]
  <2>1. n + 1 \in 0 .. n + 1 /\ (n + 1) - 1 = n /\ n + 1 # 0
    BY <1>1
  <2>2. UpTo(e)[n + 1] = RecordsStep(UpTo(e), e, n + 1)
    BY <1>1, <2>1, RecordsIs
  <2> HIDE DEF n
  <2>3. QED
    BY <1>1, <1>2, <2>1, <2>2 DEF RecordsStep
<1>6. QED
  BY <1>1, <1>4, <1>5, RecordsIs DEF e

LEMMA RecordsEmpty == Records(<<>>) = <<>>
<1>1. <<>> \in Seq(Text) /\ Len(<<>>) = 0 /\ 0 \in 0 .. 0
  OBVIOUS
<1>2. Records(<<>>) = UpTo(<<>>)[0] /\ UpTo(<<>>)[0] = RecordsStep(UpTo(<<>>), <<>>, 0)
  BY <1>1, RecordsIs
<1>3. RecordsStep(UpTo(<<>>), <<>>, 0) = <<>>
  BY Zenon DEF RecordsStep
<1>4. QED
  BY <1>2, <1>3

-----------------------------------------------------------------------------
(* What a window shows of statistics that represent a log. *)

Shown(L, c) == {i \in DOMAIN L : MinuteOf(L[i].ts) >= c /\ ~LateIn(L, i)}

LEMMA WindowExact ==
  ASSUME NEW s, NEW L, NEW t \in Nat, Represents(s, L, t), NEW range \in 0 .. Retention
  PROVE  LET shown == Shown(L, Cutoff(t, range)) IN
         /\ Requests(s, range, t) = Cardinality(shown)
         /\ \A m \in Models :
              RequestsOf(m, s, range, t) = Cardinality({i \in shown : L[i].model = m})
<1> DEFINE q == s.buckets
           c == Cutoff(t, range)
           low == Cutoff(t, Retention)
           W == Shown(L, c)
           I == InWindow(s, range, t)
           home == [x \in W |-> CHOOSE k \in I : q[k].minute = MinuteOf(L[x].ts)]
<1>1. s \in Inner /\ q \in Seq(Bucket) /\ L \in Seq(Record) /\ Faithful(q, L, low)
  BY DEF Represents, Inner
<1>2. c \in Nat /\ low \in Nat /\ low <= c
  BY CutoffIs, StatsAssumption
<1>3. \A k \in DOMAIN q : q[k].minute \in Nat
  BY <1>1, BucketMinutes
<1>4. \A i \in DOMAIN L : MinuteOf(L[i].ts) \in Nat
  BY <1>1, MinutesOf
<1>5. I = {k \in DOMAIN q : q[k].minute >= c}
  BY DEF InWindow
<1>6. IsFiniteSet(I) /\ IsFiniteSet(W) /\ \A m : IsFiniteSet({i \in W : L[i].model = m})
  <2>1. DOMAIN q = 1 .. Len(q) /\ Len(q) \in Nat /\ DOMAIN L = 1 .. Len(L) /\ Len(L) \in Nat
    BY <1>1
  <2>2. \A n \in Nat : IsFiniteSet(1 .. n)
    BY FS_Interval
  <2>a. IsFiniteSet(DOMAIN q) /\ IsFiniteSet(DOMAIN L)
    BY <2>1, <2>2, Zenon
  <2>3. I \in SUBSET DOMAIN q /\ W \in SUBSET DOMAIN L
        /\ \A m : {i \in W : L[i].model = m} \in SUBSET DOMAIN L
    BY <1>5 DEF Shown
  <2>4. QED
    BY <2>a, <2>3, FS_Subset
<1> HIDE DEF q, c, low, I
<1>7. \A x \in W : \E k \in I : q[k].minute = MinuteOf(L[x].ts)
  <2> SUFFICES ASSUME NEW x \in W PROVE \E k \in I : q[k].minute = MinuteOf(L[x].ts)
    OBVIOUS
  <2>1. x \in DOMAIN L /\ MinuteOf(L[x].ts) >= c /\ ~LateIn(L, x)
    BY DEF Shown
  <2>2. MinuteOf(L[x].ts) >= low
    BY <1>2, <1>4, <2>1
  <2>3. \E k \in DOMAIN q : q[k].minute = MinuteOf(L[x].ts)
    BY <1>1, <2>1, <2>2 DEF Faithful, Covers
  <2>4. QED
    BY <1>5, <2>1, <2>3
<1> HIDE DEF W
<1>8. \A x \in W : home[x] \in I /\ q[home[x]].minute = MinuteOf(L[x].ts)
  BY <1>7
<1>9. home \in [W -> I]
  BY <1>8
<1> HIDE DEF home
<1>10. \A j, k \in I : q[j].minute = q[k].minute => j = k
  <2> SUFFICES ASSUME NEW j \in I, NEW k \in I, q[j].minute = q[k].minute, j # k PROVE FALSE
    OBVIOUS
  <2>1. j \in DOMAIN q /\ k \in DOMAIN q /\ q[j].minute \in Nat /\ q[k].minute \in Nat
    BY <1>3, <1>5
  <2>2. j < k \/ k < j
    BY <1>1, <2>1
  <2>3. QED
    BY <1>1, <2>1, <2>2 DEF Faithful, Ordered
<1>11. ASSUME NEW i \in I PROVE {x \in W : home[x] = i} = Of(L, q[i].minute)
  <2>1. i \in DOMAIN q /\ q[i].minute >= c
    BY <1>5
  <2>2. \A x \in W : home[x] = i <=> q[i].minute = MinuteOf(L[x].ts)
    BY <1>8, <1>10
  <2>3. \A x \in Of(L, q[i].minute) : x \in W
    BY <2>1 DEF W, Shown, Of
  <2>4. \A x \in Of(L, q[i].minute) : MinuteOf(L[x].ts) = q[i].minute
    BY DEF Of
  <2>5. \A x \in W : MinuteOf(L[x].ts) = q[i].minute => x \in Of(L, q[i].minute)
    BY DEF W, Shown, Of
  <2>6. QED
    BY <2>2, <2>3, <2>4, <2>5
<1>12. \A i \in I : i \in DOMAIN q /\ Tallied(q[i], L)
  <2>1. \A i \in I : i \in DOMAIN q /\ q[i].minute >= low
    BY <1>2, <1>3, <1>5
  <2>2. QED
    BY <1>1, <2>1 DEF Faithful, Holds
<1>13. Requests(s, range, t) = Cardinality(W)
  <2> DEFINE f == [i \in DOMAIN q |-> q[i].requests]
  <2>1. \A i \in I : f[i] = Cardinality({x \in W : home[x] = i})
    BY <1>11, <1>12 DEF Tallied
  <2> HIDE DEF f
  <2>2. SumFunctionOnSet(f, I) = Cardinality(W)
    BY <1>6, <1>9, <2>1, SumCounts
  <2>3. QED
    BY <2>2 DEF Requests, f, q, I
<1>14. ASSUME NEW m \in Models
       PROVE  RequestsOf(m, s, range, t) = Cardinality({i \in W : L[i].model = m})
  <2> DEFINE f == [i \in DOMAIN q |-> q[i].byModel[m]]
             V == {i \in W : L[i].model = m}
             d == [x \in V |-> home[x]]
  <2>1. d \in [V -> I]
    BY <1>9
  <2>2. \A i \in I : {x \in V : d[x] = i} = OfModel(L, q[i].minute, m)
    <3> SUFFICES ASSUME NEW i \in I
                 PROVE  {x \in V : d[x] = i} = OfModel(L, q[i].minute, m)
      OBVIOUS
    <3>1. {x \in V : d[x] = i} = {x \in {y \in W : home[y] = i} : L[x].model = m}
      OBVIOUS
    <3>2. QED
      BY <1>11, <3>1 DEF OfModel
  <2>3. \A i \in I : f[i] = Cardinality({x \in V : d[x] = i})
    BY <1>12, <2>2 DEF Tallied
  <2>4. IsFiniteSet(V)
    BY <1>6
  <2> HIDE DEF f, V, d
  <2>5. SumFunctionOnSet(f, I) = Cardinality(V)
    BY <1>6, <2>1, <2>3, <2>4, SumCounts
  <2>6. QED
    BY <2>5 DEF RequestsOf, f, V, q, I
<1>15. QED
  BY <1>13, <1>14 DEF W, c

-----------------------------------------------------------------------------
(* One bucket for each minute of the retention. *)

LEMMA StepsOfGrid ==
  ASSUME NEW a \in Nat, NEW b \in Nat, a * Minute < b * Minute
  PROVE  a + 1 <= b
<1>1. Minute \in Nat /\ Minute > 0
  BY StatsAssumption
<1>2. CASE b <= a
  <2>1. b * Minute <= a * Minute
    BY <1>1, <1>2, Z3
  <2>2. a * Minute \in Nat /\ b * Minute \in Nat
    BY <1>1, Z3
  <2>3. QED
    BY <2>1, <2>2
<1>3. QED
  BY <1>2

LEMMA GridWithin ==
  ASSUME NEW a \in Nat, NEW b \in Nat, a <= b, b * Minute <= a * Minute + Retention
  PROVE  b - a <= Retention \div Minute
<1>1. Minute \in Nat /\ Minute > 0 /\ Retention \in Nat
  BY StatsAssumption
<1> DEFINE n == Retention \div Minute
           e == Retention % Minute
<1>2. n \in Nat /\ e \in 0 .. Minute - 1
  BY <1>1
<1>3. Retention = Minute * n + e
  BY <1>1, Division
<1> HIDE DEF n, e
<1>4. (b - a) * Minute <= Retention
  BY <1>1, Z3
<1>5. CASE b - a >= n + 1
  <2>1. (b - a) * Minute >= (n + 1) * Minute
    BY <1>1, <1>2, <1>5, Z3
  <2>2. (n + 1) * Minute = Minute * n + Minute
    BY <1>1, <1>2, Z3
  <2> DEFINE x == (b - a) * Minute
             y == Minute * n
  <2>3. x \in Int /\ y \in Int
    BY <1>1, <1>2, Z3
  <2>4. x >= y + Minute /\ x <= y + e
    BY <1>3, <1>4, <2>1, <2>2
  <2> HIDE DEF x, y
  <2>5. QED
    BY <1>1, <1>2, <2>3, <2>4
<1>6. QED
  BY <1>2, <1>5 DEF n

LEMMA SeriesBounded ==
  ASSUME NEW q \in Seq(Bucket), NEW t \in Nat, Ordered(q), OnGrid(q, t), Spread(q)
  PROVE  Len(q) <= Retention \div Minute + 1
<1>0. Len(q) \in Nat /\ DOMAIN q = 1 .. Len(q) /\ Retention \div Minute \in Nat
  BY StatsAssumption
<1> SUFFICES ASSUME Len(q) >= 1 PROVE Len(q) <= Retention \div Minute + 1
  BY <1>0
<1> DEFINE n == [k \in DOMAIN q |-> CHOOSE i \in Nat : q[k].minute = i * Minute]
<1>1. \A k \in DOMAIN q : n[k] \in Nat /\ q[k].minute = n[k] * Minute
  BY DEF OnGrid
<1> HIDE DEF n
<1>2. ASSUME NEW j \in DOMAIN q, NEW k \in DOMAIN q, j < k PROVE n[j] + 1 <= n[k]
  <2>1. n[j] * Minute < n[k] * Minute
    BY <1>1, <1>2 DEF Ordered
  <2>2. QED
    BY <1>1, <2>1, StepsOfGrid
<1> DEFINE S == {i \in Nat : i + 1 <= Len(q) => n[1] + i <= n[i + 1]}
<1>3. 0 \in S
  BY <1>0, <1>1
<1>4. ASSUME NEW i \in Nat, i \in S PROVE i + 1 \in S
  <2> SUFFICES ASSUME (i + 1) + 1 <= Len(q) PROVE n[1] + (i + 1) <= n[(i + 1) + 1]
    OBVIOUS
  <2>1. 1 \in DOMAIN q /\ i + 1 \in DOMAIN q /\ (i + 1) + 1 \in DOMAIN q /\ i + 1 < (i + 1) + 1
    BY <1>0
  <2>2. n[1] + i <= n[i + 1]
    BY <1>0, <1>4
  <2>3. n[i + 1] + 1 <= n[(i + 1) + 1]
    BY <1>2, <2>1
  <2>4. n[1] \in Nat /\ n[i + 1] \in Nat /\ n[(i + 1) + 1] \in Nat
    BY <1>1, <2>1
  <2>5. QED
    BY <2>2, <2>3, <2>4
<1>5. Nat \subseteq S
  <2> HIDE DEF S
  <2>1. QED
    BY <1>3, <1>4, SetInduction
<1> DEFINE h == Len(q)
<1>6. h \in Nat /\ h - 1 \in Nat /\ (h - 1) + 1 = h /\ h \in DOMAIN q /\ 1 \in DOMAIN q
  BY <1>0
<1>7. n[1] + (h - 1) <= n[h]
  BY <1>5, <1>6
<1>8. n[1] \in Nat /\ n[h] \in Nat /\ q[1].minute = n[1] * Minute /\ q[h].minute = n[h] * Minute
  BY <1>1, <1>6
<1>9. n[h] * Minute <= n[1] * Minute + Retention
  BY <1>6, <1>8 DEF Spread
<1> HIDE DEF h
<1>10. n[1] <= n[h]
  BY <1>6, <1>7, <1>8
<1>11. n[h] - n[1] <= Retention \div Minute
  BY <1>8, <1>9, <1>10, GridWithin
<1>12. h <= Retention \div Minute + 1
  <2> DEFINE w == Retention \div Minute
  <2>1. w \in Nat /\ n[h] - n[1] <= w
    BY <1>0, <1>11
  <2> HIDE DEF w
  <2>2. h <= w + 1
    BY <1>6, <1>7, <1>8, <2>1
  <2>3. QED
    BY <2>2 DEF w
<1>13. QED
  BY <1>12 DEF h

-----------------------------------------------------------------------------
(* The inductive invariant: the memory represents the log, and no time lies in
   the future. *)

AllPast(f) == \A i \in DOMAIN f : f[i] # NewLine => f[i].ts <= now

Past ==
  /\ \A t \in Tasks : stamped[t] # NoRecord => stamped[t].ts <= now
  /\ \A t \in Tasks : AllPast(pending[t])
  /\ AllPast(file)

Inv == TypeOK /\ Represents(inner, log, now) /\ Past

LEMMA InitInv == Init => Inv
<1> SUFFICES ASSUME Init PROVE Inv
  OBVIOUS
<1>1. Represents(inner, log, now)
  BY DefaultRepresents DEF Init
<1>2. Default \in Inner /\ Default.recent = <<>>
  BY DEF Default, Inner, None
<1>3. inner = Default
  BY DEF Init
<1>4. inner \in Inner /\ Len(inner.recent) <= RingSize
  BY <1>2, <1>3, StatsAssumption
<1>5. file \in Seq(Text) /\ log \in Seq(Record) /\ pending \in [Tasks -> Seq(Text)]
      /\ stamped \in [Tasks -> Record \cup {NoRecord}]
      /\ DOMAIN file = {} /\ \A t \in Tasks : DOMAIN pending[t] = {}
  BY DEF Init
<1>6. TypeOK
  BY <1>4, <1>5 DEF Init, TypeOK
<1>7. Past
  BY <1>5 DEF Init, Past, AllPast
<1>8. QED
  BY <1>1, <1>6, <1>7 DEF Inv

LEMMA WritesPast ==
  ASSUME NEW f \in Seq(Text), NEW x \in Text, AllPast(f), x # NewLine => x.ts <= now
  PROVE  Append(f, x) \in Seq(Text) /\ AllPast(Append(f, x))
<1>1. /\ Append(f, x) \in Seq(Text)
      /\ DOMAIN Append(f, x) = DOMAIN f \cup {Len(f) + 1}
      /\ Append(f, x)[Len(f) + 1] = x
      /\ \A k \in DOMAIN f : Append(f, x)[k] = f[k]
  BY Appended
<1>2. QED
  BY <1>1 DEF AllPast

LEMMA LeftPast ==
  ASSUME NEW f \in Seq(Text), f # <<>>, AllPast(f)
  PROVE  /\ Head(f) \in Text /\ Tail(f) \in Seq(Text) /\ AllPast(Tail(f))
         /\ Head(f) # NewLine => Head(f).ts <= now
<1>1. Head(f) = f[1] /\ 1 \in DOMAIN f /\ Head(f) \in Text /\ Tail(f) \in Seq(Text)
  OBVIOUS
<1>2. \A i \in DOMAIN Tail(f) : i + 1 \in DOMAIN f /\ Tail(f)[i] = f[i + 1]
  OBVIOUS
<1>3. QED
  BY <1>1, <1>2 DEF AllPast

LEMMA TickInv ==
  ASSUME Inv, Tick
  PROVE  Inv'
<1>1. now \in Nat /\ now' = now + 1 /\ now' \in Nat /\ now <= now'
  BY DEF Inv, TypeOK, Tick
<1>2. UNCHANGED <<inner, file, stamped, pending, truncating, phase,
                  records, clears, faults, log, clean>>
  BY DEF Tick
<1>3. Represents(inner, log, now')
  BY <1>1, RepresentsLater DEF Inv
<1>4. Represents(inner, log, now)'
  BY <1>2, <1>3
<1>5. TypeOK'
  BY <1>1, <1>2 DEF Inv, TypeOK
<1>6. \A x \in Nat : x <= now => x <= now'
  BY <1>1
<1>7. \A r \in Record : r.ts \in Nat
  BY DEF Record
<1>8. \A t \in Tasks : stamped[t] # NoRecord => stamped[t] \in Record
  BY DEF Inv, TypeOK
<1>9. /\ \A i \in DOMAIN file : file[i] # NewLine => file[i] \in Record
      /\ \A t \in Tasks : \A i \in DOMAIN pending[t] :
           pending[t][i] # NewLine => pending[t][i] \in Record
  <2>1. \A f \in Seq(Text) : \A i \in DOMAIN f : f[i] # NewLine => f[i] \in Record
    BY DEF Text
  <2>2. file \in Seq(Text) /\ \A t \in Tasks : pending[t] \in Seq(Text)
    BY DEF Inv, TypeOK
  <2>3. QED
    BY <2>1, <2>2
<1>10. Past'
  BY <1>2, <1>6, <1>7, <1>8, <1>9 DEF Inv, Past, AllPast
<1>11. QED
  BY <1>4, <1>5, <1>10 DEF Inv

LEMMA CountInv ==
  ASSUME Inv, NEW t \in Tasks, Count(t)
  PROVE  Inv'
<1> DEFINE r == [stamped[t] EXCEPT !.era = clears]
<1>1. r \in Record /\ r.ts <= now /\ r \in Text
  <2>1. stamped[t] \in Record /\ stamped[t].ts <= now /\ clears \in Nat
    BY DEF Inv, TypeOK, Past, Count
  <2>2. QED
    BY <2>1 DEF Record, Text
<1>2. inner \in Inner /\ now \in Nat /\ Represents(inner, log, now)
  BY DEF Inv, TypeOK
<1>3. /\ inner' = [ApplyAggregates(inner, r, now) EXCEPT !.recent = PushRecent(@, r)]
      /\ pending' = [pending EXCEPT ![t] = <<r, NewLine>>]
      /\ log' = Append(log, r)
      /\ stamped' = [stamped EXCEPT ![t] = NoRecord]
      /\ clean' = (clean /\ Quiet)
      /\ UNCHANGED <<now, file, truncating, phase, records, clears, faults>>
  BY Zenon DEF Count
<1> HIDE DEF r
<1>4. Represents(inner, log, now)'
  <2>1. inner' = Counted(inner, r, now)
    BY <1>1, <1>2, <1>3, CountedIs
  <2>2. Represents(Counted(inner, r, now), Append(log, r), now)
    BY <1>1, <1>2, CountedRepresents
  <2>3. QED
    BY <1>3, <2>1, <2>2
<1>5. inner' \in Inner /\ Len(inner'.recent) <= RingSize /\ log' \in Seq(Record)
  BY <1>4 DEF Represents, Recents
<1>6. <<r, NewLine>> \in Seq(Text) /\ \A i \in DOMAIN <<r, NewLine>> :
         <<r, NewLine>>[i] # NewLine => <<r, NewLine>>[i].ts <= now
  BY <1>1 DEF Text
<1>7. clean' \in BOOLEAN
  BY <1>3
<1>8. TypeOK'
  BY <1>3, <1>5, <1>6, <1>7 DEF Inv, TypeOK
<1> DEFINE w == <<r, NewLine>>
<1> HIDE DEF w
<1>9. Past'
  <2>1. pending \in [Tasks -> Seq(Text)] /\ stamped \in [Tasks -> Record \cup {NoRecord}]
    BY DEF Inv, TypeOK
  <2>2. \A u \in Tasks : pending'[u] = IF u = t THEN w ELSE pending[u]
    BY <1>3, <2>1 DEF w
  <2>3. \A u \in Tasks : stamped'[u] = IF u = t THEN NoRecord ELSE stamped[u]
    BY <1>3, <2>1
  <2>4. \A i \in DOMAIN w : w[i] # NewLine => w[i].ts <= now
    BY <1>6 DEF w
  <2>5. QED
    BY <1>3, <2>2, <2>3, <2>4 DEF Inv, Past, AllPast
<1>10. QED
  BY <1>4, <1>8, <1>9 DEF Inv

LEMMA StartInv ==
  ASSUME Inv, Start
  PROVE  Inv'
<1>1. /\ inner' = Replayed(file, now) /\ log' = Records(file) /\ phase' = "up"
      /\ UNCHANGED <<now, file, stamped, pending, truncating, records, clears, faults, clean>>
  BY DEF Start
<1>2. file \in Seq(Text) /\ now \in Nat /\ AllPast(file)
  BY DEF Inv, TypeOK, Past
<1>3. Represents(Replayed(file, now), Records(file), now)
  BY <1>2, ReplayRepresents DEF AllPast
<1>4. Represents(inner, log, now)'
  BY <1>1, <1>3
<1>5. inner' \in Inner /\ Len(inner'.recent) <= RingSize /\ log' \in Seq(Record)
  BY <1>4 DEF Represents, Recents
<1>6. TypeOK'
  BY <1>1, <1>5 DEF Inv, TypeOK
<1>7. Past'
  BY <1>1 DEF Inv, Past, AllPast
<1>8. QED
  BY <1>4, <1>6, <1>7 DEF Inv

(* Reset: what a clear and a crash leave in memory. *)
LEMMA ResetInv ==
  ASSUME Inv, inner' = Default, log' = <<>>, now' = now
  PROVE  /\ Represents(inner, log, now)'
         /\ inner' \in Inner /\ Len(inner'.recent) <= RingSize /\ log' \in Seq(Record)
<1>1. now \in Nat
  BY DEF Inv, TypeOK
<1>2. Represents(Default, <<>>, now)
  BY <1>1, DefaultRepresents
<1>3. Represents(inner, log, now)'
  BY <1>2
<1>4. QED
  BY <1>3 DEF Represents, Recents

LEMMA StepInv == Inv /\ [Next]_vars => Inv'
<1> SUFFICES ASSUME Inv, [Next]_vars PROVE Inv'
  OBVIOUS
<1>0. TypeOK /\ Past /\ Represents(inner, log, now)
  BY DEF Inv
<1>1. CASE Tick
  BY <1>1, TickInv
<1>2. ASSUME NEW t \in Tasks, NEW m \in Models, Stamp(t, m) PROVE Inv'
  <2>1. UNCHANGED <<now, inner, file, pending, truncating, phase, clears, faults, log, clean>>
    BY <1>2 DEF Stamp
  <2> DEFINE r == [ts |-> now, model |-> m, era |-> clears]
  <2>2. stamped' = [stamped EXCEPT ![t] = r] /\ records' = records + 1
    BY <1>2 DEF Stamp
  <2>3. r \in Record /\ r.ts <= now
    BY <1>0 DEF TypeOK, Record
  <2> HIDE DEF r
  <2>4. TypeOK'
    BY <1>0, <2>1, <2>2, <2>3 DEF TypeOK
  <2>5. \A u \in Tasks : stamped'[u] = IF u = t THEN r ELSE stamped[u]
    BY <1>0, <2>2 DEF TypeOK
  <2>6. Past'
    BY <1>0, <2>1, <2>3, <2>5 DEF Past, AllPast
  <2>7. QED
    BY <1>0, <2>1, <2>4, <2>6 DEF Inv
<1>3. ASSUME NEW t \in Tasks, Count(t) PROVE Inv'
  BY <1>3, CountInv
<1>4. ASSUME NEW t \in Tasks, Write(t) PROVE Inv'
  <2>1. UNCHANGED <<now, inner, stamped, truncating, phase, records, clears, faults, log, clean>>
        /\ pending[t] # <<>> /\ file' = Append(file, Head(pending[t]))
        /\ pending' = [pending EXCEPT ![t] = Tail(pending[t])]
    BY <1>4, Zenon DEF Write
  <2>2. file \in Seq(Text) /\ pending \in [Tasks -> Seq(Text)]
        /\ AllPast(file) /\ AllPast(pending[t])
    BY <1>0 DEF TypeOK, Past
  <2>3. /\ Head(pending[t]) \in Text /\ Tail(pending[t]) \in Seq(Text)
        /\ AllPast(Tail(pending[t]))
        /\ Head(pending[t]) # NewLine => Head(pending[t]).ts <= now
    BY <2>1, <2>2, LeftPast
  <2>4. file' \in Seq(Text) /\ AllPast(file')
    BY <2>1, <2>2, <2>3, WritesPast
  <2>5. TypeOK'
    BY <1>0, <2>1, <2>2, <2>3, <2>4 DEF TypeOK
  <2>6. \A u \in Tasks : pending'[u] = IF u = t THEN Tail(pending[t]) ELSE pending[u]
    BY <2>1, <2>2
  <2>7. Past'
    BY <1>0, <2>1, <2>3, <2>4, <2>6 DEF Past, AllPast
  <2>8. QED
    BY <1>0, <2>1, <2>5, <2>7 DEF Inv
<1>5. ASSUME NEW t \in Tasks, WriteFails(t) PROVE Inv'
  <2>1. UNCHANGED <<now, inner, file, stamped, truncating, phase, records, clears, log>>
        /\ pending' = [pending EXCEPT ![t] = <<>>] /\ faults' = faults + 1 /\ clean' = FALSE
    BY <1>5 DEF WriteFails
  <2>0. faults \in Nat
    BY <1>0 DEF TypeOK
  <2>1a. faults' = faults + 1
    BY <2>1
  <2>a. faults' \in Nat
    BY <2>0, <2>1a
  <2>1b. clean' \in BOOLEAN
    BY <2>1, Zenon
  <2>b. pending' \in [Tasks -> Seq(Text)]
    BY <1>0, <2>1 DEF TypeOK
  <2>2. TypeOK'
    BY <1>0, <2>1, <2>1b, <2>a, <2>b DEF TypeOK
  <2>3. \A u \in Tasks : pending'[u] = IF u = t THEN <<>> ELSE pending[u]
    BY <1>0, <2>1 DEF TypeOK
  <2>4. DOMAIN <<>> = {}
    OBVIOUS
  <2>5. Past'
    BY <1>0, <2>1, <2>3, <2>4 DEF Past, AllPast
  <2>6. QED
    BY <1>0, <2>1, <2>2, <2>5 DEF Inv
<1>6. CASE Clear
  <2>1. /\ UNCHANGED <<now, file, stamped, pending, phase, records, faults>>
        /\ inner' = Default /\ log' = <<>> /\ truncating' = TRUE /\ clears' = clears + 1
        /\ clean' = (clean /\ Quiet)
    BY <1>6, Zenon DEF Clear
  <2>2. clean' \in BOOLEAN
    BY <2>1
  <2>3. /\ Represents(inner, log, now)'
        /\ inner' \in Inner /\ Len(inner'.recent) <= RingSize /\ log' \in Seq(Record)
    BY <2>1, ResetInv
  <2>4. TypeOK'
    BY <1>0, <2>1, <2>2, <2>3 DEF TypeOK
  <2>5. Past'
    BY <1>0, <2>1 DEF Past, AllPast
  <2>6. QED
    BY <2>3, <2>4, <2>5 DEF Inv
<1>7. CASE Truncate
  <2>1. UNCHANGED <<now, inner, stamped, pending, phase, records, clears, faults, log, clean>>
        /\ file' = <<>> /\ truncating' = FALSE
    BY <1>7 DEF Truncate
  <2>2. file' \in Seq(Text) /\ DOMAIN file' = {}
    BY <2>1
  <2>3. TypeOK'
    BY <1>0, <2>1, <2>2 DEF TypeOK
  <2>4. Past'
    BY <1>0, <2>1, <2>2 DEF Past, AllPast
  <2>5. QED
    BY <1>0, <2>1, <2>3, <2>4 DEF Inv
<1>8. CASE TruncateFails
  <2>1. UNCHANGED <<now, inner, file, stamped, pending, phase, records, clears, log>>
        /\ faults' = faults + 1 /\ truncating' = FALSE /\ clean' = FALSE
    BY <1>8 DEF TruncateFails
  <2>0. faults \in Nat
    BY <1>0 DEF TypeOK
  <2>1a. faults' = faults + 1
    BY <2>1
  <2>a. faults' \in Nat
    BY <2>0, <2>1a
  <2>1b. clean' \in BOOLEAN
    BY <2>1, Zenon
  <2>2. TypeOK'
    BY <1>0, <2>1, <2>1b, <2>a DEF TypeOK
  <2>3. Past'
    BY <1>0, <2>1 DEF Past, AllPast
  <2>4. QED
    BY <1>0, <2>1, <2>2, <2>3 DEF Inv
<1>9. CASE Crash
  <2>1. /\ UNCHANGED <<now, file, records, clears>>
        /\ inner' = Default /\ log' = <<>> /\ truncating' = FALSE /\ faults' = faults + 1
        /\ stamped' = [t \in Tasks |-> NoRecord] /\ pending' = [t \in Tasks |-> <<>>]
        /\ phase' = "down" /\ clean' = (clean /\ Quiet)
    BY <1>9, Zenon DEF Crash
  <2>2. clean' \in BOOLEAN
    BY <2>1
  <2>3. /\ Represents(inner, log, now)'
        /\ inner' \in Inner /\ Len(inner'.recent) <= RingSize /\ log' \in Seq(Record)
    BY <2>1, ResetInv
  <2>4. <<>> \in Seq(Text) /\ DOMAIN <<>> = {}
    OBVIOUS
  <2>0. faults \in Nat
    BY <1>0 DEF TypeOK
  <2>1a. faults' = faults + 1 /\ phase' = "down"
    BY <2>1
  <2>a. faults' \in Nat /\ phase' \in {"up", "down"}
    BY <2>0, <2>1a
  <2>1b. truncating' \in BOOLEAN
    BY <2>1, Zenon
  <2>b. stamped' \in [Tasks -> Record \cup {NoRecord}]
    BY <2>1
  <2>c. pending' \in [Tasks -> Seq(Text)]
    BY <2>1, <2>4
  <2>d. now' \in Nat /\ file' \in Seq(Text) /\ records' \in Nat /\ clears' \in Nat
    BY <1>0, <2>1 DEF TypeOK
  <2>5. TypeOK'
    BY <2>1b, <2>2, <2>3, <2>a, <2>b, <2>c, <2>d DEF TypeOK
  <2>6. Past'
    BY <1>0, <2>1, <2>4 DEF Past, AllPast
  <2>7. QED
    BY <2>3, <2>5, <2>6 DEF Inv
<1>10. CASE Start
  BY <1>10, StartInv
<1>11. CASE UNCHANGED vars
  <2>1. TypeOK'
    BY <1>0, <1>11 DEF TypeOK, vars
  <2>2. Past'
    BY <1>0, <1>11 DEF Past, AllPast, vars
  <2>3. Represents(inner, log, now)'
    BY <1>0, <1>11 DEF vars
  <2>4. QED
    BY <2>1, <2>2, <2>3 DEF Inv
<1>12. QED
  BY <1>1, <1>2, <1>3, <1>4, <1>5, <1>6, <1>7, <1>8, <1>9, <1>10, <1>11 DEF Next

THEOREM InductiveInvariant == Spec => []Inv
BY InitInv, StepInv, PTL DEF Spec

(* Whatever the interleaving of requests, clears, faults and restarts, every
   variable keeps its type, and the ring of recent requests its size. *)
THEOREM TypeCorrect == Spec => []TypeOK
<1>1. Inv => TypeOK
  BY DEF Inv
<1>2. QED
  BY <1>1, InductiveInvariant, PTL

(* Stats::snapshot shows, for every window no longer than the retention, what
   was counted since the start or the last clear, whoever raced whom. *)
THEOREM SnapshotCounts == Spec => []SnapshotExact
<1>1. Inv => SnapshotExact
  <2> SUFFICES ASSUME Inv, NEW range \in 0 .. Retention
               PROVE  LET shown == {i \in DOMAIN log : /\ MinuteOf(log[i].ts) >= Cutoff(now, range)
                                                       /\ ~Late(i)}
                      IN  /\ Requests(inner, range, now) = Cardinality(shown)
                          /\ \A m \in Models :
                               RequestsOf(m, inner, range, now)
                                 = Cardinality({i \in shown : log[i].model = m})
    BY DEF SnapshotExact
  <2>1. Represents(inner, log, now) /\ now \in Nat
    BY DEF Inv, TypeOK
  <2>2. {i \in DOMAIN log : MinuteOf(log[i].ts) >= Cutoff(now, range) /\ ~Late(i)}
          = Shown(log, Cutoff(now, range))
    BY Zenon DEF Shown, Late, LateIn
  <2>3. QED
    BY <2>1, <2>2, WindowExact
<1>2. QED
  BY <1>1, InductiveInvariant, PTL

(* Stats keeps at most one bucket for each minute of the retention, in order,
   however long it runs and however the clock readings of requests race. *)
THEOREM BucketsBounded == Spec => []MemoryBounded
<1>1. Inv => MemoryBounded
  <2> SUFFICES ASSUME Inv PROVE MemoryBounded
    OBVIOUS
  <2>1. inner.buckets \in Seq(Bucket) /\ now \in Nat
    BY DEF Inv, TypeOK, Inner
  <2>2. Ordered(inner.buckets) /\ OnGrid(inner.buckets, now) /\ Spread(inner.buckets)
    BY DEF Inv, Represents, Faithful
  <2>3. Len(inner.buckets) <= Retention \div Minute + 1
    BY <2>1, <2>2, SeriesBounded
  <2>4. QED
    BY <2>2, <2>3 DEF MemoryBounded, Ordered
<1>2. QED
  BY <1>1, InductiveInvariant, PTL

-----------------------------------------------------------------------------
(* The log of a clean run: its records are those in memory, but for the one
   record whose append, or the clear whose truncation, is under way. *)

Nobody == [u \in Tasks |-> <<>>]
Only(t, q) == [u \in Tasks |-> IF u = t THEN q ELSE <<>>]

Settled ==
  /\ pending = Nobody /\ truncating = FALSE
  /\ Ended(file)
  /\ phase = "up" => log = Records(file)

TextDue(t, r) ==
  /\ phase = "up" /\ truncating = FALSE
  /\ pending = Only(t, <<r, NewLine>>)
  /\ Ended(file)
  /\ log = Append(Records(file), r)

LineOpen(t) ==
  /\ phase = "up" /\ truncating = FALSE
  /\ pending = Only(t, <<NewLine>>)
  /\ log = Records(file)

Clearing ==
  /\ phase = "up" /\ truncating = TRUE
  /\ pending = Nobody
  /\ log = <<>>

(* Nobody holds a clock reading across a restart. *)
Idle == phase = "down" => \A t \in Tasks : stamped[t] = NoRecord

Journalled ==
  clean => \/ Settled \/ Clearing
           \/ \E t \in Tasks, r \in Record : TextDue(t, r)
           \/ \E t \in Tasks : LineOpen(t)

LEMMA InitJournalled == Init => Journalled
<1> SUFFICES ASSUME Init PROVE Settled
  BY DEF Journalled
<1>1. file = <<>> /\ log = <<>> /\ phase = "up" /\ truncating = FALSE /\ pending = Nobody
  BY DEF Init, Nobody
<1>2. QED
  BY <1>1, RecordsEmpty DEF Settled, Ended

LEMMA QuietSettled ==
  ASSUME pending \in [Tasks -> Seq(Text)], clean, Quiet, Journalled
  PROVE  Settled
<1>1. ASSUME NEW t \in Tasks, NEW q, q # <<>>, pending = Only(t, q) PROVE FALSE
  <2>1. pending[t] = q
    BY <1>1 DEF Only
  <2>2. QED
    BY <1>1, <2>1 DEF Quiet
<1>2. ASSUME NEW r PROVE <<r, NewLine>> # <<>> /\ <<NewLine>> # <<>>
  OBVIOUS
<1>3. ASSUME NEW t \in Tasks, NEW r \in Record, TextDue(t, r) PROVE FALSE
  BY <1>1, <1>2, <1>3 DEF TextDue
<1>4. ASSUME NEW t \in Tasks, LineOpen(t) PROVE FALSE
  BY <1>1, <1>2, <1>4 DEF LineOpen
<1>5. ~Clearing
  BY Zenon DEF Clearing, Quiet
<1>6. QED
  BY <1>3, <1>4, <1>5, Zenon DEF Journalled

LEMMA WriteJournalled ==
  ASSUME TypeOK, Journalled, clean, NEW t \in Tasks, Write(t)
  PROVE  Settled' \/ \E u \in Tasks : LineOpen(u)'
<1>0. file \in Seq(Text) /\ pending \in [Tasks -> Seq(Text)]
  BY DEF TypeOK
<1>1. /\ pending[t] # <<>> /\ phase' = phase /\ log' = log /\ truncating' = truncating
      /\ file' = Append(file, Head(pending[t]))
      /\ pending' = [pending EXCEPT ![t] = Tail(@)]
  BY Zenon DEF Write
<1>2. ~Settled /\ ~Clearing
  BY <1>1 DEF Settled, Clearing, Nobody
<1>3. ASSUME NEW u \in Tasks, NEW r \in Record, TextDue(u, r) PROVE LineOpen(u)'
  <2>1. u = t /\ pending[t] = <<r, NewLine>>
    BY <1>1, <1>3 DEF TextDue, Only
  <2>2. Head(pending[t]) = r /\ Tail(pending[t]) = <<NewLine>>
    BY <2>1
  <2>3. pending' = Only(u, <<NewLine>>)
    BY <1>1, <1>3, <2>1, <2>2 DEF TextDue, Only
  <2>4. Records(file') = Append(Records(file), r)
    BY <1>0, <1>1, <1>3, <2>2, RecordsText DEF TextDue
  <2>5. phase' = "up" /\ truncating' = FALSE /\ log' = Records(file')
    BY <1>1, <1>3, <2>4, Zenon DEF TextDue
  <2>6. QED
    BY <2>3, <2>5, Zenon DEF LineOpen, Only
<1>4. ASSUME NEW u \in Tasks, LineOpen(u) PROVE Settled'
  <2>1. u = t /\ pending[t] = <<NewLine>>
    BY <1>1, <1>4 DEF LineOpen, Only
  <2>2. Head(pending[t]) = NewLine /\ Tail(pending[t]) = <<>>
    BY <2>1
  <2>3. pending' = Nobody
    BY <1>1, <1>4, <2>1, <2>2 DEF LineOpen, Only, Nobody
  <2>4. file' = Append(file, NewLine)
    BY <1>1, <2>2
  <2>5. Ended(file')
    <3>1. NewLine \in Text
      BY DEF Text
    <3>2. Len(file') = Len(file) + 1 /\ file'[Len(file) + 1] = NewLine
      BY <1>0, <2>4, <3>1
    <3>3. QED
      BY <3>2 DEF Ended
  <2>6. log' = Records(file')
    BY <1>0, <1>1, <1>4, <2>4, RecordsNewLine DEF LineOpen
  <2>7. truncating' = FALSE
    BY <1>1, <1>4, Zenon DEF LineOpen
  <2>8. QED
    BY <2>3, <2>5, <2>6, <2>7, Zenon DEF Settled, Nobody, Ended
<1>5. QED
  BY <1>2, <1>3, <1>4, Zenon DEF Journalled

LEMMA StepIdle ==
  ASSUME TypeOK, Idle, [Next]_vars
  PROVE  Idle'
<1> SUFFICES ASSUME phase' = "down", NEW u \in Tasks PROVE stamped'[u] = NoRecord
  BY DEF Idle
<1>0. stamped \in [Tasks -> Record \cup {NoRecord}]
  BY DEF TypeOK
<1>1. ASSUME NEW t \in Tasks, NEW m \in Models, Stamp(t, m) PROVE FALSE
  BY <1>1 DEF Stamp
<1>2. ASSUME NEW t \in Tasks, Count(t) PROVE stamped'[u] = NoRecord
  <2>1. stamped' = [stamped EXCEPT ![t] = NoRecord] /\ phase' = phase
    BY <1>2, Zenon DEF Count
  <2>2. QED
    BY <1>0, <2>1 DEF Idle
<1>3. CASE Crash
  BY <1>3 DEF Crash
<1>4. CASE UNCHANGED <<stamped, phase>>
  BY <1>4 DEF Idle
<1>5. CASE Start
  BY <1>5 DEF Start
<1>6. ASSUME NEW t \in Tasks, Write(t) \/ WriteFails(t) PROVE stamped'[u] = NoRecord
  BY <1>4, <1>6, Zenon DEF Write, WriteFails
<1>7. CASE Tick \/ Clear \/ Truncate \/ TruncateFails \/ UNCHANGED vars
  BY <1>4, <1>7, Zenon DEF Tick, Clear, Truncate, TruncateFails, vars
<1>8. QED
  BY <1>1, <1>2, <1>3, <1>5, <1>6, <1>7 DEF Next

LEMMA StepJournalled ==
  ASSUME TypeOK, Idle, Journalled, [Next]_vars
  PROVE  Journalled'
<1> SUFFICES ASSUME clean' PROVE \/ Settled' \/ Clearing'
                                 \/ \E t \in Tasks, r \in Record : TextDue(t, r)'
                                 \/ \E t \in Tasks : LineOpen(t)'
  BY Zenon DEF Journalled
<1>0. pending \in [Tasks -> Seq(Text)]
  BY DEF TypeOK
<1>a. ASSUME Quiet, clean PROVE Settled
  BY <1>0, <1>a, QuietSettled
<1>b. ASSUME phase # "up", clean PROVE Settled
  BY <1>b, Zenon DEF Journalled, TextDue, LineOpen, Clearing
<1>1. ASSUME NEW t \in Tasks, Count(t)
      PROVE  \E r \in Record : TextDue(t, r)'
  <2>1. clean /\ Quiet /\ stamped[t] # NoRecord
    BY <1>1, Zenon DEF Count
  <2>2. Settled /\ phase = "up"
    BY <2>1, <1>a DEF Idle, TypeOK
  <2>3. [stamped[t] EXCEPT !.era = clears] \in Record
    <3>1. stamped[t] \in Record /\ clears \in Nat
      BY <2>1 DEF TypeOK
    <3>2. QED
      BY <3>1 DEF Record
  <2>4. PICK r \in Record : r = [stamped[t] EXCEPT !.era = clears]
    BY <2>3
  <2>5. /\ pending' = [pending EXCEPT ![t] = <<r, NewLine>>] /\ log' = Append(log, r)
        /\ file' = file /\ truncating' = truncating /\ phase' = phase
    BY <1>1, <2>4 DEF Count
  <2>6. pending' = Only(t, <<r, NewLine>>)
    BY <2>2, <2>5 DEF Settled, Nobody, Only
  <2>7. log' = Append(Records(file'), r) /\ Ended(file')
    BY <2>2, <2>5 DEF Settled, Ended
  <2>8. truncating' = FALSE
    BY <2>2, <2>5, Zenon DEF Settled
  <2>9. TextDue(t, r)'
    BY <2>2, <2>5, <2>6, <2>7, <2>8, Zenon DEF TextDue, Only, Ended
  <2>10. QED
    BY <2>9
<1>2. ASSUME NEW t \in Tasks, Write(t)
      PROVE  Settled' \/ \E u \in Tasks : LineOpen(u)'
  <2>1. clean
    BY <1>2, Zenon DEF Write
  <2>2. QED
    BY <1>2, <2>1, WriteJournalled
<1>3. ASSUME NEW t \in Tasks, WriteFails(t) PROVE FALSE
  BY <1>3, Zenon DEF WriteFails
<1>4. CASE Clear
  <2>1. clean /\ Quiet /\ phase = "up"
    BY <1>4, Zenon DEF Clear
  <2>2. Settled
    BY <2>1, <1>a
  <2>3. phase' = "up" /\ truncating' = TRUE /\ log' = <<>> /\ pending' = pending
    BY <1>4, <2>1, Zenon DEF Clear
  <2>4. Clearing'
    BY <2>2, <2>3, Zenon DEF Clearing, Settled, Nobody
  <2>5. QED
    BY <2>4
<1>5. CASE Truncate
  <2>1. clean /\ truncating
    BY <1>5, Zenon DEF Truncate
  <2>2. Clearing
    BY <2>1, Zenon DEF Journalled, Settled, TextDue, LineOpen
  <2>3. pending' = pending /\ truncating' = FALSE /\ file' = <<>> /\ log' = log
    BY <1>5, Zenon DEF Truncate
  <2>4. log' = Records(file') /\ Ended(file')
    BY <2>2, <2>3, RecordsEmpty DEF Clearing, Ended
  <2>5. Settled'
    BY <2>2, <2>3, <2>4, Zenon DEF Clearing, Settled, Nobody, Ended
  <2>6. QED
    BY <2>5
<1>6. CASE TruncateFails
  BY <1>6, Zenon DEF TruncateFails
<1>7. CASE Crash
  <2>1. clean /\ Quiet
    BY <1>7, Zenon DEF Crash
  <2>2. Settled
    BY <2>1, <1>a
  <2>3. phase' = "down" /\ truncating' = FALSE /\ file' = file /\ pending' = Nobody
    BY <1>7, Zenon DEF Crash, Nobody
  <2>4. Ended(file')
    BY <2>2, <2>3, Zenon DEF Settled
  <2>5. Settled'
    BY <2>3, <2>4 DEF Settled, Nobody, Ended
  <2>6. QED
    BY <2>5
<1>8. CASE Start
  <2>1. clean /\ phase # "up"
    BY <1>8 DEF Start
  <2>2. Settled
    BY <1>b, <2>1
  <2>3. file' = file /\ pending' = pending /\ truncating' = truncating /\ log' = Records(file)
    BY <1>8, Zenon DEF Start
  <2>4. log' = Records(file') /\ Ended(file')
    BY <2>2, <2>3 DEF Settled, Ended
  <2>5. Settled'
    BY <2>2, <2>3, <2>4, Zenon DEF Settled, Nobody, Ended
  <2>6. QED
    BY <2>5
<1>9. CASE UNCHANGED <<file, pending, truncating, phase, log, clean>>
  <2>1. clean
    BY <1>9, Zenon
  <2>2. QED
    BY <1>9, <2>1, Zenon DEF Journalled, Settled, Clearing, TextDue, LineOpen, Only, Nobody, Ended
<1>10. Tick \/ (\E t \in Tasks, m \in Models : Stamp(t, m)) \/ UNCHANGED vars
         => UNCHANGED <<file, pending, truncating, phase, log, clean>>
  BY Zenon DEF Tick, Stamp, vars
<1>11. QED
  BY <1>1, <1>2, <1>3, <1>4, <1>5, <1>6, <1>7, <1>8, <1>9, <1>10, Zenon DEF Next

(* A restart loses nothing: while every record and every clear has reached the
   log whole and in order, Stats::new rebuilds from stats.jsonl, whenever the
   process is killed at a quiet moment, the recent requests and the windows that
   were in memory. *)
THEOREM RestartKeepsTheStatistics == Spec => []SurvivesRestart
<1>1. Inv /\ Journalled => SurvivesRestart
  <2> SUFFICES ASSUME Inv, Journalled, phase = "up", clean, Quiet
               PROVE  LET fresh == Replayed(file, now) IN
                      /\ fresh.recent = inner.recent
                      /\ \A range \in 0 .. Retention : \A m \in Models :
                           RequestsOf(m, fresh, range, now) = RequestsOf(m, inner, range, now)
    BY Zenon DEF SurvivesRestart
  <2> DEFINE fresh == Replayed(file, now)
  <2>1. TypeOK /\ pending \in [Tasks -> Seq(Text)] /\ file \in Seq(Text) /\ now \in Nat
    BY DEF Inv, TypeOK
  <2>2. log = Records(file)
    BY <2>1, QuietSettled DEF Settled
  <2>3. Represents(inner, log, now)
    BY DEF Inv
  <2>4. Represents(fresh, log, now)
    <3>1. AllPast(file)
      BY DEF Inv, Past
    <3>2. QED
      BY <2>1, <2>2, <3>1, ReplayRepresents DEF AllPast
  <2> HIDE DEF fresh
  <2>5. fresh.recent = inner.recent
    <3>1. fresh.recent \in Seq(Record) /\ inner.recent \in Seq(Record) /\ log \in Seq(Record)
      BY <2>3, <2>4 DEF Represents, Inner
    <3>2. QED
      BY <2>3, <2>4, <3>1, RecentsUnique DEF Represents
  <2>6. ASSUME NEW range \in 0 .. Retention, NEW m \in Models
        PROVE  RequestsOf(m, fresh, range, now) = RequestsOf(m, inner, range, now)
    <3> DEFINE n == Cardinality({i \in Shown(log, Cutoff(now, range)) : log[i].model = m})
    <3>1. RequestsOf(m, fresh, range, now) = n
      BY <2>1, <2>4, WindowExact
    <3>2. RequestsOf(m, inner, range, now) = n
      BY <2>1, <2>3, WindowExact
    <3>3. QED
      BY <3>1, <3>2
  <2>7. QED
    BY <2>5, <2>6 DEF fresh
<1>2. Init => Idle /\ Journalled
  BY InitJournalled DEF Init, Idle
<1>3. Inv /\ Idle /\ Journalled /\ [Next]_vars => Idle' /\ Journalled'
  BY StepIdle, StepJournalled DEF Inv
<1>4. QED
  BY <1>1, <1>2, <1>3, InductiveInvariant, PTL DEF Spec
=============================================================================
