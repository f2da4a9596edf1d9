-------------------------- MODULE PromotionProofs --------------------------
(***************************************************************************)
(* Theorems of module Promotion, for every set of labels and tasks, every  *)
(* window, bar and soak, and however appends, faults and restarts          *)
(* interleave.                                                             *)
(***************************************************************************)
EXTENDS Promotion, FiniteSetTheorems, WellFoundedInduction, TLAPS

-----------------------------------------------------------------------------
(* The windows. *)

LEMMA PushCapBounded ==
  ASSUME NEW S, NEW q \in Seq(S), NEW v \in S, Len(q) <= Window
  PROVE  /\ PushCap(q, v) \in Seq(S)
         /\ Len(PushCap(q, v)) = IF Len(q) < Window THEN Len(q) + 1 ELSE Len(q)
<1>1. Append(q, v) \in Seq(S) /\ Append(q, v) # <<>> /\ Len(Append(q, v)) = Len(q) + 1
  OBVIOUS
<1>2. CASE Len(q) < Window
  BY <1>1, <1>2 DEF PushCap
<1>3. CASE ~(Len(q) < Window)
  <2>1. Tail(Append(q, v)) \in Seq(S) /\ Len(Tail(Append(q, v))) = Len(q)
    BY <1>1
  <2>2. QED
    BY <1>3, <2>1 DEF PushCap
<1>4. QED
  BY <1>2, <1>3

LEMMA CountType ==
  ASSUME NEW S, NEW q \in Seq(S)
  PROVE  Count(q) \in Nat
<1>1. IsFiniteSet(DOMAIN q)
  BY FS_Interval
<1>2. {i \in DOMAIN q : q[i]} \in SUBSET DOMAIN q
  OBVIOUS
<1>3. IsFiniteSet({i \in DOMAIN q : q[i]})
  BY <1>1, <1>2, FS_Subset
<1>4. QED
  BY <1>3, FS_CardinalityType DEF Count

LEMMA RecentFailsType ==
  ASSUME NEW S, NEW q \in Seq(S)
  PROVE  RecentFails(q) \in Nat
<1>1. IsFiniteSet(DOMAIN q)
  BY FS_Interval
<1>2. {i \in DOMAIN q : q[i] /\ i + Recent > Len(q)} \in SUBSET DOMAIN q
  OBVIOUS
<1>3. IsFiniteSet({i \in DOMAIN q : q[i] /\ i + Recent > Len(q)})
  BY <1>1, <1>2, FS_Subset
<1>4. QED
  BY <1>3, FS_CardinalityType DEF RecentFails

LEMMA NoFailsNoRecentFails ==
  ASSUME NEW S, NEW q \in Seq(S), Count(q) = 0
  PROVE  RecentFails(q) = 0
<1> DEFINE All == {i \in DOMAIN q : q[i]}
           New == {i \in DOMAIN q : q[i] /\ i + Recent > Len(q)}
<1>1. IsFiniteSet(DOMAIN q)
  BY FS_Interval
<1>2. All \in SUBSET DOMAIN q
  OBVIOUS
<1>3. IsFiniteSet(All)
  BY <1>1, <1>2, FS_Subset
<1>4. All = {}
  BY <1>3, FS_EmptySet DEF Count
<1>5. New = {}
  BY <1>4
<1>6. Cardinality(New) = 0
  BY <1>5, FS_EmptySet
<1>7. QED
  BY <1>6 DEF RecentFails

-----------------------------------------------------------------------------
(* The lifecycle. *)

LabelOK(ls) ==
  /\ ls \in LabelState
  /\ Len(ls.passes) <= Window
  /\ Len(ls.hardFails) = Len(ls.passes)

MovedTo(ls, st, k) == [ls EXCEPT !.soaked = k, !.state = st]

LEMMA Moved ==
  ASSUME NEW ls, LabelOK(ls), NEW st \in States, NEW k \in Nat
  PROVE  LET new == MovedTo(ls, st, k) IN
         LabelOK(new) /\ new.passes = ls.passes /\ new.hardFails = ls.hardFails
<1> DEFINE new == MovedTo(ls, st, k)
           mid == [ls EXCEPT !.soaked = k]
<1>1. ls \in LabelState
  BY DEF LabelOK
<1>2. new = [passes |-> ls.passes, hardFails |-> ls.hardFails, state |-> st, soaked |-> k]
  <2>1. mid = [passes |-> ls.passes, hardFails |-> ls.hardFails,
               state |-> ls.state, soaked |-> k]
    BY <1>1 DEF LabelState
  <2>2. new = [mid EXCEPT !.state = st]
    BY Zenon DEF MovedTo
  <2> HIDE DEF mid, new
  <2>3. QED
    BY <2>1, <2>2
<1> HIDE DEF new
<1>3. new \in LabelState
  BY <1>1, <1>2 DEF LabelState
<1>4. LabelOK(new) /\ new.passes = ls.passes /\ new.hardFails = ls.hardFails
  BY <1>2, <1>3 DEF LabelOK
<1>5. QED
  BY <1>4 DEF new

LEMMA AdvanceType ==
  ASSUME NEW ls, LabelOK(ls)
  PROVE  /\ LabelOK(Advance(ls))
         /\ Advance(ls).passes = ls.passes /\ Advance(ls).hardFails = ls.hardFails
<1>1. ls.state \in States /\ ls \in LabelState
  BY DEF LabelOK, LabelState
<1>2. CASE ls.state \in {"CloudOnly", "ShadowJudged"}
  <2>1. Advance(ls) = IF Bar(ls) THEN [ls EXCEPT !.state = "Canary", !.soaked = 0]
                      ELSE [ls EXCEPT !.state = "ShadowJudged"]
    BY <1>2 DEF Advance, Serving
  <2>2. Advance(ls) = [ls EXCEPT !.soaked = IF Bar(ls) THEN 0 ELSE ls.soaked,
                          !.state = IF Bar(ls) THEN "Canary" ELSE "ShadowJudged"]
    BY <1>1, <2>1 DEF LabelState
  <2> DEFINE st == IF Bar(ls) THEN "Canary" ELSE "ShadowJudged"
             k == IF Bar(ls) THEN 0 ELSE ls.soaked
  <2>3. st \in States /\ k \in Nat
    BY <1>1 DEF LabelState, States
  <2>4. Advance(ls) = MovedTo(ls, st, k)
    BY <2>2, Zenon DEF MovedTo
  <2> HIDE DEF st, k
  <2>5. QED
    BY <2>3, <2>4, Moved
<1>3. CASE ls.state \in Serving /\ Regressed(ls)
  <2>1. Advance(ls) = [ls EXCEPT !.state = "Demoted"]
    BY <1>3 DEF Advance, Serving
  <2>2. QED
    BY <1>1, <2>1 DEF LabelOK, LabelState, States
<1>4. CASE ls.state = "Canary" /\ ~Regressed(ls)
  <2>1. Advance(ls) = [ls EXCEPT !.soaked = @ + 1,
                         !.state = IF ls.soaked + 1 >= Soak /\ Bar(ls)
                                   THEN "LocalServed" ELSE "Canary"]
    BY <1>4 DEF Advance, Serving
  <2> DEFINE st == IF ls.soaked + 1 >= Soak /\ Bar(ls) THEN "LocalServed" ELSE "Canary"
             k == ls.soaked + 1
  <2>2. st \in States /\ k \in Nat
    BY <1>1 DEF LabelState, States
  <2>3. Advance(ls) = MovedTo(ls, st, k)
    BY <2>1, Zenon DEF MovedTo
  <2> HIDE DEF st, k
  <2>4. QED
    BY <2>2, <2>3, Moved
<1>5. CASE ls.state = "LocalServed" /\ ~Regressed(ls)
  <2>1. Advance(ls) = ls
    BY <1>5 DEF Advance, Serving
  <2>2. QED
    BY <2>1
<1>6. CASE ls.state = "Demoted"
  <2>1. Advance(ls) = [ls EXCEPT !.state = "ShadowJudged"]
    BY <1>6 DEF Advance, Serving
  <2>2. QED
    BY <1>1, <2>1 DEF LabelOK, LabelState, States
<1>7. QED
  BY <1>1, <1>2, <1>3, <1>4, <1>5, <1>6 DEF States, Serving

(* The fractions: what clears the bar is not below the demotion rate. *)
LEMMA FractionOrder ==
  ASSUME NEW s \in Nat, NEW n \in Nat,
         NEW a \in Nat, NEW b \in Nat \ {0}, NEW d \in Nat, NEW e \in Nat \ {0},
         s * b >= a * n, a * e >= d * b
  PROVE  ~(s * e < d * n)
<1>1. (s * b) * e >= (a * n) * e
  BY SMT
<1>2. (a * e) * n >= (d * b) * n
  BY SMT
<1>3. (s * e) * b >= (d * n) * b
  BY <1>1, <1>2, SMT
<1>4. QED
  BY <1>3, SMT

(* promote_lb at or above demote_pass, as in the defaults of config.rs. *)
BarAboveDemotion == PromoteLb[1] * DemotePass[2] >= DemotePass[1] * PromoteLb[2]

LEMMA BarNotRegressed ==
  ASSUME NEW ls, LabelOK(ls), Bar(ls), BarAboveDemotion
  PROVE  ~Regressed(ls)
<1> DEFINE s == Count(ls.passes)
           n == Len(ls.passes)
           a == PromoteLb[1]
           b == PromoteLb[2]
           d == DemotePass[1]
           e == DemotePass[2]
<1>1. ls.passes \in Seq(BOOLEAN) /\ ls.hardFails \in Seq(BOOLEAN)
  BY DEF LabelOK, LabelState
<1>2. s \in Nat /\ n \in Nat
  BY <1>1, CountType
<1>3. a \in Nat /\ b \in Nat \ {0} /\ d \in Nat /\ e \in Nat \ {0}
  BY PromotionAssumption DEF Fraction
<1>4. a * e >= d * b
  BY DEF BarAboveDemotion
<1>5. WilsonAtLeast(s, n, PromoteLb) /\ Count(ls.hardFails) = 0
  BY DEF Bar
<1>6. RecentFails(ls.hardFails) = 0
  BY <1>1, <1>5, NoFailsNoRecentFails
<1>7. ~PassRateBelow(ls.passes, DemotePass)
  <2>1. CASE n = 0
    <3>1. a = 0
      BY <1>5, <2>1 DEF WilsonAtLeast
    <3> HIDE DEF a, b, d, e
    <3>2. d * b <= 0
      BY <1>3, <1>4, <3>1, SMT
    <3>3. d = 0
      BY <1>3, <3>2, SMT
    <3>4. QED
      BY <2>1, <3>3 DEF PassRateBelow, d
  <2>2. CASE n # 0
    <3>1. s * b >= a * n
      BY <1>5, <2>2 DEF WilsonAtLeast
    <3> HIDE DEF a, b, d, e, s, n
    <3>2. ~(s * e < d * n)
      BY <1>2, <1>3, <1>4, <3>1, FractionOrder
    <3>3. QED
      BY <2>2, <3>2 DEF PassRateBelow, d, e, s, n
  <2>3. QED
    BY <2>1, <2>2
<1>8. QED
  BY <1>6, <1>7 DEF Regressed

(* What ServedWithinLimits says of one label. *)
Limited(ls) ==
  ls.state \in Serving =>
    /\ RecentFails(ls.hardFails) < 2
    /\ ~PassRateBelow(ls.passes, DemotePass) \/ JustPromoted(ls)

LEMMA NotRegressedLimited ==
  ASSUME NEW ls, LabelOK(ls), ~Regressed(ls)
  PROVE  Limited(ls)
<1>1. RecentFails(ls.hardFails) \in Nat
  BY RecentFailsType DEF LabelOK, LabelState
<1>2. QED
  BY <1>1 DEF Regressed, Limited

LEMMA AdvanceLimited ==
  ASSUME NEW ls, LabelOK(ls), Advance(ls).state \in Serving
  PROVE  Limited(Advance(ls))
<1>1. ls.state \in States /\ ls \in LabelState /\ LabelOK(Advance(ls))
  BY AdvanceType DEF LabelOK, LabelState
<1>2. /\ Advance(ls).passes = ls.passes
      /\ Advance(ls).hardFails = ls.hardFails
  BY AdvanceType
<1>3. Regressed(Advance(ls)) <=> Regressed(ls)
  BY <1>2 DEF Regressed
<1>4. CASE ls.state \in {"CloudOnly", "ShadowJudged"}
  <2>1. Advance(ls) = IF Bar(ls) THEN [ls EXCEPT !.state = "Canary", !.soaked = 0]
                      ELSE [ls EXCEPT !.state = "ShadowJudged"]
    BY <1>4 DEF Advance, Serving
  <2>2. Bar(ls)
    BY <1>1, <2>1 DEF Serving, LabelState
  <2>3. Advance(ls).state = "Canary" /\ Advance(ls).soaked = 0
    BY <1>1, <2>1, <2>2 DEF LabelState
  <2>4. JustPromoted(Advance(ls))
    BY <1>2, <2>2, <2>3 DEF JustPromoted, Bar
  <2>5. RecentFails(ls.hardFails) = 0
    BY <1>1, <2>2, NoFailsNoRecentFails DEF Bar, LabelState
  <2>6. QED
    BY <1>2, <2>4, <2>5 DEF Limited
<1>5. CASE ls.state \in Serving
  <2>1. Regressed(ls) => Advance(ls) = [ls EXCEPT !.state = "Demoted"]
    BY <1>5 DEF Advance, Serving
  <2>2. ~Regressed(Advance(ls))
    BY <1>1, <1>3, <2>1 DEF Serving, LabelState
  <2>3. QED
    BY <1>1, <2>2, NotRegressedLimited
<1>6. CASE ls.state = "Demoted"
  <2>1. Advance(ls) = [ls EXCEPT !.state = "ShadowJudged"]
    BY <1>6 DEF Advance, Serving
  <2>2. QED
    BY <1>1, <2>1 DEF Serving, LabelState
<1>7. QED
  BY <1>1, <1>4, <1>5, <1>6 DEF States, Serving

TableOK(tb) == tb \in [Labels -> LabelState] /\ \A l \in Labels : LabelOK(tb[l])

WithinLimits(tb) == \A l \in Labels : Limited(tb[l])

LEMMA ApplyKeeps ==
  ASSUME NEW tb, TableOK(tb), NEW j \in Judgment
  PROVE  /\ TableOK(Apply(tb, j))
         /\ WithinLimits(tb) => WithinLimits(Apply(tb, j))
<1> DEFINE l == j.label
           ps == PushCap(tb[l].passes, j.pass)
           hs == PushCap(tb[l].hardFails, j.hardFail)
           ls == [tb[l] EXCEPT !.passes = ps, !.hardFails = hs]
<1>1. l \in Labels /\ j.pass \in BOOLEAN /\ j.hardFail \in BOOLEAN
  BY Zenon DEF Judgment
<1>2. LabelOK(tb[l])
  BY <1>1 DEF TableOK
<1>3. ps \in Seq(BOOLEAN) /\ hs \in Seq(BOOLEAN) /\ Len(hs) = Len(ps) /\ Len(ps) <= Window
  <2>1. /\ tb[l].passes \in Seq(BOOLEAN) /\ tb[l].hardFails \in Seq(BOOLEAN)
        /\ Len(tb[l].passes) <= Window /\ Len(tb[l].hardFails) = Len(tb[l].passes)
    BY <1>2 DEF LabelOK, LabelState
  <2>2. /\ ps \in Seq(BOOLEAN)
        /\ Len(ps) = IF Len(tb[l].passes) < Window
                     THEN Len(tb[l].passes) + 1 ELSE Len(tb[l].passes)
    BY <1>1, <2>1, PushCapBounded
  <2>3. Len(tb[l].hardFails) <= Window
    BY <2>1
  <2>4. /\ hs \in Seq(BOOLEAN)
        /\ Len(hs) = IF Len(tb[l].hardFails) < Window
                     THEN Len(tb[l].hardFails) + 1 ELSE Len(tb[l].hardFails)
    BY <1>1, <2>1, <2>3, PushCapBounded
  <2> HIDE DEF ps, hs
  <2>5. QED
    BY <2>1, <2>2, <2>4, PromotionAssumption
<1>4. LabelOK(ls)
  <2> HIDE DEF ps, hs
  <2>1. QED
    BY <1>2, <1>3 DEF LabelOK, LabelState
<1>5. Apply(tb, j) = [tb EXCEPT ![l] = Advance(ls)]
  BY DEF Apply
<1> HIDE DEF ls
<1>6. LabelOK(Advance(ls))
  BY <1>4, AdvanceType
<1>7. TableOK(Apply(tb, j))
  BY <1>1, <1>5, <1>6 DEF TableOK, LabelOK
<1>8. ASSUME WithinLimits(tb), NEW m \in Labels
      PROVE  Limited(Apply(tb, j)[m])
  <2>1. CASE m = l
    <3>1. Apply(tb, j)[m] = Advance(ls)
      BY <1>5, <2>1 DEF TableOK
    <3>2. QED
      BY <1>4, <3>1, AdvanceLimited DEF Limited
  <2>2. CASE m # l
    <3>1. Apply(tb, j)[m] = tb[m]
      BY <1>5, <2>2 DEF TableOK
    <3>2. QED
      BY <1>8, <3>1 DEF WithinLimits
  <2>3. QED
    BY <2>1, <2>2
<1>9. QED
  BY <1>7, <1>8 DEF WithinLimits

LEMMA EmptyOK == TableOK(Empty) /\ WithinLimits(Empty)
<1>1. Unknown \in LabelState
  BY DEF Unknown, LabelState, States
<1>2. Len(Unknown.passes) = 0 /\ Len(Unknown.hardFails) = 0 /\ Unknown.state \notin Serving
  BY DEF Unknown, Serving
<1>3. QED
  BY <1>1, <1>2, PromotionAssumption DEF Empty, TableOK, LabelOK, WithinLimits, Limited

-----------------------------------------------------------------------------
(* The specification. *)

Limits == WithinLimits(table)

Rest ==
  /\ file \in Seq(Text)
  /\ pending \in [Tasks -> Seq(Text)]
  /\ phase \in {"up", "down", "replaying"}
  /\ cursor \in Nat
  /\ judgments \in Nat /\ faults \in Nat
  /\ applied \in [Labels -> Seq(Judgment)]
  /\ written \in Nat

Inv == TableOK(table) /\ Rest /\ clean \in BOOLEAN /\ Limits

LEMMA NotedType ==
  ASSUME applied \in [Labels -> Seq(Judgment)], NEW j \in Judgment
  PROVE  Noted(j) \in [Labels -> Seq(Judgment)]
<1>1. j.label \in Labels
  BY Zenon DEF Judgment
<1>2. Append(applied[j.label], j) \in Seq(Judgment)
  BY <1>1
<1>3. QED
  BY <1>1, <1>2 DEF Noted

LEMMA InitInv == Init => Inv
<1> SUFFICES ASSUME Init PROVE Inv
  OBVIOUS
<1>1. TableOK(table) /\ Limits
  BY EmptyOK DEF Init, Limits
<1>2. Rest
  BY DEF Init, Rest
<1>3. clean \in BOOLEAN
  BY Zenon DEF Init
<1>4. QED
  BY <1>1, <1>2, <1>3, Zenon DEF Inv

LEMMA StepInv == Inv /\ [Next]_vars => Inv'
<1> SUFFICES ASSUME Inv, [Next]_vars PROVE Inv'
  OBVIOUS
<1>0. TableOK(table) /\ Rest /\ clean \in BOOLEAN /\ Limits
  BY Zenon DEF Inv
<1>a. Tasks = DOMAIN pending /\ \A t \in Tasks : pending[t] \in Seq(Text)
  BY <1>0 DEF Rest
<1>b. ASSUME NEW j \in Judgment, table' = Apply(table, j)
      PROVE  TableOK(table)' /\ Limits'
  <2>1. TableOK(Apply(table, j)) /\ (Limits => WithinLimits(Apply(table, j)))
    BY <1>0, ApplyKeeps DEF Limits
  <2>2. TableOK(table)' <=> TableOK(Apply(table, j))
    BY <1>b DEF TableOK
  <2>3. WithinLimits(table)' <=> WithinLimits(Apply(table, j))
    BY <1>b DEF WithinLimits, Limited, JustPromoted, Bar
  <2>4. QED
    BY <1>0, <2>1, <2>2, <2>3 DEF Limits
<1>c. ASSUME table' = table PROVE TableOK(table)' /\ Limits'
  BY <1>0, <1>c DEF TableOK, Limits, WithinLimits, Limited, JustPromoted, Bar
<1>1. ASSUME NEW t \in Tasks, NEW j \in Judgment, Judge(t, j) PROVE Inv'
  <2>1. TableOK(table)' /\ Limits'
    BY <1>1, <1>b DEF Judge
  <2>2. <<j, NewLine>> \in Seq(Text)
    BY DEF Text
  <2>3. Rest'
    BY <1>0, <1>1, <2>2, NotedType DEF Judge, Rest
  <2>4. clean' \in BOOLEAN
    BY <1>1, Zenon DEF Judge
  <2>5. QED
    BY <2>1, <2>3, <2>4, Zenon DEF Inv
<1>2. ASSUME NEW t \in Tasks, Write(t) PROVE Inv'
  <2>1. TableOK(table)' /\ Limits'
    BY <1>2, <1>c DEF Write
  <2>2. Head(pending[t]) \in Text /\ Tail(pending[t]) \in Seq(Text)
    BY <1>2, <1>a DEF Write
  <2>3. Rest'
    BY <1>0, <1>2, <2>2 DEF Write, Rest
  <2>4. clean' \in BOOLEAN
    BY <1>0, <1>2, Zenon DEF Write
  <2>5. QED
    BY <2>1, <2>3, <2>4, Zenon DEF Inv
<1>3. ASSUME NEW t \in Tasks, WriteFails(t) PROVE Inv'
  <2>1. TableOK(table)' /\ Limits'
    BY <1>3, <1>c DEF WriteFails
  <2>3. Rest'
    BY <1>0, <1>3 DEF WriteFails, Rest
  <2>4. clean' \in BOOLEAN
    BY <1>3, Zenon DEF WriteFails
  <2>5. QED
    BY <2>1, <2>3, <2>4, Zenon DEF Inv
<1>4. CASE Crash
  <2>1. TableOK(table)' /\ Limits'
    BY <1>4, EmptyOK DEF Crash, TableOK, Limits, WithinLimits, Limited, JustPromoted, Bar, Empty
  <2>3. Rest'
    BY <1>0, <1>4 DEF Crash, Rest
  <2>4. clean' \in BOOLEAN
    BY <1>4, Zenon DEF Crash
  <2>5. QED
    BY <2>1, <2>3, <2>4, Zenon DEF Inv
<1>5. CASE Start
  <2>1. TableOK(table)' /\ Limits'
    BY <1>5, <1>c DEF Start
  <2>3. Rest'
    BY <1>0, <1>5 DEF Start, Rest
  <2>4. clean' \in BOOLEAN
    BY <1>0, <1>5, Zenon DEF Start
  <2>5. QED
    BY <2>1, <2>3, <2>4, Zenon DEF Inv
<1>6. ASSUME NEW i \in DOMAIN file, ReplayNext(i) PROVE Inv'
  <2>1. CASE i \in Readable(file)
    <3>1. file[i] \in Judgment
      BY <1>0, <2>1 DEF Rest, Text, Readable
    <3>2. TableOK(table)' /\ Limits'
      BY <1>6, <2>1, <3>1, <1>b DEF ReplayNext
    <3>3. Rest'
      BY <1>0, <1>6, <2>1, <3>1, NotedType DEF ReplayNext, Rest
    <3>4. clean' \in BOOLEAN
      BY <1>0, <1>6, Zenon DEF ReplayNext
    <3>5. QED
      BY <3>2, <3>3, <3>4, Zenon DEF Inv
  <2>2. CASE i \notin Readable(file)
    <3>2. TableOK(table)' /\ Limits'
      BY <1>6, <2>2, <1>c DEF ReplayNext
    <3>3. Rest'
      BY <1>0, <1>6, <2>2 DEF ReplayNext, Rest
    <3>4. clean' \in BOOLEAN
      BY <1>0, <1>6, Zenon DEF ReplayNext
    <3>5. QED
      BY <3>2, <3>3, <3>4, Zenon DEF Inv
  <2>3. QED
    BY <2>1, <2>2
<1>7. CASE Ready
  <2>1. TableOK(table)' /\ Limits'
    BY <1>7, <1>c DEF Ready
  <2>3. Rest'
    BY <1>0, <1>7 DEF Ready, Rest
  <2>4. clean' \in BOOLEAN
    BY <1>0, <1>7, Zenon DEF Ready
  <2>5. QED
    BY <2>1, <2>3, <2>4, Zenon DEF Inv
<1>8. CASE UNCHANGED vars
  <2>1. TableOK(table)' /\ Limits'
    BY <1>8, <1>c DEF vars
  <2>3. Rest'
    BY <1>0, <1>8 DEF vars, Rest
  <2>4. clean' \in BOOLEAN
    BY <1>0, <1>8, Zenon DEF vars
  <2>5. QED
    BY <2>1, <2>3, <2>4, Zenon DEF Inv
<1>9. QED
  BY <1>1, <1>2, <1>3, <1>4, <1>5, <1>6, <1>7, <1>8 DEF Next

(* The promotion table keeps its types: windows never exceed the capacity, and
   both windows of a label have the same length. *)
THEOREM TypeCorrect == Spec => []TypeOK
<1>1. Inv => TypeOK
  <2> SUFFICES ASSUME Inv PROVE TypeOK
    OBVIOUS
  <2>1. TableOK(table) /\ Rest /\ clean \in BOOLEAN
    BY Zenon DEF Inv
  <2>2. /\ table \in [Labels -> LabelState]
        /\ \A l \in Labels : /\ Len(table[l].passes) <= Window
                             /\ Len(table[l].hardFails) = Len(table[l].passes)
    BY <2>1 DEF TableOK, LabelOK
  <2>3. QED
    BY <2>1, <2>2, Zenon DEF TypeOK, Rest
<1>2. QED
  BY <1>1, InitInv, StepInv, PTL DEF Spec

(* No label is served by the local model outside its limits: too low a pass
   rate, or two recent hard fails, and it is not in Canary or LocalServed, unless
   its last judgment has just promoted it, and then it has cleared the bar; for
   every window, bar, demotion rate and soak, one above the other or not, and
   every order of judgments, faults and restarts. *)
THEOREM NeverServedOutsideLimits == Spec => []ServedWithinLimits
<1>1. Inv => ServedWithinLimits
  BY Zenon DEF Inv, Limits, WithinLimits, Limited, ServedWithinLimits
<1>2. QED
  BY <1>1, InitInv, StepInv, PTL DEF Spec

(* With a bar at or above the demotion rate, as the defaults have it, no served
   label is ever one the next judgment would demote as it stands. *)
THEOREM NeverServedRegressed ==
  Spec => [](BarAboveDemotion =>
               \A l \in Labels : table[l].state \in Serving => ~Regressed(table[l]))
<1>1. ASSUME Inv, BarAboveDemotion, NEW l \in Labels, table[l].state \in Serving
      PROVE  ~Regressed(table[l])
  <2>1. LabelOK(table[l]) /\ Limited(table[l])
    BY <1>1 DEF Inv, TableOK, Limits, WithinLimits
  <2>2. CASE Bar(table[l])
    BY <1>1, <2>1, <2>2, BarNotRegressed
  <2>3. CASE ~Bar(table[l])
    <3>1. RecentFails(table[l].hardFails) \in Nat
      BY <2>1, RecentFailsType DEF LabelOK, LabelState
    <3>2. QED
      BY <1>1, <2>1, <2>3, <3>1 DEF Limited, JustPromoted, Regressed
  <2>4. QED
    BY <2>2, <2>3
<1>2. Inv => (BarAboveDemotion =>
                \A l \in Labels : table[l].state \in Serving => ~Regressed(table[l]))
  BY <1>1
<1>3. QED
  BY <1>2, InitInv, StepInv, PTL DEF Spec

-----------------------------------------------------------------------------
(* Induction on the naturals, said of sets: what holds of a recursive function
   is proved with the set of the arguments it holds of. *)

LEMMA SetInduction ==
  ASSUME NEW S, 0 \in S, \A n \in Nat : n \in S => n + 1 \in S
  PROVE  Nat \subseteq S
<1> DEFINE Missing == Nat \ S
           Less == OpToRel(<, Nat)
<1> SUFFICES ASSUME Missing # {} PROVE FALSE
  OBVIOUS
<1>1. IsWellFoundedOn(Less, Nat)
  BY NatLessThanWellFounded
<1>2. Missing \subseteq Nat
  OBVIOUS
<1>3. PICK x \in Missing : \A y \in Missing : ~(<<y, x>> \in Less)
  <2> HIDE DEF Missing, Less
  <2>1. QED
    BY <1>1, <1>2, WFMin
<1>4. x \in Nat /\ x # 0 /\ x - 1 \in Nat /\ (x - 1) + 1 = x
  OBVIOUS
<1>5. x - 1 \in Missing
  BY <1>4
<1>6. <<x - 1, x>> \in Less
  BY <1>4 DEF OpToRel
<1>7. QED
  BY <1>3, <1>5, <1>6

-----------------------------------------------------------------------------
(* The replay of a file, as a function of the number of texts read. *)

ReplayStep(g, f, i) ==
  IF i = 0 THEN Empty
  ELSE IF i \in Readable(f) THEN Apply(g[i - 1], f[i]) ELSE g[i - 1]

IsReplay(g, f, n) == g = [i \in 0 .. n |-> ReplayStep(g, f, i)]

After(f) == CHOOSE g : IsReplay(g, f, Len(f))

LEMMA ReplayStepLocal ==
  ASSUME NEW f, NEW g, NEW h, NEW i \in Nat, i > 0 => g[i - 1] = h[i - 1]
  PROVE  ReplayStep(g, f, i) = ReplayStep(h, f, i)
BY DEF ReplayStep

LEMMA ReplayExists ==
  ASSUME NEW f, NEW m \in Nat
  PROVE  \E g : IsReplay(g, f, m)
<1> DEFINE S == {n \in Nat : \E g : IsReplay(g, f, n)}
<1>1. 0 \in S
  <2> DEFINE g == [i \in 0 .. 0 |-> Empty]
  <2>1. \A i \in 0 .. 0 : ReplayStep(g, f, i) = Empty
    BY DEF ReplayStep
  <2>2. IsReplay(g, f, 0)
    BY <2>1 DEF IsReplay
  <2>3. QED
    BY <2>2
<1>2. ASSUME NEW n \in Nat, n \in S PROVE n + 1 \in S
  <2>1. PICK g : IsReplay(g, f, n)
    BY <1>2
  <2> DEFINE h == [i \in 0 .. n + 1 |-> IF i <= n THEN g[i] ELSE ReplayStep(g, f, i)]
  <2>2. \A i \in 0 .. n : g[i] = ReplayStep(g, f, i)
    BY <2>1 DEF IsReplay
  <2>3. \A i \in 0 .. n + 1 : h[i] = ReplayStep(g, f, i)
    BY <2>2
  <2>4. \A i \in 0 .. n : h[i] = g[i]
    OBVIOUS
  <2>5. h = [i \in 0 .. n + 1 |-> h[i]]
    OBVIOUS
  <2> HIDE DEF h
  <2>6. ASSUME NEW i \in 0 .. n + 1 PROVE ReplayStep(g, f, i) = ReplayStep(h, f, i)
    <3>1. i > 0 => g[i - 1] = h[i - 1]
      BY <2>4
    <3>2. QED
      BY <3>1, ReplayStepLocal
  <2>7. h = [i \in 0 .. n + 1 |-> ReplayStep(h, f, i)]
    BY <2>3, <2>5, <2>6
  <2>8. IsReplay(h, f, n + 1)
    BY <2>7 DEF IsReplay
  <2>9. QED
    BY <2>8
<1>3. Nat \subseteq S
  <2> HIDE DEF S
  <2>1. QED
    BY <1>1, <1>2, SetInduction
<1>4. QED
  BY <1>3

AgreeUpTo(f, e, k) ==
  \A i \in 1 .. k : (i \in Readable(f) <=> i \in Readable(e)) /\ f[i] = e[i]

(* Two files that agree on their first k texts replay alike up to there. *)
LEMMA ReplayAgrees ==
  ASSUME NEW f, NEW e, NEW g, NEW h, NEW m \in Nat, NEW n \in Nat,
         IsReplay(g, f, m), IsReplay(h, e, n),
         NEW k \in Nat, k <= m, k <= n, AgreeUpTo(f, e, k)
  PROVE  g[k] = h[k]
<1> DEFINE S == {i \in Nat : i <= k => g[i] = h[i]}
<1>0. /\ \A i \in 0 .. m : g[i] = ReplayStep(g, f, i)
      /\ \A i \in 0 .. n : h[i] = ReplayStep(h, e, i)
  BY DEF IsReplay
<1>1. 0 \in S
  <2>1. g[0] = Empty /\ h[0] = Empty
    BY <1>0 DEF ReplayStep
  <2>2. QED
    BY <2>1
<1>2. ASSUME NEW i \in Nat, i \in S PROVE i + 1 \in S
  <2> SUFFICES ASSUME i + 1 <= k PROVE g[i + 1] = h[i + 1]
    OBVIOUS
  <2>1. i + 1 \in 0 .. m /\ i + 1 \in 0 .. n /\ i + 1 \in 1 .. k /\ (i + 1) - 1 = i /\ i + 1 # 0
    OBVIOUS
  <2>2. g[i] = h[i]
    BY <1>2
  <2>3. g[i + 1] = IF i + 1 \in Readable(f) THEN Apply(g[i], f[i + 1]) ELSE g[i]
    BY <1>0, <2>1 DEF ReplayStep
  <2>4. h[i + 1] = IF i + 1 \in Readable(e) THEN Apply(h[i], e[i + 1]) ELSE h[i]
    BY <1>0, <2>1 DEF ReplayStep
  <2>5. QED
    BY <2>1, <2>2, <2>3, <2>4 DEF AgreeUpTo
<1>3. Nat \subseteq S
  <2> HIDE DEF S
  <2>1. QED
    BY <1>1, <1>2, SetInduction
<1>4. QED
  BY <1>3

LEMMA AfterIs ==
  ASSUME NEW f \in Seq(Text)
  PROVE  /\ IsReplay(After(f), f, Len(f))
         /\ ReplayOf(f) = After(f)[Len(f)]
         /\ After(f)[0] = Empty
         /\ \A i \in 1 .. Len(f) : After(f)[i] = IF i \in Readable(f)
                                                 THEN Apply(After(f)[i - 1], f[i])
                                                 ELSE After(f)[i - 1]
<1>1. Len(f) \in Nat
  OBVIOUS
<1>2. \E g : IsReplay(g, f, Len(f))
  BY <1>1, ReplayExists
<1>3. IsReplay(After(f), f, Len(f))
  BY <1>2 DEF After
<1>4. ReplayOf(f) = After(f)[Len(f)]
  BY Zenon DEF ReplayOf, After, IsReplay, ReplayStep
<1> DEFINE g == After(f)
<1>5. g = [i \in 0 .. Len(f) |-> ReplayStep(g, f, i)]
  BY <1>3 DEF IsReplay
<1> HIDE DEF g
<1>6. \A i \in 0 .. Len(f) : g[i] = ReplayStep(g, f, i)
  BY <1>5
<1>7. g[0] = Empty
  BY <1>1, <1>6 DEF ReplayStep
<1>8. \A i \in 1 .. Len(f) : g[i] = IF i \in Readable(f) THEN Apply(g[i - 1], f[i])
                                    ELSE g[i - 1]
  BY <1>1, <1>6 DEF ReplayStep
<1>9. QED
  BY <1>3, <1>4, <1>7, <1>8 DEF g

Ended(f) == f = <<>> \/ f[Len(f)] = NewLine

(* A text that starts a line of its own is replayed last. *)
LEMMA ReplayText ==
  ASSUME NEW f \in Seq(Text), Ended(f), NEW j \in Judgment
  PROVE  ReplayOf(Append(f, j)) = Apply(ReplayOf(f), j)
<1> DEFINE e == Append(f, j)
           n == Len(f)
<1>1. e \in Seq(Text) /\ Len(e) = n + 1 /\ n \in Nat /\ e[n + 1] = j
      /\ \A i \in 1 .. n : e[i] = f[i]
  BY DEF Text
<1> HIDE DEF e
<1>2. n + 1 \in Readable(e)
  BY <1>1, NewLineAssumption DEF Readable, Ended
<1>3. \A i \in 1 .. n : i \in Readable(f) <=> i \in Readable(e)
  BY <1>1 DEF Readable, Ended
<1>4. After(e)[n] = After(f)[n]
  <2>1. IsReplay(After(e), e, n + 1) /\ IsReplay(After(f), f, n)
    BY <1>1, AfterIs
  <2>2. AgreeUpTo(e, f, n)
    BY <1>1, <1>3 DEF AgreeUpTo
  <2>3. n \in Nat /\ n + 1 \in Nat /\ n <= n + 1 /\ n <= n
    BY <1>1
  <2> HIDE DEF n
  <2>4. QED
    BY <2>1, <2>2, <2>3, ReplayAgrees, SMTT(30)
<1>5. After(e)[n + 1] = Apply(After(e)[n], j)
  BY <1>1, <1>2, AfterIs
<1>6. QED
  BY <1>1, <1>4, <1>5, AfterIs DEF e

LEMMA ReplayNewLine ==
  ASSUME NEW f \in Seq(Text)
  PROVE  ReplayOf(Append(f, NewLine)) = ReplayOf(f)
<1> DEFINE e == Append(f, NewLine)
           n == Len(f)
<1>1. e \in Seq(Text) /\ Len(e) = n + 1 /\ n \in Nat /\ e[n + 1] = NewLine
      /\ \A i \in 1 .. n : e[i] = f[i]
  BY DEF Text
<1> HIDE DEF e
<1>2. n + 1 \notin Readable(e)
  BY <1>1 DEF Readable
<1>3. \A i \in 1 .. n : i \in Readable(f) <=> i \in Readable(e)
  BY <1>1 DEF Readable
<1>4. After(e)[n] = After(f)[n]
  <2>1. IsReplay(After(e), e, n + 1) /\ IsReplay(After(f), f, n)
    BY <1>1, AfterIs
  <2>2. AgreeUpTo(e, f, n)
    BY <1>1, <1>3 DEF AgreeUpTo
  <2>3. n \in Nat /\ n + 1 \in Nat /\ n <= n + 1 /\ n <= n
    BY <1>1
  <2> HIDE DEF n
  <2>4. QED
    BY <2>1, <2>2, <2>3, ReplayAgrees, SMTT(30)
<1>5. After(e)[n + 1] = After(e)[n]
  BY <1>1, <1>2, AfterIs
<1>6. QED
  BY <1>1, <1>4, <1>5, AfterIs DEF e

-----------------------------------------------------------------------------
(* The file of a clean run: what it replays to is the table, but for the one
   judgment whose append is under way. *)

Only(t, q) == [u \in Tasks |-> IF u = t THEN q ELSE <<>>]

Settled ==
  /\ pending = [u \in Tasks |-> <<>>]
  /\ Ended(file)
  /\ phase = "up" => table = ReplayOf(file)
  /\ phase = "down" => table = Empty
  /\ phase = "replaying" => cursor <= Len(file) /\ table = After(file)[cursor]

TextDue(t, j) ==
  /\ phase = "up"
  /\ pending = Only(t, <<j, NewLine>>)
  /\ Ended(file)
  /\ table = Apply(ReplayOf(file), j)

LineOpen(t) ==
  /\ phase = "up"
  /\ pending = Only(t, <<NewLine>>)
  /\ table = ReplayOf(file)

Journalled ==
  clean => \/ Settled
           \/ \E t \in Tasks, j \in Judgment : TextDue(t, j)
           \/ \E t \in Tasks : LineOpen(t)

LEMMA InitJournalled == Init => Journalled
<1> SUFFICES ASSUME Init PROVE Settled
  BY DEF Journalled
<1>1. file = <<>> /\ file \in Seq(Text) /\ Len(file) = 0 /\ table = Empty /\ phase = "up"
  BY DEF Init
<1>2. ReplayOf(file) = Empty
  BY <1>1, AfterIs
<1>3. QED
  BY <1>1, <1>2 DEF Init, Settled, Ended

LEMMA QuietIs ==
  ASSUME pending \in [Tasks -> Seq(Text)]
  PROVE  Quiet <=> pending = [u \in Tasks |-> <<>>]
BY DEF Quiet

LEMMA QuietSettled ==
  ASSUME pending \in [Tasks -> Seq(Text)], clean, Quiet, Journalled
  PROVE  Settled
<1>1. ASSUME NEW t \in Tasks, NEW q, q # <<>>, pending = Only(t, q) PROVE FALSE
  <2>1. pending[t] = q
    BY <1>1 DEF Only
  <2>2. QED
    BY <1>1, <2>1 DEF Quiet
<1>2. ASSUME NEW j PROVE <<j, NewLine>> # <<>> /\ <<NewLine>> # <<>>
  OBVIOUS
<1>3. ASSUME NEW t \in Tasks, NEW j \in Judgment, TextDue(t, j) PROVE FALSE
  BY <1>1, <1>2, <1>3 DEF TextDue
<1>4. ASSUME NEW t \in Tasks, LineOpen(t) PROVE FALSE
  BY <1>1, <1>2, <1>4 DEF LineOpen
<1>5. QED
  BY <1>3, <1>4, Zenon DEF Journalled

LEMMA StepJournalled ==
  ASSUME TypeOK, Journalled, [Next]_vars
  PROVE  Journalled'
<1> SUFFICES ASSUME clean' PROVE \/ Settled'
                                 \/ \E t \in Tasks, j \in Judgment : TextDue(t, j)'
                                 \/ \E t \in Tasks : LineOpen(t)'
  BY Zenon DEF Journalled
<1>0. file \in Seq(Text) /\ pending \in [Tasks -> Seq(Text)]
  BY DEF TypeOK
<1>a. ASSUME Quiet, clean PROVE Settled
  BY <1>0, <1>a, QuietSettled
<1>1. ASSUME NEW t \in Tasks, NEW j \in Judgment, Judge(t, j) PROVE TextDue(t, j)'
  <2>1. clean /\ Quiet /\ phase = "up"
    BY <1>1, Zenon DEF Judge
  <2>2. Settled
    BY <2>1, <1>a
  <2>3. pending' = Only(t, <<j, NewLine>>)
    BY <1>1, <2>2 DEF Judge, Settled, Only
  <2>4. table' = Apply(ReplayOf(file), j) /\ file' = file /\ phase' = "up"
    BY <1>1, <2>1, <2>2 DEF Judge, Settled
  <2>5. QED
    BY <2>2, <2>3, <2>4 DEF TextDue, Settled, Only, Ended
<1>2. ASSUME NEW t \in Tasks, Write(t)
      PROVE  Settled' \/ \E u \in Tasks : LineOpen(u)'
  <2>1. /\ clean /\ pending[t] # <<>> /\ table' = table /\ phase' = phase
        /\ file' = Append(file, Head(pending[t]))
        /\ pending' = [pending EXCEPT ![t] = Tail(@)]
    BY <1>2, Zenon DEF Write
  <2>2. ~Settled
    BY <2>1 DEF Settled
  <2>3. ASSUME NEW u \in Tasks, NEW j \in Judgment, TextDue(u, j) PROVE LineOpen(u)'
    <3>1. u = t /\ pending[t] = <<j, NewLine>>
      BY <2>1, <2>3 DEF TextDue, Only
    <3>2. Head(pending[t]) = j /\ Tail(pending[t]) = <<NewLine>>
      BY <3>1
    <3>3. pending' = Only(u, <<NewLine>>)
      BY <2>1, <2>3, <3>1, <3>2 DEF TextDue, Only
    <3>4. ReplayOf(file') = Apply(ReplayOf(file), j)
      BY <1>0, <2>1, <2>3, <3>2, ReplayText DEF TextDue
    <3>5. phase' = "up" /\ table' = ReplayOf(file')
      BY <2>1, <2>3, <3>4 DEF TextDue
    <3>6. QED
      BY <3>3, <3>5 DEF LineOpen, Only
  <2>4. ASSUME NEW u \in Tasks, LineOpen(u) PROVE Settled'
    <3>1. u = t /\ pending[t] = <<NewLine>>
      BY <2>1, <2>4 DEF LineOpen, Only
    <3>2. Head(pending[t]) = NewLine /\ Tail(pending[t]) = <<>>
      BY <3>1
    <3>3. pending' = [v \in Tasks |-> <<>>]
      BY <2>1, <2>4, <3>1, <3>2 DEF LineOpen, Only
    <3>4. ReplayOf(file') = ReplayOf(file)
      BY <1>0, <2>1, <3>2, ReplayNewLine
    <3>5. Ended(file')
      BY <1>0, <2>1, <3>2 DEF Ended, Text
    <3>6. phase' = "up" /\ table' = ReplayOf(file')
      BY <2>1, <2>4, <3>4 DEF LineOpen
    <3>7. QED
      BY <3>3, <3>5, <3>6 DEF Settled
  <2>5. QED
    BY <2>1, <2>2, <2>3, <2>4, Zenon DEF Journalled
<1>3. ASSUME NEW t \in Tasks, WriteFails(t) PROVE FALSE
  BY <1>3, Zenon DEF WriteFails
<1>4. CASE Crash
  <2>1. clean /\ Quiet
    BY <1>4, Zenon DEF Crash
  <2>2. Settled
    BY <2>1, <1>a
  <2>3. QED
    BY <1>4, <2>2 DEF Crash, Settled, Ended
<1>b. ASSUME phase # "up", clean PROVE Settled
  BY <1>b, Zenon DEF Journalled, TextDue, LineOpen
<1>5. CASE Start
  <2>1. clean /\ phase # "up"
    BY <1>5 DEF Start
  <2>2. Settled
    BY <1>b, <2>1
  <2>3. cursor' <= Len(file) /\ table' = After(file)[cursor']
    BY <1>0, <1>5, <2>2, AfterIs DEF Start, Settled
  <2>4. QED
    BY <1>5, <2>2, <2>3 DEF Start, Settled, Ended
<1>6. ASSUME NEW i \in DOMAIN file, ReplayNext(i) PROVE Settled'
  <2>1. clean /\ phase = "replaying" /\ i = cursor + 1
    BY <1>6, Zenon DEF ReplayNext
  <2>2. Settled
    BY <1>b, <2>1
  <2>3. i \in 1 .. Len(file) /\ i - 1 = cursor
    BY <1>0, <2>1 DEF TypeOK
  <2>4. After(file)[i] = IF i \in Readable(file) THEN Apply(table, file[i]) ELSE table
    BY <1>0, <2>1, <2>2, <2>3, AfterIs DEF Settled
  <2>5. table' = IF i \in Readable(file) THEN Apply(table, file[i]) ELSE table
    BY <1>6 DEF ReplayNext
  <2>6. QED
    BY <1>6, <2>2, <2>3, <2>4, <2>5 DEF ReplayNext, Settled, Ended
<1>7. CASE Ready
  <2>1. clean /\ phase = "replaying" /\ cursor = Len(file)
    BY <1>7, Zenon DEF Ready
  <2>2. Settled
    BY <1>b, <2>1
  <2>3. table = ReplayOf(file)
    BY <1>0, <2>1, <2>2, AfterIs DEF Settled
  <2>4. QED
    BY <1>7, <2>2, <2>3 DEF Ready, Settled, Ended
<1>8. CASE UNCHANGED vars
  <2>1. clean
    BY <1>8, Zenon DEF vars
  <2>2. QED
    BY <1>8, <2>1 DEF vars, Journalled, Settled, TextDue, LineOpen, Only, Ended
<1>9. QED
  BY <1>1, <1>2, <1>3, <1>4, <1>5, <1>6, <1>7, <1>8 DEF Next

(* A restart changes nothing: while every judgment has reached the file whole
   and in order, the table that Promotion::new rebuilds from judge.jsonl is the
   table record() left, at whatever quiet moment the process is killed, and
   however often. *)
THEOREM RestartKeepsTheTable == Spec => []RestartChangesNothing
<1>1. TypeOK /\ Journalled => RestartChangesNothing
  <2> SUFFICES ASSUME TypeOK, Journalled, phase = "up", clean, Quiet
               PROVE  table = ReplayOf(file)
    BY Zenon DEF RestartChangesNothing
  <2>1. pending \in [Tasks -> Seq(Text)]
    BY DEF TypeOK
  <2>2. Settled
    BY <2>1, QuietSettled
  <2>3. QED
    BY <2>2 DEF Settled
<1>2. TypeOK /\ Journalled /\ [Next]_vars => Journalled'
  BY StepJournalled
<1>3. QED
  BY <1>1, <1>2, InitJournalled, TypeCorrect, PTL DEF Spec

-----------------------------------------------------------------------------
(* The windows are the last judgments of the history. *)

Newest(h) == Last(h, Len(h))

LEMMA LastIs ==
  ASSUME NEW h \in Seq(Judgment), NEW k \in 0 .. Len(h)
  PROVE  LET n == IF k > Window THEN Window ELSE k IN
         /\ Last(h, k) \in Seq(Judgment)
         /\ Len(Last(h, k)) = n
         /\ \A i \in 1 .. n : Last(h, k)[i] = h[k - n + i]
<1>1. CASE k > Window
  <2>1. Last(h, k) = SubSeq(h, k - Window + 1, k)
    BY <1>1 DEF Last
  <2>2. k - Window + 1 \in 1 .. Len(h) + 1 /\ k \in Nat /\ k <= Len(h)
    BY <1>1, PromotionAssumption
  <2>3. QED
    BY <1>1, <2>1, <2>2, PromotionAssumption
<1>2. CASE ~(k > Window)
  <2>1. Last(h, k) = SubSeq(h, 1, k)
    BY <1>2 DEF Last
  <2>2. QED
    BY <1>2, <2>1
<1>3. QED
  BY <1>1, <1>2

(* A new judgment leaves the windows of the past alone. *)
LEMMA PastKept ==
  ASSUME NEW h \in Seq(Judgment), NEW j \in Judgment, NEW k \in 0 .. Len(h)
  PROVE  Last(Append(h, j), k) = Last(h, k)
<1> DEFINE e == Append(h, j)
           n == IF k > Window THEN Window ELSE k
<1>1. e \in Seq(Judgment) /\ Len(e) = Len(h) + 1 /\ k \in 0 .. Len(e)
      /\ \A i \in 1 .. Len(h) : e[i] = h[i]
  OBVIOUS
<1> HIDE DEF e
<1>2. /\ Last(e, k) \in Seq(Judgment) /\ Len(Last(e, k)) = n
      /\ \A i \in 1 .. n : Last(e, k)[i] = e[k - n + i]
  BY <1>1, LastIs
<1>3. /\ Last(h, k) \in Seq(Judgment) /\ Len(Last(h, k)) = n
      /\ \A i \in 1 .. n : Last(h, k)[i] = h[k - n + i]
  BY LastIs
<1>4. \A i \in 1 .. n : k - n + i \in 1 .. Len(h)
  BY PromotionAssumption
<1>5. \A i \in 1 .. n : Last(e, k)[i] = Last(h, k)[i]
  BY <1>1, <1>2, <1>3, <1>4
<1> HIDE DEF n
<1>6. QED
  BY <1>2, <1>3, <1>5 DEF e

(* A window holds the given field of the newest judgments. *)
Shows(q, w, v) == Len(q) = Len(w) /\ \A i \in 1 .. Len(w) : q[i] = v[w[i]]

PassOf == [j \in Judgment |-> j.pass]
HardFailOf == [j \in Judgment |-> j.hardFail]

LEMMA PushShows ==
  ASSUME NEW h \in Seq(Judgment), NEW j \in Judgment, NEW v \in [Judgment -> BOOLEAN],
         NEW q \in Seq(BOOLEAN), Shows(q, Newest(h), v)
  PROVE  Shows(PushCap(q, v[j]), Newest(Append(h, j)), v)
<1> DEFINE e == Append(h, j)
           m == Len(h)
           n == IF m > Window THEN Window ELSE m
           c == IF m + 1 > Window THEN Window ELSE m + 1
           a == Append(q, v[j])
           r == PushCap(q, v[j])
<1>1. e \in Seq(Judgment) /\ Len(e) = m + 1 /\ m \in Nat /\ e[m + 1] = j
      /\ \A i \in 1 .. m : e[i] = h[i]
  OBVIOUS
<1>2. /\ Len(Newest(h)) = n
      /\ \A i \in 1 .. n : Newest(h)[i] = h[m - n + i]
  BY LastIs DEF Newest
<1> HIDE DEF e
<1>3. /\ Len(Newest(e)) = c
      /\ \A i \in 1 .. c : Newest(e)[i] = e[m + 1 - c + i]
  <2>1. m + 1 \in 0 .. Len(e)
    BY <1>1
  <2>2. Newest(e) = Last(e, m + 1)
    BY <1>1 DEF Newest
  <2> DEFINE k == m + 1
             p == IF k > Window THEN Window ELSE k
  <2>3. k \in 0 .. Len(e) /\ e \in Seq(Judgment)
    BY <1>1, <2>1
  <2> HIDE DEF k
  <2>4. Len(Last(e, k)) = p /\ \A i \in 1 .. p : Last(e, k)[i] = e[k - p + i]
    BY <2>3, LastIs
  <2>5. p = c
    BY DEF k
  <2> HIDE DEF p, c
  <2>6. Len(Last(e, m + 1)) = c /\ \A i \in 1 .. c : Last(e, m + 1)[i] = e[m + 1 - c + i]
    BY <2>4, <2>5 DEF k
  <2>7. QED
    BY <2>2, <2>6
<1>4. n \in Nat /\ c \in Nat /\ n <= Window /\ n <= m /\ c <= m + 1
  BY <1>1, PromotionAssumption
<1>5. Len(q) = n /\ \A i \in 1 .. n : q[i] = v[h[m - n + i]]
  BY <1>2 DEF Shows
<1>6. a \in Seq(BOOLEAN) /\ Len(a) = n + 1 /\ a # <<>>
      /\ \A i \in 1 .. n + 1 : a[i] = v[e[m - n + i]]
  <2>1. v[j] \in BOOLEAN
    OBVIOUS
  <2>2. a \in Seq(BOOLEAN) /\ Len(a) = n + 1 /\ a # <<>> /\ a[n + 1] = v[j]
        /\ \A i \in 1 .. n : a[i] = q[i]
    <3>1. Len(q) = n
      BY <1>5
    <3> DEFINE b == v[j]
    <3>2. b \in BOOLEAN
      BY <2>1
    <3> HIDE DEF b, n
    <3>3. LET d == Append(q, b) IN
          d \in Seq(BOOLEAN) /\ Len(d) = n + 1 /\ d # <<>> /\ d[n + 1] = b
          /\ \A i \in 1 .. n : d[i] = q[i]
      BY <3>1, <3>2
    <3>4. QED
      BY <3>3 DEF b
  <2>3. \A i \in 1 .. n : m - n + i \in 1 .. m
    BY <1>1, <1>4
  <2>4. \A i \in 1 .. n : a[i] = v[e[m - n + i]]
    BY <1>1, <1>5, <2>2, <2>3
  <2>5. m - n + (n + 1) = m + 1
    BY <1>1, <1>4
  <2>6. a[n + 1] = v[e[m - n + (n + 1)]]
    BY <1>1, <2>2, <2>5
  <2>7. ASSUME NEW i \in 1 .. n + 1 PROVE a[i] = v[e[m - n + i]]
    <3> HIDE DEF a, n, m
    <3>1. i \in 1 .. n \/ i = n + 1
      BY <1>4
    <3>2. QED
      BY <2>4, <2>6, <3>1
  <2> HIDE DEF a, n
  <2>8. QED
    BY <2>2, <2>7
<1>7. CASE n < Window
  <2>1. r = a
    BY <1>5, <1>7 DEF PushCap
  <2>2. c = n + 1
    BY <1>1, <1>4, <1>7, PromotionAssumption
  <2> SUFFICES ASSUME NEW i \in 1 .. c PROVE r[i] = v[Newest(e)[i]]
    <3> HIDE DEF a, r, n, c
    <3>1. Len(r) = Len(Newest(e))
      BY <1>3, <1>6, <2>1, <2>2
    <3>2. QED
      BY <1>3, <3>1, Zenon DEF Shows, r, e
  <2>3. m + 1 - c + i = m - n + i /\ i \in 1 .. n + 1
    BY <1>1, <1>4, <2>2
  <2> HIDE DEF a, r, n, c
  <2>4. Newest(e)[i] = e[m + 1 - c + i]
    BY <1>3
  <2>5. a[i] = v[e[m - n + i]]
    BY <1>6, <2>3
  <2>6. QED
    BY <2>1, <2>3, <2>4, <2>5
<1>8. CASE ~(n < Window)
  <2>1. r = Tail(a)
    BY <1>5, <1>8 DEF PushCap
  <2>2. c = n
    BY <1>1, <1>4, <1>8, PromotionAssumption
  <2> HIDE DEF a, r, n, c
  <2>3. Len(r) = n /\ \A i \in 1 .. n : r[i] = a[i + 1]
    BY <1>4, <1>6, <2>1
  <2> SUFFICES ASSUME NEW i \in 1 .. c PROVE r[i] = v[Newest(e)[i]]
    <3>1. Len(r) = Len(Newest(e))
      BY <1>3, <2>2, <2>3
    <3>2. QED
      BY <1>3, <3>1, Zenon DEF Shows, r, e
  <2>4. i + 1 \in 1 .. n + 1 /\ m - n + (i + 1) = m + 1 - c + i /\ i \in 1 .. n
    BY <1>1, <1>4, <2>2
  <2>5. Newest(e)[i] = e[m + 1 - c + i]
    BY <1>3
  <2>6. a[i + 1] = v[e[m - n + (i + 1)]]
    BY <1>6, <2>4
  <2>7. QED
    BY <2>3, <2>4, <2>5, <2>6
<1>9. QED
  BY <1>7, <1>8

-----------------------------------------------------------------------------
(* What advance() sees in the windows is what the history says. *)

ShowsBoth(ls, h) ==
  Shows(ls.passes, Newest(h), PassOf) /\ Shows(ls.hardFails, Newest(h), HardFailOf)

LEMMA WindowsTell ==
  ASSUME NEW ls, LabelOK(ls), NEW h \in Seq(Judgment), ShowsBoth(ls, h)
  PROVE  /\ Bar(ls) => Convincing(Newest(h))
         /\ ~Regressed(ls) => ~Poor(Newest(h))
<1> DEFINE w == Newest(h)
           ps == ls.passes
           hs == ls.hardFails
           n == Len(w)
<1>1. ps \in Seq(BOOLEAN) /\ hs \in Seq(BOOLEAN)
  BY DEF LabelOK, LabelState
<1>2. w \in Seq(Judgment)
  BY LastIs DEF Newest
<1>3. /\ Len(ps) = n /\ \A i \in 1 .. n : ps[i] = w[i].pass
      /\ Len(hs) = n /\ \A i \in 1 .. n : hs[i] = w[i].hardFail
  <2> HIDE DEF w, ps, hs
  <2>1. \A i \in 1 .. n : w[i] \in Judgment
    BY <1>2
  <2>2. \A i \in 1 .. n : PassOf[w[i]] = w[i].pass /\ HardFailOf[w[i]] = w[i].hardFail
    BY <2>1 DEF PassOf, HardFailOf
  <2>3. QED
    BY <2>2 DEF ShowsBoth, Shows, w, ps, hs
<1> HIDE DEF w, ps, hs
<1>4. DOMAIN ps = 1 .. n /\ DOMAIN hs = 1 .. n /\ DOMAIN w = 1 .. n /\ n \in Nat
  BY <1>1, <1>2, <1>3
<1>5. {i \in DOMAIN ps : ps[i]} = {i \in DOMAIN w : w[i].pass}
  BY <1>3, <1>4
<1>6. Count(ps) = Passes(w)
  BY <1>5, Zenon DEF Count, Passes
<1>7. {i \in DOMAIN hs : hs[i]} = {i \in DOMAIN w : w[i].hardFail /\ i + n > n}
  BY <1>3, <1>4
<1>8. Count(hs) = HardFails(w, n)
  BY <1>7, Zenon DEF Count, HardFails
<1>9. {i \in DOMAIN hs : hs[i] /\ i + Recent > Len(hs)}
        = {i \in DOMAIN w : w[i].hardFail /\ i + Recent > Len(w)}
  BY <1>3, <1>4
<1>10. RecentFails(hs) = HardFails(w, Recent)
  BY <1>9, Zenon DEF RecentFails, HardFails
<1>11. Bar(ls) => Convincing(w)
  BY <1>3, <1>6, <1>8 DEF Bar, Convincing, ps, hs
<1>12. ASSUME ~Regressed(ls) PROVE ~Poor(w)
  <2>1. ~PassRateBelow(ps, DemotePass) /\ ~(RecentFails(hs) >= 2)
    BY <1>12 DEF Regressed, ps, hs
  <2>2. CASE n = 0
    <3>1. Count(ps) = 0
      <4>1. {i \in DOMAIN ps : ps[i]} = {}
        BY <1>4, <2>2
      <4>2. QED
        BY <4>1, FS_EmptySet DEF Count
    <3>2. DemotePass[1] \in Nat /\ DemotePass[2] \in Nat
      BY PromotionAssumption DEF Fraction
    <3> DEFINE a == DemotePass[1]
               b == DemotePass[2]
    <3> HIDE DEF a, b
    <3>3. ~(0 * b < a * 0)
      BY <3>2 DEF a, b
    <3>4. QED
      BY <1>6, <1>10, <2>1, <2>2, <3>1, <3>3, Zenon DEF Poor, a, b
  <2>3. CASE n # 0
    <3>1. ~(Count(ps) * DemotePass[2] < DemotePass[1] * n)
      BY <1>3, <2>1, <2>3 DEF PassRateBelow
    <3>2. QED
      BY <1>6, <1>10, <2>1, <3>1, Zenon DEF Poor
  <2>4. QED
    BY <2>2, <2>3
<1>13. QED
  BY <1>11, <1>12 DEF w

-----------------------------------------------------------------------------
(* Serving, and the soak, read off the history. *)

EarnedAt(h, k) ==
  /\ Convincing(Last(h, k))
  /\ \A m \in k + 1 .. Len(h) : ~Poor(Last(h, m))

Earning(ls, h) ==
  /\ ShowsBoth(ls, h)
  /\ ls.state = "Canary" => \E k \in DOMAIN h : EarnedAt(h, k) /\ Len(h) = k + ls.soaked
  /\ ls.state = "LocalServed" =>
       \E k \in DOMAIN h : EarnedAt(h, k) /\ Len(h) > k /\ Len(h) >= k + Soak

LEMMA EarnedStays ==
  ASSUME NEW h \in Seq(Judgment), NEW j \in Judgment, NEW k \in DOMAIN h, EarnedAt(h, k),
         ~Poor(Newest(Append(h, j)))
  PROVE  EarnedAt(Append(h, j), k)
<1> DEFINE e == Append(h, j)
<1>1. Len(e) = Len(h) + 1 /\ k \in 1 .. Len(h)
  OBVIOUS
<1>2. \A m \in 0 .. Len(h) : Last(e, m) = Last(h, m)
  BY PastKept
<1>3. Newest(e) = Last(e, Len(h) + 1)
  BY <1>1 DEF Newest
<1>4. ~Poor(Last(e, Len(h) + 1))
  BY <1>3
<1> HIDE DEF e
<1>5. Convincing(Last(e, k))
  BY <1>1, <1>2 DEF EarnedAt
<1>6. ASSUME NEW m \in k + 1 .. Len(e) PROVE ~Poor(Last(e, m))
  <2>1. CASE m = Len(h) + 1
    BY <1>4, <2>1
  <2>2. CASE m # Len(h) + 1
    <3>1. m \in k + 1 .. Len(h) /\ m \in 0 .. Len(h)
      BY <1>1, <2>2
    <3>2. QED
      BY <1>2, <3>1 DEF EarnedAt
  <2>3. QED
    BY <2>1, <2>2
<1>7. QED
  BY <1>5, <1>6 DEF EarnedAt, e

(* advance() keeps serving earned: `new` is the label with the judgment pushed. *)
LEMMA AdvanceEarning ==
  ASSUME NEW h \in Seq(Judgment), NEW j \in Judgment, NEW old, Earning(old, h),
         NEW new, LabelOK(new), ShowsBoth(new, Append(h, j)),
         new.state = old.state, new.soaked = old.soaked
  PROVE  Earning(Advance(new), Append(h, j))
<1> DEFINE e == Append(h, j)
           adv == Advance(new)
<1> SUFFICES Earning(adv, e)
  OBVIOUS
<1>1. e \in Seq(Judgment) /\ Len(e) = Len(h) + 1 /\ Len(h) \in Nat
      /\ DOMAIN h = 1 .. Len(h) /\ DOMAIN e = 1 .. Len(h) + 1
  OBVIOUS
<1>2. new.state \in States /\ new \in LabelState /\ new.soaked \in Nat
  BY DEF LabelOK, LabelState
<1>3. ShowsBoth(adv, e)
  <2>1. adv.passes = new.passes /\ adv.hardFails = new.hardFails
    BY AdvanceType
  <2>2. QED
    BY <2>1 DEF ShowsBoth
<1>4. /\ Bar(new) => Convincing(Newest(e))
      /\ ~Regressed(new) => ~Poor(Newest(e))
  BY <1>1, WindowsTell
<1>5. ASSUME adv.state \notin Serving PROVE Earning(adv, e)
  BY <1>3, <1>5 DEF Earning, Serving
<1>6. ASSUME NEW k \in DOMAIN h, EarnedAt(h, k), ~Regressed(new) PROVE EarnedAt(e, k)
  BY <1>4, <1>6, EarnedStays
<1> HIDE DEF e
<1>7. CASE new.state \in {"CloudOnly", "ShadowJudged"}
  <2>1. adv = IF Bar(new) THEN [new EXCEPT !.state = "Canary", !.soaked = 0]
              ELSE [new EXCEPT !.state = "ShadowJudged"]
    BY <1>7 DEF Advance, Serving
  <2>2. CASE Bar(new)
    <3>1. adv.state = "Canary" /\ adv.soaked = 0
      BY <1>2, <2>1, <2>2 DEF LabelState
    <3>2. Convincing(Last(e, Len(e)))
      BY <1>4, <2>2 DEF Newest
    <3>3. EarnedAt(e, Len(e)) /\ Len(e) \in DOMAIN e
      BY <1>1, <3>2 DEF EarnedAt
    <3>4. Len(e) = Len(e) + adv.soaked
      BY <1>1, <3>1
    <3> HIDE DEF adv
    <3>5. QED
      BY <1>3, <3>1, <3>3, <3>4 DEF Earning
  <2>3. CASE ~Bar(new)
    <3>1. adv.state = "ShadowJudged"
      BY <1>2, <2>1, <2>3 DEF LabelState
    <3>2. QED
      BY <1>5, <3>1 DEF Serving
  <2>4. QED
    BY <2>2, <2>3
<1>8. CASE new.state \in Serving /\ Regressed(new)
  <2>1. adv = [new EXCEPT !.state = "Demoted"]
    BY <1>8 DEF Advance, Serving
  <2>2. adv.state = "Demoted"
    BY <1>2, <2>1 DEF LabelState
  <2>3. QED
    BY <1>5, <2>2 DEF Serving
<1>9. CASE new.state = "Canary" /\ ~Regressed(new)
  <2>1. adv = [new EXCEPT !.soaked = @ + 1,
                 !.state = IF new.soaked + 1 >= Soak /\ Bar(new)
                           THEN "LocalServed" ELSE "Canary"]
    BY <1>9 DEF Advance, Serving
  <2>2. /\ adv.soaked = new.soaked + 1
        /\ adv.state \in Serving
        /\ adv.state = "LocalServed" => new.soaked + 1 >= Soak
    BY <1>2, <2>1 DEF LabelState, Serving
  <2>3. PICK k \in DOMAIN h : EarnedAt(h, k) /\ Len(h) = k + old.soaked
    BY <1>9 DEF Earning
  <2>4. EarnedAt(e, k)
    BY <1>6, <1>9, <2>3
  <2> HIDE DEF adv
  <2> DEFINE n == new.soaked
  <2>a. k \in 1 .. Len(h) /\ Len(h) = k + n /\ n \in Nat /\ adv.soaked = n + 1
    BY <1>1, <1>2, <2>2, <2>3
  <2> HIDE DEF n
  <2>b. k \in DOMAIN e /\ Len(e) = k + adv.soaked /\ Len(e) > k
    BY <1>1, <2>a
  <2>c. n + 1 >= Soak => Len(e) >= k + Soak
    BY <1>1, <2>a, PromotionAssumption
  <2>5. new.soaked + 1 >= Soak => Len(e) >= k + Soak
    BY <2>c DEF n
  <2>6. QED
    BY <1>3, <2>2, <2>4, <2>b, <2>5 DEF Earning
<1>10. CASE new.state = "LocalServed" /\ ~Regressed(new)
  <2>1. adv.state = "LocalServed"
    BY <1>10 DEF Advance, Serving
  <2>2. PICK k \in DOMAIN h : EarnedAt(h, k) /\ Len(h) > k /\ Len(h) >= k + Soak
    BY <1>10 DEF Earning
  <2>3. EarnedAt(e, k)
    BY <1>6, <1>10, <2>2
  <2>4. k \in DOMAIN e /\ Len(e) > k /\ Len(e) >= k + Soak
    BY <1>1, <2>2, PromotionAssumption
  <2> HIDE DEF adv
  <2>5. QED
    BY <1>3, <2>1, <2>3, <2>4 DEF Earning
<1>11. CASE new.state = "Demoted"
  <2>1. adv = [new EXCEPT !.state = "ShadowJudged"]
    BY <1>11 DEF Advance, Serving
  <2>2. adv.state = "ShadowJudged"
    BY <1>2, <2>1 DEF LabelState
  <2>3. QED
    BY <1>5, <2>2 DEF Serving
<1>12. QED
  BY <1>2, <1>7, <1>8, <1>9, <1>10, <1>11 DEF States, Serving

-----------------------------------------------------------------------------

AllEarning == \A l \in Labels : Earning(table[l], applied[l])

(* One judgment, applied to the table and noted in the history. *)
LEMMA JudgmentEarning ==
  ASSUME TableOK(table), applied \in [Labels -> Seq(Judgment)], AllEarning,
         NEW j \in Judgment
  PROVE  \A l \in Labels : Earning(Apply(table, j)[l], Noted(j)[l])
<1> SUFFICES ASSUME NEW l \in Labels PROVE Earning(Apply(table, j)[l], Noted(j)[l])
  OBVIOUS
<1>1. j.label \in Labels /\ j.pass \in BOOLEAN /\ j.hardFail \in BOOLEAN
  BY Zenon DEF Judgment
<1>2. DOMAIN table = Labels /\ DOMAIN applied = Labels
  BY DEF TableOK
<1>3. CASE l # j.label
  <2>1. Apply(table, j)[l] = table[l] /\ Noted(j)[l] = applied[l]
    BY <1>2, <1>3, Zenon DEF Apply, Noted
  <2>2. QED
    BY <2>1 DEF AllEarning
<1>4. CASE l = j.label
  <2> DEFINE old == table[l]
             h == applied[l]
             ps == PushCap(old.passes, j.pass)
             hs == PushCap(old.hardFails, j.hardFail)
             new == [old EXCEPT !.passes = ps, !.hardFails = hs]
  <2>1. old \in LabelState /\ LabelOK(old) /\ h \in Seq(Judgment) /\ Earning(old, h)
    BY DEF TableOK, AllEarning
  <2>2. Apply(table, j)[l] = Advance(new) /\ Noted(j)[l] = Append(h, j)
    BY <1>2, <1>4, Zenon DEF Apply, Noted
  <2> HIDE DEF old, h
  <2>3. /\ old.passes \in Seq(BOOLEAN) /\ old.hardFails \in Seq(BOOLEAN)
        /\ Len(old.passes) <= Window /\ Len(old.hardFails) = Len(old.passes)
        /\ old.soaked \in Nat /\ old.state \in States
    BY <2>1 DEF LabelOK, LabelState
  <2>4. PassOf \in [Judgment -> BOOLEAN] /\ HardFailOf \in [Judgment -> BOOLEAN]
        /\ PassOf[j] = j.pass /\ HardFailOf[j] = j.hardFail
    <3>1. \A i \in Judgment : i.pass \in BOOLEAN /\ i.hardFail \in BOOLEAN
      BY Zenon DEF Judgment
    <3>2. QED
      BY <3>1, Zenon DEF PassOf, HardFailOf
  <2>5. Shows(ps, Newest(Append(h, j)), PassOf)
    <3>1. Shows(old.passes, Newest(h), PassOf)
      BY <2>1 DEF Earning, ShowsBoth
    <3>2. Shows(PushCap(old.passes, PassOf[j]), Newest(Append(h, j)), PassOf)
      BY <2>1, <2>3, <2>4, <3>1, PushShows
    <3>3. QED
      BY <2>4, <3>2
  <2>6. Shows(hs, Newest(Append(h, j)), HardFailOf)
    <3>1. Shows(old.hardFails, Newest(h), HardFailOf)
      BY <2>1 DEF Earning, ShowsBoth
    <3>2. Shows(PushCap(old.hardFails, HardFailOf[j]), Newest(Append(h, j)), HardFailOf)
      BY <2>1, <2>3, <2>4, <3>1, PushShows
    <3>3. QED
      BY <2>4, <3>2
  <2>7. /\ ps \in Seq(BOOLEAN)
        /\ Len(ps) = IF Len(old.passes) < Window
                     THEN Len(old.passes) + 1 ELSE Len(old.passes)
    BY <1>1, <2>3, PushCapBounded
  <2>8. Len(old.hardFails) <= Window
    BY <2>3
  <2>9. /\ hs \in Seq(BOOLEAN)
        /\ Len(hs) = IF Len(old.hardFails) < Window
                     THEN Len(old.hardFails) + 1 ELSE Len(old.hardFails)
    <3> DEFINE q == old.hardFails
               v == j.hardFail
    <3>1. q \in Seq(BOOLEAN) /\ v \in BOOLEAN /\ Len(q) <= Window
      BY <1>1, <2>3, <2>8
    <3> HIDE DEF q, v
    <3>2. /\ PushCap(q, v) \in Seq(BOOLEAN)
          /\ Len(PushCap(q, v)) = IF Len(q) < Window THEN Len(q) + 1 ELSE Len(q)
      BY <3>1, PushCapBounded
    <3>3. QED
      BY <3>2 DEF q, v
  <2> HIDE DEF ps, hs
  <2>10. Len(hs) = Len(ps) /\ Len(ps) <= Window
    BY <2>3, <2>7, <2>9, PromotionAssumption
  <2>11. /\ new \in LabelState /\ new.passes = ps /\ new.hardFails = hs
         /\ new.state = old.state /\ new.soaked = old.soaked
    BY <2>1, <2>7, <2>9 DEF LabelState
  <2> HIDE DEF new
  <2>12. LabelOK(new)
    BY <2>7, <2>9, <2>10, <2>11 DEF LabelOK
  <2>13. ShowsBoth(new, Append(h, j))
    BY <2>5, <2>6, <2>11 DEF ShowsBoth
  <2>14. Earning(Advance(new), Append(h, j))
    BY <2>1, <2>11, <2>12, <2>13, AdvanceEarning
  <2>15. QED
    BY <2>2, <2>14
<1>5. QED
  BY <1>3, <1>4

LEMMA EmptyEarning ==
  ASSUME NEW h, h = <<>>
  PROVE  Earning(Unknown, h)
<1>1. h \in Seq(Judgment) /\ Len(h) = 0 /\ Len(Newest(h)) = 0
  <2>1. h \in Seq(Judgment) /\ Len(h) = 0 /\ 0 \in 0 .. Len(h) /\ ~(0 > Window)
    BY PromotionAssumption
  <2>2. Len(Last(h, 0)) = 0
    BY <2>1, LastIs
  <2>3. QED
    BY <2>1, <2>2 DEF Newest
<1>2. Unknown.passes = <<>> /\ Unknown.hardFails = <<>> /\ Unknown.state = "CloudOnly"
  BY DEF Unknown
<1>3. QED
  BY <1>1, <1>2 DEF Earning, ShowsBoth, Shows

LEMMA StepEarning ==
  ASSUME TypeOK, TableOK(table), AllEarning, [Next]_vars
  PROVE  AllEarning'
<1>0. applied \in [Labels -> Seq(Judgment)] /\ file \in Seq(Text)
  BY DEF TypeOK
<1>a. ASSUME NEW j \in Judgment, table' = Apply(table, j), applied' = Noted(j)
      PROVE  AllEarning'
  <2>1. \A l \in Labels : Earning(Apply(table, j)[l], Noted(j)[l])
    BY <1>0, JudgmentEarning
  <2>2. QED
    BY <1>a, <2>1, Zenon DEF AllEarning
<1>b. ASSUME table' = table, applied' = applied PROVE AllEarning'
  BY <1>b, Zenon DEF AllEarning
<1>1. ASSUME NEW t \in Tasks, NEW j \in Judgment, Judge(t, j) PROVE AllEarning'
  BY <1>1, <1>a DEF Judge
<1>2. ASSUME NEW t \in Tasks, Write(t) PROVE AllEarning'
  BY <1>2, <1>b DEF Write
<1>3. ASSUME NEW t \in Tasks, WriteFails(t) PROVE AllEarning'
  BY <1>3, <1>b DEF WriteFails
<1>4. CASE Crash
  <2>1. table' = Empty /\ applied' = [l \in Labels |-> <<>>]
    BY <1>4 DEF Crash
  <2>2. \A l \in Labels : table'[l] = Unknown /\ applied'[l] = <<>>
    BY <2>1 DEF Empty
  <2>3. QED
    BY <2>2, EmptyEarning DEF AllEarning
<1>5. CASE Start
  BY <1>5, <1>b DEF Start
<1>6. ASSUME NEW i \in DOMAIN file, ReplayNext(i) PROVE AllEarning'
  <2>1. CASE i \in Readable(file)
    <3>1. file[i] \in Judgment
      BY <1>0, <2>1 DEF Text, Readable
    <3>2. QED
      BY <1>6, <1>a, <2>1, <3>1 DEF ReplayNext
  <2>2. CASE i \notin Readable(file)
    BY <1>6, <1>b, <2>2 DEF ReplayNext
  <2>3. QED
    BY <2>1, <2>2
<1>7. CASE Ready
  BY <1>7, <1>b DEF Ready
<1>8. CASE UNCHANGED vars
  BY <1>8, <1>b DEF vars
<1>9. QED
  BY <1>1, <1>2, <1>3, <1>4, <1>5, <1>6, <1>7, <1>8 DEF Next

(* Serving is earned: a label in Canary or LocalServed has, among the judgments
   applied since the start, one after which its window cleared the bar, none
   since has shown a regression, and full serving took `Soak` more; whatever
   the order of judgments, and after any replay. *)
THEOREM ServingEarned == Spec => []ServingIsEarned
<1>1. Init => AllEarning
  BY EmptyEarning DEF Init, AllEarning, Empty
<1>2. TypeOK /\ Inv /\ AllEarning /\ [Next]_vars => AllEarning'
  BY StepEarning DEF Inv
<1>3. AllEarning => ServingIsEarned
  BY DEF AllEarning, Earning, EarnedAt, ServingIsEarned
<1>4. QED
  BY <1>1, <1>2, <1>3, InitInv, StepInv, TypeCorrect, PTL DEF Spec
=============================================================================
