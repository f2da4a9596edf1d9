-------------------------- MODULE StreamRelayProofs --------------------------
(***************************************************************************)
(* Theorems of module StreamRelay, for every set of streams, wherever they *)
(* are cut into chunks (a theorem that needs the cuts between characters   *)
(* assumes it), and wherever they break or the client leaves.              *)
(***************************************************************************)
EXTENDS StreamRelay, WellFoundedInduction, TLAPS

-----------------------------------------------------------------------------
(* Induction over numbers and over sequences, said of sets. *)

LEMMA LeastElement ==
  ASSUME NEW T, T \subseteq Nat, T # {}
  PROVE  \E x \in T : \A y \in T : x <= y
<1> DEFINE Less == OpToRel(<, Nat)
<1>1. IsWellFoundedOn(Less, Nat)
  BY NatLessThanWellFounded
<1>2. PICK x \in T : \A y \in T : ~(<<y, x>> \in Less)
  <2> HIDE DEF Less
  <2>1. QED
    BY <1>1, WFMin
<1>3. ASSUME NEW y \in T, y < x PROVE FALSE
  <2>1. <<y, x>> \in Less
    BY <1>3 DEF OpToRel
  <2>2. QED
    BY <1>2, <2>1
<1>4. \A y \in T : x <= y
  BY <1>3
<1>5. QED
  BY <1>4

LEMMA SetInduction ==
  ASSUME NEW S, 0 \in S, \A n \in Nat : n \in S => n + 1 \in S
  PROVE  Nat \subseteq S
<1> DEFINE Missing == Nat \ S
<1> SUFFICES ASSUME Missing # {} PROVE FALSE
  OBVIOUS
<1>1. PICK x \in Missing : \A y \in Missing : x <= y
  BY LeastElement
<1>2. x \in Nat /\ x # 0 /\ x - 1 \in Nat /\ (x - 1) + 1 = x
  OBVIOUS
<1>3. x - 1 \in Missing
  BY <1>2
<1>4. QED
  BY <1>1, <1>2, <1>3

LEMMA SeqInduction ==
  ASSUME NEW X, NEW S, <<>> \in S,
         \A s \in Seq(X) : \A x \in X : s \in S => Append(s, x) \in S
  PROVE  Seq(X) \subseteq S
<1> DEFINE N == {n \in Nat : \A s \in Seq(X) : Len(s) = n => s \in S}
<1>1. 0 \in N
  <2>1. \A s \in Seq(X) : Len(s) = 0 => s = <<>>
    OBVIOUS
  <2>2. QED
    BY <2>1
<1>2. ASSUME NEW n \in Nat, n \in N PROVE n + 1 \in N
  <2> SUFFICES ASSUME NEW s \in Seq(X), Len(s) = n + 1 PROVE s \in S
    OBVIOUS
  <2> DEFINE t == SubSeq(s, 1, n)
  <2>1. t \in Seq(X) /\ Len(t) = n /\ s[n + 1] \in X
    OBVIOUS
  <2>2. s = Append(t, s[n + 1])
    OBVIOUS
  <2>3. t \in S
    BY <1>2, <2>1
  <2> HIDE DEF t
  <2>4. Append(t, s[n + 1]) \in S
    BY <2>1, <2>3
  <2>5. QED
    BY <2>2, <2>4
<1>3. Nat \subseteq N
  <2> HIDE DEF N
  <2>1. QED
    BY <1>1, <1>2, SetInduction
<1>4. QED
  BY <1>3

-----------------------------------------------------------------------------
(* The recursions of the model, one element at a time: what is left of the bytes, *)

LeftNext(left, p) == IF p.half = 2 THEN <<>> ELSE Append(left, p)
LeftStep(f, buf, bytes, i) ==
  IF i = 0 THEN buf ELSE LeftNext(f[i - 1], bytes[i])

IsLeft(f, buf, bytes, n) == f = [i \in 0 .. n |-> LeftStep(f, buf, bytes, i)]
TheLeft(buf, bytes) == CHOOSE f : IsLeft(f, buf, bytes, Len(bytes))

LEMMA LeftExists ==
  ASSUME NEW buf, NEW bytes, NEW m \in Nat
  PROVE  \E g : IsLeft(g, buf, bytes, m)
<1> DEFINE S == {n \in Nat : \E g : IsLeft(g, buf, bytes, n)}
<1>1. 0 \in S
  <2> DEFINE g == [i \in 0 .. 0 |-> buf]
  <2>1. \A i \in 0 .. 0 : LeftStep(g, buf, bytes, i) = buf
    BY DEF LeftStep
  <2>2. IsLeft(g, buf, bytes, 0)
    BY <2>1 DEF IsLeft
  <2>3. QED
    BY <2>2
<1>2. ASSUME NEW n \in Nat, n \in S PROVE n + 1 \in S
  <2>1. PICK g : IsLeft(g, buf, bytes, n)
    BY <1>2
  <2> DEFINE h == [i \in 0 .. n + 1 |-> IF i <= n THEN g[i] ELSE LeftStep(g, buf, bytes, i)]
  <2>2. \A i \in 0 .. n : g[i] = LeftStep(g, buf, bytes, i)
    BY <2>1 DEF IsLeft
  <2>3. \A i \in 0 .. n + 1 : h[i] = LeftStep(g, buf, bytes, i)
    BY <2>2
  <2>4. \A i \in 0 .. n : h[i] = g[i]
    OBVIOUS
  <2>5. h = [i \in 0 .. n + 1 |-> h[i]]
    OBVIOUS
  <2> HIDE DEF h
  <2>6. ASSUME NEW i \in 0 .. n + 1 PROVE LeftStep(g, buf, bytes, i) = LeftStep(h, buf, bytes, i)
    <3>1. i > 0 => g[i - 1] = h[i - 1]
      BY <2>4
    <3>2. QED
      BY <3>1 DEF LeftStep
  <2>7. h = [i \in 0 .. n + 1 |-> LeftStep(h, buf, bytes, i)]
    BY <2>3, <2>5, <2>6
  <2>8. IsLeft(h, buf, bytes, n + 1)
    BY <2>7 DEF IsLeft
  <2>9. QED
    BY <2>8
<1>3. Nat \subseteq S
  <2> HIDE DEF S
  <2>1. QED
    BY <1>1, <1>2, SetInduction
<1>4. QED
  BY <1>3

LEMMA LeftIs ==
  ASSUME NEW buf, NEW X, NEW bytes \in Seq(X)
  PROVE  /\ Left(buf, bytes) = TheLeft(buf, bytes)
         /\ \A i \in 0 .. Len(bytes) : TheLeft(buf, bytes)[i] = LeftStep(TheLeft(buf, bytes), buf, bytes, i)
<1>1. Len(bytes) \in Nat
  OBVIOUS
<1>2. \E f : IsLeft(f, buf, bytes, Len(bytes))
  BY <1>1, LeftExists
<1> DEFINE f == TheLeft(buf, bytes)
<1>3. IsLeft(f, buf, bytes, Len(bytes))
  BY <1>2 DEF TheLeft
<1>4. Left(buf, bytes) = f
  BY Zenon DEF Left, TheLeft, IsLeft, LeftStep, LeftNext
<1> HIDE DEF f
<1>5. \A i \in 0 .. Len(bytes) : f[i] = LeftStep(f, buf, bytes, i)
  BY <1>3 DEF IsLeft
<1>6. QED
  BY <1>4, <1>5 DEF f

LEMMA LeftAgree ==
  ASSUME NEW buf, NEW X, NEW bytes \in Seq(X), NEW x \in X
  PROVE  \A i \in 0 .. Len(bytes) : TheLeft(buf, Append(bytes, x))[i] = TheLeft(buf, bytes)[i]
<1> DEFINE f == TheLeft(buf, bytes)
           g == TheLeft(buf, Append(bytes, x))
           S == {i \in Nat : i <= Len(bytes) => g[i] = f[i]}
<1>1. Append(bytes, x) \in Seq(X) /\ Len(Append(bytes, x)) = Len(bytes) + 1 /\ Len(bytes) \in Nat
  OBVIOUS
<1>2. \A i \in 0 .. Len(bytes) : f[i] = LeftStep(f, buf, bytes, i)
  BY LeftIs
<1>3. \A i \in 0 .. Len(bytes) + 1 : g[i] = LeftStep(g, buf, Append(bytes, x), i)
  BY <1>1, LeftIs
<1> HIDE DEF f, g
<1>4. 0 \in S
  <2>1. f[0] = LeftStep(f, buf, bytes, 0) /\ g[0] = LeftStep(g, buf, Append(bytes, x), 0)
    BY <1>1, <1>2, <1>3
  <2>2. f[0] = g[0]
    BY <2>1, Zenon DEF LeftStep
  <2>3. QED
    BY <2>2
<1>5. ASSUME NEW n \in Nat, n \in S PROVE n + 1 \in S
  <2> SUFFICES ASSUME n + 1 <= Len(bytes) PROVE g[n + 1] = f[n + 1]
    OBVIOUS
  <2>1. n + 1 \in 0 .. Len(bytes) /\ n + 1 \in 0 .. Len(bytes) + 1 /\ n + 1 # 0 /\ (n + 1) - 1 = n
    BY <1>1
  <2>2. f[n] = g[n]
    BY <1>5, <1>1
  <2>3. Append(bytes, x)[n + 1] = bytes[n + 1]
    BY <1>1
  <2>4. f[n + 1] = LeftStep(f, buf, bytes, n + 1) /\ g[n + 1] = LeftStep(g, buf, Append(bytes, x), n + 1)
    BY <1>2, <1>3, <2>1
  <2> QED
    BY <2>1, <2>2, <2>3, <2>4 DEF LeftStep
<1>6. Nat \subseteq S
  <2> HIDE DEF S
  <2>1. QED
    BY <1>4, <1>5, SetInduction
<1>7. \A i \in 0 .. Len(bytes) : g[i] = f[i]
  BY <1>1, <1>6
<1>8. QED
  BY <1>7 DEF f, g

LEMMA LeftEmpty ==
  ASSUME NEW buf
  PROVE  TheLeft(buf, <<>>)[0] = buf
<1>1. <<>> \in Seq({}) /\ Len(<<>>) = 0
  OBVIOUS
<1> DEFINE f == TheLeft(buf, <<>>)
<1>2. \A i \in 0 .. 0 : f[i] = LeftStep(f, buf, <<>>, i)
  <2>1. \A i \in 0 .. Len(<<>>) : f[i] = LeftStep(f, buf, <<>>, i)
    BY <1>1, LeftIs
  <2> HIDE DEF f
  <2>2. QED
    BY <1>1, <2>1
<1> HIDE DEF f
<1>3. f[0] = LeftStep(f, buf, <<>>, 0)
  BY <1>2
<1>4. f[0] = buf
  BY <1>3, Zenon DEF LeftStep
<1>5. QED
  BY <1>4 DEF f

LEMMA LeftAppend ==
  ASSUME NEW buf, NEW X, NEW bytes \in Seq(X), NEW x \in X
  PROVE  TheLeft(buf, Append(bytes, x))[Len(bytes) + 1] = LeftNext(TheLeft(buf, bytes)[Len(bytes)], x)
<1> DEFINE f == TheLeft(buf, bytes)
           g == TheLeft(buf, Append(bytes, x))
           n == Len(bytes)
<1>1. Append(bytes, x) \in Seq(X) /\ Len(Append(bytes, x)) = n + 1 /\ n \in Nat
      /\ Append(bytes, x)[n + 1] = x
  OBVIOUS
<1>2. g[n + 1] = LeftStep(g, buf, Append(bytes, x), n + 1)
  <2>1. \A i \in 0 .. n + 1 : g[i] = LeftStep(g, buf, Append(bytes, x), i)
    BY <1>1, LeftIs
  <2> HIDE DEF f, g, n
  <2>2. QED
    BY <1>1, <2>1
<1>3. g[n] = f[n]
  BY <1>1, LeftAgree
<1>4. n + 1 # 0 /\ (n + 1) - 1 = n
  BY <1>1
<1> HIDE DEF f, g, n
<1>5. QED
  BY <1>1, <1>2, <1>3, <1>4 DEF LeftStep, f, g, n

-----------------------------------------------------------------------------
(* the events complete in them, *)

ReadStep(f, buf, bytes, i) ==
  IF i = 0 THEN <<>>
  ELSE IF bytes[i].half = 2
       THEN f[i - 1] \o Parse(Left(buf, bytes)[i - 1], bytes[i])
       ELSE f[i - 1]

IsRead(f, buf, bytes, n) == f = [i \in 0 .. n |-> ReadStep(f, buf, bytes, i)]
TheRead(buf, bytes) == CHOOSE f : IsRead(f, buf, bytes, Len(bytes))

LEMMA ReadExists ==
  ASSUME NEW buf, NEW bytes, NEW m \in Nat
  PROVE  \E g : IsRead(g, buf, bytes, m)
<1> DEFINE S == {n \in Nat : \E g : IsRead(g, buf, bytes, n)}
<1>1. 0 \in S
  <2> DEFINE g == [i \in 0 .. 0 |-> <<>>]
  <2>1. \A i \in 0 .. 0 : ReadStep(g, buf, bytes, i) = <<>>
    BY DEF ReadStep
  <2>2. IsRead(g, buf, bytes, 0)
    BY <2>1 DEF IsRead
  <2>3. QED
    BY <2>2
<1>2. ASSUME NEW n \in Nat, n \in S PROVE n + 1 \in S
  <2>1. PICK g : IsRead(g, buf, bytes, n)
    BY <1>2
  <2> DEFINE h == [i \in 0 .. n + 1 |-> IF i <= n THEN g[i] ELSE ReadStep(g, buf, bytes, i)]
  <2>2. \A i \in 0 .. n : g[i] = ReadStep(g, buf, bytes, i)
    BY <2>1 DEF IsRead
  <2>3. \A i \in 0 .. n + 1 : h[i] = ReadStep(g, buf, bytes, i)
    BY <2>2
  <2>4. \A i \in 0 .. n : h[i] = g[i]
    OBVIOUS
  <2>5. h = [i \in 0 .. n + 1 |-> h[i]]
    OBVIOUS
  <2> HIDE DEF h
  <2>6. ASSUME NEW i \in 0 .. n + 1 PROVE ReadStep(g, buf, bytes, i) = ReadStep(h, buf, bytes, i)
    <3>1. i > 0 => g[i - 1] = h[i - 1]
      BY <2>4
    <3>2. QED
      BY <3>1 DEF ReadStep
  <2>7. h = [i \in 0 .. n + 1 |-> ReadStep(h, buf, bytes, i)]
    BY <2>3, <2>5, <2>6
  <2>8. IsRead(h, buf, bytes, n + 1)
    BY <2>7 DEF IsRead
  <2>9. QED
    BY <2>8
<1>3. Nat \subseteq S
  <2> HIDE DEF S
  <2>1. QED
    BY <1>1, <1>2, SetInduction
<1>4. QED
  BY <1>3

LEMMA ReadIs ==
  ASSUME NEW buf, NEW X, NEW bytes \in Seq(X)
  PROVE  /\ Complete(buf, bytes) = TheRead(buf, bytes)
         /\ \A i \in 0 .. Len(bytes) : TheRead(buf, bytes)[i] = ReadStep(TheRead(buf, bytes), buf, bytes, i)
<1>1. Len(bytes) \in Nat
  OBVIOUS
<1>2. \E f : IsRead(f, buf, bytes, Len(bytes))
  BY <1>1, ReadExists
<1> DEFINE f == TheRead(buf, bytes)
<1>3. IsRead(f, buf, bytes, Len(bytes))
  BY <1>2 DEF TheRead
<1>4. Complete(buf, bytes) = f
  BY Zenon DEF Complete, TheRead, IsRead, ReadStep
<1> HIDE DEF f
<1>5. \A i \in 0 .. Len(bytes) : f[i] = ReadStep(f, buf, bytes, i)
  BY <1>3 DEF IsRead
<1>6. QED
  BY <1>4, <1>5 DEF f

LEMMA ReadAgree ==
  ASSUME NEW buf, NEW X, NEW bytes \in Seq(X), NEW x \in X
  PROVE  \A i \in 0 .. Len(bytes) : TheRead(buf, Append(bytes, x))[i] = TheRead(buf, bytes)[i]
<1> DEFINE f == TheRead(buf, bytes)
           g == TheRead(buf, Append(bytes, x))
           S == {i \in Nat : i <= Len(bytes) => g[i] = f[i]}
<1>1. Append(bytes, x) \in Seq(X) /\ Len(Append(bytes, x)) = Len(bytes) + 1 /\ Len(bytes) \in Nat
  OBVIOUS
<1>2. \A i \in 0 .. Len(bytes) : f[i] = ReadStep(f, buf, bytes, i)
  BY ReadIs
<1>3. \A i \in 0 .. Len(bytes) + 1 : g[i] = ReadStep(g, buf, Append(bytes, x), i)
  BY <1>1, ReadIs
<1> HIDE DEF f, g
<1>4. 0 \in S
  <2>1. f[0] = ReadStep(f, buf, bytes, 0) /\ g[0] = ReadStep(g, buf, Append(bytes, x), 0)
    BY <1>1, <1>2, <1>3
  <2>2. f[0] = g[0]
    BY <2>1, Zenon DEF ReadStep
  <2>3. QED
    BY <2>2
<1>5. ASSUME NEW n \in Nat, n \in S PROVE n + 1 \in S
  <2> SUFFICES ASSUME n + 1 <= Len(bytes) PROVE g[n + 1] = f[n + 1]
    OBVIOUS
  <2>1. n + 1 \in 0 .. Len(bytes) /\ n + 1 \in 0 .. Len(bytes) + 1 /\ n + 1 # 0 /\ (n + 1) - 1 = n
    BY <1>1
  <2>2. f[n] = g[n]
    BY <1>5, <1>1
  <2>3. Append(bytes, x)[n + 1] = bytes[n + 1]
    BY <1>1
  <2>4. f[n + 1] = ReadStep(f, buf, bytes, n + 1) /\ g[n + 1] = ReadStep(g, buf, Append(bytes, x), n + 1)
    BY <1>2, <1>3, <2>1
  <2>5. Left(buf, Append(bytes, x))[n] = Left(buf, bytes)[n]
    <3>1. n \in 0 .. Len(bytes)
      BY <2>1
    <3>2. \A i \in 0 .. Len(bytes) : TheLeft(buf, Append(bytes, x))[i] = TheLeft(buf, bytes)[i]
      BY LeftAgree
    <3>3. Left(buf, Append(bytes, x)) = TheLeft(buf, Append(bytes, x)) /\ Left(buf, bytes) = TheLeft(buf, bytes)
      BY <1>1, LeftIs
    <3>4. QED
      BY <3>1, <3>2, <3>3
  <2> QED
    BY <2>1, <2>2, <2>3, <2>4, <2>5 DEF ReadStep
<1>6. Nat \subseteq S
  <2> HIDE DEF S
  <2>1. QED
    BY <1>4, <1>5, SetInduction
<1>7. \A i \in 0 .. Len(bytes) : g[i] = f[i]
  BY <1>1, <1>6
<1>8. QED
  BY <1>7 DEF f, g

LEMMA ReadEmpty ==
  ASSUME NEW buf
  PROVE  TheRead(buf, <<>>)[0] = <<>>
<1>1. <<>> \in Seq({}) /\ Len(<<>>) = 0
  OBVIOUS
<1> DEFINE f == TheRead(buf, <<>>)
<1>2. \A i \in 0 .. 0 : f[i] = ReadStep(f, buf, <<>>, i)
  <2>1. \A i \in 0 .. Len(<<>>) : f[i] = ReadStep(f, buf, <<>>, i)
    BY <1>1, ReadIs
  <2> HIDE DEF f
  <2>2. QED
    BY <1>1, <2>1
<1> HIDE DEF f
<1>3. f[0] = ReadStep(f, buf, <<>>, 0)
  BY <1>2
<1>4. f[0] = <<>>
  BY <1>3, Zenon DEF ReadStep
<1>5. QED
  BY <1>4 DEF f

LEMMA ReadAppend ==
  ASSUME NEW buf, NEW X, NEW bytes \in Seq(X), NEW x \in X
  PROVE  TheRead(buf, Append(bytes, x))[Len(bytes) + 1] = IF x.half = 2 THEN TheRead(buf, bytes)[Len(bytes)] \o Parse(TheLeft(buf, bytes)[Len(bytes)], x) ELSE TheRead(buf, bytes)[Len(bytes)]
<1> DEFINE f == TheRead(buf, bytes)
           g == TheRead(buf, Append(bytes, x))
           n == Len(bytes)
<1>1. Append(bytes, x) \in Seq(X) /\ Len(Append(bytes, x)) = n + 1 /\ n \in Nat
      /\ Append(bytes, x)[n + 1] = x
  OBVIOUS
<1>2. g[n + 1] = ReadStep(g, buf, Append(bytes, x), n + 1)
  <2>1. \A i \in 0 .. n + 1 : g[i] = ReadStep(g, buf, Append(bytes, x), i)
    BY <1>1, ReadIs
  <2> HIDE DEF f, g, n
  <2>2. QED
    BY <1>1, <2>1
<1>3. g[n] = f[n]
  BY <1>1, ReadAgree
<1>4. n + 1 # 0 /\ (n + 1) - 1 = n
  BY <1>1
<1>6. Left(buf, Append(bytes, x))[n] = TheLeft(buf, bytes)[n]
  <2>1. \A i \in 0 .. n : TheLeft(buf, Append(bytes, x))[i] = TheLeft(buf, bytes)[i]
    BY LeftAgree
  <2>2. Left(buf, Append(bytes, x)) = TheLeft(buf, Append(bytes, x))
    BY <1>1, LeftIs
  <2> HIDE DEF n
  <2>3. QED
    BY <1>1, <2>1, <2>2
<1> HIDE DEF f, g, n
<1>5. QED
  BY <1>1, <1>2, <1>3, <1>4, <1>6 DEF ReadStep, f, g, n

-----------------------------------------------------------------------------
(* the events of some types, *)

OfStep(f, types, events, i) ==
  IF i = 0 THEN <<>>
  ELSE IF events[i].type \in types THEN Append(f[i - 1], events[i]) ELSE f[i - 1]

IsOf(f, types, events, n) == f = [i \in 0 .. n |-> OfStep(f, types, events, i)]
TheOf(types, events) == CHOOSE f : IsOf(f, types, events, Len(events))

LEMMA OfExists ==
  ASSUME NEW types, NEW events, NEW m \in Nat
  PROVE  \E g : IsOf(g, types, events, m)
<1> DEFINE S == {n \in Nat : \E g : IsOf(g, types, events, n)}
<1>1. 0 \in S
  <2> DEFINE g == [i \in 0 .. 0 |-> <<>>]
  <2>1. \A i \in 0 .. 0 : OfStep(g, types, events, i) = <<>>
    BY DEF OfStep
  <2>2. IsOf(g, types, events, 0)
    BY <2>1 DEF IsOf
  <2>3. QED
    BY <2>2
<1>2. ASSUME NEW n \in Nat, n \in S PROVE n + 1 \in S
  <2>1. PICK g : IsOf(g, types, events, n)
    BY <1>2
  <2> DEFINE h == [i \in 0 .. n + 1 |-> IF i <= n THEN g[i] ELSE OfStep(g, types, events, i)]
  <2>2. \A i \in 0 .. n : g[i] = OfStep(g, types, events, i)
    BY <2>1 DEF IsOf
  <2>3. \A i \in 0 .. n + 1 : h[i] = OfStep(g, types, events, i)
    BY <2>2
  <2>4. \A i \in 0 .. n : h[i] = g[i]
    OBVIOUS
  <2>5. h = [i \in 0 .. n + 1 |-> h[i]]
    OBVIOUS
  <2> HIDE DEF h
  <2>6. ASSUME NEW i \in 0 .. n + 1 PROVE OfStep(g, types, events, i) = OfStep(h, types, events, i)
    <3>1. i > 0 => g[i - 1] = h[i - 1]
      BY <2>4
    <3>2. QED
      BY <3>1 DEF OfStep
  <2>7. h = [i \in 0 .. n + 1 |-> OfStep(h, types, events, i)]
    BY <2>3, <2>5, <2>6
  <2>8. IsOf(h, types, events, n + 1)
    BY <2>7 DEF IsOf
  <2>9. QED
    BY <2>8
<1>3. Nat \subseteq S
  <2> HIDE DEF S
  <2>1. QED
    BY <1>1, <1>2, SetInduction
<1>4. QED
  BY <1>3

LEMMA OfIs ==
  ASSUME NEW types, NEW X, NEW events \in Seq(X)
  PROVE  /\ Of(types, events) = TheOf(types, events)[Len(events)]
         /\ \A i \in 0 .. Len(events) : TheOf(types, events)[i] = OfStep(TheOf(types, events), types, events, i)
<1>1. Len(events) \in Nat
  OBVIOUS
<1>2. \E f : IsOf(f, types, events, Len(events))
  BY <1>1, OfExists
<1> DEFINE f == TheOf(types, events)
<1>3. IsOf(f, types, events, Len(events))
  BY <1>2 DEF TheOf
<1>4. Of(types, events) = f[Len(events)]
  BY Zenon DEF Of, TheOf, IsOf, OfStep
<1> HIDE DEF f
<1>5. \A i \in 0 .. Len(events) : f[i] = OfStep(f, types, events, i)
  BY <1>3 DEF IsOf
<1>6. QED
  BY <1>4, <1>5 DEF f

LEMMA OfAgree ==
  ASSUME NEW types, NEW X, NEW events \in Seq(X), NEW x \in X
  PROVE  \A i \in 0 .. Len(events) : TheOf(types, Append(events, x))[i] = TheOf(types, events)[i]
<1> DEFINE f == TheOf(types, events)
           g == TheOf(types, Append(events, x))
           S == {i \in Nat : i <= Len(events) => g[i] = f[i]}
<1>1. Append(events, x) \in Seq(X) /\ Len(Append(events, x)) = Len(events) + 1 /\ Len(events) \in Nat
  OBVIOUS
<1>2. \A i \in 0 .. Len(events) : f[i] = OfStep(f, types, events, i)
  BY OfIs
<1>3. \A i \in 0 .. Len(events) + 1 : g[i] = OfStep(g, types, Append(events, x), i)
  BY <1>1, OfIs
<1> HIDE DEF f, g
<1>4. 0 \in S
  <2>1. f[0] = OfStep(f, types, events, 0) /\ g[0] = OfStep(g, types, Append(events, x), 0)
    BY <1>1, <1>2, <1>3
  <2>2. f[0] = g[0]
    BY <2>1, Zenon DEF OfStep
  <2>3. QED
    BY <2>2
<1>5. ASSUME NEW n \in Nat, n \in S PROVE n + 1 \in S
  <2> SUFFICES ASSUME n + 1 <= Len(events) PROVE g[n + 1] = f[n + 1]
    OBVIOUS
  <2>1. n + 1 \in 0 .. Len(events) /\ n + 1 \in 0 .. Len(events) + 1 /\ n + 1 # 0 /\ (n + 1) - 1 = n
    BY <1>1
  <2>2. f[n] = g[n]
    BY <1>5, <1>1
  <2>3. Append(events, x)[n + 1] = events[n + 1]
    BY <1>1
  <2>4. f[n + 1] = OfStep(f, types, events, n + 1) /\ g[n + 1] = OfStep(g, types, Append(events, x), n + 1)
    BY <1>2, <1>3, <2>1
  <2> QED
    BY <2>1, <2>2, <2>3, <2>4 DEF OfStep
<1>6. Nat \subseteq S
  <2> HIDE DEF S
  <2>1. QED
    BY <1>4, <1>5, SetInduction
<1>7. \A i \in 0 .. Len(events) : g[i] = f[i]
  BY <1>1, <1>6
<1>8. QED
  BY <1>7 DEF f, g

LEMMA OfEmpty ==
  ASSUME NEW types
  PROVE  TheOf(types, <<>>)[0] = <<>>
<1>1. <<>> \in Seq({}) /\ Len(<<>>) = 0
  OBVIOUS
<1> DEFINE f == TheOf(types, <<>>)
<1>2. \A i \in 0 .. 0 : f[i] = OfStep(f, types, <<>>, i)
  <2>1. \A i \in 0 .. Len(<<>>) : f[i] = OfStep(f, types, <<>>, i)
    BY <1>1, OfIs
  <2> HIDE DEF f
  <2>2. QED
    BY <1>1, <2>1
<1> HIDE DEF f
<1>3. f[0] = OfStep(f, types, <<>>, 0)
  BY <1>2
<1>4. f[0] = <<>>
  BY <1>3, Zenon DEF OfStep
<1>5. QED
  BY <1>4 DEF f

LEMMA OfAppend ==
  ASSUME NEW types, NEW X, NEW events \in Seq(X), NEW x \in X
  PROVE  TheOf(types, Append(events, x))[Len(events) + 1] = IF x.type \in types THEN Append(TheOf(types, events)[Len(events)], x) ELSE TheOf(types, events)[Len(events)]
<1> DEFINE f == TheOf(types, events)
           g == TheOf(types, Append(events, x))
           n == Len(events)
<1>1. Append(events, x) \in Seq(X) /\ Len(Append(events, x)) = n + 1 /\ n \in Nat
      /\ Append(events, x)[n + 1] = x
  OBVIOUS
<1>2. g[n + 1] = OfStep(g, types, Append(events, x), n + 1)
  <2>1. \A i \in 0 .. n + 1 : g[i] = OfStep(g, types, Append(events, x), i)
    BY <1>1, OfIs
  <2> HIDE DEF f, g, n
  <2>2. QED
    BY <1>1, <2>1
<1>3. g[n] = f[n]
  BY <1>1, OfAgree
<1>4. n + 1 # 0 /\ (n + 1) - 1 = n
  BY <1>1
<1> HIDE DEF f, g, n
<1>5. QED
  BY <1>1, <1>2, <1>3, <1>4 DEF OfStep, f, g, n

-----------------------------------------------------------------------------
(* and the translation to the OpenAI format. *)

ToStep(f, in, before, events, i) ==
  IF i = 0 THEN [input |-> in, roleSent |-> before, out |-> <<>>]
  ELSE ToldOpenAI(f[i - 1], events[i])

IsTo(f, in, before, events, n) == f = [i \in 0 .. n |-> ToStep(f, in, before, events, i)]
TheTo(in, before, events) == CHOOSE f : IsTo(f, in, before, events, Len(events))

LEMMA ToExists ==
  ASSUME NEW in, NEW before, NEW events, NEW m \in Nat
  PROVE  \E g : IsTo(g, in, before, events, m)
<1> DEFINE S == {n \in Nat : \E g : IsTo(g, in, before, events, n)}
<1>1. 0 \in S
  <2> DEFINE g == [i \in 0 .. 0 |-> [input |-> in, roleSent |-> before, out |-> <<>>]]
  <2>1. \A i \in 0 .. 0 : ToStep(g, in, before, events, i) = [input |-> in, roleSent |-> before, out |-> <<>>]
    BY DEF ToStep
  <2>2. IsTo(g, in, before, events, 0)
    BY <2>1 DEF IsTo
  <2>3. QED
    BY <2>2
<1>2. ASSUME NEW n \in Nat, n \in S PROVE n + 1 \in S
  <2>1. PICK g : IsTo(g, in, before, events, n)
    BY <1>2
  <2> DEFINE h == [i \in 0 .. n + 1 |-> IF i <= n THEN g[i] ELSE ToStep(g, in, before, events, i)]
  <2>2. \A i \in 0 .. n : g[i] = ToStep(g, in, before, events, i)
    BY <2>1 DEF IsTo
  <2>3. \A i \in 0 .. n + 1 : h[i] = ToStep(g, in, before, events, i)
    BY <2>2
  <2>4. \A i \in 0 .. n : h[i] = g[i]
    OBVIOUS
  <2>5. h = [i \in 0 .. n + 1 |-> h[i]]
    OBVIOUS
  <2> HIDE DEF h
  <2>6. ASSUME NEW i \in 0 .. n + 1 PROVE ToStep(g, in, before, events, i) = ToStep(h, in, before, events, i)
    <3>1. i > 0 => g[i - 1] = h[i - 1]
      BY <2>4
    <3>2. QED
      BY <3>1 DEF ToStep
  <2>7. h = [i \in 0 .. n + 1 |-> ToStep(h, in, before, events, i)]
    BY <2>3, <2>5, <2>6
  <2>8. IsTo(h, in, before, events, n + 1)
    BY <2>7 DEF IsTo
  <2>9. QED
    BY <2>8
<1>3. Nat \subseteq S
  <2> HIDE DEF S
  <2>1. QED
    BY <1>1, <1>2, SetInduction
<1>4. QED
  BY <1>3

LEMMA ToIs ==
  ASSUME NEW in, NEW before, NEW X, NEW events \in Seq(X)
  PROVE  /\ Translation(in, before, events) = TheTo(in, before, events)[Len(events)]
         /\ \A i \in 0 .. Len(events) : TheTo(in, before, events)[i] = ToStep(TheTo(in, before, events), in, before, events, i)
<1>1. Len(events) \in Nat
  OBVIOUS
<1>2. \E f : IsTo(f, in, before, events, Len(events))
  BY <1>1, ToExists
<1> DEFINE f == TheTo(in, before, events)
<1>3. IsTo(f, in, before, events, Len(events))
  BY <1>2 DEF TheTo
<1>4. Translation(in, before, events) = f[Len(events)]
  BY Zenon DEF Translation, TheTo, IsTo, ToStep
<1> HIDE DEF f
<1>5. \A i \in 0 .. Len(events) : f[i] = ToStep(f, in, before, events, i)
  BY <1>3 DEF IsTo
<1>6. QED
  BY <1>4, <1>5 DEF f

LEMMA ToAgree ==
  ASSUME NEW in, NEW before, NEW X, NEW events \in Seq(X), NEW x \in X
  PROVE  \A i \in 0 .. Len(events) : TheTo(in, before, Append(events, x))[i] = TheTo(in, before, events)[i]
<1> DEFINE f == TheTo(in, before, events)
           g == TheTo(in, before, Append(events, x))
           S == {i \in Nat : i <= Len(events) => g[i] = f[i]}
<1>1. Append(events, x) \in Seq(X) /\ Len(Append(events, x)) = Len(events) + 1 /\ Len(events) \in Nat
  OBVIOUS
<1>2. \A i \in 0 .. Len(events) : f[i] = ToStep(f, in, before, events, i)
  BY ToIs
<1>3. \A i \in 0 .. Len(events) + 1 : g[i] = ToStep(g, in, before, Append(events, x), i)
  <2>1. \A i \in 0 .. Len(Append(events, x)) : g[i] = ToStep(g, in, before, Append(events, x), i)
    BY <1>1, ToIs
  <2> HIDE DEF g
  <2>2. QED
    BY <1>1, <2>1
<1> HIDE DEF f, g
<1>4. 0 \in S
  <2>1. f[0] = ToStep(f, in, before, events, 0) /\ g[0] = ToStep(g, in, before, Append(events, x), 0)
    BY <1>1, <1>2, <1>3
  <2>2. f[0] = g[0]
    BY <2>1, Zenon DEF ToStep
  <2>3. QED
    BY <2>2
<1>5. ASSUME NEW n \in Nat, n \in S PROVE n + 1 \in S
  <2> SUFFICES ASSUME n + 1 <= Len(events) PROVE g[n + 1] = f[n + 1]
    OBVIOUS
  <2>1. n + 1 \in 0 .. Len(events) /\ n + 1 \in 0 .. Len(events) + 1 /\ n + 1 # 0 /\ (n + 1) - 1 = n
    BY <1>1
  <2>2. f[n] = g[n]
    BY <1>5, <1>1
  <2>3. Append(events, x)[n + 1] = events[n + 1]
    BY <1>1
  <2>4. f[n + 1] = ToStep(f, in, before, events, n + 1) /\ g[n + 1] = ToStep(g, in, before, Append(events, x), n + 1)
    BY <1>2, <1>3, <2>1
  <2> QED
    BY <2>1, <2>2, <2>3, <2>4 DEF ToStep
<1>6. Nat \subseteq S
  <2> HIDE DEF S
  <2>1. QED
    BY <1>4, <1>5, SetInduction
<1>7. \A i \in 0 .. Len(events) : g[i] = f[i]
  BY <1>1, <1>6
<1>8. QED
  BY <1>7 DEF f, g

LEMMA ToEmpty ==
  ASSUME NEW in, NEW before
  PROVE  TheTo(in, before, <<>>)[0] = [input |-> in, roleSent |-> before, out |-> <<>>]
<1>1. <<>> \in Seq({}) /\ Len(<<>>) = 0
  OBVIOUS
<1> DEFINE f == TheTo(in, before, <<>>)
<1>2. \A i \in 0 .. 0 : f[i] = ToStep(f, in, before, <<>>, i)
  <2>1. \A i \in 0 .. Len(<<>>) : f[i] = ToStep(f, in, before, <<>>, i)
    BY <1>1, ToIs
  <2> HIDE DEF f
  <2>2. QED
    BY <1>1, <2>1
<1> HIDE DEF f
<1>3. f[0] = ToStep(f, in, before, <<>>, 0)
  BY <1>2
<1>4. f[0] = [input |-> in, roleSent |-> before, out |-> <<>>]
  BY <1>3, Zenon DEF ToStep
<1>5. QED
  BY <1>4 DEF f

LEMMA ToAppend ==
  ASSUME NEW in, NEW before, NEW X, NEW events \in Seq(X), NEW x \in X
  PROVE  TheTo(in, before, Append(events, x))[Len(events) + 1] = ToldOpenAI(TheTo(in, before, events)[Len(events)], x)
<1> DEFINE f == TheTo(in, before, events)
           g == TheTo(in, before, Append(events, x))
           n == Len(events)
<1>1. Append(events, x) \in Seq(X) /\ Len(Append(events, x)) = n + 1 /\ n \in Nat
      /\ Append(events, x)[n + 1] = x
  OBVIOUS
<1>2. g[n + 1] = ToStep(g, in, before, Append(events, x), n + 1)
  <2>1. \A i \in 0 .. n + 1 : g[i] = ToStep(g, in, before, Append(events, x), i)
    <3>1. \A i \in 0 .. Len(Append(events, x)) : g[i] = ToStep(g, in, before, Append(events, x), i)
      BY <1>1, ToIs
    <3> HIDE DEF g
    <3>2. QED
      BY <1>1, <3>1
  <2> HIDE DEF f, g, n
  <2>2. QED
    BY <1>1, <2>1
<1>3. g[n] = f[n]
  BY <1>1, ToAgree
<1>4. n + 1 # 0 /\ (n + 1) - 1 = n
  BY <1>1
<1> HIDE DEF f, g, n
<1>5. QED
  BY <1>1, <1>2, <1>3, <1>4 DEF ToStep, f, g, n

-----------------------------------------------------------------------------
(* The same in the words of the model. *)

LEMMA DrainNothing ==
  ASSUME NEW buf
  PROVE  Drain(buf, <<>>) = [buf |-> buf, events |-> <<>>]
<1>1. <<>> \in Seq({}) /\ Len(<<>>) = 0
  OBVIOUS
<1>2. Left(buf, <<>>) = TheLeft(buf, <<>>)
  BY <1>1, LeftIs
<1>3. Complete(buf, <<>>) = TheRead(buf, <<>>)
  BY <1>1, ReadIs
<1>4. TheLeft(buf, <<>>)[0] = buf /\ TheRead(buf, <<>>)[0] = <<>>
  BY LeftEmpty, ReadEmpty
<1>5. QED
  BY <1>1, <1>2, <1>3, <1>4 DEF Drain

DrainNext(r, p) ==
  IF p.half = 2 THEN [buf |-> <<>>, events |-> r.events \o Parse(r.buf, p)]
  ELSE [buf |-> Append(r.buf, p), events |-> r.events]

LEMMA DrainMore ==
  ASSUME NEW buf, NEW X, NEW bytes \in Seq(X), NEW p \in X
  PROVE  Drain(buf, Append(bytes, p)) = DrainNext(Drain(buf, bytes), p)
<1> DEFINE more == Append(bytes, p)
           r == Drain(buf, bytes)
<1>1. more \in Seq(X) /\ Len(more) = Len(bytes) + 1
  OBVIOUS
<1>2. Left(buf, bytes) = TheLeft(buf, bytes) /\ Left(buf, more) = TheLeft(buf, more)
  BY <1>1, LeftIs
<1>3. Complete(buf, bytes) = TheRead(buf, bytes) /\ Complete(buf, more) = TheRead(buf, more)
  BY <1>1, ReadIs
<1>4. TheLeft(buf, more)[Len(bytes) + 1] =
        LeftNext(TheLeft(buf, bytes)[Len(bytes)], p)
  BY LeftAppend
<1>5. TheRead(buf, more)[Len(bytes) + 1] =
        IF p.half = 2
        THEN TheRead(buf, bytes)[Len(bytes)] \o Parse(TheLeft(buf, bytes)[Len(bytes)], p)
        ELSE TheRead(buf, bytes)[Len(bytes)]
  BY ReadAppend
<1>6. r.buf = TheLeft(buf, bytes)[Len(bytes)] /\ r.events = TheRead(buf, bytes)[Len(bytes)]
  BY <1>2, <1>3 DEF Drain
<1> HIDE DEF more, r
<1>7. Drain(buf, more) = [buf |-> TheLeft(buf, more)[Len(bytes) + 1],
                          events |-> TheRead(buf, more)[Len(bytes) + 1]]
  BY <1>1, <1>2, <1>3 DEF Drain
<1>8. Drain(buf, more) = DrainNext(r, p)
  BY <1>4, <1>5, <1>6, <1>7 DEF DrainNext, LeftNext
<1>9. QED
  BY <1>8 DEF more, r

LEMMA OfNothing ==
  ASSUME NEW types
  PROVE  Of(types, <<>>) = <<>>
<1>1. <<>> \in Seq({}) /\ Len(<<>>) = 0
  OBVIOUS
<1>2. Of(types, <<>>) = TheOf(types, <<>>)[Len(<<>>)]
  BY <1>1, OfIs
<1>3. QED
  BY <1>1, <1>2, OfEmpty

LEMMA OfMore ==
  ASSUME NEW types, NEW X, NEW events \in Seq(X), NEW e \in X
  PROVE  Of(types, Append(events, e)) =
           IF e.type \in types THEN Append(Of(types, events), e) ELSE Of(types, events)
<1> DEFINE more == Append(events, e)
<1>1. more \in Seq(X) /\ Len(more) = Len(events) + 1
  OBVIOUS
<1>2. Of(types, events) = TheOf(types, events)[Len(events)]
  BY OfIs
<1>3. Of(types, more) = TheOf(types, more)[Len(more)]
  BY <1>1, OfIs
<1>4. TheOf(types, more)[Len(events) + 1] =
        IF e.type \in types THEN Append(TheOf(types, events)[Len(events)], e)
        ELSE TheOf(types, events)[Len(events)]
  BY OfAppend
<1> HIDE DEF more
<1>5. Of(types, more) =
        IF e.type \in types THEN Append(Of(types, events), e) ELSE Of(types, events)
  BY <1>1, <1>2, <1>3, <1>4
<1>6. QED
  BY <1>5 DEF more

LEMMA TranslationNothing ==
  ASSUME NEW in, NEW before
  PROVE  Translation(in, before, <<>>) = [input |-> in, roleSent |-> before, out |-> <<>>]
<1>1. <<>> \in Seq({}) /\ Len(<<>>) = 0
  OBVIOUS
<1>2. Translation(in, before, <<>>) = TheTo(in, before, <<>>)[Len(<<>>)]
  BY <1>1, ToIs
<1>3. TheTo(in, before, <<>>)[0] = [input |-> in, roleSent |-> before, out |-> <<>>]
  BY ToEmpty
<1>4. QED
  BY <1>1, <1>2, <1>3

LEMMA TranslationMore ==
  ASSUME NEW in, NEW before, NEW X, NEW events \in Seq(X), NEW e \in X
  PROVE  Translation(in, before, Append(events, e)) =
           ToldOpenAI(Translation(in, before, events), e)
<1> DEFINE more == Append(events, e)
<1>1. more \in Seq(X) /\ Len(more) = Len(events) + 1
  OBVIOUS
<1>2. Translation(in, before, events) = TheTo(in, before, events)[Len(events)]
  BY ToIs
<1>3. Translation(in, before, more) = TheTo(in, before, more)[Len(more)]
  BY <1>1, ToIs
<1>4. TheTo(in, before, more)[Len(events) + 1] =
        ToldOpenAI(TheTo(in, before, events)[Len(events)], e)
  BY ToAppend
<1> HIDE DEF more
<1>5. Translation(in, before, more) = ToldOpenAI(Translation(in, before, events), e)
  BY <1>1, <1>2, <1>3, <1>4
<1>6. QED
  BY <1>5 DEF more

-----------------------------------------------------------------------------
(* What the operators return. *)

Piece == [of : AnEvent, half : {1, 2}]

LEMMA EventMade ==
  ASSUME NEW t \in {"role", "finish", "usage", "done", "message_start", "block_start",
                   "block_stop", "message_delta", "message_stop"}, NEW i \in Nat, NEW o \in Nat
  PROVE  Event(t, <<>>, i, o, FALSE) \in AnEvent
<1> DEFINE e == [type |-> t, text |-> <<>>, in |-> i, out |-> o, cut |-> FALSE]
<1>0. t \in Types /\ t # "delta"
  BY DEF Types
<1>1. <<>> \in {<<>>} \cup (Words \X Words) /\ FALSE \in BOOLEAN
  OBVIOUS
<1>2. e \in [type : Types, text : {<<>>} \cup (Words \X Words), in : Nat, out : Nat,
             cut : BOOLEAN] /\ e.type = t
  BY <1>0, <1>1
<1> HIDE DEF e
<1>3. e \in AnEvent
  BY <1>0, <1>2 DEF AnEvent
<1>4. QED
  BY <1>3 DEF Event, e

LEMMA ParseType ==
  ASSUME NEW buf \in Seq(Piece), NEW p \in Piece
  PROVE  /\ Parse(buf, p) \in Seq(AnEvent)
         /\ Parse(buf, p) # <<>> => Len(Parse(buf, p)) = 1 /\ Parse(buf, p)[1].type = p.of.type
<1>0. \A i \in 1 .. Len(buf) : buf[i] \in Piece
  OBVIOUS
<1>1. CASE Len(buf) # 1 \/ buf[1].of.type # p.of.type
  BY <1>1 DEF Parse
<1>2. CASE Len(buf) = 1 /\ buf[1].of.type = p.of.type
  <2> DEFINE b == buf[1].of
             q == p.of
             m == [q EXCEPT !.text = <<b.text[1], q.text[2]>>]
  <2>1. b \in AnEvent /\ q \in AnEvent
    <3>1. buf[1] \in Piece
      BY <1>0, <1>2
    <3>2. QED
      BY <3>1 DEF Piece
  <2>2. CASE q.type = "delta"
    <3>1. b.text \in Words \X Words /\ q.text \in Words \X Words
      BY <1>2, <2>1, <2>2 DEF AnEvent
    <3>2. <<b.text[1], q.text[2]>> \in Words \X Words
      <4> HIDE DEF b, q
      <4>1. QED
        BY <3>1
    <3>3. m \in AnEvent /\ m.type = q.type
      <4> HIDE DEF b, q
      <4>1. QED
        BY <2>1, <3>2 DEF AnEvent
    <3>4. Parse(buf, p) = <<m>>
      BY <1>2, <2>2 DEF Parse
    <3> HIDE DEF m, q
    <3>5. QED
      BY <3>3, <3>4 DEF q
  <2>3. CASE q.type # "delta"
    <3>1. Parse(buf, p) = <<b>> /\ b.type = q.type
      BY <1>2, <2>3 DEF Parse
    <3> HIDE DEF b, q
    <3>2. QED
      BY <2>1, <3>1 DEF q
  <2>4. QED
    BY <2>2, <2>3
<1>3. QED
  BY <1>1, <1>2

DrainFine(buf, b) ==
  LET r == Drain(buf, b)
  IN  /\ r.buf \in Seq(Piece) /\ r.events \in Seq(AnEvent)
      /\ Unfinished(buf) => Unfinished(r.buf)
      /\ \A j \in 1 .. Len(r.events) :
           \E i \in 1 .. Len(b) : b[i].half = 2 /\ b[i].of.type = r.events[j].type

LEMMA DrainType ==
  ASSUME NEW buf \in Seq(Piece), NEW bytes \in Seq(Piece)
  PROVE  DrainFine(buf, bytes)
<1> DEFINE S == {b \in Seq(Piece) : DrainFine(buf, b)}
<1>1. <<>> \in S
  <2>1. Drain(buf, <<>>) = [buf |-> buf, events |-> <<>>]
    BY DrainNothing
  <2>2. Len(<<>>) = 0 /\ <<>> \in Seq(AnEvent) /\ <<>> \in Seq(Piece)
    OBVIOUS
  <2> DEFINE r == Drain(buf, <<>>)
  <2>3. r.buf = buf /\ r.events = <<>>
    BY <2>1
  <2> HIDE DEF r
  <2>4. /\ r.buf \in Seq(Piece) /\ r.events \in Seq(AnEvent)
        /\ Unfinished(buf) => Unfinished(r.buf)
        /\ \A j \in 1 .. Len(r.events) : FALSE
    BY <2>2, <2>3
  <2>5. DrainFine(buf, <<>>)
    BY <2>4 DEF DrainFine, r
  <2>6. QED
    BY <2>2, <2>5
<1>2. ASSUME NEW b \in Seq(Piece), NEW p \in Piece, b \in S PROVE Append(b, p) \in S
  <2> DEFINE r == Drain(buf, b)
             c == Append(b, p)
             d == Drain(buf, c)
             made == Parse(r.buf, p)
  <2>1. r.buf \in Seq(Piece) /\ r.events \in Seq(AnEvent) /\ (Unfinished(buf) => Unfinished(r.buf))
    BY <1>2 DEF DrainFine
  <2>2. \A j \in 1 .. Len(r.events) :
          \E i \in 1 .. Len(b) : b[i].half = 2 /\ b[i].of.type = r.events[j].type
    BY <1>2 DEF DrainFine
  <2>3. c \in Seq(Piece) /\ Len(c) = Len(b) + 1 /\ c[Len(b) + 1] = p
        /\ \A i \in 1 .. Len(b) : c[i] = b[i]
    OBVIOUS
  <2>4. d = DrainNext(r, p)
    BY DrainMore
  <2>5. made \in Seq(AnEvent)
        /\ (made # <<>> => Len(made) = 1 /\ made[1].type = p.of.type)
    BY <2>1, ParseType
  <2> HIDE DEF r, c, d
  <2>6. CASE p.half = 2
    <3>1. d.buf = <<>> /\ d.events = r.events \o made
      BY <2>4, <2>6 DEF DrainNext
    <3> HIDE DEF made
    <3>2. Unfinished(d.buf) /\ d.buf \in Seq(Piece) /\ d.events \in Seq(AnEvent)
      BY <2>1, <2>5, <3>1 DEF Unfinished
    <3>3. ASSUME NEW j \in 1 .. Len(d.events)
          PROVE  \E i \in 1 .. Len(c) : c[i].half = 2 /\ c[i].of.type = d.events[j].type
      <4>1. CASE j <= Len(r.events)
        <5>1. d.events[j] = r.events[j]
          BY <2>1, <2>5, <3>1, <4>1
        <5>2. PICK i \in 1 .. Len(b) : b[i].half = 2 /\ b[i].of.type = r.events[j].type
          BY <2>2, <4>1
        <5>3. c[i] = b[i] /\ i \in 1 .. Len(c)
          BY <2>3
        <5>4. QED
          BY <5>1, <5>2, <5>3
      <4>2. CASE j > Len(r.events)
        <5>1. made # <<>> /\ j = Len(r.events) + 1 /\ d.events[j] = made[1]
          BY <2>1, <2>5, <3>1, <4>2
        <5>2. Len(b) + 1 \in 1 .. Len(c)
          BY <2>3
        <5>3. QED
          BY <2>3, <2>5, <2>6, <5>1, <5>2
      <4>3. QED
        BY <2>1, <4>1, <4>2
    <3>4. DrainFine(buf, c)
      BY <3>2, <3>3 DEF DrainFine, d
    <3>5. QED
      BY <2>3, <3>4 DEF c
  <2>7. CASE p.half # 2
    <3>1. d.buf = Append(r.buf, p) /\ d.events = r.events
      BY <2>4, <2>7 DEF DrainNext
    <3> HIDE DEF made
    <3>2. d.buf \in Seq(Piece) /\ d.events \in Seq(AnEvent)
      BY <2>1, <3>1
    <3>3. Unfinished(buf) => Unfinished(d.buf)
      <4>1. p.half = 1
        BY <2>7 DEF Piece
      <4>2. QED
        BY <2>1, <3>1, <4>1 DEF Unfinished
    <3>4. ASSUME NEW j \in 1 .. Len(d.events)
          PROVE  \E i \in 1 .. Len(c) : c[i].half = 2 /\ c[i].of.type = d.events[j].type
      <4>1. PICK i \in 1 .. Len(b) : b[i].half = 2 /\ b[i].of.type = r.events[j].type
        BY <2>2, <3>1
      <4>2. c[i] = b[i] /\ i \in 1 .. Len(c)
        BY <2>3
      <4>3. QED
        BY <3>1, <4>1, <4>2
    <3>5. DrainFine(buf, c)
      BY <3>2, <3>3, <3>4 DEF DrainFine, d
    <3>6. QED
      BY <2>3, <3>5 DEF c
  <2>8. QED
    BY <2>6, <2>7
<1>3. Seq(Piece) \subseteq S
  <2> HIDE DEF S
  <2>1. QED
    BY <1>1, <1>2, SeqInduction
<1>4. QED
  BY <1>3

LEMMA ReadType ==
  ASSUME NEW buf \in Seq(Piece), NEW chunk \in Seq(Piece)
  PROVE  /\ Read(buf, chunk).buf \in Seq(Piece)
         /\ Read(buf, chunk).events \in Seq(AnEvent)
         /\ Unfinished(buf) => Unfinished(Read(buf, chunk).buf)
<1>1. DrainFine(buf, chunk)
  BY DrainType
<1>2. DrainFine(buf, <<>>)
  <2>1. <<>> \in Seq(Piece)
    OBVIOUS
  <2>2. QED
    BY <2>1, DrainType
<1>3. QED
  BY <1>1, <1>2 DEF Read, DrainFine

OfFine(types, X, s) ==
  LET r == Of(types, s)
  IN  /\ r \in Seq(X)
      /\ \A j \in 1 .. Len(r) : r[j].type \in types /\ \E i \in 1 .. Len(s) : s[i] = r[j]

LEMMA OfType ==
  ASSUME NEW types, NEW X, NEW events \in Seq(X)
  PROVE  OfFine(types, X, events)
<1> DEFINE S == {s \in Seq(X) : OfFine(types, X, s)}
<1>1. <<>> \in S
  <2>1. Of(types, <<>>) = <<>>
    BY OfNothing
  <2>2. Len(<<>>) = 0 /\ <<>> \in Seq(X)
    OBVIOUS
  <2> DEFINE r == Of(types, <<>>)
  <2>3. r \in Seq(X) /\ \A j \in 1 .. Len(r) : FALSE
    <3>1. r = <<>>
      BY <2>1
    <3> HIDE DEF r
    <3>2. QED
      BY <2>2, <3>1
  <2>4. OfFine(types, X, <<>>)
    BY <2>3 DEF OfFine
  <2>5. QED
    BY <2>2, <2>4
<1>2. ASSUME NEW s \in Seq(X), NEW x \in X, s \in S PROVE Append(s, x) \in S
  <2> DEFINE r == Of(types, s)
             t == Append(s, x)
             q == Of(types, t)
  <2>1. q = IF x.type \in types THEN Append(r, x) ELSE r
    BY OfMore
  <2>2. r \in Seq(X)
        /\ \A j \in 1 .. Len(r) : r[j].type \in types /\ \E i \in 1 .. Len(s) : s[i] = r[j]
    BY <1>2 DEF OfFine
  <2>3. t \in Seq(X) /\ Len(t) = Len(s) + 1 /\ t[Len(s) + 1] = x
        /\ \A i \in 1 .. Len(s) : t[i] = s[i]
    OBVIOUS
  <2> HIDE DEF r, t, q
  <2>4. q \in Seq(X)
    BY <2>1, <2>2
  <2>5. ASSUME NEW j \in 1 .. Len(q)
        PROVE  q[j].type \in types /\ \E i \in 1 .. Len(t) : t[i] = q[j]
    <3>1. CASE j \in 1 .. Len(r)
      <4>1. q[j] = r[j]
        BY <2>1, <2>2, <3>1
      <4>2. PICK i \in 1 .. Len(s) : s[i] = r[j]
        BY <2>2, <3>1
      <4>3. i \in 1 .. Len(t) /\ t[i] = s[i]
        BY <2>3
      <4>4. r[j].type \in types
        BY <2>2, <3>1
      <4>5. QED
        BY <4>1, <4>2, <4>3, <4>4
    <3>2. CASE j \notin 1 .. Len(r)
      <4>1. x.type \in types /\ q[j] = x
        BY <2>1, <2>2, <3>2
      <4>2. Len(s) + 1 \in 1 .. Len(t)
        BY <2>3
      <4>3. QED
        BY <2>3, <4>1, <4>2
    <3>3. QED
      BY <3>1, <3>2
  <2>6. OfFine(types, X, t)
    BY <2>4, <2>5 DEF OfFine, q
  <2>7. QED
    BY <2>3, <2>6 DEF t
<1>3. Seq(X) \subseteq S
  <2> HIDE DEF S
  <2>1. QED
    BY <1>1, <1>2, SeqInduction
<1>4. QED
  BY <1>3

(* The last of the events of some types, where there is one. *)
LEMMA LastOf ==
  ASSUME NEW types, NEW events \in Seq(AnEvent), Of(types, events) # <<>>
  PROVE  /\ Last(Of(types, events)) \in AnEvent
         /\ Last(Of(types, events)).in \in Nat /\ Last(Of(types, events)).out \in Nat
<1> DEFINE r == Of(types, events)
<1>1. r \in Seq(AnEvent)
  BY OfType DEF OfFine
<1>2. r # <<>>
  OBVIOUS
<1> HIDE DEF r
<1>3. r[Len(r)] \in AnEvent
  BY <1>1, <1>2
<1>4. Last(r) \in AnEvent
  BY <1>3 DEF Last
<1>5. Last(r).in \in Nat /\ Last(r).out \in Nat
  BY <1>4 DEF AnEvent
<1>6. QED
  BY <1>4, <1>5 DEF r

Translated == {e \in AnEvent : e.type \in {"role", "delta", "finish", "usage"}}
Translating == [input : Nat, roleSent : BOOLEAN, out : Seq(Translated)]

LEMMA TranslatingMade ==
  ASSUME NEW i \in Nat, NEW b \in BOOLEAN, NEW o \in Seq(Translated)
  PROVE  [input |-> i, roleSent |-> b, out |-> o] \in Translating
BY DEF Translating

LEMMA ToldType ==
  ASSUME NEW acc \in Translating, NEW e \in AnEvent
  PROVE  ToldOpenAI(acc, e) \in Translating
<1> DEFINE in == IF e.type = "message_start" THEN e.in ELSE acc.input
           told_ == ToOpenAI(e, in, ~acc.roleSent)
<1>1. in \in Nat /\ e.out \in Nat
  BY DEF AnEvent, Translating
<1> HIDE DEF in
<1>2. Plain("role") \in Translated /\ Plain("finish") \in Translated
      /\ UsageOf(in, e.out) \in Translated
  <2>1. /\ Event("role", <<>>, 0, 0, FALSE) \in AnEvent
        /\ Event("finish", <<>>, 0, 0, FALSE) \in AnEvent
        /\ Event("usage", <<>>, in, e.out, FALSE) \in AnEvent
    <3>1. 0 \in Nat
      OBVIOUS
    <3>2. Event("role", <<>>, 0, 0, FALSE) \in AnEvent
      BY <3>1, EventMade
    <3>3. Event("finish", <<>>, 0, 0, FALSE) \in AnEvent
      BY <3>1, EventMade
    <3>4. Event("usage", <<>>, in, e.out, FALSE) \in AnEvent
      BY <1>1, <3>1, EventMade
    <3>5. QED
      BY <3>2, <3>3, <3>4
  <2>2. Event("role", <<>>, 0, 0, FALSE).type = "role"
        /\ Event("finish", <<>>, 0, 0, FALSE).type = "finish"
        /\ Event("usage", <<>>, in, e.out, FALSE).type = "usage"
    BY DEF Event
  <2>3. QED
    BY <2>1, <2>2 DEF Translated, Plain, UsageOf
<1>3. e.type = "delta" => e \in Translated
  BY DEF Translated
<1>4. told_ \in Seq(Translated)
  BY <1>2, <1>3 DEF ToOpenAI
<1>5. acc.out \in Seq(Translated) /\ acc.roleSent \in BOOLEAN
  BY DEF Translating
<1>6. (acc.roleSent \/ e.type = "message_start") \in BOOLEAN
  BY Zenon
<1> HIDE DEF told_
<1>7. acc.out \o told_ \in Seq(Translated)
  BY <1>4, <1>5
<1>8. ToldOpenAI(acc, e) = [input |-> in, roleSent |-> acc.roleSent \/ e.type = "message_start",
                            out |-> acc.out \o told_]
  BY Zenon DEF ToldOpenAI, in, told_
<1> DEFINE b == acc.roleSent \/ e.type = "message_start"
           o == acc.out \o told_
<1>9. b \in BOOLEAN /\ o \in Seq(Translated)
  BY <1>6, <1>7
<1> HIDE DEF b, o
<1>10. [input |-> in, roleSent |-> b, out |-> o] \in Translating
  BY <1>1, <1>9, TranslatingMade
<1>11. QED
  BY <1>8, <1>10, Zenon DEF b, o

LEMMA TranslationType ==
  ASSUME NEW in \in Nat, NEW before \in BOOLEAN, NEW events \in Seq(AnEvent)
  PROVE  Translation(in, before, events) \in Translating
<1> DEFINE S == {s \in Seq(AnEvent) : Translation(in, before, s) \in Translating}
<1>1. <<>> \in S
  <2>1. Translation(in, before, <<>>) = [input |-> in, roleSent |-> before, out |-> <<>>]
    BY TranslationNothing
  <2>2. <<>> \in Seq(Translated) /\ <<>> \in Seq(AnEvent)
    OBVIOUS
  <2>3. Translation(in, before, <<>>) \in Translating
    BY <2>1, <2>2, TranslatingMade
  <2>4. QED
    BY <2>2, <2>3
<1>2. ASSUME NEW s \in Seq(AnEvent), NEW e \in AnEvent, s \in S PROVE Append(s, e) \in S
  <2>1. Translation(in, before, Append(s, e)) = ToldOpenAI(Translation(in, before, s), e)
    BY TranslationMore
  <2>2. Translation(in, before, Append(s, e)) \in Translating
    BY <1>2, <2>1, ToldType
  <2>3. QED
    BY <2>2
<1>3. Seq(AnEvent) \subseteq S
  <2> HIDE DEF S
  <2>1. QED
    BY <1>1, <1>2, SeqInduction
<1>4. QED
  BY <1>3

LEMMA PiecesType ==
  ASSUME NEW e \in AnEvent
  PROVE  Pieces(e) \in Seq(Piece) /\ Len(Pieces(e)) = 2
<1>1. [of |-> e, half |-> 1] \in Piece /\ [of |-> e, half |-> 2] \in Piece
  BY DEF Piece
<1>2. QED
  BY <1>1 DEF Pieces

LEMMA BytesType ==
  ASSUME NEW events \in Seq(AnEvent)
  PROVE  /\ Bytes(events) \in Seq(Piece)
         /\ Len(Bytes(events)) = 2 * Len(events)
         /\ \A i \in 1 .. Len(events) :
              /\ Bytes(events)[2 * i - 1] = [of |-> events[i], half |-> 1]
              /\ Bytes(events)[2 * i] = [of |-> events[i], half |-> 2]
<1> DEFINE n == Len(events)
           b(i) == [of |-> events[(i + 1) \div 2], half |-> 2 - (i % 2)]
<1>1. n \in Nat
  OBVIOUS
<1>2. ASSUME NEW i \in 1 .. 2 * n PROVE b(i) \in Piece
  <2>1. (i + 1) \div 2 \in 1 .. n /\ 2 - (i % 2) \in {1, 2}
    BY <1>1, Z3
  <2>2. events[(i + 1) \div 2] \in AnEvent
    <3> DEFINE k == (i + 1) \div 2
    <3>1. k \in 1 .. n
      BY <2>1
    <3> HIDE DEF k
    <3>2. events[k] \in AnEvent
      BY <3>1
    <3>3. QED
      BY <3>2 DEF k
  <2> DEFINE h == 2 - (i % 2)
             e == events[(i + 1) \div 2]
  <2>3. h \in {1, 2} /\ e \in AnEvent
    BY <2>1, <2>2
  <2> HIDE DEF h, e
  <2>4. [of |-> e, half |-> h] \in Piece
    BY <2>3 DEF Piece
  <2>5. QED
    BY <2>4 DEF h, e
<1>3. Bytes(events) = [i \in 1 .. 2 * n |-> b(i)]
  BY DEF Bytes
<1>4. ASSUME NEW i \in 1 .. n
      PROVE  b(2 * i - 1) = [of |-> events[i], half |-> 1]
             /\ b(2 * i) = [of |-> events[i], half |-> 2]
             /\ 2 * i - 1 \in 1 .. 2 * n /\ 2 * i \in 1 .. 2 * n
  <2>1. ((2 * i - 1) + 1) \div 2 = i /\ ((2 * i) + 1) \div 2 = i
        /\ (2 * i - 1) % 2 = 1 /\ (2 * i) % 2 = 0
        /\ 2 * i - 1 \in 1 .. 2 * n /\ 2 * i \in 1 .. 2 * n
    BY <1>1, Z3
  <2>2. QED
    BY <2>1
<1> HIDE DEF b
<1>5. 2 * n \in Nat
  BY <1>1
<1>6. [i \in 1 .. 2 * n |-> b(i)] \in Seq(Piece) /\ Len([i \in 1 .. 2 * n |-> b(i)]) = 2 * n
  <2> DEFINE m == 2 * n
  <2> HIDE DEF m
  <2>1. m \in Nat /\ \A i \in 1 .. m : b(i) \in Piece
    BY <1>2, <1>5 DEF m
  <2>2. [i \in 1 .. m |-> b(i)] \in Seq(Piece) /\ Len([i \in 1 .. m |-> b(i)]) = m
    BY <2>1
  <2>3. QED
    BY <2>2 DEF m
<1>7. QED
  BY <1>3, <1>4, <1>6

LEMMA ChunksType ==
  ASSUME NEW events \in Seq(AnEvent)
  PROVE  Chunks(events) \in Seq(Seq(Piece)) /\ Len(Chunks(events)) = Len(events)
<1>1. \A i \in 1 .. Len(events) : Pieces(events[i]) \in Seq(Piece)
  BY PiecesType
<1>2. QED
  BY <1>1 DEF Chunks

-----------------------------------------------------------------------------
(* Types, of the buffers and queues too. *)

Shown == IF format = "openai" THEN Piece ELSE AnEvent

Typed ==
  /\ TypeOK
  /\ bufIn \in Seq(Piece) /\ bufTap \in Seq(Piece) /\ bufOut \in Seq(Piece)
  /\ mid \in Seq(Seq(Piece))
  /\ out \in Seq(Shown) /\ got \in Seq(Shown)

LEMMA ScriptIs ==
  ASSUME NEW s \in Scripts
  PROVE  /\ s.events \in Seq(AnEvent) /\ s.provider \in {"openai", "anthropic"}
         /\ Bytes(s.events) \in Seq(Piece)
         /\ Len(Bytes(s.events)) = 2 * Len(s.events) /\ Len(Bytes(s.events)) \in Nat
<1>1. s \in [provider : {"openai", "anthropic"}, events : Seq(AnEvent)]
  BY ScriptsAssumption
<1>2. s.events \in Seq(AnEvent) /\ s.provider \in {"openai", "anthropic"}
  BY <1>1
<1>3. Bytes(s.events) \in Seq(Piece) /\ Len(Bytes(s.events)) = 2 * Len(s.events)
  BY <1>2, BytesType
<1>4. Len(Bytes(s.events)) \in Nat
  BY <1>3
<1>5. QED
  BY <1>2, <1>3, <1>4

LEMMA TapTyped ==
  ASSUME Typed, NEW chunk \in Seq(Piece), Tap(chunk)
  PROVE  /\ bufTap' \in Seq(Piece) /\ Unfinished(bufTap') /\ usage' \in [in : Nat, out : Nat]
         /\ gotUsage' \in BOOLEAN /\ chars' \in Nat
<1> DEFINE r == Read(bufTap, chunk)
           usages == Of({"usage"}, r.events)
           deltas == Of({"delta"}, r.events)
<1>1. /\ bufTap \in Seq(Piece) /\ Unfinished(bufTap) /\ usage \in [in : Nat, out : Nat]
      /\ chars \in Nat /\ gotUsage \in BOOLEAN
  BY DEF Typed, TypeOK
<1>2. r.buf \in Seq(Piece) /\ r.events \in Seq(AnEvent) /\ Unfinished(r.buf)
  BY <1>1, ReadType
<1>3. /\ bufTap' = r.buf
      /\ usage' = IF usages = <<>> THEN usage
                  ELSE [in |-> Last(usages).in, out |-> Last(usages).out]
      /\ gotUsage' = (gotUsage \/ usages # <<>>)
      /\ chars' = chars + CharsPerDelta * Len(deltas)
  BY DEF Tap
<1> HIDE DEF r
<1>4. usages # <<>> => Last(usages).in \in Nat /\ Last(usages).out \in Nat
  BY <1>2, LastOf
<1>5. Len(deltas) \in Nat
  <2>1. deltas \in Seq(AnEvent)
    BY <1>2, OfType DEF OfFine
  <2> HIDE DEF deltas
  <2>2. QED
    BY <2>1
<1> HIDE DEF usages, deltas
<1>6. usage' \in [in : Nat, out : Nat]
  BY <1>1, <1>3, <1>4
<1>7. chars' \in Nat
  <2>1. CharsPerDelta \in Nat
    BY RelayAssumption
  <2>2. CharsPerDelta * Len(deltas) \in Nat
    BY <1>5, <2>1, Z3
  <2>3. QED
    BY <1>1, <1>3, <2>2
<1>8. gotUsage' \in BOOLEAN
  BY <1>3, Zenon
<1>9. QED
  BY <1>2, <1>3, <1>6, <1>7, <1>8

LEMMA TranslateTyped ==
  ASSUME Typed, NEW chunk \in Seq(Piece), Translate(chunk)
  PROVE  /\ bufOut' \in Seq(Piece) /\ Unfinished(bufOut') /\ told' \in Nat
         /\ out' \in Seq(Shown)
<1>1. bufOut \in Seq(Piece) /\ Unfinished(bufOut) /\ told \in Nat
  BY DEF Typed, TypeOK
<1>2. CASE format = "openai"
  <2>1. out' = chunk /\ bufOut' = bufOut /\ told' = told
    BY <1>2 DEF Translate
  <2>2. QED
    BY <1>1, <1>2, <2>1 DEF Shown
<1>3. CASE format # "openai"
  <2> DEFINE r == Read(bufOut, chunk)
             usages == Of({"usage"}, r.events)
  <2>1. r.buf \in Seq(Piece) /\ r.events \in Seq(AnEvent) /\ Unfinished(r.buf)
    BY <1>1, ReadType
  <2>2. /\ bufOut' = r.buf
        /\ told' = IF usages = <<>> THEN told ELSE Last(usages).out
        /\ out' = Of(Forwarded, r.events)
    BY <1>3 DEF Translate
  <2> HIDE DEF r
  <2>3. usages # <<>> => Last(usages).out \in Nat
    BY <2>1, LastOf
  <2> HIDE DEF usages
  <2>4. told' \in Nat
    BY <1>1, <2>2, <2>3
  <2>5. Of(Forwarded, r.events) \in Seq(AnEvent)
    BY <2>1, OfType DEF OfFine
  <2>6. QED
    BY <1>3, <2>1, <2>2, <2>4, <2>5 DEF Shown
<1>4. QED
  BY <1>2, <1>3

LEMMA SmallSeqs ==
  ASSUME NEW X, NEW a \in X, NEW b \in X, NEW c \in X
  PROVE  <<>> \in Seq(X) /\ <<a>> \in Seq(X) /\ <<a, b>> \in Seq(X) /\ <<a, b, c>> \in Seq(X)
OBVIOUS

LEMMA OpeningType == Opening \in Seq(Shown)
<1>1. Plain("message_start") \in AnEvent /\ Plain("block_start") \in AnEvent
  BY EventMade DEF Plain
<1>2. <<Plain("message_start"), Plain("block_start")>> \in Seq(AnEvent)
  BY <1>1, SmallSeqs
<1>3. CASE format = "anthropic"
  BY <1>2, <1>3 DEF Opening, Shown
<1>4. CASE format # "anthropic"
  <2>1. Opening = <<>>
    BY <1>4 DEF Opening
  <2>2. QED
    BY <2>1
<1>5. QED
  BY <1>3, <1>4

LEMMA ClosingType ==
  ASSUME told \in Nat
  PROVE  Closing \in Seq(Shown)
<1> DEFINE c == Event("message_delta", <<>>, 0, told, FALSE)
<1>1. Plain("block_stop") \in AnEvent /\ Plain("message_stop") \in AnEvent
  BY EventMade DEF Plain
<1>2. c \in AnEvent
  BY EventMade
<1>3. <<Plain("block_stop"), c, Plain("message_stop")>> \in Seq(AnEvent)
  BY <1>1, <1>2, SmallSeqs
<1>4. CASE format = "anthropic"
  BY <1>3, <1>4 DEF Closing, Shown
<1>5. CASE format # "anthropic"
  <2>1. Closing = <<>>
    BY <1>5 DEF Closing
  <2>2. QED
    BY <2>1
<1>6. QED
  BY <1>4, <1>5

LEMMA InitTyped == Init => Typed
<1> SUFFICES ASSUME Init PROVE Typed
  OBVIOUS
<1>1. Len(Bytes(script.events)) \in Nat
  BY ScriptIs DEF Init
<1>2. 0 \in 0 .. Len(Bytes(script.events))
  BY <1>1
<1>3. <<>> \in Seq(Piece) /\ <<>> \in Seq(Shown) /\ <<>> \in Seq(Seq(Piece))
      /\ <<>> \in Seq([in : Nat, out : Nat])
  OBVIOUS
<1>4. Unfinished(<<>>)
  BY DEF Unfinished
<1>5. Opening \in Seq(Shown)
  BY OpeningType
<1>6. [in |-> 0, out |-> 0] \in [in : Nat, out : Nat] /\ 0 \in Nat
  OBVIOUS
<1>7. TypeOK
  BY <1>2, <1>3, <1>4, <1>6 DEF Init, TypeOK
<1>8. QED
  BY <1>3, <1>5, <1>7 DEF Init, Typed

LEMMA ReceiveTyped ==
  ASSUME Typed, NEW n \in 1 .. Len(Bytes(script.events)), Receive(n)
  PROVE  Typed'
<1> DEFINE bytes == Bytes(script.events)
           chunk == SubSeq(bytes, sent + 1, sent + n)
<1>1. script \in Scripts /\ sent \in 0 .. Len(bytes) /\ bufIn \in Seq(Piece)
      /\ Unfinished(bufIn) /\ input \in Nat /\ roleSent \in BOOLEAN
  BY DEF Typed, TypeOK
<1>2. bytes \in Seq(Piece) /\ Len(bytes) \in Nat
  BY <1>1, ScriptIs
<1>3. sent + n <= Len(bytes) /\ sent' = sent + n
  BY DEF Receive
<1>4. IF script.provider = "anthropic" THEN FromAnthropic(chunk)
      ELSE mid' = <<chunk>> /\ UNCHANGED <<bufIn, input, roleSent>>
  BY DEF Receive
<1>5. chunk \in Seq(Piece)
  <2> HIDE DEF bytes
  <2>1. QED
    BY <1>1, <1>2, <1>3
<1>6. UNCHANGED <<script, format, upstream, bufTap, usage, gotUsage, chars, bufOut, told,
                  out, got, status, records>>
  BY DEF Receive
<1>7. sent' \in 0 .. Len(bytes)
  BY <1>1, <1>2, <1>3
<1> HIDE DEF chunk
<1>8. /\ bufIn' \in Seq(Piece) /\ Unfinished(bufIn') /\ input' \in Nat /\ roleSent' \in BOOLEAN
      /\ mid' \in Seq(Seq(Piece))
  <2>1. CASE script.provider = "anthropic"
    <3> DEFINE r == Read(bufIn, chunk)
               t == Translation(input, roleSent, r.events)
    <3>1. r.buf \in Seq(Piece) /\ r.events \in Seq(AnEvent) /\ Unfinished(r.buf)
      BY <1>1, <1>5, ReadType
    <3>2. t \in Translating
      BY <1>1, <3>1, TranslationType
    <3>3. bufIn' = r.buf /\ input' = t.input /\ roleSent' = t.roleSent /\ mid' = Chunks(t.out)
      BY <1>4, <2>1 DEF FromAnthropic
    <3> HIDE DEF r, t
    <3>4. t.input \in Nat /\ t.roleSent \in BOOLEAN /\ t.out \in Seq(Translated)
      BY <3>2 DEF Translating
    <3>5. t.out \in Seq(AnEvent)
      <4>1. Translated \subseteq AnEvent
        BY DEF Translated
      <4>2. QED
        BY <3>4, <4>1
    <3>6. Chunks(t.out) \in Seq(Seq(Piece))
      BY <3>5, ChunksType
    <3>7. QED
      BY <3>1, <3>3, <3>4, <3>6
  <2>2. CASE script.provider # "anthropic"
    <3>1. mid' = <<chunk>> /\ UNCHANGED <<bufIn, input, roleSent>>
      BY <1>4, <2>2
    <3>2. <<chunk>> \in Seq(Seq(Piece))
      BY <1>5
    <3>3. QED
      BY <1>1, <3>1, <3>2
  <2>3. QED
    BY <2>1, <2>2
<1>9. TypeOK'
  BY <1>6, <1>7, <1>8 DEF Typed, TypeOK
<1>10. QED
  BY <1>6, <1>8, <1>9 DEF Typed, Shown

LEMMA RelayTyped ==
  ASSUME Typed, Relay
  PROVE  Typed'
<1> DEFINE chunk == Head(mid)
<1>1. mid # <<>> /\ mid' = Tail(mid) /\ Tap(chunk) /\ Translate(chunk)
      /\ UNCHANGED <<script, format, sent, upstream, bufIn, input, roleSent, got, status,
                     records>>
  BY DEF Relay
<1>2. mid \in Seq(Seq(Piece))
  BY DEF Typed
<1>3. chunk \in Seq(Piece) /\ Tail(mid) \in Seq(Seq(Piece))
  BY <1>1, <1>2
<1> HIDE DEF chunk
<1>4. /\ bufTap' \in Seq(Piece) /\ Unfinished(bufTap') /\ usage' \in [in : Nat, out : Nat]
      /\ gotUsage' \in BOOLEAN /\ chars' \in Nat
  BY <1>1, <1>3, TapTyped
<1>5. /\ bufOut' \in Seq(Piece) /\ Unfinished(bufOut') /\ told' \in Nat
      /\ out' \in Seq(Shown)
  BY <1>1, <1>3, TranslateTyped
<1>6. TypeOK'
  BY <1>1, <1>4, <1>5 DEF Typed, TypeOK
<1>7. QED
  BY <1>1, <1>3, <1>4, <1>5, <1>6 DEF Typed, Shown

LEMMA FinishTyped ==
  ASSUME Typed, Finish
  PROVE  Typed'
<1> DEFINE u == IF gotUsage THEN usage ELSE [usage EXCEPT !.out = chars \div 4]
<1>1. /\ status' = "recorded" /\ records' = Append(records, u) /\ out' = Closing
      /\ UNCHANGED <<script, format, sent, upstream, relay, got>>
  BY DEF Finish
<1>2. usage \in [in : Nat, out : Nat] /\ chars \in Nat /\ told \in Nat
      /\ records \in Seq([in : Nat, out : Nat])
  BY DEF Typed, TypeOK
<1>3. u \in [in : Nat, out : Nat]
  <2>1. chars \div 4 \in Nat
    BY <1>2, Z3
  <2>2. QED
    BY <1>2, <2>1
<1> HIDE DEF u
<1>4. Append(records, u) \in Seq([in : Nat, out : Nat])
  BY <1>2, <1>3
<1>5. Closing \in Seq(Shown)
  BY <1>2, ClosingType
<1>6. TypeOK'
  BY <1>1, <1>4 DEF Typed, TypeOK, relay
<1>7. QED
  BY <1>1, <1>5, <1>6 DEF Typed, Shown, relay

LEMMA StepTyped == Typed /\ [Next]_vars => Typed'
<1> SUFFICES ASSUME Typed, [Next]_vars PROVE Typed'
  OBVIOUS
<1>1. ASSUME NEW n \in 1 .. Len(Bytes(script.events)), Receive(n) PROVE Typed'
  BY <1>1, ReceiveTyped
<1>2. CASE UpstreamEnds
  <2>1. /\ upstream' = "ended"
        /\ mid' = IF script.provider = "anthropic" THEN <<Pieces(Plain("done"))>> ELSE <<>>
        /\ UNCHANGED <<script, format, sent, bufIn, input, roleSent, bufTap, usage, gotUsage,
                       chars, bufOut, told, out, got, status, records>>
    BY <1>2 DEF UpstreamEnds
  <2>2. Plain("done") \in AnEvent
    BY EventMade DEF Plain
  <2>3. Pieces(Plain("done")) \in Seq(Piece)
    BY <2>2, PiecesType
  <2>4. mid' \in Seq(Seq(Piece))
    BY <2>1, <2>3
  <2>5. TypeOK'
    BY <2>1 DEF Typed, TypeOK
  <2>6. QED
    BY <2>1, <2>4, <2>5 DEF Typed, Shown
<1>3. CASE UpstreamFails
  BY <1>3 DEF UpstreamFails, Typed, TypeOK, Shown, relay
<1>4. CASE Relay
  BY <1>4, RelayTyped
<1>5. CASE Finish
  BY <1>5, FinishTyped
<1>6. CASE Deliver
  <2>1. /\ out # <<>> /\ got' = Append(got, Head(out)) /\ out' = Tail(out)
        /\ UNCHANGED <<script, format, sent, upstream, relay, status, records>>
    BY <1>6 DEF Deliver
  <2>2. out \in Seq(Shown) /\ got \in Seq(Shown)
    BY DEF Typed
  <2>3. Append(got, Head(out)) \in Seq(Shown) /\ Tail(out) \in Seq(Shown)
    BY <2>1, <2>2
  <2>4. TypeOK'
    BY <2>1 DEF Typed, TypeOK, relay
  <2>5. QED
    BY <2>1, <2>3, <2>4 DEF Typed, Shown, relay
<1>7. CASE Close
  BY <1>7 DEF Close, Typed, TypeOK, Shown, relay
<1>8. CASE Leave
  BY <1>8 DEF Leave, Typed, TypeOK, Shown, relay
<1>9. CASE UNCHANGED vars
  BY <1>9 DEF vars, Typed, TypeOK, Shown, relay
<1>10. QED
  BY <1>1, <1>2, <1>3, <1>4, <1>5, <1>6, <1>7, <1>8, <1>9 DEF Next, Reads, Over

-----------------------------------------------------------------------------
(* A client of the Anthropic format gets one framed message. *)

LEMMA Concat ==
  ASSUME NEW X, NEW s \in Seq(X), NEW t \in Seq(X)
  PROVE  /\ s \o t \in Seq(X) /\ Len(s \o t) = Len(s) + Len(t)
         /\ \A i \in 1 .. Len(s) : (s \o t)[i] = s[i]
         /\ \A i \in 1 .. Len(t) : (s \o t)[Len(s) + i] = t[i]
         /\ \A i \in Len(s) + 1 .. Len(s) + Len(t) : (s \o t)[i] = t[i - Len(s)]
OBVIOUS

LEMMA ConcatOne ==
  ASSUME NEW X, NEW s \in Seq(X), NEW t \in Seq(X), t # <<>>
  PROVE  Append(s, Head(t)) \o Tail(t) = s \o t
OBVIOUS

LEMMA ConcatNothing ==
  ASSUME NEW X, NEW s \in Seq(X)
  PROVE  s \o <<>> = s /\ <<>> \o s = s
OBVIOUS

(* Laws of concatenation, as facts about their parts. *)
Joins(s, t, x) == Append(s \o t, x) = s \o Append(t, x)
Chains(s, t, u) == (s \o t) \o u = s \o (t \o u)

LEMMA Joined ==
  ASSUME NEW X, NEW s \in Seq(X), NEW t \in Seq(X), NEW x \in X
  PROVE  Joins(s, t, x)
BY DEF Joins

LEMMA Chained ==
  ASSUME NEW X, NEW s \in Seq(X), NEW t \in Seq(X), NEW u \in Seq(X)
  PROVE  Chains(s, t, u)
BY DEF Chains

Ended == status \in {"recorded", "closed"}

Flows(d) ==
  \/ got \o out = Opening \o d /\ ~Ended
  \/ got \o out = (Opening \o d) \o Closing /\ status \in {"recorded", "closed", "left"}

Framed ==
  format = "anthropic" =>
    /\ status = "closed" => out = <<>>
    /\ \E d \in Seq(AnEvent) : (\A i \in 1 .. Len(d) : d[i].type = "delta") /\ Flows(d)

LEMMA InitFramed == Init => Framed
<1> SUFFICES ASSUME Init, format = "anthropic" PROVE Framed
  BY DEF Framed
<1>1. got = <<>> /\ out = Opening /\ status = "open"
  BY DEF Init
<1>2. Opening \in Seq(Shown)
  BY OpeningType
<1>3. got \o out = Opening \o <<>>
  BY <1>1, <1>2, ConcatNothing
<1>4. Flows(<<>>)
  BY <1>1, <1>3 DEF Flows, Ended
<1>5. <<>> \in Seq(AnEvent) /\ \A i \in 1 .. Len(<<>>) : FALSE
  OBVIOUS
<1>6. QED
  BY <1>1, <1>4, <1>5 DEF Framed

LEMMA RelayFramed ==
  ASSUME Typed, Framed, Relay
  PROVE  Framed'
<1>1. /\ status = "open" /\ out = <<>> /\ mid # <<>> /\ Translate(Head(mid))
      /\ UNCHANGED <<format, got, status>>
  BY DEF Relay
<1> SUFFICES ASSUME format = "anthropic" PROVE Framed'
  BY <1>1 DEF Framed
<1> DEFINE r == Read(bufOut, Head(mid))
           more == Of({"delta"}, r.events)
<1>2. out' = more
  BY <1>1 DEF Translate, Forwarded
<1>3. bufOut \in Seq(Piece) /\ mid \in Seq(Seq(Piece)) /\ got \in Seq(AnEvent)
  BY DEF Typed, Shown
<1>4. Head(mid) \in Seq(Piece)
  BY <1>1, <1>3
<1>5. r.events \in Seq(AnEvent)
  BY <1>3, <1>4, ReadType
<1> HIDE DEF r
<1>6. more \in Seq(AnEvent) /\ \A i \in 1 .. Len(more) : more[i].type \in {"delta"}
  BY <1>5, OfType DEF OfFine
<1> HIDE DEF more
<1>7. PICK d \in Seq(AnEvent) : (\A i \in 1 .. Len(d) : d[i].type = "delta") /\ Flows(d)
  BY DEF Framed
<1>8. got \o <<>> = Opening \o d
  BY <1>1, <1>7 DEF Flows
<1>9. got = Opening \o d /\ Opening \in Seq(AnEvent)
  BY <1>3, <1>8, ConcatNothing, OpeningType DEF Shown
<1>10. got \o more = Opening \o (d \o more)
  <2> DEFINE o == Opening
  <2>1. o \in Seq(AnEvent) /\ got = o \o d
    BY <1>9
  <2> HIDE DEF o
  <2>2. Chains(o, d, more)
    BY <1>6, <1>7, <2>1, Chained
  <2>3. QED
    BY <2>1, <2>2 DEF Chains, o
<1>11. d \o more \in Seq(AnEvent)
       /\ \A i \in 1 .. Len(d \o more) : (d \o more)[i].type = "delta"
  BY <1>6, <1>7
<1>12. Opening' = Opening
  BY <1>1 DEF Opening
<1> DEFINE e == d \o more
<1> HIDE DEF e
<1>13. got' \o out' = Opening' \o e /\ ~Ended'
  BY <1>1, <1>2, <1>10, <1>12 DEF Ended, e
<1>14. e \in Seq(AnEvent) /\ \A i \in 1 .. Len(e) : e[i].type = "delta"
  BY <1>11 DEF e
<1>15. status' # "closed"
  BY <1>1
<1>16. QED
  BY <1>13, <1>14, <1>15 DEF Framed, Flows

LEMMA FinishFramed ==
  ASSUME Typed, Framed, Finish
  PROVE  Framed'
<1>1. /\ status = "open" /\ out = <<>> /\ status' = "recorded" /\ out' = Closing
      /\ UNCHANGED <<format, got, told>>
  BY DEF Finish, Starved, relay
<1> SUFFICES ASSUME format = "anthropic" PROVE Framed'
  BY <1>1 DEF Framed
<1>2. got \in Seq(AnEvent) /\ told \in Nat
  BY DEF Typed, TypeOK, Shown
<1>3. PICK d \in Seq(AnEvent) : (\A i \in 1 .. Len(d) : d[i].type = "delta") /\ Flows(d)
  BY DEF Framed
<1>4. got \o <<>> = Opening \o d
  BY <1>1, <1>3 DEF Flows
<1>5. got = Opening \o d
  BY <1>2, <1>4, ConcatNothing
<1>6. Opening' = Opening /\ Closing' = Closing
  BY <1>1 DEF Opening, Closing
<1>7. got' \o out' = (Opening' \o d) \o Closing'
  BY <1>1, <1>5, <1>6
<1>8. QED
  BY <1>1, <1>3, <1>7 DEF Framed, Flows

Keeps ==
  /\ UNCHANGED <<format, got, out, told>>
  /\ \/ status' = status
     \/ status = "open" /\ status' \in {"broken", "left"}
     \/ status = "recorded" /\ status' = "left"
     \/ status = "recorded" /\ status' = "closed" /\ out = <<>>

LEMMA KeepsFramed ==
  ASSUME Framed, Keeps
  PROVE  Framed'
<1> SUFFICES ASSUME format = "anthropic" PROVE Framed'
  BY DEF Framed, Keeps
<1>1. PICK d \in Seq(AnEvent) : (\A i \in 1 .. Len(d) : d[i].type = "delta") /\ Flows(d)
  BY DEF Framed
<1>2. Opening' = Opening /\ Closing' = Closing
  BY DEF Opening, Closing, Keeps
<1>3. got' \o out' = got \o out
  BY DEF Keeps
<1>4. Flows(d)'
  <2>1. CASE got \o out = Opening \o d /\ ~Ended
    BY <1>2, <1>3, <2>1 DEF Flows, Ended, Keeps
  <2>2. CASE got \o out = (Opening \o d) \o Closing /\ status \in {"recorded", "closed", "left"}
    BY <1>2, <1>3, <2>2 DEF Flows, Keeps
  <2>3. QED
    BY <1>1, <2>1, <2>2 DEF Flows
<1>5. status' = "closed" => out' = <<>>
  BY DEF Framed, Keeps
<1>6. QED
  BY <1>1, <1>4, <1>5 DEF Framed

LEMMA StepFramed == Typed /\ Framed /\ [Next]_vars => Framed'
<1> SUFFICES ASSUME Typed, Framed, [Next]_vars PROVE Framed'
  OBVIOUS
<1>1. ASSUME NEW n \in 1 .. Len(Bytes(script.events)), Receive(n) PROVE Framed'
  <2>1. Keeps
    BY <1>1 DEF Keeps, Receive
  <2>2. QED
    BY <2>1, KeepsFramed
<1>2. CASE UpstreamEnds
  <2>1. Keeps
    BY <1>2 DEF Keeps, UpstreamEnds
  <2>2. QED
    BY <2>1, KeepsFramed
<1>3. CASE UpstreamFails
  <2>1. Keeps
    BY <1>3 DEF Keeps, UpstreamFails, Starved, relay
  <2>2. QED
    BY <2>1, KeepsFramed
<1>4. CASE Relay
  BY <1>4, RelayFramed
<1>5. CASE Finish
  BY <1>5, FinishFramed
<1>6. CASE Deliver
  <2>1. /\ status \in {"open", "recorded"} /\ out # <<>> /\ got' = Append(got, Head(out))
        /\ out' = Tail(out) /\ UNCHANGED <<format, told, status>>
    BY <1>6 DEF Deliver, relay
  <2> SUFFICES ASSUME format = "anthropic" PROVE Framed'
    BY <2>1 DEF Framed
  <2>2. out \in Seq(AnEvent) /\ got \in Seq(AnEvent)
    BY DEF Typed, Shown
  <2>3. got' \o out' = got \o out
    BY <2>1, <2>2, ConcatOne
  <2>4. PICK d \in Seq(AnEvent) : (\A i \in 1 .. Len(d) : d[i].type = "delta") /\ Flows(d)
    BY DEF Framed
  <2>5. Opening' = Opening /\ Closing' = Closing
    BY <2>1 DEF Opening, Closing
  <2>6. Flows(d)'
    BY <2>1, <2>3, <2>4, <2>5 DEF Flows, Ended
  <2>7. QED
    BY <2>1, <2>4, <2>6 DEF Framed
<1>7. CASE Close
  <2>1. Keeps
    BY <1>7 DEF Keeps, Close, relay
  <2>2. QED
    BY <2>1, KeepsFramed
<1>8. CASE Leave
  <2>1. Keeps
    BY <1>8 DEF Keeps, Leave, relay
  <2>2. QED
    BY <2>1, KeepsFramed
<1>9. CASE UNCHANGED vars
  <2>1. Keeps
    BY <1>9 DEF Keeps, vars, relay
  <2>2. QED
    BY <2>1, KeepsFramed
<1>10. QED
  BY <1>1, <1>2, <1>3, <1>4, <1>5, <1>6, <1>7, <1>8, <1>9 DEF Next, Reads, Over

(* How many of the first events of a framed message are text. *)
LEMMA FrameCount ==
  ASSUME NEW k \in Nat, NEW g \in Seq(AnEvent),
         \A i \in 1 .. Len(g) : g[i].type = "delta" <=> 3 <= i /\ i <= k + 2
  PROVE  Len(Of({"delta"}, g)) =
           IF Len(g) <= 2 THEN 0 ELSE IF Len(g) <= k + 2 THEN Len(g) - 2 ELSE k
<1> DEFINE Good(s) == \A i \in 1 .. Len(s) : s[i].type = "delta" <=> 3 <= i /\ i <= k + 2
           Count(n) == IF n <= 2 THEN 0 ELSE IF n <= k + 2 THEN n - 2 ELSE k
           S == {s \in Seq(AnEvent) : Good(s) => Len(Of({"delta"}, s)) = Count(Len(s))}
<1>1. <<>> \in S
  <2>1. Of({"delta"}, <<>>) = <<>>
    BY OfNothing
  <2>2. <<>> \in Seq(AnEvent) /\ Len(<<>>) = 0 /\ Count(0) = 0
    OBVIOUS
  <2> HIDE DEF Good, Count
  <2>3. QED
    BY <2>1, <2>2
<1>2. ASSUME NEW s \in Seq(AnEvent), NEW e \in AnEvent, s \in S PROVE Append(s, e) \in S
  <2> DEFINE t == Append(s, e)
             n == Len(s)
             r == Of({"delta"}, s)
             q == Of({"delta"}, t)
  <2>1. t \in Seq(AnEvent) /\ Len(t) = n + 1 /\ t[n + 1] = e /\ n \in Nat
        /\ \A i \in 1 .. n : t[i] = s[i]
    OBVIOUS
  <2>2. q = IF e.type \in {"delta"} THEN Append(r, e) ELSE r
    BY OfMore
  <2>3. r \in Seq(AnEvent)
    BY OfType DEF OfFine
  <2> HIDE DEF t, r, q
  <2> SUFFICES ASSUME Good(t) PROVE Len(q) = Count(Len(t))
    BY <2>1 DEF t, q
  <2> HIDE DEF n
  <2>4. Good(s)
    <3>1. \A i \in 1 .. n : i \in 1 .. Len(t)
      BY <2>1
    <3>2. QED
      BY <2>1, <3>1 DEF n
  <2>5. Len(r) = Count(n)
    <3> HIDE DEF Good, Count
    <3>1. QED
      BY <1>2, <2>4 DEF r, n
  <2>6. e.type = "delta" <=> 3 <= n + 1 /\ n + 1 <= k + 2
    <3>1. n + 1 \in 1 .. Len(t)
      BY <2>1
    <3>2. QED
      BY <2>1, <3>1
  <2>7. Len(q) = IF e.type = "delta" THEN Len(r) + 1 ELSE Len(r)
    BY <2>2, <2>3
  <2> HIDE DEF Good
  <2>8. QED
    BY <2>1, <2>5, <2>6, <2>7
<1>3. Seq(AnEvent) \subseteq S
  <2> HIDE DEF S
  <2>1. QED
    BY <1>1, <1>2, SeqInduction
<1>4. Good(g)
  OBVIOUS
<1>5. Len(Of({"delta"}, g)) = Count(Len(g))
  <2> HIDE DEF Good, Count
  <2>1. QED
    BY <1>3, <1>4
<1>6. QED
  BY <1>5

LEMMA AfterTwo ==
  ASSUME NEW X, NEW a \in Seq(X), NEW b \in Seq(X)
  PROVE  Len(a) = 2 =>
           /\ a \o b \in Seq(X) /\ Len(a \o b) = Len(b) + 2
           /\ (a \o b)[1] = a[1] /\ (a \o b)[2] = a[2]
           /\ \A i \in 3 .. Len(b) + 2 : (a \o b)[i] = b[i - 2]
<1> DEFINE m == a \o b
<1>1. m \in Seq(X) /\ Len(m) = Len(a) + Len(b) /\ (\A i \in 1 .. Len(a) : m[i] = a[i])
      /\ (\A i \in Len(a) + 1 .. Len(a) + Len(b) : m[i] = b[i - Len(a)])
      /\ Len(b) \in Nat
  OBVIOUS
<1> HIDE DEF m
<1>2. Len(a) = 2 =>
        /\ m \in Seq(X) /\ Len(m) = Len(b) + 2 /\ m[1] = a[1] /\ m[2] = a[2]
        /\ \A i \in 3 .. Len(b) + 2 : m[i] = b[i - 2]
  BY <1>1
<1>3. QED
  BY <1>2 DEF m

LEMMA ThreeAfter ==
  ASSUME NEW X, NEW b \in Seq(X), NEW c \in Seq(X)
  PROVE  Len(c) = 3 =>
           /\ b \o c \in Seq(X) /\ Len(b \o c) = Len(b) + 3
           /\ \A i \in 1 .. Len(b) : (b \o c)[i] = b[i]
           /\ (b \o c)[Len(b) + 1] = c[1] /\ (b \o c)[Len(b) + 2] = c[2]
           /\ (b \o c)[Len(b) + 3] = c[3]
<1> DEFINE m == b \o c
<1>1. m \in Seq(X) /\ Len(m) = Len(b) + Len(c) /\ (\A i \in 1 .. Len(b) : m[i] = b[i])
      /\ (\A i \in 1 .. Len(c) : m[Len(b) + i] = c[i])
      /\ Len(b) \in Nat
  OBVIOUS
<1> HIDE DEF m
<1>2. Len(c) = 3 =>
        /\ m \in Seq(X) /\ Len(m) = Len(b) + 3 /\ (\A i \in 1 .. Len(b) : m[i] = b[i])
        /\ m[Len(b) + 1] = c[1] /\ m[Len(b) + 2] = c[2] /\ m[Len(b) + 3] = c[3]
  BY <1>1
<1>3. QED
  BY <1>2 DEF m

(* The types of a message of n pieces of text. *)
Message(n) ==
  <<"message_start", "block_start">> \o [i \in 1 .. n |-> "delta"]
  \o <<"block_stop", "message_delta", "message_stop">>

LEMMA MessageIs ==
  ASSUME NEW n \in Nat
  PROVE  /\ Message(n) \in Seq(Types) /\ Len(Message(n)) = n + 5
         /\ Message(n)[1] = "message_start" /\ Message(n)[2] = "block_start"
         /\ \A i \in 3 .. n + 2 : Message(n)[i] = "delta"
         /\ Message(n)[n + 3] = "block_stop" /\ Message(n)[n + 4] = "message_delta"
         /\ Message(n)[n + 5] = "message_stop"
<1> DEFINE a == <<"message_start", "block_start">>
           b == [i \in 1 .. n |-> "delta"]
           c == <<"block_stop", "message_delta", "message_stop">>
           ab == a \o b
           m == ab \o c
<1>1. a \in Seq(Types) /\ c \in Seq(Types) /\ Len(a) = 2 /\ Len(c) = 3
      /\ a[1] = "message_start" /\ a[2] = "block_start"
      /\ c[1] = "block_stop" /\ c[2] = "message_delta" /\ c[3] = "message_stop"
  BY DEF Types
<1>2. b \in Seq(Types) /\ Len(b) = n /\ \A i \in 1 .. n : b[i] = "delta"
  BY DEF Types
<1> HIDE DEF a, b, c
<1>3. ab \in Seq(Types) /\ Len(ab) = n + 2 /\ ab[1] = a[1] /\ ab[2] = a[2]
      /\ \A i \in 3 .. n + 2 : ab[i] = b[i - 2]
  BY <1>1, <1>2, AfterTwo
<1> HIDE DEF ab
<1>4. m \in Seq(Types) /\ Len(m) = n + 5 /\ (\A i \in 1 .. n + 2 : m[i] = ab[i])
      /\ m[n + 3] = c[1] /\ m[n + 4] = c[2] /\ m[n + 5] = c[3]
  <2>1. n + 2 \in Nat /\ (n + 2) + 3 = n + 5 /\ (n + 2) + 1 = n + 3 /\ (n + 2) + 2 = n + 4
    OBVIOUS
  <2> DEFINE h == n + 2
  <2>2. Len(ab) = h /\ h \in Nat
    BY <1>3
  <2> HIDE DEF h
  <2>3. m \in Seq(Types) /\ Len(m) = h + 3 /\ (\A i \in 1 .. h : m[i] = ab[i])
        /\ m[h + 1] = c[1] /\ m[h + 2] = c[2] /\ m[h + 3] = c[3]
    <3>1. m \in Seq(Types) /\ Len(m) = Len(ab) + 3 /\ (\A i \in 1 .. Len(ab) : m[i] = ab[i])
          /\ m[Len(ab) + 1] = c[1] /\ m[Len(ab) + 2] = c[2] /\ m[Len(ab) + 3] = c[3]
      BY <1>1, <1>3, ThreeAfter
    <3> HIDE DEF m
    <3>2. QED
      BY <2>2, <3>1
  <2> HIDE DEF m
  <2>4. QED
    BY <2>1, <2>3 DEF h
<1>5. ASSUME NEW i \in 3 .. n + 2 PROVE m[i] = "delta"
  <2>1. i - 2 \in 1 .. n /\ i \in 1 .. n + 2
    OBVIOUS
  <2>2. QED
    BY <1>2, <1>3, <1>4, <2>1
<1> HIDE DEF m
<1>6. m = Message(n)
  BY DEF m, ab, a, b, c, Message
<1>7. m[1] = "message_start" /\ m[2] = "block_start"
  BY <1>1, <1>3, <1>4
<1>8. QED
  BY <1>1, <1>4, <1>5, <1>6, <1>7

(* The whole of what a client of the format gets, event by event. *)
FrameOf(w, k) ==
  /\ Len(w) >= k + 2
  /\ w[1].type = "message_start" /\ w[2].type = "block_start"
  /\ \A i \in 3 .. k + 2 : w[i].type = "delta"
  /\ \/ Len(w) = k + 2
     \/ /\ Len(w) = k + 5
        /\ w[k + 3].type = "block_stop" /\ w[k + 4].type = "message_delta"
        /\ w[k + 5].type = "message_stop"

LEMMA FlowIs ==
  ASSUME Typed, format = "anthropic", NEW d \in Seq(AnEvent),
         \A i \in 1 .. Len(d) : d[i].type = "delta", Flows(d)
  PROVE  /\ FrameOf(got \o out, Len(d)) /\ Len(d) \in Nat
         /\ status = "closed" => Len(got \o out) = Len(d) + 5
<1> DEFINE k == Len(d)
           a == Opening
           c == Closing
           ad == a \o d
           m == ad \o c
<1>1. a \in Seq(AnEvent) /\ c \in Seq(AnEvent)
  BY OpeningType, ClosingType DEF Typed, TypeOK, Shown
<1>2. Len(a) = 2 /\ a[1].type = "message_start" /\ a[2].type = "block_start"
  BY DEF Opening, Plain, Event
<1>3. Len(c) = 3 /\ c[1].type = "block_stop" /\ c[2].type = "message_delta"
      /\ c[3].type = "message_stop"
  BY DEF Closing, Plain, Event
<1>4. k \in Nat
  OBVIOUS
<1> HIDE DEF a, c
<1>5. ad \in Seq(AnEvent) /\ Len(ad) = k + 2 /\ ad[1] = a[1] /\ ad[2] = a[2]
      /\ \A i \in 3 .. k + 2 : ad[i] = d[i - 2]
  BY <1>1, <1>2, <1>4, AfterTwo
<1>6. ASSUME NEW i \in 3 .. k + 2 PROVE ad[i].type = "delta"
  <2>1. i - 2 \in 1 .. k
    BY <1>4
  <2>2. QED
    BY <1>5, <2>1
<1> HIDE DEF ad, k
<1>7. FrameOf(ad, k)
  BY <1>2, <1>4, <1>5, <1>6 DEF FrameOf
<1>8. m \in Seq(AnEvent) /\ Len(m) = k + 5 /\ (\A i \in 1 .. k + 2 : m[i] = ad[i])
      /\ m[k + 3] = c[1] /\ m[k + 4] = c[2] /\ m[k + 5] = c[3]
  <2>1. k + 2 \in Nat /\ (k + 2) + 3 = k + 5 /\ (k + 2) + 1 = k + 3 /\ (k + 2) + 2 = k + 4
    BY <1>4
  <2> DEFINE h == k + 2
  <2>2. Len(ad) = h /\ h \in Nat
    BY <1>5, <2>1
  <2>0. ad \in Seq(AnEvent) /\ c \in Seq(AnEvent) /\ Len(c) = 3
    BY <1>1, <1>3, <1>5
  <2> HIDE DEF h
  <2>3. m \in Seq(AnEvent) /\ Len(m) = h + 3 /\ (\A i \in 1 .. h : m[i] = ad[i])
        /\ m[h + 1] = c[1] /\ m[h + 2] = c[2] /\ m[h + 3] = c[3]
    <3>1. m \in Seq(AnEvent) /\ Len(m) = Len(ad) + 3 /\ (\A i \in 1 .. Len(ad) : m[i] = ad[i])
          /\ m[Len(ad) + 1] = c[1] /\ m[Len(ad) + 2] = c[2] /\ m[Len(ad) + 3] = c[3]
      BY <2>0, ThreeAfter
    <3> HIDE DEF m
    <3>2. QED
      BY <2>2, <3>1
  <2> HIDE DEF m
  <2>4. QED
    BY <2>1, <2>3 DEF h
<1> HIDE DEF m
<1>9. FrameOf(m, k)
  <2>1. m[1] = ad[1] /\ m[2] = ad[2] /\ \A i \in 3 .. k + 2 : m[i] = ad[i]
    BY <1>4, <1>8
  <2>2. QED
    BY <1>2, <1>3, <1>4, <1>5, <1>6, <1>8, <2>1 DEF FrameOf
<1>10. (got \o out = ad /\ ~Ended) \/ got \o out = m
  BY DEF Flows, ad, m, a, c
<1>11. QED
  BY <1>4, <1>7, <1>8, <1>9, <1>10 DEF Ended, k

LEMMA FramedOrder ==
  ASSUME Typed, Framed, format = "anthropic"
  PROVE  LET m == Message(Len(TextsOf(got)))
         IN  IF status = "closed" THEN TypesOf(got) = m ELSE IsPrefix(TypesOf(got), m)
<1> DEFINE w == got \o out
           l == Len(got)
           n == Len(TextsOf(got))
           m == Message(n)
           t == TypesOf(got)
<1>1. PICK d \in Seq(AnEvent) : (\A i \in 1 .. Len(d) : d[i].type = "delta") /\ Flows(d)
  BY DEF Framed
<1> DEFINE k == Len(d)
<1>2. FrameOf(w, k) /\ k \in Nat /\ (status = "closed" => Len(w) = k + 5)
  BY <1>1, FlowIs
<1>3. got \in Seq(AnEvent) /\ out \in Seq(AnEvent)
  BY DEF Typed, Shown
<1>4. /\ l \in Nat /\ l <= Len(w) /\ Len(w) \in Nat
      /\ \A i \in 1 .. l : w[i] = got[i]
      /\ out = <<>> => l = Len(w)
  BY <1>3
<1> HIDE DEF w, k
<1>5. \A i \in 1 .. l : got[i].type = "delta" <=> 3 <= i /\ i <= k + 2
  <2> SUFFICES ASSUME NEW i \in 1 .. l
               PROVE  w[i].type = "delta" <=> 3 <= i /\ i <= k + 2
    BY <1>4
  <2>1. CASE i = 1 \/ i = 2
    BY <1>2, <2>1 DEF FrameOf
  <2>2. CASE 3 <= i /\ i <= k + 2
    BY <1>2, <2>2 DEF FrameOf
  <2>3. CASE i > k + 2
    <3>1. i = k + 3 \/ i = k + 4 \/ i = k + 5
      BY <1>2, <1>4, <2>3 DEF FrameOf
    <3>2. Len(w) = k + 5
      BY <1>2, <1>4, <2>3 DEF FrameOf
    <3>3. QED
      BY <1>2, <2>3, <3>1, <3>2 DEF FrameOf
  <2>4. QED
    BY <1>2, <1>4, <2>1, <2>2, <2>3
<1>6. n = IF l <= 2 THEN 0 ELSE IF l <= k + 2 THEN l - 2 ELSE k
  <2> DEFINE r == Of({"delta"}, got)
  <2>1. r \in Seq(AnEvent)
    BY <1>3, OfType DEF OfFine
  <2>2. Len(r) = IF l <= 2 THEN 0 ELSE IF l <= k + 2 THEN l - 2 ELSE k
    BY <1>2, <1>3, <1>5, FrameCount
  <2> HIDE DEF r
  <2>3. Len([i \in 1 .. Len(r) |-> r[i].text]) = Len(r)
    BY <2>1
  <2>4. QED
    BY <2>2, <2>3 DEF TextsOf, r
<1>7. t \in Seq(Types) /\ Len(t) = l /\ \A i \in 1 .. l : t[i] = got[i].type
  <2>1. \A i \in 1 .. l : got[i].type \in Types
    BY <1>3 DEF AnEvent
  <2>2. QED
    BY <1>4, <2>1 DEF TypesOf
<1> HIDE DEF l, n, t
<1>8. n \in Nat /\ l <= n + 5
  BY <1>2, <1>4, <1>6 DEF FrameOf
<1>9. /\ m \in Seq(Types) /\ Len(m) = n + 5
      /\ m[1] = "message_start" /\ m[2] = "block_start"
      /\ \A i \in 3 .. n + 2 : m[i] = "delta"
      /\ m[n + 3] = "block_stop" /\ m[n + 4] = "message_delta" /\ m[n + 5] = "message_stop"
  BY <1>8, MessageIs
<1> HIDE DEF m
<1>10. ASSUME NEW i \in 1 .. l PROVE t[i] = m[i]
  <2>1. t[i] = w[i].type
    BY <1>4, <1>7
  <2>2. CASE i = 1 \/ i = 2
    BY <1>2, <1>9, <2>1, <2>2 DEF FrameOf
  <2>3. CASE 3 <= i /\ i <= k + 2
    <3>1. i \in 3 .. n + 2
      BY <1>2, <1>4, <1>6, <2>3
    <3>2. i \in 3 .. k + 2
      BY <1>2, <2>3
    <3>3. QED
      BY <1>2, <1>9, <2>1, <3>1, <3>2 DEF FrameOf
  <2>4. CASE i > k + 2
    <3>1. n = k
      BY <1>2, <1>4, <1>6, <2>4
    <3>2. i = k + 3 \/ i = k + 4 \/ i = k + 5
      <4>1. k \in Nat /\ (Len(w) <= k + 2 \/ Len(w) = k + 5)
        BY <1>2 DEF FrameOf
      <4>2. QED
        BY <1>4, <2>4, <4>1
    <3>3. Len(w) = k + 5
      BY <1>2, <1>4, <2>4 DEF FrameOf
    <3>4. QED
      BY <1>2, <1>9, <2>1, <3>1, <3>2, <3>3 DEF FrameOf
  <2>5. QED
    BY <1>2, <1>4, <2>2, <2>3, <2>4
<1>11. IsPrefix(t, m)
  BY <1>4, <1>7, <1>8, <1>9, <1>10 DEF IsPrefix
<1>12. status = "closed" => t = m
  <2> SUFFICES ASSUME status = "closed" PROVE t = m
    OBVIOUS
  <2>1. l = k + 5
    BY <1>2, <1>4 DEF Framed
  <2>2. l = n + 5
    BY <1>2, <1>6, <2>1
  <2>3. QED
    BY <1>7, <1>9, <1>10, <2>2
<1>13. QED
  BY <1>11, <1>12 DEF m, n, t

-----------------------------------------------------------------------------
(* A client of the completions format gets the end as the last thing. *)

Exhausted ==
  upstream = "ended" \/ (script.provider = "openai" /\ sent = Len(Bytes(script.events)))

EndsLast ==
  format = "completions" =>
    /\ \A i \in 1 .. Len(got \o out) :
         (got \o out)[i].type = "done" => i = Len(got \o out) /\ mid = <<>> /\ Exhausted
    /\ \A c \in 1 .. Len(mid) : \A i \in 1 .. Len(mid[c]) :
         mid[c][i].half = 2 /\ mid[c][i].of.type = "done" =>
           c = Len(mid) /\ i = Len(mid[c]) /\ Exhausted

EndsWith(s, f, x) ==
  /\ s = Append(f, x) /\ Len(s) = Len(f) + 1 /\ s[Len(s)] = x /\ Len(f) \in Nat
  /\ \A k \in 1 .. Len(f) : k \in 1 .. Len(s) /\ k # Len(s) /\ s[k] = f[k]

LEMMA LastSplit ==
  ASSUME NEW X, NEW s \in Seq(X), s # <<>>
  PROVE  \E f \in Seq(X) : \E x \in X : EndsWith(s, f, x)
<1> DEFINE m == Len(s) - 1
           f == SubSeq(s, 1, m)
<1>1. m \in Nat /\ Len(s) = m + 1 /\ s[Len(s)] \in X
  OBVIOUS
<1>2. s = Append(f, s[Len(s)])
  OBVIOUS
<1> HIDE DEF m
<1>3. f \in Seq(X) /\ Len(f) = m /\ \A k \in 1 .. m : f[k] = s[k]
  BY <1>1
<1> HIDE DEF f
<1>4. Len(s) = Len(f) + 1 /\ Len(f) \in Nat
      /\ \A k \in 1 .. Len(f) : k \in 1 .. Len(s) /\ k # Len(s) /\ s[k] = f[k]
  BY <1>1, <1>3
<1>5. EndsWith(s, f, s[Len(s)])
  BY <1>1, <1>2, <1>4 DEF EndsWith
<1>6. QED
  BY <1>1, <1>3, <1>5

LEMMA OneAfter ==
  ASSUME NEW X, NEW b \in Seq(X), NEW c \in Seq(X)
  PROVE  Len(c) = 1 => /\ Len(b \o c) = Len(b) + 1 /\ Len(b) \in Nat
                       /\ \A i \in 1 .. Len(b) : (b \o c)[i] = b[i]
<1> DEFINE m == b \o c
<1>1. Len(m) = Len(b) + Len(c) /\ (\A i \in 1 .. Len(b) : m[i] = b[i]) /\ Len(b) \in Nat
  OBVIOUS
<1> HIDE DEF m
<1>2. Len(c) = 1 => /\ Len(m) = Len(b) + 1 /\ Len(b) \in Nat
                    /\ \A i \in 1 .. Len(b) : m[i] = b[i]
  BY <1>1
<1>3. QED
  BY <1>2 DEF m

LEMMA DrainDone ==
  ASSUME NEW buf \in Seq(Piece), NEW chunk \in Seq(Piece),
         \A i \in 1 .. Len(chunk) :
           chunk[i].half = 2 /\ chunk[i].of.type = "done" => i = Len(chunk),
         NEW j \in 1 .. Len(Drain(buf, chunk).events),
         Drain(buf, chunk).events[j].type = "done"
  PROVE  /\ j = Len(Drain(buf, chunk).events)
         /\ \E i \in 1 .. Len(chunk) : chunk[i].half = 2 /\ chunk[i].of.type = "done"
<1> DEFINE r == Drain(buf, chunk)
<1>1. PICK i \in 1 .. Len(chunk) : chunk[i].half = 2 /\ chunk[i].of.type = r.events[j].type
  BY DrainType DEF DrainFine
<1>2. chunk # <<>>
  BY <1>1
<1>3. PICK f \in Seq(Piece), p \in Piece : EndsWith(chunk, f, p)
  BY <1>2, LastSplit
<1> DEFINE q == Drain(buf, f)
           made == Parse(q.buf, p)
<1>4. r = DrainNext(q, p)
  <2>1. Drain(buf, Append(f, p)) = DrainNext(q, p)
    BY DrainMore
  <2>2. QED
    BY <1>3, <2>1 DEF EndsWith
<1>5. /\ q.buf \in Seq(Piece) /\ q.events \in Seq(AnEvent)
      /\ \A k \in 1 .. Len(q.events) :
           \E m \in 1 .. Len(f) : f[m].half = 2 /\ f[m].of.type = q.events[k].type
  BY DrainType DEF DrainFine
<1>6. r.events = q.events \/ r.events = q.events \o made
  <2> HIDE DEF q, r
  <2>1. QED
    BY <1>4 DEF DrainNext
<1>7. made \in Seq(AnEvent) /\ (made # <<>> => Len(made) = 1)
  BY <1>5, ParseType
<1>8. r.events[j].type = "done" /\ j \in 1 .. Len(r.events)
  OBVIOUS
<1>9. \A k \in 1 .. Len(q.events) : q.events[k].type # "done"
  <2> SUFFICES ASSUME NEW k \in 1 .. Len(q.events), q.events[k].type = "done" PROVE FALSE
    OBVIOUS
  <2>1. PICK m \in 1 .. Len(f) : f[m].half = 2 /\ f[m].of.type = q.events[k].type
    BY <1>5
  <2>2. QED
    BY <1>3, <2>1 DEF EndsWith
<1> HIDE DEF r, q, made
<1>10. j = Len(r.events)
  <2> DEFINE old == q.events
             new == r.events
  <2>1. old \in Seq(AnEvent) /\ (new = old \/ new = old \o made)
        /\ (\A k \in 1 .. Len(old) : old[k].type # "done")
        /\ new[j].type = "done" /\ j \in 1 .. Len(new)
    BY <1>5, <1>6, <1>8, <1>9
  <2> HIDE DEF old, new
  <2>2. new = old \o made
    BY <2>1
  <2>3. CASE made = <<>>
    BY <2>1, <2>2, <2>3
  <2>4. CASE Len(made) = 1
    <3>1. Len(new) = Len(old) + 1 /\ Len(old) \in Nat
          /\ \A k \in 1 .. Len(old) : new[k] = old[k]
      BY <1>7, <2>1, <2>2, <2>4, OneAfter
    <3>2. j = Len(new)
      <4> SUFFICES ASSUME j # Len(new) PROVE FALSE
        OBVIOUS
      <4>1. j \in 1 .. Len(old)
        BY <2>1, <3>1
      <4>2. new[j] = old[j] /\ old[j].type # "done" /\ new[j].type = "done"
        BY <2>1, <3>1, <4>1
      <4>3. QED
        BY <4>2
    <3>3. QED
      BY <3>2 DEF new
  <2>5. QED
    BY <1>7, <2>3, <2>4
<1>11. QED
  BY <1>1, <1>8, <1>10 DEF r

LEMMA OfDone ==
  ASSUME NEW types, NEW s \in Seq(AnEvent),
         \A i \in 1 .. Len(s) : s[i].type = "done" => i = Len(s),
         NEW j \in 1 .. Len(Of(types, s)), Of(types, s)[j].type = "done"
  PROVE  j = Len(Of(types, s)) /\ \E i \in 1 .. Len(s) : s[i].type = "done"
<1> DEFINE r == Of(types, s)
<1>1. PICK i \in 1 .. Len(s) : s[i] = r[j]
  BY OfType DEF OfFine
<1>2. s # <<>>
  BY <1>1
<1>3. PICK f \in Seq(AnEvent), e \in AnEvent : EndsWith(s, f, e)
  BY <1>2, LastSplit
<1> DEFINE q == Of(types, f)
<1>4. r = IF e.type \in types THEN Append(q, e) ELSE q
  <2>1. Of(types, Append(f, e)) = IF e.type \in types THEN Append(q, e) ELSE q
    BY OfMore
  <2>2. QED
    BY <1>3, <2>1 DEF EndsWith
<1>5. q \in Seq(AnEvent) /\ \A k \in 1 .. Len(q) : \E m \in 1 .. Len(f) : f[m] = q[k]
  BY OfType DEF OfFine
<1>6. \A k \in 1 .. Len(q) : q[k].type # "done"
  <2> SUFFICES ASSUME NEW k \in 1 .. Len(q), q[k].type = "done" PROVE FALSE
    OBVIOUS
  <2>1. PICK m \in 1 .. Len(f) : f[m] = q[k]
    BY <1>5
  <2>2. QED
    BY <1>3, <2>1 DEF EndsWith
<1>7. r[j].type = "done" /\ j \in 1 .. Len(r)
  OBVIOUS
<1> HIDE DEF r, q
<1>8. j = Len(r)
  BY <1>4, <1>5, <1>6, <1>7
<1>9. QED
  BY <1>1, <1>7, <1>8 DEF r

LEMMA InitEnds == Init => EndsLast
<1> SUFFICES ASSUME Init, format = "completions" PROVE EndsLast
  BY DEF EndsLast
<1>1. got = <<>> /\ out = <<>> /\ mid = <<>>
  BY DEF Init, Opening
<1>2. Len(got \o out) = 0 /\ Len(mid) = 0
  BY <1>1
<1>3. QED
  BY <1>2 DEF EndsLast

(* The next bytes of an OpenAI provider end with the end, or without one. *)
LEMMA ChunkDone ==
  ASSUME NEW s \in Scripts, s.provider = "openai", NEW k \in Nat, NEW n \in Nat, n >= 1,
         k + n <= Len(Bytes(s.events)), NEW i \in 1 .. n,
         SubSeq(Bytes(s.events), k + 1, k + n)[i].half = 2,
         SubSeq(Bytes(s.events), k + 1, k + n)[i].of.type = "done"
  PROVE  i = n /\ k + n = Len(Bytes(s.events))
<1> DEFINE b == Bytes(s.events)
           e == s.events
           m == Len(e)
<1>1. b \in Seq(Piece) /\ Len(b) = 2 * m /\ e \in Seq(AnEvent)
  BY ScriptIs
<1>2. ASSUME NEW j \in 1 .. m PROVE b[2 * j - 1].half = 1 /\ b[2 * j].of = e[j]
  <2>1. b[2 * j - 1] = [of |-> e[j], half |-> 1] /\ b[2 * j] = [of |-> e[j], half |-> 2]
    BY <1>1, BytesType
  <2> HIDE DEF b, e
  <2>2. QED
    BY <2>1
<1>3. \A j \in 1 .. m : e[j].type = "done" => j = m
  BY <1>1, ScriptsAssumption
<1>4. b[k + i].half = 2 /\ b[k + i].of.type = "done" /\ k + i \in 1 .. 2 * m
  <2>1. m \in Nat
    BY <1>1
  <2> HIDE DEF b, m
  <2>2. SubSeq(b, k + 1, k + n)[i] = b[k + i]
    BY <1>1
  <2>3. SubSeq(b, k + 1, k + n)[i].half = 2 /\ SubSeq(b, k + 1, k + n)[i].of.type = "done"
        /\ k + n <= Len(b)
    BY DEF b
  <2>4. QED
    BY <1>1, <2>1, <2>2, <2>3
<1> DEFINE h == (k + i + 1) \div 2
<1>5. h \in 1 .. m /\ (k + i = 2 * h \/ k + i = 2 * h - 1)
  <2>1. m \in Nat
    BY <1>1
  <2> HIDE DEF m
  <2>2. QED
    BY <1>4, <2>1, Z3
<1> HIDE DEF h, b, m
<1>6. k + i = 2 * h /\ e[h].type = "done"
  BY <1>2, <1>4, <1>5
<1>7. h = m
  BY <1>3, <1>5, <1>6
<1>8. k + n <= 2 * m
  BY <1>1 DEF b
<1>9. m \in Nat
  BY <1>1 DEF m
<1>10. QED
  BY <1>1, <1>6, <1>7, <1>8, <1>9 DEF b

LEMMA TailOne ==
  ASSUME NEW X, NEW s \in Seq(X)
  PROVE  1 = Len(s) => Tail(s) = <<>>
<1> SUFFICES ASSUME 1 = Len(s) PROVE Tail(s) = <<>>
  OBVIOUS
<1> DEFINE t == Tail(s)
<1>1. t \in Seq(X) /\ Len(t) = 0
  OBVIOUS
<1> HIDE DEF t
<1>2. t = <<>>
  BY <1>1
<1>3. QED
  BY <1>2 DEF t

LEMMA RelayEnds ==
  ASSUME Typed, EndsLast, Relay, format = "completions"
  PROVE  EndsLast'
<1> DEFINE chunk == Head(mid)
           r == Read(bufOut, chunk)
           more == Of(Forwarded, r.events)
           Last1 == \E i \in 1 .. Len(chunk) : chunk[i].half = 2 /\ chunk[i].of.type = "done"
<1>1. /\ out = <<>> /\ mid # <<>> /\ mid' = Tail(mid) /\ Translate(chunk)
      /\ UNCHANGED <<script, format, sent, upstream, got>>
  BY DEF Relay
<1>2. bufOut \in Seq(Piece) /\ mid \in Seq(Seq(Piece)) /\ got \in Seq(AnEvent)
  BY DEF Typed, Shown
<1>3. chunk \in Seq(Piece) /\ chunk = mid[1] /\ 1 \in 1 .. Len(mid)
  BY <1>1, <1>2
<1>4. out' = more
  BY <1>1 DEF Translate
<1>5. \A i \in 1 .. Len(got) : got[i].type # "done"
  <2>1. got \o out = got
    BY <1>1, <1>2, ConcatNothing
  <2>2. \A i \in 1 .. Len(got) : got[i].type = "done" => mid = <<>>
    BY <2>1 DEF EndsLast
  <2>3. QED
    BY <1>1, <2>2
<1>6. \A c \in 1 .. Len(mid) : \A i \in 1 .. Len(mid[c]) :
        mid[c][i].half = 2 /\ mid[c][i].of.type = "done" =>
          c = Len(mid) /\ i = Len(mid[c]) /\ Exhausted
  BY DEF EndsLast
<1>7. \A i \in 1 .. Len(chunk) : chunk[i].half = 2 /\ chunk[i].of.type = "done" =>
        1 = Len(mid) /\ i = Len(chunk) /\ Exhausted
  <2> HIDE DEF chunk
  <2>1. QED
    BY <1>3, <1>6
<1>8. r.events \in Seq(AnEvent)
  BY <1>2, <1>3, ReadType
<1> HIDE DEF chunk
<1>9. ASSUME NEW j \in 1 .. Len(r.events), r.events[j].type = "done"
      PROVE  j = Len(r.events) /\ Last1
  <2>1. CASE Utf8(chunk)
    <3>1. r = Drain(bufOut, chunk)
      BY <2>1 DEF Read
    <3>2. j \in 1 .. Len(Drain(bufOut, chunk).events)
          /\ Drain(bufOut, chunk).events[j].type = "done"
      BY <1>9, <3>1
    <3>3. \A i \in 1 .. Len(chunk) :
            chunk[i].half = 2 /\ chunk[i].of.type = "done" => i = Len(chunk)
      BY <1>7
    <3>4. j = Len(Drain(bufOut, chunk).events) /\ Last1
      BY <1>2, <1>3, <3>2, <3>3, DrainDone
    <3>5. QED
      BY <3>1, <3>4
  <2>2. CASE ~Utf8(chunk)
    <3>1. r.events = <<>>
      BY <2>2, DrainNothing DEF Read
    <3> HIDE DEF r
    <3>2. QED
      BY <1>9, <3>1
  <2>3. QED
    BY <2>1, <2>2
<1> HIDE DEF r
<1>10. more \in Seq(AnEvent)
  BY <1>8, OfType DEF OfFine
<1>11. ASSUME NEW j \in 1 .. Len(more), more[j].type = "done"
       PROVE  j = Len(more) /\ 1 = Len(mid) /\ Exhausted
  <2>1. j = Len(more) /\ \E i \in 1 .. Len(r.events) : r.events[i].type = "done"
    BY <1>8, <1>9, <1>11, OfDone
  <2>2. Last1
    BY <1>9, <2>1
  <2>3. QED
    BY <1>7, <2>1, <2>2
<1> HIDE DEF more, Last1
<1>12. Exhausted' = Exhausted
  BY <1>1 DEF Exhausted
<1>13. 1 = Len(mid) => Tail(mid) = <<>>
  BY <1>2, TailOne
<1> DEFINE w == got \o more
<1>14. /\ w \in Seq(AnEvent) /\ Len(w) = Len(got) + Len(more)
       /\ \A i \in 1 .. Len(got) : w[i] = got[i]
       /\ \A i \in Len(got) + 1 .. Len(got) + Len(more) : w[i] = more[i - Len(got)]
       /\ Len(got) \in Nat /\ Len(more) \in Nat
  BY <1>2, <1>10, Concat
<1> HIDE DEF w
<1>15. ASSUME NEW i \in 1 .. Len(w), w[i].type = "done"
       PROVE  i = Len(w) /\ Tail(mid) = <<>> /\ Exhausted
  <2>1. i \in Len(got) + 1 .. Len(got) + Len(more)
    BY <1>5, <1>14, <1>15
  <2>2. i - Len(got) \in 1 .. Len(more) /\ w[i] = more[i - Len(got)]
    BY <1>14, <2>1
  <2> DEFINE j == i - Len(got)
  <2>3. j \in 1 .. Len(more) /\ more[j].type = "done" /\ i = Len(got) + j
    BY <1>14, <1>15, <2>2
  <2> HIDE DEF j
  <2>4. j = Len(more) /\ 1 = Len(mid) /\ Exhausted
    BY <1>11, <2>3
  <2>5. QED
    BY <1>13, <1>14, <2>3, <2>4
<1>16. ASSUME NEW c \in 1 .. Len(Tail(mid)), NEW i \in 1 .. Len(Tail(mid)[c]),
              Tail(mid)[c][i].half = 2, Tail(mid)[c][i].of.type = "done"
       PROVE  c = Len(Tail(mid)) /\ i = Len(Tail(mid)[c]) /\ Exhausted
  <2>1. c + 1 \in 1 .. Len(mid) /\ Tail(mid)[c] = mid[c + 1]
        /\ Len(mid) = Len(Tail(mid)) + 1 /\ Len(Tail(mid)) \in Nat
    BY <1>1, <1>2
  <2>2. c + 1 = Len(mid) /\ i = Len(mid[c + 1]) /\ Exhausted
    BY <1>6, <1>16, <2>1
  <2>3. QED
    BY <2>1, <2>2
<1>17. got' \o out' = w
  BY <1>1, <1>4 DEF w
<1>18. QED
  BY <1>1, <1>12, <1>15, <1>16, <1>17 DEF EndsLast

LEMMA ReceiveEnds ==
  ASSUME Typed, EndsLast, format = "completions",
         NEW n \in 1 .. Len(Bytes(script.events)), Receive(n)
  PROVE  EndsLast'
<1> DEFINE b == Bytes(script.events)
           chunk == SubSeq(b, sent + 1, sent + n)
           w == got \o out
<1>1. /\ mid = <<>> /\ upstream = "open" /\ sent + n <= Len(b) /\ sent' = sent + n
      /\ UNCHANGED <<script, format, upstream, out, got>>
      /\ IF script.provider = "anthropic" THEN FromAnthropic(chunk) ELSE mid' = <<chunk>>
  BY DEF Receive, Starved
<1>2. script \in Scripts /\ sent \in 0 .. Len(b) /\ bufIn \in Seq(Piece)
      /\ input \in Nat /\ roleSent \in BOOLEAN
  BY DEF Typed, TypeOK
<1>3. b \in Seq(Piece) /\ Len(b) \in Nat /\ script.provider \in {"openai", "anthropic"}
  BY <1>2, ScriptIs
<1>4. ~Exhausted
  BY <1>1, <1>2, <1>3 DEF Exhausted
<1>5. \A i \in 1 .. Len(w) : w[i].type # "done"
  BY <1>4 DEF EndsLast
<1>6. chunk \in Seq(Piece) /\ Len(chunk) = n
  <2> HIDE DEF b
  <2>1. n \in Nat /\ sent \in Nat
    BY <1>2, <1>3 DEF b
  <2>2. QED
    BY <1>1, <1>2, <1>3, <2>1
<1>7. CASE script.provider = "openai"
  <2>1. mid' = <<chunk>>
    BY <1>1, <1>7
  <2>2. ASSUME NEW i \in 1 .. n, chunk[i].half = 2, chunk[i].of.type = "done"
        PROVE  i = n /\ Exhausted'
    <3>1. sent \in Nat /\ n \in Nat /\ n >= 1 /\ sent + n <= Len(Bytes(script.events))
      BY <1>1, <1>2, <1>3
    <3>2. i = n /\ sent + n = Len(Bytes(script.events))
      BY <1>2, <1>7, <2>2, <3>1, ChunkDone
    <3>3. QED
      BY <1>1, <1>7, <3>2 DEF Exhausted
  <2> HIDE DEF chunk
  <2>3. Len(mid') = 1 /\ mid'[1] = chunk
    BY <2>1
  <2>4. ASSUME NEW c \in 1 .. Len(mid'), NEW i \in 1 .. Len(mid'[c]),
               mid'[c][i].half = 2, mid'[c][i].of.type = "done"
        PROVE  c = Len(mid') /\ i = Len(mid'[c]) /\ Exhausted'
    <3>1. c = 1 /\ mid'[c] = chunk
      BY <2>3
    <3>2. i \in 1 .. n /\ chunk[i].half = 2 /\ chunk[i].of.type = "done"
      BY <1>6, <2>4, <3>1
    <3>3. QED
      BY <1>6, <2>2, <2>3, <3>1, <3>2
  <2>5. \A i \in 1 .. Len(got' \o out') : (got' \o out')[i].type # "done"
    BY <1>1, <1>5
  <2>6. QED
    BY <2>4, <2>5 DEF EndsLast
<1>8. CASE script.provider = "anthropic"
  <2> DEFINE r == Read(bufIn, chunk)
             t == Translation(input, roleSent, r.events)
             o == t.out
  <2>1. mid' = Chunks(o)
    BY <1>1, <1>8 DEF FromAnthropic
  <2> HIDE DEF chunk
  <2>2. r.events \in Seq(AnEvent)
    BY <1>2, <1>6, ReadType
  <2>3. t \in Translating
    BY <1>2, <2>2, TranslationType
  <2>4. o \in Seq(Translated)
    BY <2>3 DEF Translating
  <2> HIDE DEF o
  <2>5. ASSUME NEW c \in 1 .. Len(o), NEW i \in 1 .. Len(Chunks(o)[c])
        PROVE  Chunks(o)[c][i].of.type # "done"
    <3>1. o[c] \in Translated
      BY <2>4
    <3>2. o[c].type # "done"
      BY <3>1 DEF Translated
    <3>3. Chunks(o)[c] = Pieces(o[c])
      BY DEF Chunks
    <3>4. i \in 1 .. 2 /\ Pieces(o[c])[i].of = o[c]
      BY <3>3 DEF Pieces
    <3>5. QED
      BY <3>2, <3>3, <3>4
  <2>6. Len(Chunks(o)) = Len(o)
    BY <2>4 DEF Chunks
  <2>7. \A c \in 1 .. Len(mid') : \A i \in 1 .. Len(mid'[c]) : mid'[c][i].of.type # "done"
    BY <2>1, <2>5, <2>6
  <2>8. \A i \in 1 .. Len(got' \o out') : (got' \o out')[i].type # "done"
    BY <1>1, <1>5
  <2>9. QED
    BY <2>7, <2>8 DEF EndsLast
<1>9. QED
  BY <1>3, <1>7, <1>8

LEMMA StepEnds == Typed /\ EndsLast /\ [Next]_vars => EndsLast'
<1> SUFFICES ASSUME Typed, EndsLast, [Next]_vars, format' = "completions" PROVE EndsLast'
  BY DEF EndsLast
<1>0. format = "completions"
  <2>1. format' = format
    BY DEF Next, Reads, Over, vars, Receive, UpstreamEnds, UpstreamFails, Relay, Finish, Deliver,
           Close, Leave
  <2>2. QED
    BY <2>1
<1>1. ASSUME NEW n \in 1 .. Len(Bytes(script.events)), Receive(n) PROVE EndsLast'
  BY <1>0, <1>1, ReceiveEnds
<1>2. CASE UpstreamEnds
  <2>1. /\ upstream = "open" /\ mid = <<>> /\ sent = Len(Bytes(script.events))
        /\ upstream' = "ended"
        /\ mid' = IF script.provider = "anthropic" THEN <<Pieces(Plain("done"))>> ELSE <<>>
        /\ UNCHANGED <<script, format, sent, out, got>>
    BY <1>2 DEF UpstreamEnds, Starved
  <2>2. Exhausted'
    BY <2>1 DEF Exhausted
  <2>3. CASE script.provider = "anthropic"
    <3>1. ~Exhausted
      BY <2>1, <2>3 DEF Exhausted
    <3>2. \A i \in 1 .. Len(got \o out) : (got \o out)[i].type # "done"
      BY <1>0, <3>1 DEF EndsLast
    <3> DEFINE p == Pieces(Plain("done"))
    <3>3. Len(p) = 2 /\ p[1].half = 1
      BY DEF Pieces
    <3> HIDE DEF p
    <3>4. Len(mid') = 1 /\ mid'[1] = p
      BY <2>1, <2>3 DEF p
    <3>5. ASSUME NEW c \in 1 .. Len(mid'), NEW i \in 1 .. Len(mid'[c]), mid'[c][i].half = 2
          PROVE  c = Len(mid') /\ i = Len(mid'[c])
      <4>1. c = 1 /\ mid'[c] = p
        BY <3>4
      <4>2. i \in 1 .. Len(p)
        BY <4>1
      <4>3. i = 1 \/ i = 2
        BY <3>3, <4>2
      <4>4. QED
        BY <3>3, <3>4, <3>5, <4>1, <4>3
    <3>6. \A i \in 1 .. Len(got' \o out') : (got' \o out')[i].type # "done"
      BY <2>1, <3>2
    <3>7. QED
      BY <2>2, <3>5, <3>6 DEF EndsLast
  <2>4. CASE script.provider # "anthropic"
    <3>1. mid' = <<>> /\ Len(mid') = 0
      BY <2>1, <2>4
    <3>2. got' \o out' = got \o out
      BY <2>1
    <3>3. QED
      BY <1>0, <2>2, <3>1, <3>2 DEF EndsLast
  <2>5. QED
    BY <2>3, <2>4
<1>3. ASSUME UNCHANGED <<script, format, sent, upstream, mid>>, got' \o out' = got \o out
      PROVE  EndsLast'
  BY <1>3 DEF EndsLast, Exhausted
<1>4. CASE UpstreamFails
  BY <1>3, <1>4 DEF UpstreamFails, relay
<1>5. CASE Relay
  BY <1>0, <1>5, RelayEnds
<1>6. CASE Finish
  <2>1. out' = out /\ UNCHANGED <<script, format, sent, upstream, mid, got>>
    BY <1>0, <1>6 DEF Finish, Starved, Closing, relay
  <2>2. QED
    BY <1>3, <2>1
<1>7. CASE Deliver
  <2>1. /\ out # <<>> /\ got' = Append(got, Head(out)) /\ out' = Tail(out)
        /\ UNCHANGED <<script, format, sent, upstream, mid>>
    BY <1>7 DEF Deliver, relay
  <2>2. out \in Seq(AnEvent) /\ got \in Seq(AnEvent)
    BY <1>0 DEF Typed, Shown
  <2>3. got' \o out' = got \o out
    BY <2>1, <2>2, ConcatOne
  <2>4. QED
    BY <1>3, <2>1, <2>3
<1>8. CASE Close
  BY <1>3, <1>8 DEF Close, relay
<1>9. CASE Leave
  BY <1>3, <1>9 DEF Leave, relay
<1>10. CASE UNCHANGED vars
  BY <1>3, <1>10 DEF vars, relay
<1>11. QED
  BY <1>1, <1>2, <1>4, <1>5, <1>6, <1>7, <1>8, <1>9, <1>10 DEF Next, Reads, Over

-----------------------------------------------------------------------------
(* The theorems that need nothing of the streams but their form. *)

Inv == Typed /\ Framed /\ EndsLast

(* The invariant is inductive: typed buffers and queues; a framed message for a
   client of the Anthropic format; [DONE] behind everything else for one of the
   completions format. *)
THEOREM InductiveInvariant == Spec => []Inv
<1>1. Init => Inv
  BY InitTyped, InitFramed, InitEnds DEF Inv
<1>2. Inv /\ [Next]_vars => Inv'
  BY StepTyped, StepFramed, StepEnds DEF Inv
<1>3. QED
  BY <1>1, <1>2, PTL DEF Spec

(* Types; and between two chunks no buffer of a generator holds a complete event:
   whatever was complete has been passed on. *)
THEOREM TypeCorrect == Spec => []TypeOK
<1>1. Inv => TypeOK
  BY DEF Inv, Typed
<1>2. QED
  BY <1>1, InductiveInvariant, PTL

(* Clients of the native formats see well formed streams, whatever the provider,
   its events, the cuts between chunks (inside characters too) and the failures. *)
THEOREM OrderKept == Spec => []EventOrder
<1>1. ASSUME Inv PROVE EventOrder
  <2>1. format = "anthropic" =>
          LET m == Message(Len(TextsOf(got)))
          IN  IF status = "closed" THEN TypesOf(got) = m ELSE IsPrefix(TypesOf(got), m)
    BY <1>1, FramedOrder DEF Inv
  <2>2. ASSUME format = "completions", NEW i \in 1 .. Len(got), got[i].type = "done"
        PROVE  i = Len(got)
    <3> DEFINE w == got \o out
    <3>1. got \in Seq(AnEvent) /\ out \in Seq(AnEvent)
      BY <1>1, <2>2 DEF Inv, Typed, Shown
    <3>2. \A j \in 1 .. Len(w) : w[j].type = "done" => j = Len(w)
      BY <1>1, <2>2 DEF Inv, EndsLast
    <3>3. Len(w) = Len(got) + Len(out) /\ Len(got) \in Nat /\ Len(out) \in Nat
          /\ \A j \in 1 .. Len(got) : w[j] = got[j]
      BY <3>1, Concat
    <3> HIDE DEF w
    <3>4. i \in 1 .. Len(w) /\ w[i].type = "done"
      BY <2>2, <3>3
    <3>5. i = Len(w)
      BY <3>2, <3>4
    <3>6. QED
      BY <3>3, <3>5
  <2>3. QED
    BY <2>1, <2>2, Zenon DEF EventOrder, Message
<1>2. QED
  BY <1>1, InductiveInvariant, PTL

-----------------------------------------------------------------------------
(* Reading in two steps is reading at once. *)

(* What Drain leaves and finds after a first reading. *)
Then(r, d) == [buf |-> d.buf, events |-> r.events \o d.events]

LEMMA DrainConcat ==
  ASSUME NEW buf \in Seq(Piece), NEW a \in Seq(Piece), NEW b \in Seq(Piece)
  PROVE  Drain(buf, a \o b) = Then(Drain(buf, a), Drain(Drain(buf, a).buf, b))
<1> DEFINE r == Drain(buf, a)
           Good(s) == Drain(buf, a \o s) = Then(r, Drain(r.buf, s))
           S == {s \in Seq(Piece) : Good(s)}
<1>0. r.buf \in Seq(Piece) /\ r.events \in Seq(AnEvent)
  BY DrainType DEF DrainFine
<1>00. r = [buf |-> r.buf, events |-> r.events]
  BY DEF Drain
<1> HIDE DEF r
<1>1. <<>> \in S
  <2>1. a \o <<>> = a /\ <<>> \in Seq(Piece)
    OBVIOUS
  <2>2. Drain(r.buf, <<>>) = [buf |-> r.buf, events |-> <<>>]
    BY DrainNothing
  <2>3. r.events \o <<>> = r.events
    BY <1>0
  <2>4. Then(r, Drain(r.buf, <<>>)) = r
    <3> DEFINE d == Drain(r.buf, <<>>)
    <3>1. d.buf = r.buf /\ d.events = <<>>
      BY <2>2
    <3> HIDE DEF d
    <3>2. Then(r, d) = [buf |-> r.buf, events |-> r.events \o <<>>]
      BY <3>1, Zenon DEF Then
    <3>3. Then(r, d) = [buf |-> r.buf, events |-> r.events]
      BY <2>3, <3>2
    <3>4. QED
      BY <1>00, <3>3 DEF d
  <2>5. Good(<<>>)
    BY <2>1, <2>4 DEF r
  <2>6. QED
    BY <2>1, <2>5
<1>2. ASSUME NEW s \in Seq(Piece), NEW p \in Piece, s \in S PROVE Append(s, p) \in S
  <2> DEFINE t == Append(s, p)
             d == Drain(r.buf, s)
             ab == a \o s
  <2>1. t \in Seq(Piece) /\ a \o t = Append(ab, p) /\ ab \in Seq(Piece)
    OBVIOUS
  <2>2. d.buf \in Seq(Piece) /\ d.events \in Seq(AnEvent)
    BY <1>0, DrainType DEF DrainFine
  <2>3. Drain(r.buf, t) = DrainNext(d, p)
    BY DrainMore
  <2> HIDE DEF t, ab
  <2>4. Drain(buf, a \o t) = DrainNext(Drain(buf, ab), p)
    <3>1. Drain(buf, Append(ab, p)) = DrainNext(Drain(buf, ab), p)
      BY <2>1, DrainMore
    <3>2. QED
      BY <2>1, <3>1
  <2>5. Drain(buf, ab) = Then(r, d)
    BY <1>2 DEF ab
  <2> HIDE DEF d
  <2>6. DrainNext(Then(r, d), p) = Then(r, DrainNext(d, p))
    <3> DEFINE made == Parse(d.buf, p)
    <3>1. made \in Seq(AnEvent)
      BY <2>2, ParseType
    <3> HIDE DEF made
    <3>2. (r.events \o d.events) \o made = r.events \o (d.events \o made)
      <4>1. Chains(r.events, d.events, made)
        BY <1>0, <2>2, <3>1, Chained
      <4>2. QED
        BY <4>1 DEF Chains
    <3>3. QED
      BY <3>2 DEF DrainNext, Then, made
  <2>7. Good(t)
    BY <2>3, <2>4, <2>5, <2>6
  <2> HIDE DEF Good
  <2>8. t \in S
    BY <2>1, <2>7
  <2>9. QED
    BY <2>8 DEF t
<1>3. Seq(Piece) \subseteq S
  <2> HIDE DEF S
  <2>1. QED
    BY <1>1, <1>2, SeqInduction
<1>4. Good(b)
  <2> HIDE DEF Good
  <2>1. QED
    BY <1>3
<1>5. QED
  BY <1>4 DEF r

Grows(types, s, e) ==
  Of(types, Append(s, e)) = IF e.type \in types THEN Append(Of(types, s), e) ELSE Of(types, s)

LEMMA Grown ==
  ASSUME NEW types, NEW X, NEW s \in Seq(X), NEW e \in X
  PROVE  Grows(types, s, e)
BY OfMore DEF Grows

LEMMA OfConcat ==
  ASSUME NEW types, NEW X, NEW a \in Seq(X), NEW b \in Seq(X)
  PROVE  Of(types, a \o b) = Of(types, a) \o Of(types, b)
<1> DEFINE r == Of(types, a)
           Good(s) == Of(types, a \o s) = r \o Of(types, s)
           S == {s \in Seq(X) : Good(s)}
<1>0. r \in Seq(X)
  BY OfType DEF OfFine
<1>1. <<>> \in S
  <2>1. a \o <<>> = a /\ <<>> \in Seq(X)
    OBVIOUS
  <2>2. Of(types, <<>>) = <<>>
    BY OfNothing
  <2>3. r \o <<>> = r
    <3> HIDE DEF r
    <3>1. QED
      BY <1>0
  <2>4. Good(<<>>)
    BY <2>1, <2>2, <2>3
  <2> HIDE DEF Good
  <2>5. QED
    BY <2>1, <2>4
<1>2. ASSUME NEW s \in Seq(X), NEW e \in X, s \in S PROVE Append(s, e) \in S
  <2> DEFINE t == Append(s, e)
             ab == a \o s
             q == Of(types, s)
  <2>0. ab \in Seq(X)
    OBVIOUS
  <2>1. t \in Seq(X) /\ a \o t = Append(ab, e)
    OBVIOUS
  <2>2. q \in Seq(X)
    BY OfType DEF OfFine
  <2>3. Of(types, t) = IF e.type \in types THEN Append(q, e) ELSE q
    BY OfMore
  <2>4. Of(types, ab) = r \o q
    BY <1>2
  <2> HIDE DEF t, ab, q
  <2>5. Of(types, a \o t) = IF e.type \in types THEN Append(r \o q, e) ELSE r \o q
    <3>1. Grows(types, ab, e)
      BY <2>0, Grown
    <3>2. QED
      BY <2>1, <2>4, <3>1 DEF Grows
  <2> HIDE DEF r
  <2>6. Append(r \o q, e) = r \o Append(q, e)
    <3>1. Joins(r, q, e)
      BY <1>0, <2>2, Joined
    <3>2. QED
      BY <3>1 DEF Joins
  <2>7. Good(t)
    BY <2>3, <2>5, <2>6
  <2> HIDE DEF Good
  <2>8. t \in S
    BY <2>1, <2>7
  <2>9. QED
    BY <2>8 DEF t
<1>3. Seq(X) \subseteq S
  <2> HIDE DEF S
  <2>1. QED
    BY <1>1, <1>2, SeqInduction
<1>4. Good(b)
  <2> HIDE DEF Good
  <2>1. QED
    BY <1>3
<1>5. QED
  BY <1>4 DEF r

-----------------------------------------------------------------------------
(* Translating in two steps is translating at once, *)

LEMMA ToType ==
  ASSUME NEW in \in Nat, NEW e \in AnEvent, NEW first \in BOOLEAN
  PROVE  ToOpenAI(e, in, first) \in Seq(Translated)
<1>1. e.out \in Nat /\ 0 \in Nat
  BY DEF AnEvent
<1>2. /\ Event("role", <<>>, 0, 0, FALSE) \in AnEvent
      /\ Event("finish", <<>>, 0, 0, FALSE) \in AnEvent
  BY <1>1, EventMade
<1>3. Event("usage", <<>>, in, e.out, FALSE) \in AnEvent
  BY <1>1, EventMade
<1>4. Event("role", <<>>, 0, 0, FALSE).type = "role"
      /\ Event("finish", <<>>, 0, 0, FALSE).type = "finish"
      /\ Event("usage", <<>>, in, e.out, FALSE).type = "usage"
  BY DEF Event
<1>5. Plain("role") \in Translated /\ Plain("finish") \in Translated
      /\ UsageOf(in, e.out) \in Translated
  BY <1>2, <1>3, <1>4 DEF Translated, Plain, UsageOf
<1>6. e.type = "delta" => e \in Translated
  BY DEF Translated
<1>7. QED
  BY <1>5, <1>6 DEF ToOpenAI

After(t, u) == [input |-> u.input, roleSent |-> u.roleSent, out |-> t.out \o u.out]

LEMMA ToldAfter ==
  ASSUME NEW t \in Translating, NEW u \in Translating, NEW e \in AnEvent
  PROVE  ToldOpenAI(After(t, u), e) = After(t, ToldOpenAI(u, e))
<1> DEFINE in == IF e.type = "message_start" THEN e.in ELSE u.input
           more == ToOpenAI(e, in, ~u.roleSent)
           sentNow == u.roleSent \/ e.type = "message_start"
<1>1. in \in Nat /\ u.roleSent \in BOOLEAN /\ t.out \in Seq(Translated)
      /\ u.out \in Seq(Translated)
  BY DEF AnEvent, Translating
<1>2. (~u.roleSent) \in BOOLEAN
  BY Zenon
<1> HIDE DEF in
<1>3. more \in Seq(Translated)
  BY <1>1, <1>2, ToType
<1>4. ToldOpenAI(u, e) = [input |-> in, roleSent |-> sentNow, out |-> u.out \o more]
  BY Zenon DEF ToldOpenAI, in
<1> DEFINE a == After(t, u)
<1>5. a.input = u.input /\ a.roleSent = u.roleSent /\ a.out = t.out \o u.out
  BY DEF After
<1> HIDE DEF a
<1>6. ToldOpenAI(a, e) =
        [input |-> in, roleSent |-> sentNow, out |-> (t.out \o u.out) \o more]
  BY <1>5, Zenon DEF ToldOpenAI, in
<1> HIDE DEF more, sentNow
<1> DEFINE v == ToldOpenAI(u, e)
<1>7. v.input = in /\ v.roleSent = sentNow /\ v.out = u.out \o more
  BY <1>4
<1> HIDE DEF v
<1>8. After(t, v) = [input |-> in, roleSent |-> sentNow, out |-> t.out \o (u.out \o more)]
  BY <1>7, Zenon DEF After
<1>9. Chains(t.out, u.out, more)
  BY <1>1, <1>3, Chained
<1>10. (t.out \o u.out) \o more = t.out \o (u.out \o more)
  BY <1>9 DEF Chains
<1>11. ToldOpenAI(a, e) = After(t, v)
  BY <1>6, <1>8, <1>10, Zenon
<1>12. QED
  BY <1>11 DEF a, v

Tells(in, before, s, e) ==
  Translation(in, before, Append(s, e)) = ToldOpenAI(Translation(in, before, s), e)

LEMMA Telling ==
  ASSUME NEW in, NEW before, NEW X, NEW s \in Seq(X), NEW e \in X
  PROVE  Tells(in, before, s, e)
BY TranslationMore DEF Tells

LEMMA TranslationConcat ==
  ASSUME NEW in \in Nat, NEW before \in BOOLEAN,
         NEW a \in Seq(AnEvent), NEW b \in Seq(AnEvent)
  PROVE  LET t == Translation(in, before, a)
         IN  Translation(in, before, a \o b) =
               After(t, Translation(t.input, t.roleSent, b))
<1> DEFINE t == Translation(in, before, a)
           Good(s) == Translation(in, before, a \o s) =
                        After(t, Translation(t.input, t.roleSent, s))
           S == {s \in Seq(AnEvent) : Good(s)}
<1>0. t \in Translating
  BY TranslationType
<1>1. t.input \in Nat /\ t.roleSent \in BOOLEAN /\ t.out \in Seq(Translated)
      /\ t = [input |-> t.input, roleSent |-> t.roleSent, out |-> t.out]
  <2> HIDE DEF t
  <2>1. QED
    BY <1>0 DEF Translating
<1>2. <<>> \in S
  <2>1. a \o <<>> = a /\ <<>> \in Seq(AnEvent)
    OBVIOUS
  <2> DEFINE u == Translation(t.input, t.roleSent, <<>>)
  <2>2. u = [input |-> t.input, roleSent |-> t.roleSent, out |-> <<>>]
    BY TranslationNothing
  <2>3. u.input = t.input /\ u.roleSent = t.roleSent /\ u.out = <<>>
    BY <2>2
  <2> HIDE DEF u
  <2>4. t.out \o <<>> = t.out
    <3> HIDE DEF t
    <3>1. QED
      BY <1>1
  <2>5. After(t, u) = t
    <3> HIDE DEF t
    <3>1. After(t, u) = [input |-> t.input, roleSent |-> t.roleSent, out |-> t.out \o <<>>]
      BY <2>3, Zenon DEF After
    <3>2. QED
      BY <1>1, <2>4, <3>1, Zenon
  <2>6. Good(<<>>)
    BY <2>1, <2>5 DEF u
  <2> HIDE DEF Good
  <2>7. QED
    BY <2>1, <2>6
<1>3. ASSUME NEW s \in Seq(AnEvent), NEW e \in AnEvent, s \in S PROVE Append(s, e) \in S
  <2> DEFINE r == Append(s, e)
             ab == a \o s
             u == Translation(t.input, t.roleSent, s)
  <2>0. ab \in Seq(AnEvent)
    OBVIOUS
  <2>1. r \in Seq(AnEvent) /\ a \o r = Append(ab, e)
    OBVIOUS
  <2> HIDE DEF t
  <2>2. u \in Translating
    BY <1>1, TranslationType
  <2>3. Translation(t.input, t.roleSent, r) = ToldOpenAI(u, e)
    BY TranslationMore
  <2>4. Translation(in, before, ab) = After(t, u)
    BY <1>3
  <2> HIDE DEF ab, u, r
  <2>5. Tells(in, before, ab, e)
    BY <2>0, Telling
  <2>6. ToldOpenAI(After(t, u), e) = After(t, ToldOpenAI(u, e))
    BY <1>0, <2>2, ToldAfter
  <2>7. Good(r)
    BY <2>1, <2>3, <2>4, <2>5, <2>6 DEF Tells
  <2> HIDE DEF Good
  <2>8. r \in S
    BY <2>1, <2>7
  <2>9. QED
    BY <2>8 DEF r
<1>4. Seq(AnEvent) \subseteq S
  <2> HIDE DEF S
  <2>1. QED
    BY <1>2, <1>3, SeqInduction
<1>5. Good(b)
  <2> HIDE DEF Good
  <2>1. QED
    BY <1>4
<1>6. QED
  BY <1>5

(* the pieces of more events are more pieces, *)

Half(e, h) == [of |-> e, half |-> h]

LEMMA BytesMore ==
  ASSUME NEW events \in Seq(AnEvent), NEW e \in AnEvent
  PROVE  Bytes(Append(events, e)) = Append(Append(Bytes(events), Half(e, 1)), Half(e, 2))
<1> DEFINE n == Len(events)
           more == Append(events, e)
           b == Bytes(events)
           c == Bytes(more)
           d == Append(Append(b, Half(e, 1)), Half(e, 2))
<1>1. /\ more \in Seq(AnEvent) /\ Len(more) = n + 1 /\ more[n + 1] = e /\ n \in Nat
      /\ \A i \in 1 .. n : more[i] = events[i]
  OBVIOUS
<1>2. /\ b \in Seq(Piece) /\ Len(b) = 2 * n
      /\ \A i \in 1 .. n : b[2 * i - 1] = Half(events[i], 1) /\ b[2 * i] = Half(events[i], 2)
  BY BytesType DEF Half
<1> HIDE DEF more, n
<1>3. /\ c \in Seq(Piece) /\ Len(c) = 2 * Len(more)
      /\ \A i \in 1 .. Len(more) :
           c[2 * i - 1] = Half(more[i], 1) /\ c[2 * i] = Half(more[i], 2)
  BY <1>1, BytesType DEF Half
<1>4. Half(e, 1) \in Piece /\ Half(e, 2) \in Piece
  BY DEF Half, Piece
<1> HIDE DEF b, c
<1> DEFINE h1 == Half(e, 1)
           h2 == Half(e, 2)
<1> HIDE DEF h1, h2
<1>5. /\ Append(Append(b, h1), h2) \in Seq(Piece)
      /\ Len(Append(Append(b, h1), h2)) = Len(b) + 2
      /\ \A i \in 1 .. Len(b) : Append(Append(b, h1), h2)[i] = b[i]
      /\ Append(Append(b, h1), h2)[Len(b) + 1] = h1
      /\ Append(Append(b, h1), h2)[Len(b) + 2] = h2
  BY <1>2, <1>4 DEF h1, h2
<1>6. /\ d \in Seq(Piece) /\ Len(d) = Len(b) + 2 /\ (\A i \in 1 .. Len(b) : d[i] = b[i])
      /\ d[Len(b) + 1] = Half(e, 1) /\ d[Len(b) + 2] = Half(e, 2)
  BY <1>5 DEF h1, h2
<1> HIDE DEF d
<1>7. Len(c) = 2 * n + 2 /\ Len(d) = 2 * n + 2 /\ Len(b) = 2 * n
  BY <1>1, <1>2, <1>3, <1>6
<1>8. ASSUME NEW i \in 1 .. n
      PROVE  c[2 * i - 1] = d[2 * i - 1] /\ c[2 * i] = d[2 * i]
  <2>1. 2 * i - 1 \in 1 .. Len(b) /\ 2 * i \in 1 .. Len(b) /\ i \in 1 .. Len(more)
    BY <1>1, <1>7
  <2>2. c[2 * i - 1] = Half(more[i], 1) /\ c[2 * i] = Half(more[i], 2) /\ more[i] = events[i]
    BY <1>1, <1>3, <2>1
  <2>3. d[2 * i - 1] = b[2 * i - 1] /\ d[2 * i] = b[2 * i]
    BY <1>6, <2>1
  <2>4. QED
    BY <1>2, <2>2, <2>3
<1>9. c[2 * n + 1] = d[2 * n + 1] /\ c[2 * n + 2] = d[2 * n + 2]
  <2>1. n + 1 \in 1 .. Len(more) /\ 2 * (n + 1) - 1 = 2 * n + 1 /\ 2 * (n + 1) = 2 * n + 2
    BY <1>1
  <2>2. c[2 * n + 1] = Half(e, 1) /\ c[2 * n + 2] = Half(e, 2)
    BY <1>1, <1>3, <2>1
  <2>3. QED
    BY <1>6, <1>7, <2>2
<1>10. ASSUME NEW j \in 1 .. Len(c) PROVE c[j] = d[j]
  <2>1. CASE j \in 1 .. 2 * n
    <3>1. PICK i \in 1 .. n : j = 2 * i - 1 \/ j = 2 * i
      <4>1. (j + 1) \div 2 \in 1 .. n
            /\ (j = 2 * ((j + 1) \div 2) - 1 \/ j = 2 * ((j + 1) \div 2))
        BY <1>1, <2>1, Z3
      <4>2. QED
        BY <4>1
    <3>2. QED
      BY <1>8, <3>1
  <2>2. CASE j \notin 1 .. 2 * n
    <3>1. j = 2 * n + 1 \/ j = 2 * n + 2
      BY <1>1, <1>7, <2>2
    <3>2. QED
      BY <1>9, <3>1
  <2>3. QED
    BY <2>1, <2>2
<1>11. c = d
  <2>1. c = [i \in 1 .. Len(c) |-> c[i]]
    BY <1>3
  <2>2. d = [i \in 1 .. Len(d) |-> d[i]]
    BY <1>6
  <2>3. QED
    BY <1>7, <1>10, <2>1, <2>2
<1>12. QED
  BY <1>11 DEF c, d, more, b

LEMMA BytesNothing == Bytes(<<>>) = <<>>
<1>1. Len(<<>>) = 0 /\ <<>> \in Seq(AnEvent)
  OBVIOUS
<1>2. Bytes(<<>>) \in Seq(Piece) /\ Len(Bytes(<<>>)) = 2 * Len(<<>>)
  BY <1>1, BytesType
<1>3. QED
  BY <1>1, <1>2

LEMMA BytesConcat ==
  ASSUME NEW a \in Seq(AnEvent), NEW b \in Seq(AnEvent)
  PROVE  Bytes(a \o b) = Bytes(a) \o Bytes(b)
<1> DEFINE r == Bytes(a)
           Good(s) == Bytes(a \o s) = r \o Bytes(s)
           S == {s \in Seq(AnEvent) : Good(s)}
<1>0. r \in Seq(Piece)
  BY BytesType
<1>1. <<>> \in S
  <2>1. a \o <<>> = a /\ <<>> \in Seq(AnEvent)
    OBVIOUS
  <2>2. r \o <<>> = r
    <3> HIDE DEF r
    <3>1. QED
      BY <1>0
  <2>3. Good(<<>>)
    BY <2>1, <2>2, BytesNothing
  <2> HIDE DEF Good
  <2>4. QED
    BY <2>1, <2>3
<1>2. ASSUME NEW s \in Seq(AnEvent), NEW e \in AnEvent, s \in S PROVE Append(s, e) \in S
  <2> DEFINE t == Append(s, e)
             ab == a \o s
             q == Bytes(s)
             h1 == Half(e, 1)
             h2 == Half(e, 2)
  <2>0. ab \in Seq(AnEvent)
    OBVIOUS
  <2>1. t \in Seq(AnEvent) /\ a \o t = Append(ab, e)
    OBVIOUS
  <2>2. q \in Seq(Piece) /\ h1 \in Piece /\ h2 \in Piece
    BY BytesType DEF Half, Piece
  <2>3. Bytes(t) = Append(Append(q, h1), h2)
    BY BytesMore
  <2>4. Bytes(ab) = r \o q
    BY <1>2
  <2> HIDE DEF ab
  <2>5. Bytes(Append(ab, e)) = Append(Append(Bytes(ab), h1), h2)
    BY <2>0, BytesMore
  <2> HIDE DEF t, q, r, h1, h2
  <2>6. Append(q, h1) \in Seq(Piece)
    BY <2>2
  <2>7. Joins(r, q, h1) /\ Joins(r, Append(q, h1), h2)
    BY <1>0, <2>2, <2>6, Joined
  <2>8. Append(Append(r \o q, h1), h2) = r \o Append(Append(q, h1), h2)
    BY <2>7 DEF Joins
  <2>9. Bytes(a \o t) = r \o Bytes(t)
    BY <2>1, <2>3, <2>4, <2>5, <2>8
  <2>10. Good(t)
    BY <2>9
  <2> HIDE DEF Good
  <2>11. t \in S
    BY <2>1, <2>10
  <2>12. QED
    BY <2>11 DEF t
<1>3. Seq(AnEvent) \subseteq S
  <2> HIDE DEF S
  <2>1. QED
    BY <1>1, <1>2, SeqInduction
<1>4. Good(b)
  <2> HIDE DEF Good
  <2>1. QED
    BY <1>3
<1>5. QED
  BY <1>4 DEF r

LEMMA BytesOne ==
  ASSUME NEW e \in AnEvent
  PROVE  Bytes(<<e>>) = Pieces(e)
<1> DEFINE one == <<e>>
           b == Bytes(one)
           p == Pieces(e)
<1>1. one \in Seq(AnEvent) /\ Len(one) = 1 /\ one[1] = e
  OBVIOUS
<1> HIDE DEF one
<1>2. /\ b \in Seq(Piece) /\ Len(b) = 2 * Len(one)
      /\ \A i \in 1 .. Len(one) : b[2 * i - 1] = Half(one[i], 1) /\ b[2 * i] = Half(one[i], 2)
  BY <1>1, BytesType DEF Half
<1> HIDE DEF b
<1>3. Len(b) = 2 /\ b[1] = Half(e, 1) /\ b[2] = Half(e, 2)
  <2>1. 1 \in 1 .. Len(one) /\ 2 * 1 - 1 = 1 /\ 2 * 1 = 2
    BY <1>1
  <2>2. b[2 * 1 - 1] = Half(one[1], 1) /\ b[2 * 1] = Half(one[1], 2)
    BY <1>2, <2>1
  <2>3. QED
    BY <1>1, <1>2, <2>1, <2>2
<1>4. p \in Seq(Piece) /\ Len(p) = 2 /\ p[1] = Half(e, 1) /\ p[2] = Half(e, 2)
  BY PiecesType DEF Pieces, Half
<1> HIDE DEF p
<1>5. \A i \in 1 .. 2 : b[i] = p[i]
  BY <1>3, <1>4
<1>6. b = p
  BY <1>2, <1>3, <1>4, <1>5
<1>7. QED
  BY <1>6 DEF b, p, one

(* and what is decoded from the bytes of events are these events, whole. *)

LEMMA ParseWhole ==
  ASSUME NEW e \in AnEvent
  PROVE  Parse(<<Half(e, 1)>>, Half(e, 2)) = <<e>>
<1> DEFINE buf == <<Half(e, 1)>>
           p == Half(e, 2)
<1>1. Len(buf) = 1 /\ buf[1].of = e /\ p.of = e
  BY DEF Half
<1> HIDE DEF buf, p
<1>2. CASE e.type = "delta"
  <2>1. Parse(buf, p) = <<[e EXCEPT !.text = <<e.text[1], e.text[2]>>]>>
    BY <1>1, <1>2 DEF Parse
  <2>2. e.text \in Words \X Words
    BY <1>2 DEF AnEvent
  <2>3. <<e.text[1], e.text[2]>> = e.text
    <3> DEFINE x == e.text
    <3> HIDE DEF x
    <3>1. x \in Words \X Words
      BY <2>2 DEF x
    <3>2. <<x[1], x[2]>> = x
      BY <3>1
    <3>3. QED
      BY <3>2 DEF x
  <2>4. [e EXCEPT !.text = e.text] = e
    BY DEF AnEvent
  <2>5. QED
    BY <2>1, <2>3, <2>4 DEF buf, p
<1>3. CASE e.type # "delta"
  <2>1. Parse(buf, p) = <<e>>
    BY <1>1, <1>3 DEF Parse
  <2>2. QED
    BY <2>1 DEF buf, p
<1>4. QED
  BY <1>2, <1>3

DecodesTo(bytes, events) ==
  Drain(<<>>, bytes).buf = <<>> /\ Drain(<<>>, bytes).events = events

LEMMA DecodeWhole ==
  ASSUME NEW events \in Seq(AnEvent)
  PROVE  DecodesTo(Bytes(events), events)
<1> DEFINE S == {s \in Seq(AnEvent) : DecodesTo(Bytes(s), s)}
<1>1. <<>> \in S
  <2>1. Drain(<<>>, <<>>) = [buf |-> <<>>, events |-> <<>>]
    BY DrainNothing
  <2>2. DecodesTo(Bytes(<<>>), <<>>)
    BY <2>1, BytesNothing DEF DecodesTo
  <2>3. QED
    BY <2>2
<1>2. ASSUME NEW s \in Seq(AnEvent), NEW e \in AnEvent, s \in S PROVE Append(s, e) \in S
  <2> DEFINE b == Bytes(s)
             t == Append(s, e)
             r == Drain(<<>>, b)
             h1 == Half(e, 1)
             h2 == Half(e, 2)
             b1 == Append(b, h1)
             r1 == Drain(<<>>, b1)
             r2 == Drain(<<>>, Append(b1, h2))
  <2>1. b \in Seq(Piece) /\ h1 \in Piece /\ h2 \in Piece
    BY BytesType DEF Half, Piece
  <2>2. r.buf = <<>> /\ r.events = s
    BY <1>2 DEF DecodesTo
  <2> HIDE DEF b
  <2>3. r1 = DrainNext(r, h1)
    BY <2>1, DrainMore
  <2>4. b1 \in Seq(Piece)
    BY <2>1
  <2> HIDE DEF b1
  <2>5. r2 = DrainNext(r1, h2)
    BY <2>1, <2>4, DrainMore
  <2> HIDE DEF r, r1, r2
  <2>6. h1.half = 1 /\ h2.half = 2
    BY DEF Half
  <2>7. r1.buf = <<h1>> /\ r1.events = s
    <3> HIDE DEF h1
    <3>1. r1.buf = Append(<<>>, h1) /\ r1.events = s
      BY <2>2, <2>3, <2>6 DEF DrainNext
    <3>2. QED
      BY <2>1, <3>1
  <2>8. r2.buf = <<>> /\ r2.events = s \o <<e>>
    <3>1. Parse(r1.buf, h2) = <<e>>
      BY <2>7, ParseWhole
    <3> HIDE DEF h2
    <3>2. QED
      BY <2>5, <2>6, <2>7, <3>1 DEF DrainNext
  <2>9. Bytes(t) = Append(b1, h2) /\ t \in Seq(AnEvent)
    BY BytesMore DEF b1, b
  <2>10. s \o <<e>> = t
    OBVIOUS
  <2> HIDE DEF t
  <2>11. DecodesTo(Bytes(t), t)
    BY <2>8, <2>9, <2>10 DEF DecodesTo, r2
  <2>12. t \in S
    BY <2>9, <2>11
  <2>13. QED
    BY <2>12 DEF t
<1>3. Seq(AnEvent) \subseteq S
  <2> HIDE DEF S
  <2>1. QED
    BY <1>1, <1>2, SeqInduction
<1>4. QED
  BY <1>3

(* Events kept of events kept. *)
LEMMA OfOf ==
  ASSUME NEW some, NEW more, some \subseteq more, NEW X, NEW events \in Seq(X)
  PROVE  Of(some, Of(more, events)) = Of(some, events)
<1> DEFINE Good(s) == Of(some, Of(more, s)) = Of(some, s)
           S == {s \in Seq(X) : Good(s)}
<1>1. <<>> \in S
  <2>1. Of(some, <<>>) = <<>> /\ Of(more, <<>>) = <<>> /\ <<>> \in Seq(X)
    BY OfNothing
  <2>2. Good(<<>>)
    BY <2>1
  <2> HIDE DEF Good
  <2>3. QED
    BY <2>1, <2>2
<1>2. ASSUME NEW s \in Seq(X), NEW e \in X, s \in S PROVE Append(s, e) \in S
  <2> DEFINE t == Append(s, e)
             kept == Of(more, s)
  <2>1. kept \in Seq(X)
    BY OfType DEF OfFine
  <2>2. Grows(more, s, e) /\ Grows(some, s, e)
    BY Grown
  <2>3. Of(some, kept) = Of(some, s)
    BY <1>2
  <2>4. Of(more, t) = IF e.type \in more THEN Append(kept, e) ELSE kept
    BY <2>2 DEF Grows
  <2>5. Of(some, t) = IF e.type \in some THEN Append(Of(some, s), e) ELSE Of(some, s)
    BY <2>2 DEF Grows
  <2> HIDE DEF kept, t
  <2>6. Grows(some, kept, e)
    BY <2>1, Grown
  <2>7. Of(some, Append(kept, e)) =
          IF e.type \in some THEN Append(Of(some, kept), e) ELSE Of(some, kept)
    BY <2>6 DEF Grows
  <2>8. Good(t)
    BY <2>3, <2>4, <2>5, <2>7
  <2> HIDE DEF Good
  <2>9. t \in Seq(X)
    BY DEF t
  <2>10. QED
    BY <2>8, <2>9 DEF t
<1>3. Seq(X) \subseteq S
  <2> HIDE DEF S
  <2>1. QED
    BY <1>1, <1>2, SeqInduction
<1>4. QED
  BY <1>3

-----------------------------------------------------------------------------
(* What the translation to the OpenAI format keeps of a message. *)

LEMMA LastMore ==
  ASSUME NEW X, NEW s \in Seq(X), NEW x \in X
  PROVE  Append(s, x) # <<>> /\ Last(Append(s, x)) = x
<1> DEFINE t == Append(s, x)
<1>1. t \in Seq(X) /\ Len(t) = Len(s) + 1 /\ t[Len(s) + 1] = x /\ Len(s) \in Nat
  OBVIOUS
<1> HIDE DEF t
<1>2. t # <<>> /\ Last(t) = x
  BY <1>1 DEF Last
<1>3. QED
  BY <1>2 DEF t

LEMMA LastConcat ==
  ASSUME NEW X, NEW s \in Seq(X), NEW t \in Seq(X)
  PROVE  /\ t # <<>> => s \o t # <<>> /\ Last(s \o t) = Last(t)
         /\ t = <<>> => s \o t = s
<1>1. t = <<>> => s \o t = s
  OBVIOUS
<1> DEFINE u == s \o t
<1>2. /\ u \in Seq(X) /\ Len(u) = Len(s) + Len(t)
      /\ \A i \in 1 .. Len(t) : u[Len(s) + i] = t[i]
  BY Concat
<1>3. Len(s) \in Nat /\ Len(t) \in Nat
  OBVIOUS
<1> HIDE DEF u
<1>4. ASSUME t # <<>> PROVE u # <<>> /\ Last(u) = Last(t)
  <2>1. Len(t) \in 1 .. Len(t)
    BY <1>3, <1>4
  <2>2. u[Len(u)] = t[Len(t)]
    BY <1>2, <2>1
  <2>3. QED
    BY <1>2, <1>3, <2>1, <2>2 DEF Last
<1>5. QED
  BY <1>1, <1>4 DEF u

LEMMA OfOne ==
  ASSUME NEW types, NEW e
  PROVE  Of(types, <<e>>) = IF e.type \in types THEN <<e>> ELSE <<>>
<1>1. <<>> \in Seq({e}) /\ Append(<<>>, e) = <<e>> /\ e \in {e}
  OBVIOUS
<1>2. Grows(types, <<>>, e)
  BY <1>1, Grown
<1>3. Of(types, Append(<<>>, e)) = IF e.type \in types THEN Append(<<>>, e) ELSE <<>>
  BY <1>2, OfNothing DEF Grows
<1>4. QED
  BY <1>1, <1>3

LEMMA AppendPair ==
  ASSUME NEW x, NEW y
  PROVE  Append(<<x>>, y) = <<x, y>>
<1> DEFINE a == Append(<<x>>, y)
           b == <<x, y>>
           X == {x, y}
<1>1. x \in X /\ y \in X
  OBVIOUS
<1> HIDE DEF X
<1>2. <<x>> \in Seq(X) /\ Len(<<x>>) = 1 /\ <<x>>[1] = x
  BY <1>1
<1> DEFINE s == <<x>>
<1> HIDE DEF s
<1>3. Append(s, y) \in Seq(X) /\ Len(Append(s, y)) = Len(s) + 1
      /\ Append(s, y)[Len(s) + 1] = y /\ \A i \in 1 .. Len(s) : Append(s, y)[i] = s[i]
  BY <1>1, <1>2 DEF s
<1>4. a \in Seq(X) /\ Len(a) = 2 /\ a[1] = x /\ a[2] = y
  <2> DEFINE c == Append(s, y)
  <2>1. c \in Seq(X) /\ Len(c) = Len(s) + 1
        /\ c[Len(s) + 1] = y /\ \A i \in 1 .. Len(s) : c[i] = s[i]
    BY <1>3
  <2>2. Len(s) = 1 /\ s[1] = x
    BY <1>2 DEF s
  <2> HIDE DEF c
  <2>3. c \in Seq(X) /\ Len(c) = 2 /\ c[1] = x /\ c[2] = y
    BY <2>1, <2>2
  <2>4. QED
    BY <2>3 DEF c, s
<1>5. b \in Seq(X) /\ Len(b) = 2 /\ b[1] = x /\ b[2] = y
  BY <1>1
<1> HIDE DEF a, b
<1>6. \A i \in 1 .. 2 : a[i] = b[i]
  BY <1>4, <1>5
<1>7. a = b
  BY <1>4, <1>5, <1>6
<1>8. QED
  BY <1>7 DEF a, b

LEMMA OfTranslated ==
  ASSUME NEW e \in AnEvent, NEW in \in Nat, NEW first \in BOOLEAN
  PROVE  /\ Of({"delta"}, ToOpenAI(e, in, first)) =
              IF e.type = "delta" THEN <<e>> ELSE <<>>
         /\ Of({"usage"}, ToOpenAI(e, in, first)) =
              IF e.type = "message_delta" THEN <<UsageOf(in, e.out)>> ELSE <<>>
<1> DEFINE r == ToOpenAI(e, in, first)
           u == UsageOf(in, e.out)
           f == Plain("finish")
           o == Plain("role")
<1>1. o.type = "role" /\ f.type = "finish" /\ u.type = "usage"
  BY DEF Plain, UsageOf, Event
<1>2. Of({"delta"}, <<>>) = <<>> /\ Of({"usage"}, <<>>) = <<>>
  BY OfNothing
<1>3. CASE e.type = "message_start" /\ first
  <2>1. r = <<o>>
    BY <1>3 DEF ToOpenAI
  <2> HIDE DEF o
  <2>2. Of({"delta"}, <<o>>) = <<>> /\ Of({"usage"}, <<o>>) = <<>>
    BY <1>1, OfOne
  <2> HIDE DEF r
  <2>3. Of({"delta"}, r) = <<>> /\ Of({"usage"}, r) = <<>>
    BY <2>1, <2>2
  <2>4. QED
    BY <1>3, <2>3 DEF r
<1>4. CASE e.type = "delta"
  <2>1. r = <<e>>
    BY <1>4 DEF ToOpenAI
  <2>2. Of({"delta"}, <<e>>) = <<e>> /\ Of({"usage"}, <<e>>) = <<>>
    BY <1>4, OfOne
  <2> HIDE DEF r
  <2>3. Of({"delta"}, r) = <<e>> /\ Of({"usage"}, r) = <<>>
    BY <2>1, <2>2
  <2>4. QED
    BY <1>4, <2>3 DEF r
<1>5. CASE e.type = "message_delta"
  <2>1. r = <<f, u>>
    BY <1>5 DEF ToOpenAI
  <2> HIDE DEF u, f
  <2>2. <<f>> \in Seq({f, u}) /\ Append(<<f>>, u) = <<f, u>> /\ u \in {f, u}
    <3>1. f \in {f, u} /\ u \in {f, u}
      OBVIOUS
    <3>2. <<f>> \in Seq({f, u})
      BY <3>1
    <3>3. Append(<<f>>, u) = <<f, u>>
      BY AppendPair
    <3>4. QED
      BY <3>1, <3>2, <3>3
  <2>3. Grows({"delta"}, <<f>>, u) /\ Grows({"usage"}, <<f>>, u)
    BY <2>2, Grown
  <2>4. Of({"delta"}, <<f>>) = <<>> /\ Of({"usage"}, <<f>>) = <<>>
    BY <1>1, OfOne
  <2>5. Of({"delta"}, <<f, u>>) = <<>>
    BY <1>1, <2>2, <2>3, <2>4 DEF Grows
  <2>6. Append(<<>>, u) = <<u>>
    BY <2>2
  <2>7. Of({"usage"}, <<f, u>>) = <<u>>
    BY <1>1, <2>2, <2>3, <2>4, <2>6 DEF Grows
  <2> HIDE DEF r
  <2>8. Of({"delta"}, r) = <<>> /\ Of({"usage"}, r) = <<u>>
    BY <2>1, <2>5, <2>7
  <2>9. QED
    BY <1>5, <2>8 DEF r, u
<1>6. CASE ~(e.type = "message_start" /\ first) /\ e.type # "delta" /\ e.type # "message_delta"
  <2>1. r = <<>>
    BY <1>6 DEF ToOpenAI
  <2> HIDE DEF r
  <2>2. Of({"delta"}, r) = <<>> /\ Of({"usage"}, r) = <<>>
    BY <1>2, <2>1
  <2>3. QED
    BY <1>6, <2>2 DEF r
<1>7. QED
  BY <1>3, <1>4, <1>5, <1>6

(* No message starts after a usage. *)
Quiet(events) ==
  \A i \in 1 .. Len(events) : events[i].type = "message_delta" =>
    \A j \in i .. Len(events) : events[j].type # "message_start"

Counts(t, events) ==
  LET usages == Of({"usage"}, t.out)
      deltas == Of({"message_delta"}, events)
      starts == Of({"message_start"}, events)
  IN  /\ usages = <<>> <=> deltas = <<>>
      /\ t.input = IF starts = <<>> THEN 0 ELSE Last(starts).in
      /\ usages # <<>> => Last(usages).out = Last(deltas).out /\ Last(usages).in = t.input

LEMMA TranslationSays ==
  ASSUME NEW in \in Nat, NEW before \in BOOLEAN, NEW events \in Seq(AnEvent)
  PROVE  Of({"delta"}, Translation(in, before, events).out) = Of({"delta"}, events)
<1> DEFINE Good(s) == Of({"delta"}, Translation(in, before, s).out) = Of({"delta"}, s)
           S == {s \in Seq(AnEvent) : Good(s)}
<1>1. <<>> \in S
  <2>1. Translation(in, before, <<>>) = [input |-> in, roleSent |-> before, out |-> <<>>]
    BY TranslationNothing
  <2>2. Translation(in, before, <<>>).out = <<>>
    BY <2>1
  <2>3. <<>> \in Seq(AnEvent) /\ Good(<<>>)
    BY <2>2
  <2> HIDE DEF Good
  <2>4. QED
    BY <2>3
<1>2. ASSUME NEW s \in Seq(AnEvent), NEW e \in AnEvent, s \in S PROVE Append(s, e) \in S
  <2> DEFINE t == Translation(in, before, s)
             now == IF e.type = "message_start" THEN e.in ELSE t.input
             r == ToOpenAI(e, now, ~t.roleSent)
             v == Append(s, e)
             w == Translation(in, before, v)
             d == {"delta"}
  <2>1. t \in Translating
    BY TranslationType
  <2>2. t.out \in Seq(Translated) /\ t.roleSent \in BOOLEAN /\ now \in Nat
    <3> HIDE DEF t
    <3>1. QED
      BY <2>1 DEF Translating, AnEvent
  <2>3. w = ToldOpenAI(t, e)
    BY TranslationMore
  <2> HIDE DEF t, w
  <2>4. w.out = t.out \o r
    BY <2>3 DEF ToldOpenAI
  <2>5. (~t.roleSent) \in BOOLEAN
    BY Zenon
  <2> HIDE DEF now
  <2>6. r \in Seq(Translated)
    BY <2>2, <2>5, ToType
  <2>7. Of(d, r) = IF e.type = "delta" THEN <<e>> ELSE <<>>
    BY <2>2, <2>5, OfTranslated
  <2> HIDE DEF r
  <2>8. Of(d, t.out \o r) = Of(d, t.out) \o Of(d, r)
    BY <2>2, <2>6, OfConcat
  <2>9. Grows(d, s, e)
    BY Grown
  <2>10. Of(d, t.out) = Of(d, s)
    BY <1>2 DEF t
  <2>11. Of(d, s) \in Seq(AnEvent)
    BY OfType DEF OfFine
  <2>12. Of(d, w.out) = Of(d, v)
    <3> DEFINE x == Of(d, s)
    <3>1. Of(d, v) = IF e.type = "delta" THEN Append(x, e) ELSE x
      BY <2>9 DEF Grows
    <3>2. Of(d, w.out) = x \o (IF e.type = "delta" THEN <<e>> ELSE <<>>)
      BY <2>4, <2>7, <2>8, <2>10
    <3> HIDE DEF x
    <3>3. x \o <<e>> = Append(x, e) /\ x \o <<>> = x
      BY <2>11 DEF x
    <3>4. CASE e.type = "delta"
      BY <3>1, <3>2, <3>3, <3>4
    <3>5. CASE e.type # "delta"
      BY <3>1, <3>2, <3>3, <3>5
    <3>6. QED
      BY <3>4, <3>5
  <2>13. v \in Seq(AnEvent)
    OBVIOUS
  <2>14. Good(v)
    BY <2>12 DEF w
  <2> HIDE DEF Good, v
  <2>15. v \in S
    BY <2>13, <2>14
  <2>16. QED
    BY <2>15 DEF v
<1>3. Seq(AnEvent) \subseteq S
  <2> HIDE DEF S
  <2>1. QED
    BY <1>1, <1>2, SeqInduction
<1>4. QED
  BY <1>3

LEMMA QuietBefore ==
  ASSUME NEW s \in Seq(AnEvent), NEW e \in AnEvent, Quiet(Append(s, e))
  PROVE  /\ Quiet(s)
         /\ e.type = "message_start" => Of({"message_delta"}, s) = <<>>
<1> DEFINE v == Append(s, e)
           r == Of({"message_delta"}, s)
<1>1. /\ v \in Seq(AnEvent) /\ Len(v) = Len(s) + 1 /\ v[Len(s) + 1] = e /\ Len(s) \in Nat
      /\ \A i \in 1 .. Len(s) : v[i] = s[i]
  OBVIOUS
<1>2. Quiet(v)
  OBVIOUS
<1>3. r \in Seq(AnEvent)
      /\ \A j \in 1 .. Len(r) : r[j].type \in {"message_delta"} /\ \E i \in 1 .. Len(s) : s[i] = r[j]
  <2>1. OfFine({"message_delta"}, AnEvent, s)
    BY OfType
  <2>2. QED
    BY <2>1 DEF OfFine
<1> HIDE DEF v, r
<1>4. Quiet(s)
  <2> SUFFICES ASSUME NEW i \in 1 .. Len(s), s[i].type = "message_delta", NEW j \in i .. Len(s)
               PROVE  s[j].type # "message_start"
    BY DEF Quiet
  <2>1. v[i] = s[i] /\ v[j] = s[j] /\ i \in 1 .. Len(v) /\ j \in i .. Len(v)
    BY <1>1
  <2>2. QED
    BY <1>2, <2>1 DEF Quiet
<1>5. ASSUME e.type = "message_start", r # <<>> PROVE FALSE
  <2>1. 1 \in 1 .. Len(r)
    BY <1>3, <1>5
  <2>2. PICK i \in 1 .. Len(s) : s[i] = r[1]
    BY <1>3, <2>1
  <2>3. v[i].type = "message_delta" /\ i \in 1 .. Len(v) /\ Len(s) + 1 \in i .. Len(v)
    BY <1>1, <1>3, <2>1, <2>2
  <2>4. QED
    BY <1>1, <1>2, <1>5, <2>3 DEF Quiet
<1>6. QED
  BY <1>4, <1>5 DEF r

(* The usage told is that of the last message_delta, with the input of the last start. *)
LEMMA TranslationCounts ==
  ASSUME NEW before \in BOOLEAN, NEW events \in Seq(AnEvent), Quiet(events)
  PROVE  Counts(Translation(0, before, events), events)
<1> DEFINE Good(s) == Counts(Translation(0, before, s), s)
           S == {s \in Seq(AnEvent) : Quiet(s) => Good(s)}
<1>1. <<>> \in S
  <2> DEFINE t == Translation(0, before, <<>>)
  <2>1. t = [input |-> 0, roleSent |-> before, out |-> <<>>]
    BY TranslationNothing
  <2>2. t.input = 0 /\ t.out = <<>>
    BY <2>1
  <2> HIDE DEF t
  <2>3. \A types : Of(types, <<>>) = <<>>
    BY OfNothing
  <2>4. Counts(t, <<>>)
    BY <2>2, <2>3 DEF Counts
  <2>5. <<>> \in Seq(AnEvent) /\ Good(<<>>)
    BY <2>4 DEF t
  <2> HIDE DEF Good
  <2>6. QED
    BY <2>5
<1>2. ASSUME NEW s \in Seq(AnEvent), NEW e \in AnEvent, s \in S PROVE Append(s, e) \in S
  <2> DEFINE t == Translation(0, before, s)
             now == IF e.type = "message_start" THEN e.in ELSE t.input
             r == ToOpenAI(e, now, ~t.roleSent)
             v == Append(s, e)
             w == Translation(0, before, v)
  <2>1. t \in Translating
    BY TranslationType
  <2>2. t.out \in Seq(Translated) /\ t.roleSent \in BOOLEAN /\ now \in Nat
    <3> HIDE DEF t
    <3>1. QED
      BY <2>1 DEF Translating, AnEvent
  <2>3. w = ToldOpenAI(t, e)
    BY TranslationMore
  <2>4. v \in Seq(AnEvent)
    OBVIOUS
  <2>5. Quiet(v) => Quiet(s) /\ (e.type = "message_start" => Of({"message_delta"}, s) = <<>>)
    BY QuietBefore
  <2>6. /\ Grows({"message_delta"}, s, e) /\ Grows({"message_start"}, s, e)
        /\ Of({"message_delta"}, s) \in Seq(AnEvent) /\ Of({"message_start"}, s) \in Seq(AnEvent)
    BY Grown, OfType DEF OfFine
  <2> HIDE DEF w
  <2> DEFINE u == UsageOf(now, e.out)
             us == Of({"usage"}, t.out)
             ds == Of({"message_delta"}, s)
             ss == Of({"message_start"}, s)
             us2 == Of({"usage"}, w.out)
             ds2 == Of({"message_delta"}, v)
             ss2 == Of({"message_start"}, v)
  <2>7. Quiet(s) => /\ us = <<>> <=> ds = <<>>
                    /\ t.input = IF ss = <<>> THEN 0 ELSE Last(ss).in
                    /\ us # <<>> => Last(us).out = Last(ds).out /\ Last(us).in = t.input
    BY <1>2 DEF Counts
  <2>8. w.out = t.out \o r /\ w.input = now
    <3> HIDE DEF t
    <3>1. QED
      BY <2>3 DEF ToldOpenAI
  <2>9. (~t.roleSent) \in BOOLEAN
    BY Zenon
  <2>10. ds2 = IF e.type = "message_delta" THEN Append(ds, e) ELSE ds
    BY <2>6 DEF Grows
  <2>11. ss2 = IF e.type = "message_start" THEN Append(ss, e) ELSE ss
    BY <2>6 DEF Grows
  <2> DEFINE input0 == t.input
             out0 == t.out
             role0 == t.roleSent
  <2> HIDE DEF t
  <2>12. now = IF e.type = "message_start" THEN e.in ELSE input0
    OBVIOUS
  <2> HIDE DEF now
  <2>13. r \in Seq(Translated)
    BY <2>2, <2>9, ToType
  <2>14. Of({"usage"}, r) = IF e.type = "message_delta" THEN <<u>> ELSE <<>>
    BY <2>2, <2>9, OfTranslated
  <2> HIDE DEF r
  <2>15. us2 = us \o Of({"usage"}, r)
    <3>1. Of({"usage"}, t.out \o r) = us \o Of({"usage"}, r)
      BY <2>2, <2>13, OfConcat
    <3>2. QED
      BY <2>8, <3>1
  <2>16. us \in Seq(Translated)
    BY <2>2, OfType DEF OfFine
  <2>17. u.in = now /\ u.out = e.out
    BY DEF UsageOf, Event
  <2>18. u \in AnEvent /\ u.type = "usage"
    <3>1. e.out \in Nat
      BY DEF AnEvent
    <3>2. QED
      BY <2>2, <3>1, EventMade DEF UsageOf, Event
  <2>19. u \in Translated
    BY <2>18 DEF Translated
  <2> HIDE DEF v, us2, ds2, ss2, us, ds, ss, u, input0
  <2>20. us \o <<u>> = Append(us, u) /\ us \o <<>> = us
    BY <2>16, <2>19
  <2>21. us2 = IF e.type = "message_delta" THEN Append(us, u) ELSE us
    <3>1. CASE e.type = "message_delta"
      BY <2>14, <2>15, <2>20, <3>1
    <3>2. CASE e.type # "message_delta"
      BY <2>14, <2>15, <2>20, <3>2
    <3>3. QED
      BY <3>1, <3>2
  <2>22. Append(us, u) # <<>> /\ Last(Append(us, u)) = u
    BY <2>16, <2>19, LastMore
  <2>23. Append(ds, e) # <<>> /\ Last(Append(ds, e)) = e
    BY <2>6, LastMore DEF ds
  <2>24. Append(ss, e) # <<>> /\ Last(Append(ss, e)) = e
    BY <2>6, LastMore DEF ss
  <2> SUFFICES ASSUME Quiet(v) PROVE Counts(w, v)
    BY <2>4 DEF v, w
  <2>25. /\ us = <<>> <=> ds = <<>>
         /\ input0 = IF ss = <<>> THEN 0 ELSE Last(ss).in
         /\ us # <<>> => Last(us).out = Last(ds).out /\ Last(us).in = input0
         /\ e.type = "message_start" => ds = <<>>
    BY <2>5, <2>7 DEF v, input0, ds
  <2>26. /\ us2 = <<>> <=> ds2 = <<>>
         /\ w.input = IF ss2 = <<>> THEN 0 ELSE Last(ss2).in
         /\ us2 # <<>> => Last(us2).out = Last(ds2).out /\ Last(us2).in = w.input
    <3>1. CASE e.type = "message_delta"
      BY <2>8, <2>10, <2>11, <2>12, <2>17, <2>21, <2>22, <2>23, <2>25, <3>1
    <3>2. CASE e.type = "message_start"
      BY <2>8, <2>10, <2>11, <2>12, <2>21, <2>24, <2>25, <3>2
    <3>3. CASE e.type # "message_delta" /\ e.type # "message_start"
      BY <2>8, <2>10, <2>11, <2>12, <2>21, <2>25, <3>3
    <3>4. QED
      BY <3>1, <3>2, <3>3
  <2>27. QED
    BY <2>26 DEF Counts, us2, ds2, ss2
<1>3. Seq(AnEvent) \subseteq S
  <2> HIDE DEF S
  <2>1. QED
    BY <1>1, <1>2, SeqInduction
<1>4. QED
  BY <1>3

-----------------------------------------------------------------------------
(* Streams whose chunks never end inside a character. *)

WholeEvent == {e \in AnEvent : ~e.cut}
WholePiece == {p \in Piece : ~p.of.cut}

Whole == \A s \in Scripts : \A i \in DOMAIN s.events : ~s.events[i].cut

LEMMA WholeScript ==
  ASSUME Whole, NEW s \in Scripts
  PROVE  s.events \in Seq(WholeEvent)
<1> DEFINE e == s.events
<1>1. e \in Seq(AnEvent)
  BY ScriptIs
<1>2. \A i \in DOMAIN e : ~e[i].cut
  BY DEF Whole
<1> HIDE DEF e
<1>3. \A i \in 1 .. Len(e) : e[i] \in WholeEvent
  BY <1>1, <1>2 DEF WholeEvent
<1>4. e \in Seq(WholeEvent)
  BY <1>1, <1>3
<1>5. QED
  BY <1>4 DEF e

LEMMA WholeIsSeq ==
  /\ \A s \in Seq(WholePiece) : s \in Seq(Piece)
  /\ \A s \in Seq(WholeEvent) : s \in Seq(AnEvent)
<1>1. ASSUME NEW s \in Seq(WholePiece) PROVE s \in Seq(Piece)
  <2>1. \A i \in 1 .. Len(s) : s[i] \in Piece
    BY DEF WholePiece
  <2>2. QED
    BY <2>1
<1>2. ASSUME NEW s \in Seq(WholeEvent) PROVE s \in Seq(AnEvent)
  <2>1. \A i \in 1 .. Len(s) : s[i] \in AnEvent
    BY DEF WholeEvent
  <2>2. QED
    BY <2>1
<1>3. QED
  BY <1>1, <1>2

LEMMA BytesWhole ==
  ASSUME NEW events \in Seq(WholeEvent)
  PROVE  Bytes(events) \in Seq(WholePiece)
<1> DEFINE S == {s \in Seq(WholeEvent) : Bytes(s) \in Seq(WholePiece)}
<1>1. <<>> \in S
  <2>1. <<>> \in Seq(WholeEvent) /\ <<>> \in Seq(WholePiece)
    OBVIOUS
  <2>2. QED
    BY <2>1, BytesNothing
<1>2. ASSUME NEW s \in Seq(WholeEvent), NEW e \in WholeEvent, s \in S PROVE Append(s, e) \in S
  <2> DEFINE b == Bytes(s)
             h1 == Half(e, 1)
             h2 == Half(e, 2)
  <2>1. s \in Seq(AnEvent) /\ e \in AnEvent
    BY WholeIsSeq DEF WholeEvent
  <2>2. Bytes(Append(s, e)) = Append(Append(b, h1), h2)
    BY <2>1, BytesMore
  <2>3. h1 \in WholePiece /\ h2 \in WholePiece
    BY <2>1 DEF WholePiece, Piece, Half, WholeEvent
  <2>4. b \in Seq(WholePiece)
    BY <1>2
  <2> HIDE DEF b, h1, h2
  <2>5. Append(b, h1) \in Seq(WholePiece)
    BY <2>3, <2>4
  <2>6. Append(Append(b, h1), h2) \in Seq(WholePiece)
    BY <2>3, <2>5
  <2>7. Append(s, e) \in Seq(WholeEvent)
    OBVIOUS
  <2>8. QED
    BY <2>2, <2>6, <2>7
<1>3. Seq(WholeEvent) \subseteq S
  <2> HIDE DEF S
  <2>1. QED
    BY <1>1, <1>2, SeqInduction
<1>4. QED
  BY <1>3

LEMMA ToWhole ==
  ASSUME NEW in \in Nat, NEW e \in WholeEvent, NEW first \in BOOLEAN
  PROVE  ToOpenAI(e, in, first) \in Seq(WholeEvent)
<1> DEFINE r == ToOpenAI(e, in, first)
           u == UsageOf(in, e.out)
           f == Plain("finish")
           o == Plain("role")
<1>1. e.out \in Nat /\ 0 \in Nat /\ e \in AnEvent
  BY DEF AnEvent, WholeEvent
<1>2. o \in AnEvent /\ f \in AnEvent
  BY <1>1, EventMade DEF Plain
<1>3. u \in AnEvent
  BY <1>1, EventMade DEF UsageOf
<1>4. ~o.cut /\ ~f.cut /\ ~u.cut
  BY DEF Plain, UsageOf, Event
<1> HIDE DEF u, f, o
<1>5. u \in WholeEvent /\ f \in WholeEvent /\ o \in WholeEvent
  BY <1>2, <1>3, <1>4 DEF WholeEvent
<1>6. <<>> \in Seq(WholeEvent) /\ <<o>> \in Seq(WholeEvent) /\ <<e>> \in Seq(WholeEvent)
      /\ <<f, u>> \in Seq(WholeEvent)
  BY <1>5, SmallSeqs
<1>7. r \in {<<o>>, <<e>>, <<f, u>>, <<>>}
  BY DEF ToOpenAI, o, f, u
<1> HIDE DEF r
<1>8. r \in Seq(WholeEvent)
  BY <1>6, <1>7
<1>9. QED
  BY <1>8 DEF r

LEMMA TranslationWhole ==
  ASSUME NEW in \in Nat, NEW before \in BOOLEAN, NEW events \in Seq(WholeEvent)
  PROVE  Translation(in, before, events).out \in Seq(WholeEvent)
<1> DEFINE S == {s \in Seq(WholeEvent) : Translation(in, before, s).out \in Seq(WholeEvent)}
<1>1. <<>> \in S
  <2>1. Translation(in, before, <<>>) = [input |-> in, roleSent |-> before, out |-> <<>>]
    BY TranslationNothing
  <2>2. Translation(in, before, <<>>).out = <<>> /\ <<>> \in Seq(WholeEvent)
    BY <2>1
  <2>3. QED
    BY <2>2
<1>2. ASSUME NEW s \in Seq(WholeEvent), NEW e \in WholeEvent, s \in S PROVE Append(s, e) \in S
  <2> DEFINE t == Translation(in, before, s)
             now == IF e.type = "message_start" THEN e.in ELSE t.input
             r == ToOpenAI(e, now, ~t.roleSent)
             w == Translation(in, before, Append(s, e))
  <2>1. s \in Seq(AnEvent) /\ e \in AnEvent
    BY WholeIsSeq DEF WholeEvent
  <2>2. t \in Translating
    BY <2>1, TranslationType
  <2>3. now \in Nat
    <3> HIDE DEF t
    <3>1. QED
      BY <2>1, <2>2 DEF Translating, AnEvent
  <2>4. (~t.roleSent) \in BOOLEAN
    BY Zenon
  <2>5. Tells(in, before, s, e)
    BY <2>1, Telling
  <2>6. w = ToldOpenAI(t, e)
    BY <2>5 DEF Tells
  <2>7. t.out \in Seq(WholeEvent)
    BY <1>2
  <2> HIDE DEF w, t
  <2>8. w.out = t.out \o r
    BY <2>6 DEF ToldOpenAI
  <2> HIDE DEF now
  <2>9. r \in Seq(WholeEvent)
    BY <2>3, <2>4, ToWhole
  <2> HIDE DEF r
  <2>10. w.out \in Seq(WholeEvent)
    BY <2>7, <2>8, <2>9
  <2>11. Append(s, e) \in Seq(WholeEvent)
    OBVIOUS
  <2>12. QED
    BY <2>10, <2>11 DEF w
<1>3. Seq(WholeEvent) \subseteq S
  <2> HIDE DEF S
  <2>1. QED
    BY <1>1, <1>2, SeqInduction
<1>4. QED
  BY <1>3

(* Nothing is skipped. *)
LEMMA ReadWhole ==
  ASSUME NEW buf, NEW chunk \in Seq(WholePiece)
  PROVE  Read(buf, chunk) = Drain(buf, chunk)
<1>1. CASE chunk = <<>>
  BY <1>1 DEF Read
<1>2. CASE chunk # <<>>
  <2>1. chunk[1] \in WholePiece /\ chunk[Len(chunk)] \in WholePiece
    BY <1>2
  <2>2. Head(chunk) = chunk[1] /\ Last(chunk) = chunk[Len(chunk)]
    BY <1>2 DEF Last
  <2>3. ~Head(chunk).of.cut /\ ~Last(chunk).of.cut
    BY <2>1, <2>2 DEF WholePiece
  <2>4. Utf8(chunk)
    BY <2>3 DEF Utf8
  <2>5. QED
    BY <2>4 DEF Read
<1>3. QED
  BY <1>1, <1>2

LEMMA PartsOf ==
  ASSUME NEW X, NEW Y, NEW a \in Seq(Y), NEW b \in Seq(Y), a \o b \in Seq(X)
  PROVE  a \in Seq(X) /\ b \in Seq(X)
<1> DEFINE c == a \o b
<1>1. c \in Seq(X) /\ Len(c) = Len(a) + Len(b) /\ (\A i \in 1 .. Len(a) : c[i] = a[i])
      /\ (\A i \in 1 .. Len(b) : c[Len(a) + i] = b[i])
  BY Concat
<1>2. Len(a) \in Nat /\ Len(b) \in Nat
  OBVIOUS
<1> HIDE DEF c
<1>3. \A i \in 1 .. Len(a) : i \in 1 .. Len(c) /\ c[i] = a[i]
  BY <1>1, <1>2
<1>4. \A i \in 1 .. Len(c) : c[i] \in X
  BY <1>1
<1>5. \A i \in 1 .. Len(a) : a[i] \in X
  BY <1>3, <1>4
<1>6. \A i \in 1 .. Len(b) : Len(a) + i \in 1 .. Len(c) /\ c[Len(a) + i] = b[i]
  BY <1>1, <1>2
<1>7. \A i \in 1 .. Len(b) : b[i] \in X
  BY <1>4, <1>6
<1>8. QED
  BY <1>5, <1>7

LEMMA SubSeqMore ==
  ASSUME NEW X, NEW s \in Seq(X), NEW k \in Nat, NEW n \in Nat, k + n <= Len(s)
  PROVE  /\ SubSeq(s, 1, k) \in Seq(X) /\ SubSeq(s, k + 1, k + n) \in Seq(X)
         /\ SubSeq(s, 1, k + n) = SubSeq(s, 1, k) \o SubSeq(s, k + 1, k + n)
<1> DEFINE a == SubSeq(s, 1, k)
           b == SubSeq(s, k + 1, k + n)
           c == SubSeq(s, 1, k + n)
           d == a \o b
<1>1. Len(s) \in Nat
  OBVIOUS
<1>2. a \in Seq(X) /\ Len(a) = k /\ \A i \in 1 .. k : a[i] = s[i]
  BY <1>1
<1>3. b \in Seq(X) /\ Len(b) = n /\ \A i \in 1 .. n : b[i] = s[k + i]
  BY <1>1
<1>4. c \in Seq(X) /\ Len(c) = k + n /\ \A i \in 1 .. k + n : c[i] = s[i]
  BY <1>1
<1> HIDE DEF a, b, c
<1>5. /\ d \in Seq(X) /\ Len(d) = Len(a) + Len(b) /\ (\A i \in 1 .. Len(a) : d[i] = a[i])
      /\ \A i \in Len(a) + 1 .. Len(a) + Len(b) : d[i] = b[i - Len(a)]
  BY <1>2, <1>3, Concat
<1> HIDE DEF d
<1>6. ASSUME NEW i \in 1 .. k + n PROVE c[i] = d[i]
  <2>1. CASE i <= k
    BY <1>2, <1>4, <1>5, <2>1
  <2>2. CASE i > k
    <3>1. i - k \in 1 .. n /\ k + (i - k) = i
      BY <2>2
    <3>2. d[i] = b[i - k]
      BY <1>2, <1>3, <1>5, <2>2
    <3>3. QED
      BY <1>3, <1>4, <3>1, <3>2
  <2>3. QED
    BY <2>1, <2>2
<1>7. c = d
  BY <1>2, <1>3, <1>4, <1>5, <1>6
<1>8. QED
  BY <1>2, <1>3, <1>7 DEF a, b, c, d

LEMMA SubSeqAll ==
  ASSUME NEW X, NEW s \in Seq(X)
  PROVE  SubSeq(s, 1, 0) = <<>> /\ SubSeq(s, 1, Len(s)) = s
<1>1. SubSeq(s, 1, Len(s)) = s
  OBVIOUS
<1>2. SubSeq(s, 1, 0) = <<>>
  OBVIOUS
<1>3. QED
  BY <1>1, <1>2

-----------------------------------------------------------------------------
(* The chunks of the translation, one event each. *)

LEMMA ChunksNext ==
  ASSUME NEW m \in Seq(AnEvent)
  PROVE  /\ Chunks(m) = <<>> => m = <<>>
         /\ m # <<>> => /\ m[1] \in AnEvent /\ Tail(m) \in Seq(AnEvent)
                        /\ m = <<m[1]>> \o Tail(m)
                        /\ Head(Chunks(m)) = Pieces(m[1])
                        /\ Tail(Chunks(m)) = Chunks(Tail(m))
<1> DEFINE c == Chunks(m)
           T == Seq(Piece)
<1>1. c \in Seq(T) /\ Len(c) = Len(m) /\ Len(m) \in Nat
  BY ChunksType
<1>2. \A i \in 1 .. Len(m) : c[i] = Pieces(m[i])
  BY DEF Chunks
<1> HIDE DEF c, T
<1>3. c = <<>> => m = <<>>
  BY <1>1
<1>4. ASSUME m # <<>>
      PROVE  /\ m[1] \in AnEvent /\ Tail(m) \in Seq(AnEvent) /\ m = <<m[1]>> \o Tail(m)
             /\ Head(c) = Pieces(m[1]) /\ Tail(c) = Chunks(Tail(m))
  <2> DEFINE n == Tail(m)
             d == Chunks(n)
             k == Tail(c)
  <2>1. /\ m[1] \in AnEvent /\ n \in Seq(AnEvent) /\ m = <<m[1]>> \o n
        /\ Len(n) = Len(m) - 1 /\ 1 \in 1 .. Len(m)
        /\ \A i \in 1 .. Len(n) : n[i] = m[i + 1]
    <3>1. m[1] \in AnEvent /\ n \in Seq(AnEvent) /\ Len(n) = Len(m) - 1 /\ 1 \in 1 .. Len(m)
      BY <1>4
    <3>2. \A i \in 1 .. Len(n) : n[i] = m[i + 1]
      BY <1>4
    <3>3. m = <<m[1]>> \o n
      BY <1>4
    <3>4. QED
      BY <3>1, <3>2, <3>3
  <2>2. Len(c) # 0
    BY <1>1, <1>4
  <2>3. Head(c) = c[1] /\ k \in Seq(T) /\ Len(k) = Len(c) - 1
        /\ \A i \in 1 .. Len(k) : k[i] = c[i + 1]
    BY <1>1, <2>2
  <2> HIDE DEF n
  <2>4. d \in Seq(T) /\ Len(d) = Len(n)
    BY <2>1, ChunksType DEF T
  <2>5. \A i \in 1 .. Len(n) : d[i] = Pieces(n[i])
    BY DEF Chunks
  <2> HIDE DEF d, k
  <2>6. ASSUME NEW i \in 1 .. Len(k) PROVE k[i] = d[i]
    <3>1. i \in 1 .. Len(n) /\ i + 1 \in 1 .. Len(m)
      BY <1>1, <2>1, <2>3
    <3>2. k[i] = c[i + 1] /\ c[i + 1] = Pieces(m[i + 1])
      BY <1>2, <2>3, <3>1
    <3>3. d[i] = Pieces(n[i]) /\ n[i] = m[i + 1]
      BY <2>1, <2>5, <3>1
    <3>4. QED
      BY <3>2, <3>3
  <2>7. Len(k) = Len(d)
    BY <1>1, <2>1, <2>3, <2>4
  <2>8. k = d
    BY <2>3, <2>4, <2>6, <2>7
  <2>9. Head(c) = Pieces(m[1])
    BY <1>2, <2>1, <2>3
  <2>10. QED
    BY <2>1, <2>8, <2>9 DEF k, d, n
<1>5. QED
  BY <1>3, <1>4 DEF c

LEMMA ChunksOne ==
  ASSUME NEW e \in AnEvent
  PROVE  Chunks(<<e>>) = <<Pieces(e)>> /\ Chunks(<<>>) = <<>>
<1> DEFINE one == <<e>>
           p == Pieces(e)
           c == Chunks(one)
           d == <<p>>
           T == Seq(Piece)
<1>1. one \in Seq(AnEvent) /\ Len(one) = 1 /\ one[1] = e
  OBVIOUS
<1>2. p \in T
  BY PiecesType
<1> HIDE DEF one, T
<1>3. c \in Seq(T) /\ Len(c) = 1
  BY <1>1, ChunksType DEF T
<1>4. c[1] = p
  BY <1>1 DEF Chunks
<1> HIDE DEF c, p
<1>5. d \in Seq(T) /\ Len(d) = 1 /\ d[1] = p
  BY <1>2
<1> HIDE DEF d
<1>6. \A i \in 1 .. 1 : c[i] = d[i]
  BY <1>4, <1>5
<1>7. c = d
  BY <1>3, <1>5, <1>6
<1>8. <<>> \in Seq(AnEvent) /\ Len(<<>>) = 0
  OBVIOUS
<1>9. Chunks(<<>>) \in Seq(T) /\ Len(Chunks(<<>>)) = Len(<<>>)
  BY <1>8, ChunksType DEF T
<1>10. Chunks(<<>>) = <<>>
  BY <1>8, <1>9
<1>11. QED
  BY <1>7, <1>10 DEF c, d, one, p

(* The bytes p are what waits in the queue of chunks. *)
Waiting(queue, p) ==
  IF script.provider = "openai" THEN queue = <<p>> \/ (queue = <<>> /\ p = <<>>)
  ELSE \E m \in Seq(WholeEvent) : queue = Chunks(m) /\ p = Bytes(m)

LEMMA NothingWaits ==
  ASSUME NEW p \in Seq(WholePiece)
  PROVE  /\ Waiting(<<>>, p) => p = <<>>
         /\ Waiting(<<>>, <<>>)
<1>1. CASE script.provider = "openai"
  <2>1. <<>> # <<p>>
    OBVIOUS
  <2>2. QED
    BY <1>1, <2>1 DEF Waiting
<1>2. CASE script.provider # "openai"
  <2>1. ASSUME Waiting(<<>>, p) PROVE p = <<>>
    <3>1. PICK m \in Seq(WholeEvent) : <<>> = Chunks(m) /\ p = Bytes(m)
      BY <1>2, <2>1 DEF Waiting
    <3>2. m = <<>>
      BY <3>1, ChunksNext, WholeIsSeq
    <3>3. QED
      BY <3>1, <3>2, BytesNothing
  <2>2. Waiting(<<>>, <<>>)
    <3>1. <<>> \in Seq(WholeEvent)
      OBVIOUS
    <3>2. \E e : e \in AnEvent
      BY EventMade
    <3>3. Chunks(<<>>) = <<>>
      BY <3>2, ChunksOne
    <3>4. QED
      BY <1>2, <3>1, <3>3, BytesNothing DEF Waiting
  <2>3. QED
    BY <2>1, <2>2
<1>3. QED
  BY <1>1, <1>2

LEMMA NextWaits ==
  ASSUME NEW queue, queue # <<>>, NEW p \in Seq(WholePiece), Waiting(queue, p)
  PROVE  /\ Head(queue) \in Seq(WholePiece)
         /\ \E q \in Seq(WholePiece) : p = Head(queue) \o q /\ Waiting(Tail(queue), q)
<1>1. CASE script.provider = "openai"
  <2>1. queue = <<p>>
    BY <1>1 DEF Waiting
  <2>2. Head(queue) = p /\ Tail(queue) = <<>> /\ p = p \o <<>> /\ <<>> \in Seq(WholePiece)
    BY <2>1
  <2>3. Waiting(<<>>, <<>>)
    BY NothingWaits
  <2>4. QED
    BY <2>2, <2>3
<1>2. CASE script.provider # "openai"
  <2>1. PICK m \in Seq(WholeEvent) : queue = Chunks(m) /\ p = Bytes(m)
    BY <1>2 DEF Waiting
  <2>2. m \in Seq(AnEvent)
    BY WholeIsSeq
  <2>3. m # <<>>
    <3>1. ASSUME m = <<>> PROVE FALSE
      <4>1. \E e : e \in AnEvent
        BY EventMade
      <4>2. Chunks(<<>>) = <<>>
        BY <4>1, ChunksOne
      <4>3. QED
        BY <2>1, <3>1, <4>2
    <3>2. QED
      BY <3>1
  <2> DEFINE e == m[1]
             n == Tail(m)
  <2>4. e \in AnEvent /\ n \in Seq(AnEvent) /\ m = <<e>> \o n
        /\ Head(queue) = Pieces(e) /\ Tail(queue) = Chunks(n)
    BY <2>1, <2>2, <2>3, ChunksNext
  <2>5. e \in WholeEvent /\ n \in Seq(WholeEvent)
    BY <2>3
  <2> HIDE DEF e, n
  <2>6. <<e>> \in Seq(AnEvent) /\ <<e>> \in Seq(WholeEvent)
    BY <2>4, <2>5
  <2>7. Bytes(<<e>> \o n) = Bytes(<<e>>) \o Bytes(n)
    BY <2>4, <2>6, BytesConcat
  <2>8. Bytes(<<e>>) = Pieces(e)
    BY <2>4, BytesOne
  <2>9. p = Head(queue) \o Bytes(n)
    BY <2>1, <2>4, <2>7, <2>8
  <2>10. Bytes(n) \in Seq(WholePiece) /\ Bytes(<<e>>) \in Seq(WholePiece)
    BY <2>5, <2>6, BytesWhole
  <2>11. Waiting(Tail(queue), Bytes(n))
    BY <1>2, <2>4, <2>5 DEF Waiting
  <2>12. QED
    BY <2>4, <2>8, <2>9, <2>10, <2>11
<1>3. QED
  BY <1>1, <1>2

-----------------------------------------------------------------------------
(* What has passed each generator is a function of what has arrived. *)

Arrived == SubSeq(Bytes(script.events), 1, sent)
Fed == Drain(<<>>, Arrived)
Made == Translation(0, FALSE, Fed.events)
Spoken == Made.out \o IF upstream = "ended" THEN <<Plain("done")>> ELSE <<>>
Source == IF script.provider = "openai" THEN Arrived ELSE Bytes(Spoken)

(* The translation from the Anthropic format, *)
Reading ==
  /\ script.provider = "anthropic" =>
       bufIn = Fed.buf /\ input = Made.input /\ roleSent = Made.roleSent
  /\ upstream = "ended" => sent = Len(Bytes(script.events))

(* tap_stream, which has read t, *)
Counted(t) ==
  LET events == Drain(<<>>, t).events
      usages == Of({"usage"}, events)
  IN  /\ bufTap = Drain(<<>>, t).buf
      /\ gotUsage <=> usages # <<>>
      /\ usage = IF usages = <<>> THEN [in |-> 0, out |-> 0]
                 ELSE [in |-> Last(usages).in, out |-> Last(usages).out]
      /\ chars = CharsPerDelta * Len(Of({"delta"}, events))

(* and the translation for the client, with what the client has of it. *)
Passed(t) ==
  LET events == Drain(<<>>, t).events
      usages == Of({"usage"}, events)
  IN  /\ Flows(IF format = "openai" THEN t ELSE Of(Forwarded, events))
      /\ format # "openai" =>
           /\ bufOut = Drain(<<>>, t).buf
           /\ told = IF usages = <<>> THEN 0 ELSE Last(usages).out

Relayed ==
  \E t, p \in Seq(WholePiece) :
    t \o p = Source /\ Waiting(mid, p) /\ Counted(t) /\ Passed(t)

(* What has arrived is a beginning of what the provider says. *)
FedIs(b) ==
  LET d == Drain(<<>>, b)
      t == Translation(0, FALSE, d.events)
  IN  /\ d.buf \in Seq(Piece) /\ d.events \in Seq(WholeEvent)
      /\ t \in Translating /\ t.out \in Seq(WholeEvent)

LEMMA FedType ==
  ASSUME NEW e \in Seq(WholeEvent), NEW b \in Seq(Piece), NEW c \in Seq(Piece), b \o c = Bytes(e)
  PROVE  /\ FedIs(b)
         /\ \E z \in Seq(AnEvent) : Drain(<<>>, b).events \o z = e
<1> DEFINE d == Drain(<<>>, b)
           f == Drain(d.buf, c)
           t == Translation(0, FALSE, d.events)
<1>1. <<>> \in Seq(Piece) /\ e \in Seq(AnEvent)
  BY WholeIsSeq
<1>2. d.buf \in Seq(Piece) /\ d.events \in Seq(AnEvent)
  BY <1>1, DrainType DEF DrainFine
<1>3. f.events \in Seq(AnEvent)
  BY <1>2, DrainType DEF DrainFine
<1>4. Drain(<<>>, b \o c) = Then(d, f)
  BY <1>1, DrainConcat
<1>5. DecodesTo(Bytes(e), e)
  BY <1>1, DecodeWhole
<1> HIDE DEF d, f
<1>6. d.events \o f.events = e
  <2>1. Then(d, f).events = d.events \o f.events
    BY DEF Then
  <2>2. Drain(<<>>, b \o c).events = e
    BY <1>5 DEF DecodesTo
  <2>3. QED
    BY <1>4, <2>1, <2>2
<1>7. d.events \in Seq(WholeEvent)
  BY <1>2, <1>3, <1>6, PartsOf
<1>8. 0 \in Nat /\ FALSE \in BOOLEAN
  OBVIOUS
<1>9. t \in Translating
  BY <1>2, <1>8, TranslationType
<1>10. t.out \in Seq(WholeEvent)
  BY <1>7, <1>8, TranslationWhole
<1> HIDE DEF t
<1>11. FedIs(b)
  BY <1>2, <1>7, <1>9, <1>10 DEF FedIs, d, t
<1>12. QED
  BY <1>3, <1>6, <1>11 DEF d

LEMMA ArrivedAt ==
  ASSUME Whole, NEW s \in Scripts, NEW k \in 0 .. Len(Bytes(s.events))
  PROVE  LET b == Bytes(s.events)
             a == SubSeq(b, 1, k)
         IN  /\ s.events \in Seq(WholeEvent) /\ b \in Seq(WholePiece)
             /\ a \in Seq(WholePiece) /\ FedIs(a)
             /\ \E z \in Seq(AnEvent) : Drain(<<>>, a).events \o z = s.events
             /\ k = Len(b) => a = b /\ Drain(<<>>, a).events = s.events
<1> DEFINE e == s.events
           b == Bytes(e)
           n == Len(b)
           a == SubSeq(b, 1, k)
           rest == SubSeq(b, k + 1, n)
<1>1. k \in 0 .. n
  OBVIOUS
<1>2. e \in Seq(WholeEvent) /\ e \in Seq(AnEvent)
  BY WholeScript, WholeIsSeq
<1>3. b \in Seq(WholePiece)
  BY <1>2, BytesWhole
<1>4. DecodesTo(b, e)
  BY <1>2, DecodeWhole
<1> HIDE DEF b, e
<1>5. a \in Seq(WholePiece) /\ rest \in Seq(WholePiece) /\ a \o rest = b
  <2>1. n \in Nat /\ k \in Nat /\ n - k \in Nat /\ k + (n - k) = n
    BY <1>1, <1>3
  <2> DEFINE j == n - k
  <2>2. j \in Nat /\ k + j = n
    BY <2>1
  <2> HIDE DEF j
  <2>3. SubSeq(b, 1, k) \in Seq(WholePiece) /\ SubSeq(b, k + 1, k + j) \in Seq(WholePiece)
        /\ SubSeq(b, 1, k + j) = SubSeq(b, 1, k) \o SubSeq(b, k + 1, k + j)
    BY <1>3, <2>1, <2>2, SubSeqMore
  <2>4. SubSeq(b, 1, n) = b
    BY <1>3, SubSeqAll
  <2>5. QED
    BY <2>2, <2>3, <2>4
<1>6. k = n => a = b
  BY <1>3, SubSeqAll
<1> HIDE DEF a, rest
<1>7. a \in Seq(Piece) /\ rest \in Seq(Piece)
  BY <1>5, WholeIsSeq
<1>8. FedIs(a) /\ \E z \in Seq(AnEvent) : Drain(<<>>, a).events \o z = e
  BY <1>2, <1>5, <1>7, FedType DEF b
<1>9. k = n => Drain(<<>>, a).events = e
  BY <1>4, <1>6 DEF DecodesTo
<1>10. QED
  BY <1>2, <1>3, <1>5, <1>6, <1>8, <1>9 DEF a, b, e

LEMMA ArrivedIs ==
  ASSUME Whole, Typed
  PROVE  /\ Arrived \in Seq(WholePiece) /\ FedIs(Arrived)
         /\ script.events \in Seq(WholeEvent)
         /\ \E z \in Seq(AnEvent) : Fed.events \o z = script.events
         /\ sent = Len(Bytes(script.events)) =>
              Arrived = Bytes(script.events) /\ Fed.events = script.events
<1>1. script \in Scripts /\ sent \in 0 .. Len(Bytes(script.events))
  BY DEF Typed, TypeOK
<1>2. QED
  BY <1>1, ArrivedAt DEF Arrived, Fed

LEMMA DoneIs ==
  /\ Plain("done") \in WholeEvent /\ <<Plain("done")>> \in Seq(WholeEvent)
  /\ <<>> \in Seq(WholeEvent)
<1>1. Plain("done") \in AnEvent
  BY EventMade DEF Plain
<1>2. ~Plain("done").cut
  BY DEF Plain, Event
<1>3. Plain("done") \in WholeEvent
  BY <1>1, <1>2 DEF WholeEvent
<1>4. QED
  BY <1>3

LEMMA SourceType ==
  ASSUME Whole, Typed
  PROVE  Spoken \in Seq(WholeEvent) /\ Source \in Seq(WholePiece)
<1>1. Arrived \in Seq(WholePiece) /\ FedIs(Arrived)
  BY ArrivedIs
<1>2. Made.out \in Seq(WholeEvent)
  BY <1>1 DEF FedIs, Made, Fed
<1>3. Spoken \in Seq(WholeEvent)
  BY <1>2, DoneIs DEF Spoken
<1>4. Bytes(Spoken) \in Seq(WholePiece)
  BY <1>3, BytesWhole
<1>5. QED
  BY <1>1, <1>3, <1>4 DEF Source

(* No more than the queue changes the tap and the client's side. *)
LEMMA StillPassed ==
  ASSUME NEW t, Counted(t), Passed(t),
         UNCHANGED <<format, bufTap, usage, gotUsage, chars, bufOut, told, got, out, status>>
  PROVE  Counted(t)' /\ Passed(t)'
BY DEF Counted, Passed, Flows, Forwarded, Opening, Closing, Ended

LEMMA InitRelayed ==
  ASSUME Whole, Init
  PROVE  Reading /\ Relayed
<1>1. /\ script \in Scripts /\ sent = 0 /\ upstream = "open" /\ mid = <<>>
      /\ bufIn = <<>> /\ input = 0 /\ roleSent = FALSE
      /\ bufTap = <<>> /\ usage = [in |-> 0, out |-> 0] /\ gotUsage = FALSE /\ chars = 0
      /\ bufOut = <<>> /\ told = 0 /\ out = Opening /\ got = <<>> /\ status = "open"
  BY DEF Init
<1>2. Bytes(script.events) \in Seq(Piece)
  BY <1>1, ScriptIs
<1>3. Arrived = <<>>
  BY <1>1, <1>2, SubSeqAll DEF Arrived
<1>4. Drain(<<>>, <<>>) = [buf |-> <<>>, events |-> <<>>]
  BY DrainNothing
<1>5. Fed.buf = <<>> /\ Fed.events = <<>>
  BY <1>3, <1>4 DEF Fed
<1>6. Made = [input |-> 0, roleSent |-> FALSE, out |-> <<>>]
  BY <1>5, TranslationNothing, Zenon DEF Made
<1>7. Made.input = 0 /\ Made.roleSent = FALSE /\ Made.out = <<>>
  BY <1>6
<1>8. Reading
  BY <1>1, <1>5, <1>7 DEF Reading
<1>9. Spoken = <<>>
  BY <1>1, <1>7 DEF Spoken
<1>10. Source = <<>>
  BY <1>3, <1>9, BytesNothing DEF Source
<1>11. \A types : Of(types, <<>>) = <<>>
  BY OfNothing
<1>12. Drain(<<>>, <<>>).buf = <<>> /\ Drain(<<>>, <<>>).events = <<>>
  BY <1>4
<1>13. Counted(<<>>)
  <2>1. CharsPerDelta * Len(<<>>) = 0
    BY RelayAssumption
  <2>2. QED
    BY <1>1, <1>11, <1>12, <2>1 DEF Counted
<1>14. Flows(<<>>)
  <2>1. Opening \in Seq(Shown)
    BY OpeningType
  <2>2. got \o out = Opening \o <<>>
    BY <1>1, <2>1, ConcatNothing
  <2>3. QED
    BY <1>1, <2>2 DEF Flows, Ended
<1>15. Passed(<<>>)
  BY <1>1, <1>11, <1>12, <1>14 DEF Passed
<1>16. <<>> \in Seq(WholePiece) /\ <<>> \o <<>> = <<>>
  OBVIOUS
<1>17. Waiting(mid, <<>>)
  BY <1>1, <1>16, NothingWaits
<1>18. QED
  BY <1>8, <1>10, <1>13, <1>15, <1>16, <1>17 DEF Relayed

LEMMA ReceiveRelayed ==
  ASSUME Whole, Typed, Reading, Relayed, NEW n \in 1 .. Len(Bytes(script.events)), Receive(n)
  PROVE  Reading' /\ Relayed'
<1> DEFINE b == Bytes(script.events)
           chunk == SubSeq(b, sent + 1, sent + n)
<1>1. /\ upstream = "open" /\ mid = <<>> /\ sent + n <= Len(b) /\ sent' = sent + n
      /\ script' = script /\ upstream' = upstream
      /\ UNCHANGED <<format, bufTap, usage, gotUsage, chars, bufOut, told, got, out, status>>
  BY DEF Receive, Starved
<1>2. IF script.provider = "anthropic" THEN FromAnthropic(chunk)
      ELSE mid' = <<chunk>> /\ UNCHANGED <<bufIn, input, roleSent>>
  BY DEF Receive
<1>3. script \in Scripts /\ sent \in 0 .. Len(b)
  BY DEF Typed, TypeOK
<1>4. script.provider \in {"openai", "anthropic"}
  BY <1>3, ScriptIs
<1>5. b \in Seq(WholePiece) /\ Arrived \in Seq(WholePiece) /\ FedIs(Arrived)
  BY <1>3, ArrivedAt DEF Arrived
<1>6. n \in Nat /\ sent \in Nat /\ sent + n \in 0 .. Len(b)
  BY <1>1, <1>3, <1>5
<1>7. Arrived' = SubSeq(b, 1, sent + n)
  BY <1>1 DEF Arrived
<1>8. chunk \in Seq(WholePiece) /\ Arrived' = Arrived \o chunk
  BY <1>1, <1>5, <1>6, <1>7, SubSeqMore DEF Arrived
<1>9. FedIs(Arrived')
  BY <1>3, <1>6, <1>7, ArrivedAt
<1>10. PICK t, p \in Seq(WholePiece) :
         t \o p = Source /\ Waiting(mid, p) /\ Counted(t) /\ Passed(t)
  BY DEF Relayed
<1>11. t = Source
  <2>1. p = <<>>
    BY <1>1, <1>10, NothingWaits
  <2>2. QED
    BY <1>10, <2>1
<1>12. Counted(t)' /\ Passed(t)'
  BY <1>1, <1>10, StillPassed
<1> HIDE DEF b, chunk
<1>13. CASE script.provider = "openai"
  <2>1. Source' = t \o chunk
    BY <1>1, <1>8, <1>11, <1>13 DEF Source
  <2>2. mid' = <<chunk>>
    BY <1>2, <1>13
  <2>3. PICK p2 \in Seq(WholePiece) : p2 = chunk
    BY <1>8
  <2>4. Waiting(mid, p2)'
    BY <1>1, <1>13, <2>2, <2>3 DEF Waiting
  <2>41. Relayed'
    BY <1>12, <2>1, <2>3, <2>4 DEF Relayed
  <2>5. Reading'
    BY <1>1, <1>13 DEF Reading
  <2>6. QED
    BY <2>5, <2>41
<1>14. CASE script.provider = "anthropic"
  <2> DEFINE r == Drain(Fed.buf, chunk)
             new == Translation(Made.input, Made.roleSent, r.events)
  <2>1. bufIn = Fed.buf /\ input = Made.input /\ roleSent = Made.roleSent
    BY <1>14 DEF Reading
  <2>2. FromAnthropic(chunk)
    BY <1>2, <1>14
  <2>3. Read(bufIn, chunk) = r
    BY <1>8, <2>1, ReadWhole
  <2>4. bufIn' = r.buf /\ input' = new.input /\ roleSent' = new.roleSent /\ mid' = Chunks(new.out)
    BY <2>1, <2>2, <2>3 DEF FromAnthropic
  <2>5. Fed.buf \in Seq(Piece) /\ Fed.events \in Seq(WholeEvent) /\ Fed.events \in Seq(AnEvent)
        /\ Made \in Translating /\ Made.out \in Seq(WholeEvent)
    BY <1>5, WholeIsSeq DEF FedIs, Fed, Made
  <2>6. Made.input \in Nat /\ Made.roleSent \in BOOLEAN
    BY <2>5 DEF Translating
  <2>7. Arrived \in Seq(Piece) /\ chunk \in Seq(Piece) /\ <<>> \in Seq(Piece)
    BY <1>5, <1>8, WholeIsSeq
  <2>8. Drain(<<>>, Arrived \o chunk) = Then(Fed, r)
    BY <2>7, DrainConcat DEF Fed
  <2>9. Fed' = Then(Fed, r)
    BY <1>8, <2>8 DEF Fed
  <2>10. r.events \in Seq(AnEvent)
    BY <2>5, <2>7, DrainType DEF DrainFine
  <2>11. Fed'.buf = r.buf /\ Fed'.events = Fed.events \o r.events
    <3> HIDE DEF r
    <3>1. QED
      BY <2>9 DEF Then
  <2>12. Fed'.events \in Seq(WholeEvent)
    BY <1>9 DEF FedIs, Fed
  <2> HIDE DEF r
  <2>13. r.events \in Seq(WholeEvent)
    BY <2>5, <2>10, <2>11, <2>12, PartsOf
  <2>14. new.out \in Seq(WholeEvent)
    BY <2>6, <2>13, TranslationWhole
  <2>15. 0 \in Nat /\ FALSE \in BOOLEAN
    OBVIOUS
  <2>16. Translation(0, FALSE, Fed.events \o r.events) = After(Made, new)
    BY <2>5, <2>10, <2>15, TranslationConcat DEF Made
  <2>17. Made' = After(Made, new)
    BY <2>11, <2>16 DEF Made
  <2> HIDE DEF new
  <2>18. Made'.input = new.input /\ Made'.roleSent = new.roleSent
         /\ Made'.out = Made.out \o new.out
    BY <2>17 DEF After
  <2>19. Reading'
    BY <1>1, <2>4, <2>11, <2>18 DEF Reading
  <2>20. Spoken = Made.out /\ Spoken' = Made.out \o new.out
    <3>1. Made.out \o <<>> = Made.out
      BY <2>5
    <3>2. Spoken = Made.out \o <<>>
      BY <1>1 DEF Spoken
    <3>3. Made.out \o new.out \in Seq(WholeEvent)
      BY <2>5, <2>14
    <3>4. (Made.out \o new.out) \o <<>> = Made.out \o new.out
      BY <3>3, ConcatNothing
    <3>5. Spoken' = Made'.out \o <<>>
      BY <1>1 DEF Spoken
    <3>6. QED
      BY <2>18, <3>1, <3>2, <3>4, <3>5
  <2>21. Made.out \in Seq(AnEvent) /\ new.out \in Seq(AnEvent)
    BY <2>5, <2>14, WholeIsSeq
  <2>22. Bytes(Made.out \o new.out) = Bytes(Made.out) \o Bytes(new.out)
    BY <2>21, BytesConcat
  <2>23. Source = Bytes(Spoken) /\ Source' = Bytes(Spoken')
    BY <1>1, <1>14 DEF Source
  <2>24. Source' = t \o Bytes(new.out)
    BY <1>11, <2>20, <2>22, <2>23
  <2>25. Bytes(new.out) \in Seq(WholePiece)
    BY <2>14, BytesWhole
  <2>26. PICK m \in Seq(WholeEvent), p2 \in Seq(WholePiece) : m = new.out /\ p2 = Bytes(m)
    BY <2>14, <2>25
  <2>27. Waiting(mid, p2)'
    BY <1>1, <1>14, <2>4, <2>26 DEF Waiting
  <2>271. Relayed'
    BY <1>12, <2>24, <2>26, <2>27 DEF Relayed
  <2>28. QED
    BY <2>19, <2>271
<1>15. QED
  BY <1>4, <1>13, <1>14

LEMMA EndRelayed ==
  ASSUME Whole, Typed, Reading, Relayed, UpstreamEnds
  PROVE  Reading' /\ Relayed'
<1>1. /\ upstream = "open" /\ mid = <<>> /\ sent = Len(Bytes(script.events))
      /\ upstream' = "ended"
      /\ mid' = IF script.provider = "anthropic" THEN <<Pieces(Plain("done"))>> ELSE <<>>
      /\ UNCHANGED <<script, sent, bufIn, input, roleSent>>
      /\ UNCHANGED <<format, bufTap, usage, gotUsage, chars, bufOut, told, got, out, status>>
  BY DEF UpstreamEnds, Starved
<1>2. script.provider \in {"openai", "anthropic"}
  BY ScriptIs DEF Typed, TypeOK
<1>3. Arrived' = Arrived /\ Fed' = Fed /\ Made' = Made
  BY <1>1 DEF Arrived, Fed, Made
<1>4. Reading'
  BY <1>1, <1>3 DEF Reading
<1>5. PICK t, p \in Seq(WholePiece) :
        t \o p = Source /\ Waiting(mid, p) /\ Counted(t) /\ Passed(t)
  BY DEF Relayed
<1>6. p = <<>>
  BY <1>1, <1>5, NothingWaits
<1>7. t = Source
  BY <1>5, <1>6
<1>8. Counted(t)' /\ Passed(t)'
  BY <1>1, <1>5, StillPassed
<1>9. CASE script.provider = "openai"
  <2>1. Source' = Source
    BY <1>1, <1>3, <1>9 DEF Source
  <2>2. Waiting(mid, p)'
    BY <1>1, <1>6, <1>9 DEF Waiting
  <2>3. Relayed'
    BY <1>5, <1>8, <2>1, <2>2 DEF Relayed
  <2>4. QED
    BY <1>4, <2>3
<1>10. CASE script.provider = "anthropic"
  <2> DEFINE d == Plain("done")
  <2>1. d \in WholeEvent /\ <<d>> \in Seq(WholeEvent) /\ d \in AnEvent /\ <<d>> \in Seq(AnEvent)
    BY DoneIs, WholeIsSeq DEF WholeEvent
  <2>2. Made.out \in Seq(WholeEvent) /\ Made.out \in Seq(AnEvent)
    BY ArrivedIs, WholeIsSeq DEF FedIs, Fed, Made
  <2> HIDE DEF d
  <2>3. Spoken = Made.out /\ Spoken' = Made.out \o <<d>>
    BY <1>1, <1>3, <2>2 DEF Spoken, d
  <2>4. Bytes(Made.out \o <<d>>) = Bytes(Made.out) \o Bytes(<<d>>)
    BY <2>1, <2>2, BytesConcat
  <2>5. Source' = t \o Bytes(<<d>>)
    BY <1>1, <1>7, <1>10, <2>3, <2>4 DEF Source
  <2>6. Bytes(<<d>>) \in Seq(WholePiece)
    BY <2>1, BytesWhole
  <2>7. mid' = Chunks(<<d>>)
    BY <1>1, <1>10, <2>1, ChunksOne DEF d
  <2>8. Waiting(mid, Bytes(<<d>>))'
    BY <1>1, <1>10, <2>1, <2>7 DEF Waiting
  <2>9. Relayed'
    BY <1>8, <2>5, <2>6, <2>8 DEF Relayed
  <2>10. QED
    BY <1>4, <2>9
<1>11. QED
  BY <1>2, <1>9, <1>10

(* One more chunk through a reader: what it leaves and what it has found of some types. *)
ReadsOn(t, c, types) ==
  LET d == Drain(<<>>, t)
      e == Drain(d.buf, c)
      all == Drain(<<>>, t \o c)
  IN  /\ all.buf = e.buf /\ Read(d.buf, c) = e
      /\ e.events \in Seq(AnEvent)
      /\ Of(types, all.events) = Of(types, d.events) \o Of(types, e.events)
      /\ Of(types, d.events) \in Seq(AnEvent) /\ Of(types, e.events) \in Seq(AnEvent)

LEMMA ReadOn ==
  ASSUME NEW t \in Seq(WholePiece), NEW c \in Seq(WholePiece), NEW types
  PROVE  ReadsOn(t, c, types)
<1> DEFINE d == Drain(<<>>, t)
           e == Drain(d.buf, c)
           all == Drain(<<>>, t \o c)
<1>1. t \in Seq(Piece) /\ c \in Seq(Piece) /\ <<>> \in Seq(Piece)
  BY WholeIsSeq
<1>2. d.buf \in Seq(Piece) /\ d.events \in Seq(AnEvent)
  BY <1>1, DrainType DEF DrainFine
<1>3. e.events \in Seq(AnEvent)
  BY <1>1, <1>2, DrainType DEF DrainFine
<1>4. all = Then(d, e)
  BY <1>1, DrainConcat
<1>5. Read(d.buf, c) = e
  BY ReadWhole
<1> HIDE DEF d, e, all
<1>6. all.buf = e.buf /\ all.events = d.events \o e.events
  BY <1>4 DEF Then
<1>7. Of(types, d.events \o e.events) = Of(types, d.events) \o Of(types, e.events)
  BY <1>2, <1>3, OfConcat
<1>8. Of(types, d.events) \in Seq(AnEvent) /\ Of(types, e.events) \in Seq(AnEvent)
  BY <1>2, <1>3, OfType DEF OfFine
<1> DEFINE F == ReadsOn(t, c, types)
<1>9. F
  BY <1>3, <1>5, <1>6, <1>7, <1>8 DEF ReadsOn, d, e, all
<1>10. QED
  BY <1>9

LEMMA TapOn ==
  ASSUME Typed, NEW t \in Seq(WholePiece), NEW c \in Seq(WholePiece), NEW s,
         s = t \o c, Counted(t), Tap(c)
  PROVE  Counted(s)'
<1> DEFINE d == Drain(<<>>, t)
           e == Drain(d.buf, c)
           all == Drain(<<>>, s)
           us == Of({"usage"}, d.events)
           us2 == Of({"usage"}, e.events)
           us3 == Of({"usage"}, all.events)
           ds == Of({"delta"}, d.events)
           ds2 == Of({"delta"}, e.events)
           ds3 == Of({"delta"}, all.events)
           last(x) == [in |-> Last(x).in, out |-> Last(x).out]
<1>1. /\ all.buf = e.buf /\ Read(d.buf, c) = e
      /\ us3 = us \o us2 /\ us \in Seq(AnEvent) /\ us2 \in Seq(AnEvent)
  BY ReadOn DEF ReadsOn
<1>2. ds3 = ds \o ds2 /\ ds \in Seq(AnEvent) /\ ds2 \in Seq(AnEvent)
  BY ReadOn DEF ReadsOn
<1>3. /\ bufTap = d.buf /\ (gotUsage <=> us # <<>>)
      /\ usage = IF us = <<>> THEN [in |-> 0, out |-> 0] ELSE last(us)
      /\ chars = CharsPerDelta * Len(ds)
  BY DEF Counted
<1>4. /\ bufTap' = e.buf
      /\ usage' = IF us2 = <<>> THEN usage ELSE last(us2)
      /\ gotUsage' = (gotUsage \/ us2 # <<>>)
      /\ chars' = chars + CharsPerDelta * Len(ds2)
  <2>1. Read(bufTap, c) = e
    BY <1>1, <1>3
  <2> HIDE DEF e, d
  <2>2. QED
    BY <2>1 DEF Tap
<1> HIDE DEF d, e, all, us, us2, us3, ds, ds2, ds3
<1>5. /\ us2 # <<>> => us3 # <<>> /\ Last(us3) = Last(us2)
      /\ us2 = <<>> => us3 = us
  BY <1>1, LastConcat
<1>6. usage' = IF us3 = <<>> THEN [in |-> 0, out |-> 0] ELSE last(us3)
  <2>1. CASE us2 = <<>>
    BY <1>3, <1>4, <1>5, <2>1
  <2>2. CASE us2 # <<>>
    BY <1>4, <1>5, <2>2
  <2>3. QED
    BY <2>1, <2>2
<1>7. gotUsage' <=> us3 # <<>>
  <2>1. CASE us2 = <<>>
    <3>1. us3 = us
      BY <1>5, <2>1
    <3>2. gotUsage' <=> gotUsage
      BY <1>4, <2>1, Zenon
    <3>3. QED
      BY <1>3, <3>1, <3>2, Zenon
  <2>2. CASE us2 # <<>>
    <3>1. us3 # <<>>
      BY <1>5, <2>2
    <3>2. gotUsage'
      BY <1>4, <2>2, Zenon
    <3>3. QED
      BY <3>1, <3>2, Zenon
  <2>3. QED
    BY <2>1, <2>2
<1>8. chars' = CharsPerDelta * Len(ds3)
  <2>1. Len(ds3) = Len(ds) + Len(ds2) /\ Len(ds) \in Nat /\ Len(ds2) \in Nat
    BY <1>2, Concat
  <2>2. CharsPerDelta \in Nat
    BY RelayAssumption
  <2> DEFINE x == Len(ds)
             y == Len(ds2)
             z == Len(ds3)
  <2> HIDE DEF x, y, z
  <2>3. CharsPerDelta * z = CharsPerDelta * x + CharsPerDelta * y
    BY <2>1, <2>2, Z3 DEF x, y, z
  <2>4. QED
    BY <1>3, <1>4, <2>3 DEF x, y, z
<1>9. bufTap' = all.buf
  BY <1>1, <1>4
<1>10. QED
  BY <1>6, <1>7, <1>8, <1>9 DEF Counted, all, us3, ds3

LEMMA TranslateOn ==
  ASSUME Typed, NEW t \in Seq(WholePiece), NEW c \in Seq(WholePiece), NEW s,
         s = t \o c, Passed(t), Translate(c), out = <<>>, status = "open",
         UNCHANGED <<format, got, status>>
  PROVE  Passed(s)'
<1> DEFINE d == Drain(<<>>, t)
           e == Drain(d.buf, c)
           all == Drain(<<>>, s)
           us == Of({"usage"}, d.events)
           us2 == Of({"usage"}, e.events)
           us3 == Of({"usage"}, all.events)
           fs == Of(Forwarded, d.events)
           fs2 == Of(Forwarded, e.events)
           fs3 == Of(Forwarded, all.events)
           shown(x, y) == IF format = "openai" THEN x ELSE y
<1>1. got \in Seq(Shown) /\ Opening \in Seq(Shown)
  BY OpeningType DEF Typed
<1>2. Opening' = Opening /\ Forwarded' = Forwarded
  BY DEF Opening, Forwarded
<1>3. Flows(shown(t, fs))
  BY DEF Passed
<1>4. got \o out = Opening \o shown(t, fs)
  BY <1>3 DEF Flows, Ended
<1>5. got = Opening \o shown(t, fs)
  <2>1. got \o <<>> = got
    BY <1>1, ConcatNothing
  <2>2. QED
    BY <1>4, <2>1
<1>6. CASE format = "openai"
  <2>1. out' = c
    BY <1>6 DEF Translate
  <2>2. Shown = Piece /\ Opening = <<>>
    BY <1>6 DEF Shown, Opening
  <2>3. t \in Seq(Piece) /\ c \in Seq(Piece)
    BY WholeIsSeq
  <2>4. got = t
    BY <1>5, <1>6, <2>2, <2>3, ConcatNothing
  <2>5. t \o c \in Seq(Piece)
    BY <2>3
  <2>6. got' \o out' = Opening' \o s
    <3>1. <<>> \o (t \o c) = t \o c
      BY <2>5, ConcatNothing
    <3>2. QED
      BY <1>2, <2>1, <2>2, <2>4, <3>1
  <2>7. Flows(s)'
    BY <2>6 DEF Flows, Ended
  <2>8. QED
    BY <1>6, <2>7 DEF Passed
<1>7. CASE format # "openai"
  <2>1. /\ bufOut = d.buf /\ told = IF us = <<>> THEN 0 ELSE Last(us).out
    BY <1>7 DEF Passed
  <2>2. /\ all.buf = e.buf /\ Read(d.buf, c) = e
        /\ us3 = us \o us2 /\ us \in Seq(AnEvent) /\ us2 \in Seq(AnEvent)
    BY ReadOn DEF ReadsOn
  <2>3. fs3 = fs \o fs2 /\ fs \in Seq(AnEvent) /\ fs2 \in Seq(AnEvent)
    BY ReadOn DEF ReadsOn
  <2>4. bufOut' = e.buf /\ told' = (IF us2 = <<>> THEN told ELSE Last(us2).out) /\ out' = fs2
    <3>1. Read(bufOut, c) = e
      BY <2>1, <2>2
    <3> HIDE DEF e, d
    <3>2. QED
      BY <1>7, <3>1 DEF Translate
  <2> HIDE DEF d, e, all, us, us2, us3
  <2>5. /\ us2 # <<>> => us3 # <<>> /\ Last(us3) = Last(us2)
        /\ us2 = <<>> => us3 = us
    BY <2>2, LastConcat
  <2>6. told' = IF us3 = <<>> THEN 0 ELSE Last(us3).out
    <3>1. CASE us2 = <<>>
      BY <2>1, <2>4, <2>5, <3>1
    <3>2. CASE us2 # <<>>
      BY <2>4, <2>5, <3>2
    <3>3. QED
      BY <3>1, <3>2
  <2>7. bufOut' = all.buf
    BY <2>2, <2>4
  <2>8. Shown = AnEvent
    BY <1>7 DEF Shown
  <2> DEFINE o == Opening
  <2>9. o \in Seq(AnEvent) /\ got = o \o fs
    BY <1>1, <1>5, <1>7, <2>8
  <2> HIDE DEF fs, fs2, fs3, o
  <2>10. Chains(o, fs, fs2)
    BY <2>3, <2>9, Chained
  <2>11. (o \o fs) \o fs2 = o \o fs3
    BY <2>3, <2>10 DEF Chains
  <2>12. got' \o out' = Opening' \o fs3
    BY <1>2, <2>4, <2>9, <2>11 DEF o
  <2>13. Passed(s)'
    BY <1>2, <1>7, <2>6, <2>7, <2>12 DEF Passed, Flows, Ended, all, us3, fs3
  <2>14. QED
    BY <2>13
<1>8. QED
  BY <1>6, <1>7

(* What the gateway has read of a finished stream tells what the provider told. *)
Conveys(t) ==
  LET events == Drain(<<>>, t).events
      usages == Of({"usage"}, events)
  IN  /\ Of({"delta"}, events) = Of({"delta"}, script.events)
      /\ usages = <<>> <=> Reports = <<>>
      /\ usages # <<>> => Last(usages).in = Due.in /\ Last(usages).out = Due.out

LEMMA QuietScript ==
  ASSUME NEW s \in Scripts, s.provider = "anthropic"
  PROVE  Quiet(s.events)
<1> DEFINE e == s.events
<1>1. e \in Seq(AnEvent)
  BY ScriptIs
<1>2. \A i \in DOMAIN e : e[i].type = "message_delta" =>
        \A j \in i .. Len(e) : e[j].type # "message_start"
  BY ScriptsAssumption
<1> HIDE DEF e
<1>3. DOMAIN e = 1 .. Len(e)
  BY <1>1
<1>4. Quiet(e)
  BY <1>2, <1>3 DEF Quiet
<1>5. QED
  BY <1>4 DEF e

LEMMA EndTells ==
  ASSUME Whole, Typed, Reading, upstream = "ended"
  PROVE  Conveys(Source)
<1> DEFINE s == script.events
           events == Drain(<<>>, Source).events
           us == Of({"usage"}, events)
           ds == Of({"delta"}, events)
<1>1. script \in Scripts /\ script.provider \in {"openai", "anthropic"}
  BY ScriptIs DEF Typed, TypeOK
<1>2. sent = Len(Bytes(s))
  BY DEF Reading
<1>3. /\ s \in Seq(WholeEvent) /\ s \in Seq(AnEvent)
      /\ Arrived = Bytes(s) /\ Fed.events = s /\ FedIs(Arrived)
  BY <1>2, ArrivedIs, WholeIsSeq
<1>4. CASE script.provider = "openai"
  <2>1. Source = Bytes(s)
    BY <1>3, <1>4 DEF Source
  <2>2. events = s
    BY <1>3, <2>1, DecodeWhole DEF DecodesTo
  <2>3. Reports = Of({"usage"}, s)
    BY <1>4 DEF Reports
  <2>4. us = Reports /\ ds = Of({"delta"}, s)
    BY <2>2, <2>3
  <2> HIDE DEF us, ds
  <2>5. Reports # <<>> => Due.in = Last(Reports).in /\ Due.out = Last(Reports).out
    BY <1>4 DEF Due
  <2>6. QED
    BY <2>4, <2>5 DEF Conveys, us, ds
<1>5. CASE script.provider = "anthropic"
  <2> DEFINE d == Plain("done")
             o == Made.out
             u == Of({"usage"}, o)
             e == Of({"delta"}, o)
  <2>1. /\ o \in Seq(WholeEvent) /\ o \in Seq(AnEvent) /\ <<d>> \in Seq(WholeEvent)
        /\ <<d>> \in Seq(AnEvent)
    BY <1>3, DoneIs, WholeIsSeq DEF FedIs, Fed, Made
  <2>2. Made = Translation(0, FALSE, s)
    BY <1>3 DEF Made
  <2>3. Quiet(s)
    BY <1>1, <1>5, QuietScript
  <2>4. Counts(Made, s)
    BY <1>3, <2>2, <2>3, TranslationCounts
  <2>5. e = Of({"delta"}, s)
    BY <1>3, <2>2, TranslationSays
  <2>6. Spoken = o \o <<d>>
    BY DEF Spoken
  <2>7. d.type = "done"
    BY DEF Plain, Event
  <2> HIDE DEF d, o
  <2>8. o \o <<d>> \in Seq(AnEvent)
    BY <2>1
  <2>9. DecodesTo(Bytes(o \o <<d>>), o \o <<d>>)
    BY <2>8, DecodeWhole
  <2>10. events = o \o <<d>>
    BY <1>5, <2>6, <2>9 DEF Source, DecodesTo
  <2>11. us = u \o Of({"usage"}, <<d>>) /\ ds = e \o Of({"delta"}, <<d>>)
    <3>1. Of({"usage"}, o \o <<d>>) = u \o Of({"usage"}, <<d>>)
      BY <2>1, OfConcat
    <3>2. Of({"delta"}, o \o <<d>>) = e \o Of({"delta"}, <<d>>)
      BY <2>1, OfConcat
    <3>3. QED
      BY <2>10, <3>1, <3>2
  <2>12. Of({"usage"}, <<d>>) = <<>> /\ Of({"delta"}, <<d>>) = <<>>
    BY <2>7, OfOne
  <2>13. u \in Seq(AnEvent) /\ e \in Seq(AnEvent)
    BY <2>1, OfType DEF OfFine
  <2> HIDE DEF us, ds, u, e
  <2>14. us = u /\ ds = e
    <3>1. u \o <<>> = u
      BY <2>13, ConcatNothing
    <3>2. e \o <<>> = e
      BY <2>13, ConcatNothing
    <3>3. QED
      BY <2>11, <2>12, <3>1, <3>2
  <2>15. Reports = Of({"message_delta"}, s) /\ Starts = Of({"message_start"}, s)
    BY <1>5 DEF Reports, Starts
  <2>16. /\ u = <<>> <=> Reports = <<>>
         /\ Made.input = IF Starts = <<>> THEN 0 ELSE Last(Starts).in
         /\ u # <<>> => Last(u).out = Last(Reports).out /\ Last(u).in = Made.input
    BY <2>4, <2>15 DEF Counts, u, o
  <2>17. Reports # <<>> =>
           /\ Due.in = IF Starts = <<>> THEN 0 ELSE Last(Starts).in
           /\ Due.out = Last(Reports).out
    BY <1>5 DEF Due
  <2>18. QED
    BY <2>5, <2>14, <2>16, <2>17 DEF Conveys, us, ds
<1>6. QED
  BY <1>1, <1>4, <1>5

LEMMA TextsLength ==
  ASSUME NEW events \in Seq(AnEvent)
  PROVE  Len(TextsOf(events)) = Len(Of({"delta"}, events))
<1> DEFINE deltas == Of({"delta"}, events)
<1>1. deltas \in Seq(AnEvent)
  BY OfType DEF OfFine
<1>2. TextsOf(events) = [i \in 1 .. Len(deltas) |-> deltas[i].text]
  BY DEF TextsOf
<1> HIDE DEF deltas
<1>3. Len(deltas) \in Nat
  BY <1>1
<1>4. Len([i \in 1 .. Len(deltas) |-> deltas[i].text]) = Len(deltas)
  BY <1>3
<1>5. QED
  BY <1>2, <1>4 DEF deltas

(* The record of a finished stream, and what the client was told. *)
LEMMA RecordIsDue ==
  ASSUME Whole, Typed, Reading, Relayed, upstream = "ended", mid = <<>>
  PROVE  /\ (IF gotUsage THEN usage ELSE [usage EXCEPT !.out = chars \div 4]) = Due
         /\ format = "anthropic" /\ Reports # <<>> => told = Due.out
<1>1. PICK t, p \in Seq(WholePiece) :
        t \o p = Source /\ Waiting(mid, p) /\ Counted(t) /\ Passed(t)
  BY DEF Relayed
<1>2. p = <<>>
  BY <1>1, NothingWaits
<1>3. t = Source
  BY <1>1, <1>2
<1> DEFINE events == Drain(<<>>, t).events
           us == Of({"usage"}, events)
           ds == Of({"delta"}, events)
<1>4. /\ ds = Of({"delta"}, script.events)
      /\ us = <<>> <=> Reports = <<>>
      /\ us # <<>> => Last(us).in = Due.in /\ Last(us).out = Due.out
  BY <1>3, EndTells DEF Conveys
<1>5. /\ gotUsage <=> us # <<>>
      /\ usage = IF us = <<>> THEN [in |-> 0, out |-> 0]
                 ELSE [in |-> Last(us).in, out |-> Last(us).out]
      /\ chars = CharsPerDelta * Len(ds)
  BY <1>1 DEF Counted
<1>6. script.events \in Seq(AnEvent)
  BY ScriptIs DEF Typed, TypeOK
<1>7. Len(TextsOf(script.events)) = Len(ds)
  BY <1>4, <1>6, TextsLength
<1>8. format = "anthropic" => told = IF us = <<>> THEN 0 ELSE Last(us).out
  BY <1>1 DEF Passed
<1> HIDE DEF us, ds
<1>9. CASE us = <<>>
  <2>1. Due = [in |-> 0, out |-> chars \div 4]
    <3>1. Due = [in |-> 0, out |-> (CharsPerDelta * Len(TextsOf(script.events))) \div 4]
      BY <1>4, <1>9, Zenon DEF Due
    <3>2. QED
      BY <1>5, <1>7, <3>1
  <2>2. ~gotUsage /\ usage = [in |-> 0, out |-> 0]
    BY <1>5, <1>9
  <2>3. [usage EXCEPT !.out = chars \div 4] = [in |-> 0, out |-> chars \div 4]
    <3> DEFINE k == chars \div 4
    <3> HIDE DEF k
    <3>1. [usage EXCEPT !.out = k] = [in |-> 0, out |-> k]
      BY <2>2
    <3>2. QED
      BY <3>1 DEF k
  <2>4. QED
    BY <1>4, <1>9, <2>1, <2>2, <2>3
<1>10. CASE us # <<>>
  <2>1. Due = [in |-> Due.in, out |-> Due.out]
    BY <1>4, <1>10 DEF Due
  <2>2. gotUsage /\ usage = Due
    BY <1>4, <1>5, <1>10, <2>1
  <2>3. QED
    BY <1>4, <1>8, <1>10, <2>2
<1>11. QED
  BY <1>9, <1>10

-----------------------------------------------------------------------------
(* Each step keeps all of it. *)

(* A stream that is complete has been recorded, once, with what was due. *)
Booked ==
  \/ records = <<>> /\ ~Ended
  \/ /\ records = <<Due>> /\ status \in {"recorded", "closed", "left"}
     /\ mid = <<>> /\ upstream = "ended"

Intact == Reading /\ Relayed /\ Booked

(* The client may take what is out, or go. *)
Holds ==
  /\ UNCHANGED <<format, told>> /\ got' \o out' = got \o out
  /\ \/ status' = status
     \/ status = "open" /\ status' \in {"broken", "left"}
     \/ status = "recorded" /\ status' \in {"left", "closed"}

LEMMA HoldsFlows ==
  ASSUME NEW d, Flows(d), Holds
  PROVE  Flows(d)'
<1>1. Opening' = Opening /\ Closing' = Closing
  BY DEF Opening, Closing, Holds
<1>2. CASE got \o out = Opening \o d /\ ~Ended
  BY <1>1, <1>2 DEF Flows, Ended, Holds
<1>3. CASE got \o out = (Opening \o d) \o Closing /\ status \in {"recorded", "closed", "left"}
  BY <1>1, <1>3 DEF Flows, Holds
<1>4. QED
  BY <1>2, <1>3 DEF Flows

LEMMA HoldsPassed ==
  ASSUME NEW t, Passed(t), Holds, bufOut' = bufOut
  PROVE  Passed(t)'
<1> DEFINE d == IF format = "openai" THEN t ELSE Of(Forwarded, Drain(<<>>, t).events)
<1>1. Flows(d)
  BY DEF Passed
<1>2. PICK x : x = d
  OBVIOUS
<1>3. Flows(x)'
  BY <1>1, <1>2, HoldsFlows
<1>4. UNCHANGED <<format, told>>
  BY DEF Holds
<1>5. x = d'
  BY <1>2, <1>4 DEF Forwarded
<1>6. Flows(d)'
  BY <1>3, <1>5
<1>7. QED
  BY <1>4, <1>6 DEF Passed

LEMMA DueKept ==
  ASSUME script' = script
  PROVE  Due' = Due
BY DEF Due, Reports, Starts

(* The steps that move nothing between the generators. *)
LEMMA HoldsIntact ==
  ASSUME Intact, Holds,
         UNCHANGED <<script, sent, upstream, relay, records>>
  PROVE  Intact'
<1>1. UNCHANGED <<script, sent, upstream, bufIn, input, roleSent, mid, bufTap, usage, gotUsage,
                  chars, bufOut, told, records>>
  BY DEF relay
<1>2. Arrived' = Arrived /\ Fed' = Fed /\ Made' = Made
  BY <1>1 DEF Arrived, Fed, Made
<1>3. Source' = Source
  BY <1>1, <1>2 DEF Source, Spoken
<1>4. Reading'
  BY <1>1, <1>2 DEF Reading, Intact
<1>5. PICK t, p \in Seq(WholePiece) :
        t \o p = Source /\ Waiting(mid, p) /\ Counted(t) /\ Passed(t)
  BY DEF Relayed, Intact
<1>6. Counted(t)'
  BY <1>1, <1>5 DEF Counted
<1>7. Passed(t)'
  BY <1>1, <1>5, HoldsPassed
<1>8. Waiting(mid, p)'
  BY <1>1, <1>5 DEF Waiting
<1>9. Relayed'
  BY <1>3, <1>5, <1>6, <1>7, <1>8 DEF Relayed
<1>10. Due' = Due
  BY <1>1, DueKept
<1>11. Booked'
  BY <1>1, <1>10 DEF Booked, Intact, Holds, Ended
<1>12. QED
  BY <1>4, <1>9, <1>11 DEF Intact

LEMMA RelayIntact ==
  ASSUME Whole, Typed, Intact, Relay
  PROVE  Intact'
<1>1. /\ status = "open" /\ out = <<>> /\ mid # <<>> /\ mid' = Tail(mid)
      /\ Tap(Head(mid)) /\ Translate(Head(mid))
      /\ UNCHANGED <<script, format, sent, upstream, bufIn, input, roleSent, got, status, records>>
  BY DEF Relay
<1>2. Arrived' = Arrived /\ Fed' = Fed /\ Made' = Made
  BY <1>1 DEF Arrived, Fed, Made
<1>3. Source' = Source
  BY <1>1, <1>2 DEF Source, Spoken
<1>4. Reading'
  BY <1>1, <1>2 DEF Reading, Intact
<1>5. PICK t, p \in Seq(WholePiece) :
        t \o p = Source /\ Waiting(mid, p) /\ Counted(t) /\ Passed(t)
  BY DEF Relayed, Intact
<1>6. PICK c \in Seq(WholePiece), q \in Seq(WholePiece) :
        c = Head(mid) /\ p = c \o q /\ Waiting(Tail(mid), q)
  BY <1>1, <1>5, NextWaits
<1>7. PICK s \in Seq(WholePiece) : s = t \o c
  <2>1. t \o c \in Seq(WholePiece)
    BY Concat
  <2>2. QED
    BY <2>1
<1>8. Counted(s)'
  BY <1>1, <1>5, <1>6, <1>7, TapOn
<1>9. Passed(s)'
  BY <1>1, <1>5, <1>6, <1>7, TranslateOn
<1>10. Waiting(mid, q)'
  BY <1>1, <1>6 DEF Waiting
<1>11. s \o q = Source'
  <2>1. Chains(t, c, q)
    BY Chained
  <2>2. QED
    BY <1>3, <1>5, <1>6, <1>7, <2>1 DEF Chains
<1>12. Relayed'
  BY <1>8, <1>9, <1>10, <1>11 DEF Relayed
<1>13. Booked'
  BY <1>1 DEF Booked, Intact, Ended
<1>14. QED
  BY <1>4, <1>12, <1>13 DEF Intact

LEMMA FinishIntact ==
  ASSUME Whole, Typed, Intact, Finish
  PROVE  Intact'
<1>1. /\ status = "open" /\ out = <<>> /\ mid = <<>> /\ upstream = "ended"
      /\ status' = "recorded" /\ out' = Closing
      /\ records' = Append(records,
           IF gotUsage THEN usage ELSE [usage EXCEPT !.out = chars \div 4])
      /\ UNCHANGED <<script, format, sent, upstream, bufIn, input, roleSent, mid, bufTap, usage,
                     gotUsage, chars, bufOut, told, got>>
  BY DEF Finish, Starved, relay
<1>2. Arrived' = Arrived /\ Fed' = Fed /\ Made' = Made
  BY <1>1 DEF Arrived, Fed, Made
<1>3. Source' = Source
  BY <1>1, <1>2 DEF Source, Spoken
<1>4. Reading'
  BY <1>1, <1>2 DEF Reading, Intact
<1>5. PICK t, p \in Seq(WholePiece) :
        t \o p = Source /\ Waiting(mid, p) /\ Counted(t) /\ Passed(t)
  BY DEF Relayed, Intact
<1>6. Counted(t)'
  BY <1>1, <1>5 DEF Counted
<1>7. Waiting(mid, p)'
  BY <1>1, <1>5 DEF Waiting
<1>8. Passed(t)'
  <2> DEFINE d == IF format = "openai" THEN t ELSE Of(Forwarded, Drain(<<>>, t).events)
  <2>1. Flows(d)
    BY <1>5 DEF Passed
  <2>2. got \o <<>> = Opening \o d
    BY <1>1, <2>1 DEF Flows
  <2>3. got \in Seq(Shown)
    BY DEF Typed
  <2>4. got = Opening \o d
    BY <2>2, <2>3, ConcatNothing
  <2>5. Opening' = Opening /\ Closing' = Closing /\ d' = d
    BY <1>1 DEF Opening, Closing, Forwarded
  <2> HIDE DEF d
  <2>6. got' \o out' = (Opening' \o d') \o Closing'
    BY <1>1, <2>4, <2>5
  <2>7. Flows(d)'
    BY <1>1, <2>6 DEF Flows
  <2>8. QED
    BY <1>1, <1>5, <2>7 DEF Passed, d
<1>9. Relayed'
  BY <1>3, <1>5, <1>6, <1>7, <1>8 DEF Relayed
<1>10. (IF gotUsage THEN usage ELSE [usage EXCEPT !.out = chars \div 4]) = Due
  BY <1>1, RecordIsDue DEF Intact
<1>11. records = <<>>
  BY <1>1 DEF Intact, Booked
<1>12. records' = <<Due>>
  <2>1. records' = Append(<<>>, Due)
    BY <1>1, <1>10, <1>11, Zenon
  <2>2. Append(<<>>, Due) = <<Due>>
    <3> DEFINE k == Due
    <3> HIDE DEF k
    <3>1. k \in {k}
      OBVIOUS
    <3>2. Append(<<>>, k) = <<k>>
      BY <3>1
    <3>3. QED
      BY <3>2 DEF k
  <2>3. QED
    BY <2>1, <2>2
<1>13. Due' = Due
  BY <1>1, DueKept
<1>14. Booked'
  BY <1>1, <1>12, <1>13 DEF Booked
<1>15. QED
  BY <1>4, <1>9, <1>14 DEF Intact

LEMMA InitIntact ==
  ASSUME Whole
  PROVE  Init => Intact
<1> SUFFICES ASSUME Init PROVE Intact
  OBVIOUS
<1>1. Reading /\ Relayed
  BY InitRelayed
<1>2. Booked
  BY DEF Init, Booked, Ended
<1>3. QED
  BY <1>1, <1>2 DEF Intact

LEMMA StepIntact ==
  ASSUME Whole
  PROVE  Typed /\ Intact /\ [Next]_vars => Intact'
<1> SUFFICES ASSUME Typed, Intact, [Next]_vars PROVE Intact'
  OBVIOUS
<1>1. ASSUME NEW n \in 1 .. Len(Bytes(script.events)), Receive(n) PROVE Intact'
  <2>1. Reading' /\ Relayed'
    BY <1>1, ReceiveRelayed DEF Intact
  <2>2. status = "open" /\ UNCHANGED <<status, records>>
    BY <1>1 DEF Receive, Starved
  <2>3. Booked'
    BY <2>2 DEF Booked, Intact, Ended
  <2>4. QED
    BY <2>1, <2>3 DEF Intact
<1>2. CASE UpstreamEnds
  <2>1. Reading' /\ Relayed'
    BY <1>2, EndRelayed DEF Intact
  <2>2. status = "open" /\ UNCHANGED <<status, records>>
    BY <1>2 DEF UpstreamEnds, Starved
  <2>3. Booked'
    BY <2>2 DEF Booked, Intact, Ended
  <2>4. QED
    BY <2>1, <2>3 DEF Intact
<1>3. CASE UpstreamFails
  <2>1. Holds /\ UNCHANGED <<script, sent, upstream, relay, records>>
    BY <1>3 DEF Holds, UpstreamFails, Starved, relay
  <2>2. QED
    BY <2>1, HoldsIntact
<1>4. CASE Relay
  BY <1>4, RelayIntact
<1>5. CASE Finish
  BY <1>5, FinishIntact
<1>6. CASE Deliver
  <2>1. /\ out # <<>> /\ got' = Append(got, Head(out)) /\ out' = Tail(out)
        /\ UNCHANGED <<format, told, status>>
        /\ UNCHANGED <<script, sent, upstream, relay, records>>
    BY <1>6 DEF Deliver, relay
  <2>2. out \in Seq(Shown) /\ got \in Seq(Shown)
    BY DEF Typed
  <2>3. got' \o out' = got \o out
    BY <2>1, <2>2, ConcatOne
  <2>4. Holds
    BY <2>1, <2>3 DEF Holds
  <2>5. QED
    BY <2>1, <2>4, HoldsIntact
<1>7. CASE Close
  <2>1. Holds /\ UNCHANGED <<script, sent, upstream, relay, records>>
    BY <1>7 DEF Holds, Close, relay
  <2>2. QED
    BY <2>1, HoldsIntact
<1>8. CASE Leave
  <2>1. Holds /\ UNCHANGED <<script, sent, upstream, relay, records>>
    BY <1>8 DEF Holds, Leave, relay
  <2>2. QED
    BY <2>1, HoldsIntact
<1>9. CASE UNCHANGED vars
  <2>1. Holds /\ UNCHANGED <<script, sent, upstream, relay, records>>
    BY <1>9 DEF Holds, vars, relay
  <2>2. QED
    BY <2>1, HoldsIntact
<1>10. QED
  BY <1>1, <1>2, <1>3, <1>4, <1>5, <1>6, <1>7, <1>8, <1>9 DEF Next, Reads, Over

-----------------------------------------------------------------------------
(* The theorems on streams whose chunks end between characters. *)

LEMMA ClientTold ==
  ASSUME Whole, Inv, Intact, status = "closed", format = "anthropic", Reports # <<>>
  PROVE  got[Len(got) - 1].out = Due.out
<1>1. out = <<>> /\ Typed
  BY DEF Framed, Inv
<1>2. PICK d \in Seq(AnEvent) : Flows(d)
  BY DEF Framed, Inv
<1>3. got \o out = (Opening \o d) \o Closing
  BY <1>2 DEF Flows, Ended
<1>4. got \in Seq(AnEvent) /\ got = got \o out
  <2>1. got \in Seq(AnEvent)
    BY <1>1 DEF Typed, Shown
  <2>2. QED
    BY <1>1, <2>1, ConcatNothing
<1>5. Opening \in Seq(AnEvent)
  BY <1>1, OpeningType DEF Shown
<1>6. Closing \in Seq(AnEvent)
  <2>1. told \in Nat
    BY <1>1 DEF Typed, TypeOK
  <2>2. QED
    BY <1>1, <2>1, ClosingType DEF Shown
<1>7. Len(Closing) = 3 /\ Closing[2].out = told
  BY DEF Closing, Event
<1> DEFINE b == Opening \o d
           c == Closing
<1>8. b \in Seq(AnEvent)
  BY <1>2, <1>5, Concat
<1>9. told = Due.out
  <2>1. upstream = "ended" /\ mid = <<>>
    BY DEF Intact, Booked, Ended
  <2>2. QED
    BY <1>1, <2>1, RecordIsDue DEF Intact
<1>10. got = b \o c
  BY <1>3, <1>4
<1> HIDE DEF b, c
<1>11. Len(b \o c) = Len(b) + 3 /\ (b \o c)[Len(b) + 2] = c[2]
  BY <1>6, <1>7, <1>8, ThreeAfter DEF c
<1>12. Len(b) \in Nat
  BY <1>8
<1>13. Len(got) - 1 = Len(b) + 2
  BY <1>10, <1>11, <1>12
<1>14. QED
  BY <1>7, <1>9, <1>10, <1>11, <1>13 DEF c

LEMMA AlwaysIntact ==
  ASSUME Whole
  PROVE  Spec => [](Inv /\ Intact)
<1>1. Init => Intact
  BY InitIntact
<1>2. Inv /\ Intact /\ [Next]_vars => Intact'
  BY StepIntact DEF Inv
<1>3. QED
  BY <1>1, <1>2, InductiveInvariant, PTL DEF Spec

(* A stream that is complete for the client was recorded, once, as the provider
   told, whichever the formats, the events and the cuts, as long as no chunk ends
   inside a character. *)
THEOREM RecordsTrue == Whole => (Spec => []RecordTruthful)
<1> SUFFICES ASSUME Whole PROVE Spec => []RecordTruthful
  OBVIOUS
<1>1. ASSUME Inv, Intact PROVE RecordTruthful
  <2>1. records \in {<<>>, <<Due>>}
    BY <1>1 DEF Intact, Booked
  <2>2. status \in {"recorded", "closed"} => records # <<>>
    BY <1>1 DEF Intact, Booked, Ended
  <2>3. status = "closed" /\ format = "anthropic" /\ Reports # <<>> =>
          got[Len(got) - 1].out = Due.out
    BY <1>1, ClientTold
  <2>4. QED
    BY <2>1, <2>2, <2>3 DEF RecordTruthful
<1>2. QED
  BY <1>1, AlwaysIntact, PTL

-----------------------------------------------------------------------------
(* The text the client has is a beginning of what was said. *)

Deltas(events) == Of({"delta"}, events)
Begins(a, b) == \E q \in Seq(AnEvent) : Deltas(a) \o q = Deltas(b)

LEMMA DeltasConcat ==
  ASSUME NEW a \in Seq(AnEvent), NEW b \in Seq(AnEvent)
  PROVE  /\ Deltas(a) \in Seq(AnEvent) /\ Deltas(b) \in Seq(AnEvent)
         /\ Deltas(a \o b) = Deltas(a) \o Deltas(b)
<1>1. Of({"delta"}, a \o b) = Of({"delta"}, a) \o Of({"delta"}, b)
  BY OfConcat
<1>2. Deltas(a) \in Seq(AnEvent) /\ Deltas(b) \in Seq(AnEvent)
  BY OfType DEF OfFine, Deltas
<1>3. QED
  BY <1>1, <1>2 DEF Deltas

LEMMA BeginsOwn ==
  ASSUME NEW a \in Seq(AnEvent), NEW b \in Seq(AnEvent)
  PROVE  Begins(a, a \o b)
BY DeltasConcat DEF Begins

LEMMA BeginsThrough ==
  ASSUME NEW a \in Seq(AnEvent), NEW b, NEW c, Begins(a, b), Begins(b, c)
  PROVE  Begins(a, c)
<1>1. PICK q \in Seq(AnEvent) : Deltas(a) \o q = Deltas(b)
  BY DEF Begins
<1>2. PICK r \in Seq(AnEvent) : Deltas(b) \o r = Deltas(c)
  BY DEF Begins
<1>3. Deltas(a) \in Seq(AnEvent)
  BY OfType DEF OfFine, Deltas
<1> DEFINE d == Deltas(a)
<1> HIDE DEF d
<1>4. Chains(d, q, r) /\ q \o r \in Seq(AnEvent)
  BY <1>3, Chained, Concat DEF d
<1>5. Deltas(a) \o (q \o r) = Deltas(c)
  BY <1>1, <1>2, <1>4 DEF Chains, d
<1>6. QED
  BY <1>4, <1>5 DEF Begins

LEMMA DrainBegins ==
  ASSUME NEW a \in Seq(Piece), NEW b \in Seq(Piece)
  PROVE  /\ Drain(<<>>, a).events \in Seq(AnEvent)
         /\ Drain(<<>>, a \o b).events \in Seq(AnEvent)
         /\ Begins(Drain(<<>>, a).events, Drain(<<>>, a \o b).events)
<1> DEFINE d == Drain(<<>>, a)
           e == Drain(d.buf, b)
           all == Drain(<<>>, a \o b)
<1>1. <<>> \in Seq(Piece) /\ a \o b \in Seq(Piece)
  OBVIOUS
<1>2. d.buf \in Seq(Piece) /\ d.events \in Seq(AnEvent) /\ all.events \in Seq(AnEvent)
  BY <1>1, DrainType DEF DrainFine
<1>3. e.events \in Seq(AnEvent)
  BY <1>2, DrainType DEF DrainFine
<1>4. all = Then(d, e)
  BY <1>1, DrainConcat
<1> HIDE DEF d, e, all
<1>5. all.events = d.events \o e.events
  BY <1>4 DEF Then
<1>6. Begins(d.events, d.events \o e.events)
  BY <1>2, <1>3, BeginsOwn
<1>7. QED
  BY <1>2, <1>5, <1>6 DEF d, all

LEMMA TextsIs ==
  ASSUME NEW events
  PROVE  TextsOf(events) = [i \in 1 .. Len(Deltas(events)) |-> Deltas(events)[i].text]
BY DEF TextsOf, Deltas

(* A text as a sequence. *)
LEMMA TextsSeq ==
  ASSUME NEW d \in Seq(AnEvent)
  PROVE  LET t == [i \in 1 .. Len(d) |-> d[i].text]
         IN  t \in Seq({d[i].text : i \in 1 .. Len(d)}) /\ Len(t) = Len(d)
<1>1. Len(d) \in Nat
  OBVIOUS
<1>2. QED
  BY <1>1

LEMMA BeginsText ==
  ASSUME NEW a \in Seq(AnEvent), NEW b \in Seq(AnEvent), Begins(a, b)
  PROVE  LET s == TextsOf(a)
             t == TextsOf(b)
         IN  /\ Len(s) \in Nat /\ Len(t) \in Nat /\ Len(s) <= Len(t)
             /\ s = SubSeq(t, 1, Len(s)) /\ SubSeq(t, 1, Len(t)) = t
<1> DEFINE c == Deltas(a)
           d == Deltas(b)
           s == TextsOf(a)
           t == TextsOf(b)
<1>1. PICK q \in Seq(AnEvent) : c \o q = d
  BY DEF Begins
<1>2. c \in Seq(AnEvent) /\ d \in Seq(AnEvent)
  BY OfType DEF OfFine, Deltas
<1>3. s = [i \in 1 .. Len(c) |-> c[i].text] /\ t = [i \in 1 .. Len(d) |-> d[i].text]
  BY TextsIs
<1> HIDE DEF c, d, s, t
<1>4. Len(d) = Len(c) + Len(q) /\ \A i \in 1 .. Len(c) : d[i] = c[i]
  <2>1. Len(c \o q) = Len(c) + Len(q) /\ \A i \in 1 .. Len(c) : (c \o q)[i] = c[i]
    BY <1>2, Concat
  <2>2. QED
    BY <1>1, <2>1
<1>5. Len(c) \in Nat /\ Len(q) \in Nat /\ Len(d) \in Nat /\ Len(c) <= Len(d)
  BY <1>2, <1>4
<1> DEFINE X == {d[i].text : i \in 1 .. Len(d)}
<1>6. t \in Seq(X) /\ Len(t) = Len(d) /\ \A i \in 1 .. Len(d) : t[i] = d[i].text
  BY <1>2, <1>3, TextsSeq
<1>7. Len(s) = Len(c) /\ s \in Seq({c[i].text : i \in 1 .. Len(c)})
      /\ \A i \in 1 .. Len(c) : s[i] = c[i].text
  BY <1>2, <1>3, TextsSeq
<1> HIDE DEF X
<1> DEFINE p == SubSeq(t, 1, Len(s))
<1>8. p \in Seq(X) /\ Len(p) = Len(s) /\ \A i \in 1 .. Len(s) : p[i] = t[i]
  BY <1>5, <1>6, <1>7
<1> HIDE DEF p
<1>9. \A i \in 1 .. Len(s) : p[i] = s[i]
  <2>1. TAKE i \in 1 .. Len(s)
  <2>2. i \in 1 .. Len(c) /\ i \in 1 .. Len(d)
    BY <1>5, <1>7, <2>1
  <2>3. QED
    BY <1>4, <1>6, <1>7, <1>8, <2>1, <2>2
<1>10. p = s
  <2>1. p = [i \in 1 .. Len(p) |-> p[i]]
    BY <1>8
  <2>2. s = [i \in 1 .. Len(s) |-> s[i]]
    BY <1>7
  <2>3. QED
    BY <1>8, <1>9, <2>1, <2>2
<1>11. SubSeq(t, 1, Len(t)) = t
  BY <1>6, SubSeqAll
<1>12. QED
  BY <1>5, <1>6, <1>7, <1>10, <1>11 DEF p, s, t

LEMMA BeginsSame ==
  ASSUME NEW a \in Seq(AnEvent), NEW b, Deltas(a) = Deltas(b)
  PROVE  Begins(a, b)
<1>1. Deltas(a) \in Seq(AnEvent)
  BY OfType DEF OfFine, Deltas
<1>2. Deltas(a) \o <<>> = Deltas(b)
  BY <1>1, ConcatNothing
<1>3. <<>> \in Seq(AnEvent)
  OBVIOUS
<1>4. QED
  BY <1>2, <1>3 DEF Begins

(* What is read is a beginning of what the provider says, *)
LEMMA SourceSays ==
  ASSUME Whole, Typed
  PROVE  Begins(Drain(<<>>, Source).events, script.events)
<1> DEFINE s == script.events
           f == Fed.events
<1>1. script.provider \in {"openai", "anthropic"}
  BY ScriptIs DEF Typed, TypeOK
<1>2. FedIs(Arrived) /\ s \in Seq(WholeEvent) /\ s \in Seq(AnEvent)
  BY ArrivedIs, WholeIsSeq
<1>3. f \in Seq(AnEvent)
  BY <1>2, WholeIsSeq DEF FedIs, Fed
<1>4. PICK z \in Seq(AnEvent) : f \o z = s
  BY ArrivedIs
<1>5. Begins(f, s)
  <2> HIDE DEF f, s
  <2>1. Begins(f, f \o z)
    BY <1>3, BeginsOwn
  <2>2. QED
    BY <1>4, <2>1
<1>6. CASE script.provider = "openai"
  <2>1. Source = Arrived
    BY <1>6 DEF Source
  <2>2. QED
    BY <1>5, <2>1 DEF Fed
<1>7. CASE script.provider = "anthropic"
  <2> DEFINE o == Made.out
             d == <<Plain("done")>>
             e == Drain(<<>>, Source).events
  <2>1. Spoken \in Seq(AnEvent)
    BY SourceType, WholeIsSeq
  <2>2. DecodesTo(Bytes(Spoken), Spoken)
    BY <2>1, DecodeWhole
  <2>3. e = Spoken
    BY <1>7, <2>2 DEF Source, DecodesTo
  <2>4. o \in Seq(AnEvent) /\ d \in Seq(AnEvent) /\ <<>> \in Seq(AnEvent)
    BY <1>2, DoneIs, WholeIsSeq DEF FedIs, Fed, Made
  <2>5. Deltas(o) = Deltas(f)
    <3>1. 0 \in Nat /\ FALSE \in BOOLEAN
      OBVIOUS
    <3>2. Of({"delta"}, Translation(0, FALSE, f).out) = Of({"delta"}, f)
      BY <1>3, <3>1, TranslationSays
    <3>3. QED
      BY <3>2 DEF Deltas, Made
  <2>6. Deltas(d) = <<>> /\ Deltas(<<>>) = <<>>
    <3>1. Plain("done").type = "done"
      BY DEF Plain, Event
    <3>2. QED
      BY <3>1, OfOne, OfNothing DEF Deltas
  <2>7. \E x \in {d, <<>>} : Spoken = o \o x
    BY DEF Spoken
  <2> HIDE DEF o, d, e, f
  <2>8. PICK x \in {d, <<>>} : Spoken = o \o x
    BY <2>7
  <2>9. x \in Seq(AnEvent) /\ Deltas(x) = <<>>
    BY <2>4, <2>6
  <2>10. Deltas(o \o x) = Deltas(o) \o Deltas(x) /\ Deltas(o) \in Seq(AnEvent)
    BY <2>4, <2>9, DeltasConcat
  <2>11. Deltas(o) \o <<>> = Deltas(o)
    BY <2>10, ConcatNothing
  <2>12. Deltas(Spoken) = Deltas(f)
    BY <2>5, <2>8, <2>9, <2>10, <2>11
  <2>13. Begins(Spoken, f)
    BY <2>1, <2>12, BeginsSame
  <2>14. Begins(Spoken, s)
    BY <1>5, <2>1, <2>13, BeginsThrough
  <2>15. QED
    BY <2>3, <2>14 DEF e
<1>8. QED
  BY <1>1, <1>6, <1>7

LEMMA FrameSilent ==
  ASSUME told \in Nat, format # "openai"
  PROVE  /\ Opening \in Seq(AnEvent) /\ Closing \in Seq(AnEvent)
         /\ Deltas(Opening) = <<>> /\ Deltas(Closing) = <<>>
<1>1. Opening \in Seq(AnEvent) /\ Closing \in Seq(AnEvent)
  BY OpeningType, ClosingType DEF Shown
<1>2. \A i \in 1 .. Len(Opening) : Opening[i].type # "delta"
  BY DEF Opening, Plain, Event
<1>3. \A i \in 1 .. Len(Closing) : Closing[i].type # "delta"
  BY DEF Closing, Plain, Event
<1>4. ASSUME NEW s \in Seq(AnEvent), \A i \in 1 .. Len(s) : s[i].type # "delta"
      PROVE  Deltas(s) = <<>>
  <2> DEFINE r == Deltas(s)
  <2>1. /\ r \in Seq(AnEvent)
        /\ \A j \in 1 .. Len(r) : r[j].type \in {"delta"} /\ \E i \in 1 .. Len(s) : s[i] = r[j]
    BY OfType DEF OfFine, Deltas
  <2> HIDE DEF r
  <2>2. \A j \in 1 .. Len(r) : FALSE
    BY <1>4, <2>1
  <2>3. r = <<>>
    BY <2>1, <2>2
  <2>4. QED
    BY <2>3 DEF r
<1> DEFINE o == Opening
           c == Closing
<1> HIDE DEF o, c
<1>5. Deltas(o) = <<>>
  BY <1>1, <1>2, <1>4 DEF o
<1>6. Deltas(c) = <<>>
  BY <1>1, <1>3, <1>4 DEF c
<1>7. QED
  BY <1>1, <1>5, <1>6 DEF o, c

(* and what the client has is a beginning of what is read. *)
LEMMA ReceivedBegins ==
  ASSUME Whole, Typed, Relayed
  PROVE  LET e == Drain(<<>>, Source).events
         IN  /\ Received \in Seq(AnEvent) /\ e \in Seq(AnEvent) /\ Begins(Received, e)
             /\ mid = <<>> /\ out = <<>> => Deltas(Received) = Deltas(e)
<1> DEFINE e == Drain(<<>>, Source).events
<1>1. PICK t, p \in Seq(WholePiece) :
        t \o p = Source /\ Waiting(mid, p) /\ Counted(t) /\ Passed(t)
  BY DEF Relayed
<1>2. t \in Seq(Piece) /\ p \in Seq(Piece) /\ <<>> \in Seq(Piece)
  BY WholeIsSeq
<1>3. mid = <<>> => p = <<>> /\ t = Source
  BY <1>1, <1>2, NothingWaits, ConcatNothing
<1>4. told \in Nat
  BY DEF Typed, TypeOK
<1>5. CASE format = "openai"
  <2>1. Opening = <<>> /\ Closing = <<>>
    BY <1>5 DEF Opening, Closing
  <2>2. got \in Seq(Piece) /\ out \in Seq(Piece)
    BY <1>5 DEF Typed, Shown
  <2>3. Flows(t)
    BY <1>1, <1>5 DEF Passed
  <2>4. got \o out = t
    <3>1. <<>> \o t = t /\ t \o <<>> = t
      BY <1>2, ConcatNothing
    <3>2. QED
      BY <2>1, <2>3, <3>1 DEF Flows
  <2>5. Received = Drain(<<>>, got).events
    BY <1>5 DEF Received
  <2>6. Chains(got, out, p) /\ out \o p \in Seq(Piece)
    BY <1>2, <2>2, Chained, Concat
  <2>7. Source = got \o (out \o p)
    BY <1>1, <2>4, <2>6 DEF Chains
  <2>8. /\ Received \in Seq(AnEvent) /\ e \in Seq(AnEvent) /\ Begins(Received, e)
    BY <2>2, <2>5, <2>6, <2>7, DrainBegins
  <2>9. ASSUME mid = <<>>, out = <<>> PROVE Received = e
    <3>1. got \o <<>> = got
      BY <2>2, ConcatNothing
    <3>2. got = Source
      BY <1>3, <2>4, <2>9, <3>1
    <3>3. QED
      BY <2>5, <3>2
  <2>10. QED
    BY <2>8, <2>9
<1>6. CASE format # "openai"
  <2> DEFINE r == Drain(<<>>, t).events
             f == Of(Forwarded, r)
             w == got \o out
             o == Opening
             c == Closing
  <2>1. got \in Seq(AnEvent) /\ out \in Seq(AnEvent) /\ Received = got
    BY <1>6 DEF Typed, Shown, Received
  <2>2. Flows(f)
    BY <1>1, <1>6 DEF Passed
  <2>3. r \in Seq(AnEvent) /\ e \in Seq(AnEvent) /\ Begins(r, e)
    BY <1>1, <1>2, DrainBegins
  <2>4. f \in Seq(AnEvent) /\ Deltas(f) = Deltas(r)
    <3>1. {"delta"} \subseteq Forwarded
      BY DEF Forwarded
    <3> HIDE DEF r
    <3>2. Of({"delta"}, Of(Forwarded, r)) = Of({"delta"}, r)
      BY <2>3, <3>1, OfOf
    <3>3. Of(Forwarded, r) \in Seq(AnEvent)
      BY <2>3, OfType DEF OfFine
    <3>4. QED
      BY <3>2, <3>3 DEF Deltas
  <2>5. o \in Seq(AnEvent) /\ c \in Seq(AnEvent) /\ Deltas(o) = <<>> /\ Deltas(c) = <<>>
    BY <1>4, <1>6, FrameSilent
  <2>6. w = o \o f \/ w = (o \o f) \o c
    BY <2>2 DEF Flows
  <2>7. w \in Seq(AnEvent) /\ Begins(got, w) /\ (out = <<>> => w = got)
    BY <2>1, BeginsOwn, Concat, ConcatNothing
  <2> HIDE DEF r, f, w, o, c, e
  <2> DEFINE g == o \o f
  <2>8. g \in Seq(AnEvent) /\ Deltas(g) = Deltas(f)
    <3>1. Deltas(o \o f) = Deltas(o) \o Deltas(f) /\ Deltas(f) \in Seq(AnEvent)
      BY <2>4, <2>5, DeltasConcat
    <3>2. <<>> \o Deltas(f) = Deltas(f)
      BY <3>1, ConcatNothing
    <3>3. QED
      BY <2>4, <2>5, <3>1, <3>2, Concat
  <2> HIDE DEF g
  <2>9. Deltas(g \o c) = Deltas(f)
    <3>1. Deltas(g \o c) = Deltas(g) \o Deltas(c) /\ Deltas(g) \in Seq(AnEvent)
      BY <2>5, <2>8, DeltasConcat
    <3>2. Deltas(g) \o <<>> = Deltas(g)
      BY <3>1, ConcatNothing
    <3>3. QED
      BY <2>5, <2>8, <3>1, <3>2
  <2>10. Deltas(w) = Deltas(r)
    BY <2>4, <2>6, <2>8, <2>9 DEF g
  <2>11. Begins(w, r)
    BY <2>7, <2>10, BeginsSame
  <2>12. Begins(got, r)
    BY <2>1, <2>7, <2>11, BeginsThrough
  <2>13. Begins(got, e)
    BY <2>1, <2>3, <2>12, BeginsThrough
  <2>14. ASSUME mid = <<>>, out = <<>> PROVE Deltas(got) = Deltas(e)
    BY <1>3, <2>7, <2>10, <2>14 DEF r, e
  <2>15. QED
    BY <2>1, <2>3, <2>13, <2>14 DEF e
<1>7. QED
  BY <1>5, <1>6

(* The text the client has: a beginning of the whole text, and at the end all of it. *)
TextTrue ==
  LET a == TextsOf(script.events)
      s == TextsOf(Received)
  IN  /\ Len(s) \in Nat /\ Len(a) \in Nat /\ Len(s) <= Len(a)
      /\ s = SubSeq(a, 1, Len(s)) /\ SubSeq(a, 1, Len(a)) = a
      /\ Ended /\ out = <<>> => s = a

LEMMA TextBegins ==
  ASSUME Whole, Typed, Intact
  PROVE  TextTrue
<1> DEFINE e == Drain(<<>>, Source).events
<1>1. Reading /\ Relayed /\ Booked
  BY DEF Intact
<1>2. /\ Received \in Seq(AnEvent) /\ e \in Seq(AnEvent) /\ Begins(Received, e)
      /\ mid = <<>> /\ out = <<>> => Deltas(Received) = Deltas(e)
  BY <1>1, ReceivedBegins
<1>3. Begins(e, script.events)
  BY SourceSays
<1>4. script.events \in Seq(AnEvent)
  BY ScriptIs DEF Typed, TypeOK
<1>5. Begins(Received, script.events)
  BY <1>2, <1>3, BeginsThrough
<1>6. ASSUME Ended, out = <<>> PROVE TextsOf(Received) = TextsOf(script.events)
  <2>1. mid = <<>> /\ upstream = "ended"
    BY <1>1, <1>6 DEF Booked
  <2>2. Deltas(e) = Deltas(script.events)
    BY <1>1, <2>1, EndTells DEF Conveys, Deltas
  <2>3. Deltas(Received) = Deltas(script.events)
    BY <1>2, <1>6, <2>1, <2>2
  <2>4. QED
    BY <2>3, TextsIs
<1>7. QED
  BY <1>2, <1>4, <1>5, <1>6, BeginsText DEF TextTrue

LEMMA ReceivedGrows ==
  ASSUME Typed, Deliver
  PROVE  /\ Received \in Seq(AnEvent) /\ Received' \in Seq(AnEvent)
         /\ Begins(Received, Received')
<1>1. out # <<>> /\ got' = Append(got, Head(out)) /\ format' = format
  BY DEF Deliver
<1>2. got \in Seq(Shown) /\ out \in Seq(Shown)
  BY DEF Typed
<1> DEFINE x == Head(out)
<1>3. x \in Shown
  BY <1>1, <1>2
<1>4. got' = got \o <<x>> /\ <<x>> \in Seq(Shown)
  <2> HIDE DEF x
  <2>1. Append(got, x) = got \o <<x>> /\ <<x>> \in Seq(Shown)
    BY <1>2, <1>3
  <2>2. QED
    BY <1>1, <2>1 DEF x
<1> HIDE DEF x
<1>5. CASE format = "openai"
  <2>1. got \in Seq(Piece) /\ <<x>> \in Seq(Piece)
    BY <1>2, <1>4, <1>5 DEF Shown
  <2>2. Received = Drain(<<>>, got).events /\ Received' = Drain(<<>>, got \o <<x>>).events
    BY <1>1, <1>4, <1>5 DEF Received
  <2>3. QED
    BY <2>1, <2>2, DrainBegins
<1>6. CASE format # "openai"
  <2>1. got \in Seq(AnEvent) /\ <<x>> \in Seq(AnEvent)
    BY <1>2, <1>4, <1>6 DEF Shown
  <2>2. Received = got /\ Received' = got \o <<x>>
    BY <1>1, <1>4, <1>6 DEF Received
  <2>3. QED
    BY <2>1, <2>2, BeginsOwn, Concat
<1>7. QED
  BY <1>5, <1>6

(* What of the state the abstract service sees. *)
StateShown ==
  CASE status = "closed" -> "complete"
    [] status \in {"broken", "left"} -> "broken"
    [] OTHER -> "open"

Showing == <<TextsOf(script.events), TextsOf(Received), StateShown>>

LEMMA DeliverShows ==
  ASSUME Typed, TextTrue, TextTrue', Deliver
  PROVE  [Service!Next]_Showing
<1> DEFINE a == TextsOf(script.events)
           s == TextsOf(Received)
           n == Len(s')
<1>1. status \in {"open", "recorded"} /\ UNCHANGED <<script, status>>
  BY DEF Deliver
<1>2. a' = a
  BY <1>1 DEF TextsOf
<1>3. StateShown' = StateShown /\ StateShown = "open"
  BY <1>1 DEF StateShown
<1>4. Len(s) \in Nat /\ s = SubSeq(a, 1, Len(s))
  BY DEF TextTrue
<1>5. n \in Nat /\ Len(a') \in Nat /\ n <= Len(a') /\ s' = SubSeq(a', 1, n)
  BY DEF TextTrue
<1>6. Len(s) <= n
  BY ReceivedGrows, BeginsText
<1>7. CASE Len(s) = n
  <2> HIDE DEF a, s
  <2>1. s' = s
    BY <1>2, <1>4, <1>5, <1>7
  <2>2. QED
    BY <1>2, <1>3, <2>1 DEF Showing, a, s
<1>8. CASE Len(s) # n
  <2> DEFINE all == Len(a)
  <2>1. all \in Nat /\ n <= all /\ s' = SubSeq(a, 1, n)
    <3> HIDE DEF a, s
    <3>1. QED
      BY <1>2, <1>5
  <2>2. Len(s) < n /\ n \in 1 .. all
    <3> DEFINE k == Len(s)
    <3>1. k \in Nat /\ k <= n /\ k # n /\ n \in Nat
      BY <1>4, <1>5, <1>6, <1>8
    <3> HIDE DEF n, all, k
    <3>2. k < n /\ n \in 1 .. all
      BY <2>1, <3>1
    <3>3. QED
      BY <3>2 DEF k
  <2>3. Service!Show(n)
    BY <1>2, <1>3, <2>1, <2>2 DEF Service!Show, StateShown
  <2>4. Service!Next
    BY <2>2, <2>3 DEF Service!Next
  <2>5. QED
    BY <2>4
<1>9. QED
  BY <1>7, <1>8

LEMMA StepService ==
  ASSUME Typed, TextTrue, TextTrue', [Next]_vars
  PROVE  [Service!Next]_Showing
<1> DEFINE a == TextsOf(script.events)
           s == TextsOf(Received)
<1>1. ASSUME UNCHANGED <<script, format, got>> PROVE a' = a /\ s' = s
  BY <1>1 DEF TextsOf, Received
<1>2. ASSUME UNCHANGED <<script, format, got, status>> PROVE UNCHANGED Showing
  BY <1>1, <1>2 DEF Showing, StateShown
<1>3. ASSUME UNCHANGED <<script, format, got>>, status \in {"open", "recorded"},
             status' \in {"broken", "left"}
      PROVE  Service!Next
  <2>1. Service!Break
    BY <1>1, <1>3 DEF Service!Break
  <2>2. QED
    BY <2>1 DEF Service!Next
<1>4. ASSUME NEW n \in 1 .. Len(Bytes(script.events)), Receive(n) PROVE UNCHANGED Showing
  BY <1>2, <1>4 DEF Receive
<1>5. CASE UpstreamEnds
  BY <1>2, <1>5 DEF UpstreamEnds
<1>6. CASE UpstreamFails
  BY <1>3, <1>6 DEF UpstreamFails, Starved
<1>7. CASE Relay
  BY <1>2, <1>7 DEF Relay
<1>8. CASE Finish
  BY <1>1, <1>8 DEF Finish, Starved, Showing, StateShown
<1>9. CASE Deliver
  BY <1>9, DeliverShows
<1>10. CASE Close
  <2>1. status = "recorded" /\ status' = "closed" /\ UNCHANGED <<script, format, got>> /\ s = a
    BY <1>10 DEF Close, TextTrue, Ended
  <2>2. Service!Complete
    BY <1>1, <2>1 DEF Service!Complete
  <2>3. QED
    BY <2>2 DEF Service!Next
<1>11. CASE Leave
  BY <1>3, <1>11 DEF Leave
<1>12. CASE UNCHANGED vars
  BY <1>2, <1>12 DEF vars
<1>13. QED
  BY <1>4, <1>5, <1>6, <1>7, <1>8, <1>9, <1>10, <1>11, <1>12 DEF Next, Reads, Over

LEMMA InitService == Init => Service!Init
<1> SUFFICES ASSUME Init PROVE Service!Init
  OBVIOUS
<1>1. script \in Scripts /\ got = <<>> /\ status = "open"
  BY DEF Init
<1>2. Drain(<<>>, <<>>).events = <<>>
  BY DrainNothing
<1>3. Received = <<>>
  BY <1>1, <1>2 DEF Received
<1>4. TextsOf(Received) = <<>>
  <2>1. Deltas(<<>>) = <<>>
    BY OfNothing DEF Deltas
  <2>2. TextsOf(<<>>) = [i \in 1 .. Len(Deltas(<<>>)) |-> Deltas(<<>>)[i].text]
    BY TextsIs
  <2>3. [i \in 1 .. Len(<<>>) |-> <<>>[i].text] = <<>>
    OBVIOUS
  <2>4. QED
    BY <1>3, <2>1, <2>2, <2>3
<1>5. QED
  BY <1>1, <1>4 DEF Service!Init

(* Wherever the chunks are cut between characters, and whatever the two formats, the
   text reaches the client whole and in order before the answer shows as complete:
   every step of the relay is one of the abstract answer, or none. *)
THEOREM AnswerKept == Whole => (Spec => AnswerPromise)
<1> SUFFICES ASSUME Whole PROVE Spec => AnswerPromise
  OBVIOUS
<1>1. Inv /\ Intact => Typed /\ TextTrue
  BY TextBegins DEF Inv
<1>2. Typed /\ TextTrue /\ TextTrue' /\ [Next]_vars => [Service!Next]_Showing
  BY StepService
<1>3. QED
  BY <1>1, <1>2, InitService, AlwaysIntact, PTL
     DEF Spec, AnswerPromise, Service!Spec, Showing, StateShown
=============================================================================
