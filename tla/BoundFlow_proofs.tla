--------------------------- MODULE BoundFlow_proofs ---------------------------
(***************************************************************************)
(* Proofs about the way from an application bound to tiles to its          *)
(* throughput: the binding-aware graph, the list scheduler and the         *)
(* analysis with wheels and schedules.                                     *)
(***************************************************************************)
EXTENDS BoundFlow, SDFGraphs_proofs, FiniteSetTheorems, SequenceTheorems, WellFoundedInduction

(* Induction on numbers, for a set in place of a predicate                 *)
LEMMA UpTo ==
    ASSUME NEW S, 0 \in S, \A n \in Nat : n \in S => n + 1 \in S
    PROVE  Nat \subseteq S
<1> DEFINE bad == Nat \ S
<1> SUFFICES ASSUME bad # {} PROVE FALSE
  OBVIOUS
<1>1. IsWellFoundedOn(OpToRel(<, Nat), Nat)
  BY NatLessThanWellFounded
<1>2. PICK n \in bad : \A m \in bad : <<m, n>> \notin OpToRel(<, Nat)
  BY <1>1, WFMin
<1>3. n # 0 /\ n - 1 \in Nat /\ n - 1 < n /\ (n - 1) + 1 = n
  OBVIOUS
<1>4. n - 1 \in S
  BY <1>2, <1>3 DEF OpToRel
<1> QED
  BY <1>3, <1>4

-----------------------------------------------------------------------------
(* How often x occurs in sequences                                         *)
At(s, x) == {i \in DOMAIN s : s[i] = x}
Times(s, x) == Cardinality(At(s, x))

LEMMA AtFinite ==
    ASSUME NEW S, NEW s \in Seq(S), NEW x
    PROVE  IsFiniteSet(At(s, x)) /\ Times(s, x) \in Nat
<1>1. IsFiniteSet(DOMAIN s)
  BY FS_Interval
<1>2. IsFiniteSet(At(s, x))
  BY <1>1, FS_Subset DEF At
<1> QED
  BY <1>2, FS_CardinalityType DEF Times

LEMMA TimesEmpty == \A x : Times(<<>>, x) = 0
<1> TAKE x
<1>1. At(<<>>, x) = {}
  BY DEF At
<1> QED
  BY <1>1, FS_EmptySet DEF Times

(* A set of numbers and the same set moved have the same size.             *)
LEMMA Moved ==
    ASSUME NEW A \in SUBSET Int, IsFiniteSet(A), NEW d \in Int
    PROVE  /\ IsFiniteSet({i + d : i \in A})
           /\ Cardinality({i + d : i \in A}) = Cardinality(A)
<1> DEFINE B == {i + d : i \in A}
           f == [i \in A |-> i + d]
<1>1. f \in Bijection(A, B)
  <2>1. f \in [A -> B]
    OBVIOUS
  <2>2. \A i, j \in A : f[i] = f[j] => i = j
    OBVIOUS
  <2>3. \A b \in B : \E i \in A : f[i] = b
    OBVIOUS
  <2> HIDE DEF f, B
  <2>4. f \in Injection(A, B)
    BY <2>1, <2>2 DEF Injection, IsInjective
  <2>5. f \in Surjection(A, B)
    BY <2>1, <2>3 DEF Surjection
  <2> QED
    BY <2>4, <2>5 DEF Bijection
<1>2. ExistsBijection(A, B)
  BY <1>1 DEF ExistsBijection
<1> HIDE DEF f, B
<1>3. IsFiniteSet(B) /\ Cardinality(B) = Cardinality(A)
  BY <1>2, FS_Bijection
<1> QED
  BY <1>3 DEF B

LEMMA SeqFunction ==
    ASSUME NEW S, NEW n, NEW u \in Seq(S), Len(u) = n
    PROVE  u \in [1 .. n -> S]
OBVIOUS

Concatenated(S, s, t, u) ==
    /\ u \in Seq(S)
    /\ u \in [1 .. Len(s) + Len(t) -> S]
    /\ Len(u) = Len(s) + Len(t)
    /\ \A i \in 1 .. Len(s) + Len(t) : u[i] = IF i <= Len(s) THEN s[i] ELSE t[i - Len(s)]

LEMMA Concatenation ==
    ASSUME NEW S, NEW s \in Seq(S), NEW t \in Seq(S)
    PROVE  Concatenated(S, s, t, s \o t)
<1>1. s \o t \in Seq(S) /\ Len(s \o t) = Len(s) + Len(t)
  OBVIOUS
<1>2. s \o t \in [1 .. Len(s) + Len(t) -> S]
  BY <1>1, SeqFunction, Zenon
<1>3. \A i \in 1 .. Len(s) + Len(t) : (s \o t)[i] = IF i <= Len(s) THEN s[i] ELSE t[i - Len(s)]
  OBVIOUS
<1> QED
  BY <1>1, <1>2, <1>3 DEF Concatenated

LEMMA SameSequence ==
    ASSUME NEW S, NEW s \in Seq(S), NEW t \in Seq(S), Len(s) = Len(t),
           \A i \in 1 .. Len(s) : s[i] = t[i]
    PROVE  s = t
OBVIOUS

LEMMA TimesConcat ==
    ASSUME NEW S, NEW s \in Seq(S), NEW t \in Seq(S), NEW x
    PROVE  Times(s \o t, x) = Times(s, x) + Times(t, x)
<1> DEFINE n == Len(s)
           B == {i + n : i \in At(t, x)}
<1>1. /\ s \o t \in Seq(S) /\ Len(s \o t) = n + Len(t) /\ n \in Nat /\ Len(t) \in Nat
      /\ DOMAIN s = 1 .. n /\ DOMAIN t = 1 .. Len(t) /\ DOMAIN (s \o t) = 1 .. n + Len(t)
  OBVIOUS
<1>2. \A i \in 1 .. n + Len(t) : (s \o t)[i] = IF i <= n THEN s[i] ELSE t[i - n]
  OBVIOUS
<1>3. At(s \o t, x) = At(s, x) \cup B
  <2>1. ASSUME NEW i \in At(s \o t, x) PROVE i \in At(s, x) \cup B
    <3>1. i \in 1 .. n + Len(t) /\ (s \o t)[i] = x
      BY <1>1 DEF At
    <3>2. CASE i <= n
      BY <1>1, <1>2, <3>1, <3>2 DEF At
    <3>3. CASE ~(i <= n)
      <4>1. i - n \in 1 .. Len(t) /\ t[i - n] = x /\ i = (i - n) + n
        BY <1>1, <1>2, <3>1, <3>3
      <4> QED
        BY <1>1, <4>1 DEF At
    <3> QED
      BY <3>2, <3>3
  <2>2. ASSUME NEW i \in At(s, x) PROVE i \in At(s \o t, x)
    BY <1>1, <1>2 DEF At
  <2>3. ASSUME NEW i \in At(t, x) PROVE i + n \in At(s \o t, x)
    <3>1. i \in 1 .. Len(t) /\ t[i] = x
      BY <1>1 DEF At
    <3>2. i + n \in 1 .. n + Len(t) /\ ~(i + n <= n) /\ (i + n) - n = i
      BY <1>1, <3>1
    <3> QED
      BY <1>1, <1>2, <3>1, <3>2 DEF At
  <2> QED
    BY <2>1, <2>2, <2>3
<1>4. IsFiniteSet(At(s, x)) /\ IsFiniteSet(At(t, x)) /\ At(t, x) \in SUBSET Int
  <2>1. At(t, x) \in SUBSET Int
    BY <1>1 DEF At
  <2> QED
    BY <2>1, AtFinite
<1>5. IsFiniteSet(B) /\ Cardinality(B) = Cardinality(At(t, x))
  <2>1. n \in Int
    BY <1>1
  <2> QED
    BY <1>4, <2>1, Moved
<1>6. At(s, x) \cap B = {}
  BY <1>1 DEF At
<1> HIDE DEF B, n
<1>7. Cardinality(At(s, x) \cup B) = Cardinality(At(s, x)) + Cardinality(B)
  <2>1. Cardinality(At(s, x) \cup B) = Cardinality(At(s, x)) + Cardinality(B) - Cardinality(At(s, x) \cap B)
    BY <1>4, <1>5, FS_Union
  <2>2. Cardinality(At(s, x)) \in Nat /\ Cardinality(B) \in Nat
    BY <1>4, <1>5, FS_CardinalityType
  <2>3. Cardinality(At(s, x) \cap B) = 0
    BY <1>6, FS_EmptySet
  <2> QED
    BY <2>1, <2>2, <2>3
<1> QED
  BY <1>3, <1>5, <1>7 DEF Times

(* A list of n times a                                                     *)
LEMMA TimesSame ==
    ASSUME NEW S, NEW a \in S, NEW n \in Nat, NEW x
    PROVE  /\ [i \in 1 .. n |-> a] \in Seq(S)
           /\ Times([i \in 1 .. n |-> a], x) = IF x = a THEN n ELSE 0
<1> DEFINE s == [i \in 1 .. n |-> a]
<1>1. s \in Seq(S) /\ DOMAIN s = 1 .. n
  OBVIOUS
<1>2. CASE x = a
  <2>1. At(s, x) = 1 .. n
    BY <1>2 DEF At
  <2>2. Cardinality(1 .. n) = n
    BY FS_Interval
  <2>3. Times(s, x) = n
    BY <2>1, <2>2, Zenon DEF Times
  <2> QED
    BY <1>1, <1>2, <2>3
<1>3. CASE x # a
  <2>1. At(s, x) = {}
    BY <1>3 DEF At
  <2>2. Times(s, x) = 0
    BY <2>1, FS_EmptySet, Zenon DEF Times
  <2> QED
    BY <1>1, <1>3, <2>2
<1> QED
  BY <1>1, <1>2, <1>3

LEMMA TimesOne ==
    ASSUME NEW a, NEW x
    PROVE  Times(<<a>>, x) = IF x = a THEN 1 ELSE 0
<1>1. DOMAIN <<a>> = {1} /\ <<a>>[1] = a
  OBVIOUS
<1>2. At(<<a>>, x) = IF x = a THEN {1} ELSE {}
  BY <1>1 DEF At
<1>3. Cardinality({1}) = 1 /\ Cardinality({}) = 0
  BY FS_EmptySet, FS_Singleton
<1> QED
  BY <1>2, <1>3 DEF Times

LEMMA TimesTail ==
    ASSUME NEW S, NEW s \in Seq(S), s # <<>>, NEW x
    PROVE  /\ Tail(s) \in Seq(S)
           /\ Times(Tail(s), x) = IF x = Head(s) THEN Times(s, x) - 1 ELSE Times(s, x)
<1> DEFINE h == <<s[1]>>
<1>1. /\ Tail(s) \in Seq(S) /\ s[1] \in S /\ Len(s) \in Nat /\ Len(Tail(s)) = Len(s) - 1
      /\ \A i \in 1 .. Len(s) - 1 : Tail(s)[i] = s[i + 1]
      /\ Head(s) = s[1] /\ Len(s) >= 1
  OBVIOUS
<1>2. h \in Seq(S) /\ Len(h) = 1 /\ h[1] = s[1]
  BY <1>1
<1>3. Times(h, x) = IF x = s[1] THEN 1 ELSE 0
  BY <1>1, TimesOne
<1> HIDE DEF h
<1>4. s = h \o Tail(s)
  <2>1. /\ h \o Tail(s) \in Seq(S)
        /\ Len(h \o Tail(s)) = Len(h) + Len(Tail(s))
        /\ \A i \in 1 .. Len(h) + Len(Tail(s)) :
              (h \o Tail(s))[i] = IF i <= Len(h) THEN h[i] ELSE Tail(s)[i - Len(h)]
    <3>1. h \in Seq(S) /\ Tail(s) \in Seq(S)
      BY <1>1, <1>2
    <3> QED
      BY <3>1, Concatenation DEF Concatenated
  <2>2. ASSUME NEW i \in 1 .. Len(s) PROVE (h \o Tail(s))[i] = s[i]
    <3>1. CASE i = 1
      BY <1>1, <1>2, <2>1, <3>1
    <3>2. CASE i # 1
      <4>1. i - 1 \in 1 .. Len(s) - 1 /\ (i - 1) + 1 = i /\ ~(i <= 1)
        BY <1>1, <3>2
      <4>2. (h \o Tail(s))[i] = Tail(s)[i - 1]
        BY <1>1, <1>2, <2>1, <4>1
      <4> QED
        BY <1>1, <4>1, <4>2
    <3> QED
      BY <3>1, <3>2
  <2>3. Len(h \o Tail(s)) = Len(s)
    BY <1>1, <1>2, <2>1
  <2> QED
    BY <2>1, <2>2, <2>3, SameSequence
<1>5. Times(h \o Tail(s), x) = Times(h, x) + Times(Tail(s), x)
  BY <1>1, <1>2, TimesConcat
<1>6. Times(Tail(s), x) \in Nat
  BY <1>1, AtFinite
<1>7. Times(s, x) = Times(h, x) + Times(Tail(s), x)
  BY <1>4, <1>5, Zenon
<1> QED
  BY <1>1, <1>3, <1>6, <1>7

LEMMA TimesAppend ==
    ASSUME NEW S, NEW s \in Seq(S), NEW a \in S, NEW x
    PROVE  Times(Append(s, a), x) = Times(s, x) + (IF x = a THEN 1 ELSE 0)
<1> DEFINE h == <<a>>
<1>1. h \in Seq(S) /\ Len(h) = 1 /\ h[1] = a /\ Append(s, a) = s \o h
  OBVIOUS
<1>2. Times(h, x) = IF x = a THEN 1 ELSE 0
  BY TimesOne
<1> HIDE DEF h
<1> QED
  BY <1>1, <1>2, TimesConcat

-----------------------------------------------------------------------------
(* What a concatenation is, step by step                                   *)
FlatStep(seqs, f, i) == IF i = 1 THEN seqs[i] ELSE f[i - 1] \o seqs[i]

FlatPrefixes(S, n, seqs, f) ==
    f \in [1 .. n -> Seq(S)] /\ \A i \in 1 .. n : f[i] = FlatStep(seqs, f, i)

LEMMA FlatStepType ==
    ASSUME NEW S, NEW n \in Nat, NEW seqs \in [1 .. n -> Seq(S)], NEW f, NEW i \in 1 .. n,
           i # 1 => f[i - 1] \in Seq(S)
    PROVE  FlatStep(seqs, f, i) \in Seq(S)
<1>1. seqs[i] \in Seq(S)
  OBVIOUS
<1>2. CASE i = 1
  BY <1>1, <1>2 DEF FlatStep
<1>3. CASE i # 1
  BY <1>1, <1>3, Concatenation DEF FlatStep, Concatenated
<1> QED
  BY <1>2, <1>3

LEMMA FlatUpTo ==
    ASSUME NEW S, NEW n \in Nat, NEW seqs \in [1 .. n -> Seq(S)]
    PROVE  \E f : FlatPrefixes(S, n, seqs, f)
<1> DEFINE T == {m \in Nat : \E f \in [1 .. n -> Seq(S)] :
                                 \A i \in 1 .. n : i <= m => f[i] = FlatStep(seqs, f, i)}
<1>1. 0 \in T
  <2>1. seqs \in [1 .. n -> Seq(S)] /\ \A i \in 1 .. n : ~(i <= 0)
    OBVIOUS
  <2> QED
    BY <2>1
<1>2. ASSUME NEW m \in Nat, m \in T PROVE m + 1 \in T
  <2>1. PICK f \in [1 .. n -> Seq(S)] : \A i \in 1 .. n : i <= m => f[i] = FlatStep(seqs, f, i)
    BY <1>2
  <2> DEFINE h == [i \in 1 .. n |-> IF i = m + 1 THEN FlatStep(seqs, f, i) ELSE f[i]]
  <2>2. \A i \in 1 .. n : FlatStep(seqs, f, i) \in Seq(S)
    <3> TAKE i \in 1 .. n
    <3>1. i # 1 => i - 1 \in 1 .. n
      OBVIOUS
    <3> QED
      BY <3>1, FlatStepType
  <2>3. h \in [1 .. n -> Seq(S)]
    BY <2>2
  <2>4. ASSUME NEW i \in 1 .. n, i <= m + 1 PROVE h[i] = FlatStep(seqs, h, i)
    <3>1. h[i] = FlatStep(seqs, f, i)
      <4>1. CASE i = m + 1
        BY <4>1
      <4>2. CASE i # m + 1
        <5>1. i <= m
          BY <2>4, <4>2
        <5> QED
          BY <2>1, <4>2, <5>1
      <4> QED
        BY <4>1, <4>2
    <3>2. i # 1 => i - 1 \in 1 .. n /\ i - 1 # m + 1
      BY <2>4
    <3>3. i # 1 => h[i - 1] = f[i - 1]
      BY <3>2
    <3> HIDE DEF h
    <3> QED
      BY <3>1, <3>3 DEF FlatStep
  <2> HIDE DEF h
  <2>5. \E e \in [1 .. n -> Seq(S)] : \A i \in 1 .. n : i <= m + 1 => e[i] = FlatStep(seqs, e, i)
    BY <2>3, <2>4
  <2>6. m + 1 \in Nat
    OBVIOUS
  <2> QED
    BY <2>5, <2>6
<1>3. Nat \subseteq T
  <2> HIDE DEF T
  <2> QED
    BY <1>1, <1>2, UpTo
<1>4. PICK f \in [1 .. n -> Seq(S)] : \A i \in 1 .. n : i <= n => f[i] = FlatStep(seqs, f, i)
  BY <1>3
<1>5. \A i \in 1 .. n : f[i] = FlatStep(seqs, f, i)
  BY <1>4
<1> QED
  BY <1>5 DEF FlatPrefixes

LEMMA Flattened ==
    ASSUME NEW S, NEW n \in Nat, n # 0, NEW seqs \in [1 .. n -> Seq(S)]
    PROVE  \E f : FlatPrefixes(S, n, seqs, f) /\ FlattenSeq(seqs) = f[n]
<1>0. PICK f : FlatPrefixes(S, n, seqs, f)
  BY FlatUpTo
<1>1. f \in [1 .. n -> Seq(S)] /\ \A i \in 1 .. n : f[i] = FlatStep(seqs, f, i)
  BY <1>0 DEF FlatPrefixes
<1>2. f = [i \in 1 .. n |-> IF i = 1 THEN seqs[i] ELSE f[i - 1] \o seqs[i]]
  BY <1>1 DEF FlatStep
<1> DEFINE h == CHOOSE h : h = [i \in 1 .. n |-> IF i = 1 THEN seqs[i] ELSE h[i - 1] \o seqs[i]]
<1>3. h = [i \in 1 .. n |-> IF i = 1 THEN seqs[i] ELSE h[i - 1] \o seqs[i]]
  BY <1>2
<1>4. Len(seqs) = n
  OBVIOUS
<1>5. FlattenSeq(seqs) = h[n]
  BY <1>4 DEF FlattenSeq
<1> HIDE DEF h
<1>6. \A i \in 1 .. n : h[i] = FlatStep(seqs, h, i)
  BY <1>3 DEF FlatStep
<1> DEFINE U == {m \in Nat : \A i \in 1 .. n : i <= m => h[i] \in Seq(S)}
<1>10. 0 \in U
  OBVIOUS
<1>11. ASSUME NEW m \in Nat, m \in U PROVE m + 1 \in U
  <2>1. \A i \in 1 .. n : i <= m => h[i] \in Seq(S)
    BY <1>11
  <2>2. ASSUME NEW i \in 1 .. n, i <= m + 1 PROVE h[i] \in Seq(S)
    <3>1. i # 1 => i - 1 \in 1 .. n /\ i - 1 <= m
      BY <2>2
    <3>2. FlatStep(seqs, h, i) \in Seq(S)
      BY <2>1, <3>1, FlatStepType
    <3> QED
      BY <1>6, <3>2
  <2> QED
    BY <2>2
<1>12. Nat \subseteq U
  <2> HIDE DEF U
  <2> QED
    BY <1>10, <1>11, UpTo
<1>13. ASSUME NEW i \in 1 .. n PROVE h[i] \in Seq(S)
  <2>1. i \in Nat /\ i <= i
    OBVIOUS
  <2> QED
    BY <1>12, <2>1
<1>14. h \in [1 .. n -> Seq(S)]
  BY <1>3, <1>13
<1> HIDE DEF U
<1> QED
  BY <1>5, <1>6, <1>14 DEF FlatPrefixes

(* An element that occurs in one of the sequences occurs as often there as *)
(* in all of them together.                                                *)
Flattens(S, seqs, a, x) ==
    FlattenSeq(seqs) \in Seq(S) /\ Times(FlattenSeq(seqs), x) = Times(seqs[a], x)

LEMMA TimesFlattened ==
    ASSUME NEW S, NEW n \in Nat, n # 0, NEW seqs \in [1 .. n -> Seq(S)], NEW a \in 1 .. n, NEW x,
           \A i \in 1 .. n : i # a => Times(seqs[i], x) = 0
    PROVE  Flattens(S, seqs, a, x)
<1>0. PICK f : FlatPrefixes(S, n, seqs, f) /\ FlattenSeq(seqs) = f[n]
  BY Flattened
<1>1. /\ f \in [1 .. n -> Seq(S)]
      /\ f[1] = seqs[1]
      /\ \A i \in 2 .. n : f[i] = f[i - 1] \o seqs[i]
      /\ FlattenSeq(seqs) = f[n]
  <2>1. \A i \in 1 .. n : f[i] = FlatStep(seqs, f, i)
    BY <1>0 DEF FlatPrefixes
  <2>2. ASSUME NEW i \in 2 .. n PROVE f[i] = f[i - 1] \o seqs[i]
    <3>1. i \in 1 .. n /\ i # 1
      OBVIOUS
    <3> QED
      BY <2>1, <3>1 DEF FlatStep
  <2>3. f[1] = seqs[1]
    BY <2>1 DEF FlatStep
  <2> QED
    BY <1>0, <2>2, <2>3 DEF FlatPrefixes
<1> DEFINE T == {m \in Nat : m + 1 \in 1 .. n =>
                    Times(f[m + 1], x) = IF m + 1 < a THEN 0 ELSE Times(seqs[a], x)}
<1>2. \A i \in 1 .. n : Times(seqs[i], x) \in Nat
  BY AtFinite
<1>3. 0 \in T
  <2>1. 1 \in 1 .. n /\ (1 < a \/ a = 1)
    OBVIOUS
  <2> QED
    BY <1>1, <2>1
<1>4. ASSUME NEW m \in Nat, m \in T PROVE m + 1 \in T
  <2> SUFFICES ASSUME m + 2 \in 1 .. n
               PROVE  Times(f[m + 2], x) = IF m + 2 < a THEN 0 ELSE Times(seqs[a], x)
    OBVIOUS
  <2>1. m + 1 \in 1 .. n /\ m + 2 \in 2 .. n /\ (m + 2) - 1 = m + 1
    OBVIOUS
  <2>2. f[m + 2] = f[m + 1] \o seqs[m + 2] /\ f[m + 1] \in Seq(S) /\ seqs[m + 2] \in Seq(S)
    BY <1>1, <2>1
  <2>3. Times(f[m + 2], x) = Times(f[m + 1], x) + Times(seqs[m + 2], x)
    BY <2>2, TimesConcat
  <2>4. Times(f[m + 1], x) = IF m + 1 < a THEN 0 ELSE Times(seqs[a], x)
    BY <1>4, <2>1
  <2>5. m + 2 # a => Times(seqs[m + 2], x) = 0
    BY <2>1
  <2> QED
    BY <1>2, <2>1, <2>3, <2>4, <2>5
<1>5. Nat \subseteq T
  <2> HIDE DEF T
  <2> QED
    BY <1>3, <1>4, UpTo
<1>6. (n - 1) + 1 = n /\ n \in 1 .. n /\ ~(n < a) /\ n - 1 \in Nat
  OBVIOUS
<1>7. n - 1 \in T
  BY <1>5, <1>6
<1>8. Times(f[n], x) = Times(seqs[a], x)
  BY <1>6, <1>7
<1>9. f[n] \in Seq(S)
  BY <1>1, <1>6
<1> QED
  BY <1>1, <1>8, <1>9 DEF Flattens

-----------------------------------------------------------------------------
(* The binding-aware graph                                                 *)

LEMMA MaxIn ==
    ASSUME NEW n \in Nat, NEW s \in SUBSET (1 .. n), s # {}
    PROVE  Max(s) \in s /\ \A y \in s : y <= Max(s)
<1> DEFINE T == {m \in Nat : \A u \in SUBSET (1 .. m) : u # {} => \E x \in u : \A y \in u : x >= y}
<1>1. 0 \in T
  <2>1. 1 .. 0 = {}
    OBVIOUS
  <2>2. \A u \in SUBSET (1 .. 0) : u = {}
    BY <2>1
  <2> QED
    BY <2>2
<1>2. ASSUME NEW m \in Nat, m \in T PROVE m + 1 \in T
  <2> SUFFICES ASSUME NEW u \in SUBSET (1 .. m + 1), u # {}
               PROVE  \E x \in u : \A y \in u : x >= y
    OBVIOUS
  <2>1. CASE m + 1 \in u
    BY <2>1
  <2>2. CASE m + 1 \notin u
    <3>1. u \in SUBSET (1 .. m)
      BY <2>2
    <3> QED
      BY <1>2, <3>1
  <2> QED
    BY <2>1, <2>2
<1>3. Nat \subseteq T
  <2> HIDE DEF T
  <2> QED
    BY <1>1, <1>2, UpTo
<1>4. \E x \in s : \A y \in s : x >= y
  BY <1>3
<1>5. Max(s) \in s /\ \A y \in s : Max(s) >= y
  BY <1>4, Zenon DEF Max
<1> QED
  BY <1>5

(* The i-th step of two folds: a channel of application x is modelled, and *)
(* an entry of schedule x is matched with the pattern.                     *)
FoldStep(fold, x, acc, i) ==
    IF fold = "model" THEN modelChannel(x, acc, x.ch[i]) ELSE MatchEntry(x, acc, x.start + i)

Folded(fold, x, b, n, it) ==
    it = [s \in SUBSET (1 .. n) |->
            IF s = {} THEN b ELSE FoldStep(fold, x, it[s \ {Max(s)}], Max(s))]

LEMMA FoldExists ==
    ASSUME NEW fold, NEW x, NEW b, NEW n \in Nat
    PROVE  \E it : Folded(fold, x, b, n, it)
<1> DEFINE D == SUBSET (1 .. n)
           Body(it, s) == IF s = {} THEN b ELSE FoldStep(fold, x, it[s \ {Max(s)}], Max(s))
           Upto(m) == {s \in D : \A i \in s : i <= m}
           T == {m \in Nat : \E it : \A s \in Upto(m) : it[s] = Body(it, s)}
<1>0. \A s \in D : s # {} => /\ Max(s) \in s /\ s \ {Max(s)} \in D
                             /\ \A y \in s : y <= Max(s)
                             /\ \A y \in s \ {Max(s)} : y + 1 <= Max(s)
  <2> SUFFICES ASSUME NEW s \in D, s # {}
               PROVE  /\ Max(s) \in s /\ s \ {Max(s)} \in D
                      /\ \A y \in s : y <= Max(s)
                      /\ \A y \in s \ {Max(s)} : y + 1 <= Max(s)
    OBVIOUS
  <2>1. Max(s) \in s /\ \A y \in s : y <= Max(s)
    BY MaxIn
  <2>2. s \ {Max(s)} \in D /\ Max(s) \in 1 .. n /\ \A y \in s : y \in 1 .. n
    BY <2>1
  <2>3. ASSUME NEW y \in s \ {Max(s)} PROVE y + 1 <= Max(s)
    <3>1. y \in 1 .. n /\ y <= Max(s) /\ y # Max(s)
      BY <2>1, <2>2
    <3> QED
      BY <2>2, <3>1
  <2> QED
    BY <2>1, <2>2, <2>3
<1>1. 0 \in T
  <2>1. ASSUME NEW s \in Upto(0) PROVE s = {}
    <3>1. s \in SUBSET (1 .. n) /\ \A i \in s : i <= 0
      OBVIOUS
    <3>2. \A i \in s : FALSE
      BY <3>1
    <3> QED
      BY <3>2
  <2>2. \A s \in Upto(0) : [s_1 \in D |-> b][s] = b
    OBVIOUS
  <2>3. \A s \in Upto(0) : [s_1 \in D |-> b][s] = Body([s_1 \in D |-> b], s)
    BY <2>1, <2>2
  <2> HIDE DEF Body, Upto, D
  <2>4. \E e : \A s \in Upto(0) : e[s] = Body(e, s)
    BY <2>3
  <2>5. 0 \in Nat
    OBVIOUS
  <2> QED
    BY <2>4, <2>5
<1>2. ASSUME NEW m \in Nat, m \in T PROVE m + 1 \in T
  <2>1. PICK it : \A s \in Upto(m) : it[s] = Body(it, s)
    BY <1>2
  <2> DEFINE ext == [s \in D |-> Body(it, s)]
  <2>2. ASSUME NEW s \in Upto(m + 1) PROVE ext[s] = Body(ext, s)
    <3>1. s \in D /\ ext[s] = Body(it, s)
      BY <2>2
    <3>2. s # {} => s \ {Max(s)} \in Upto(m)
      <4> SUFFICES ASSUME s # {} PROVE s \ {Max(s)} \in Upto(m)
        OBVIOUS
      <4>1. Max(s) \in s /\ Max(s) <= m + 1 /\ Max(s) \in 1 .. n
        BY <1>0, <3>1, <2>2
      <4>2. s \ {Max(s)} \in D /\ \A y \in s \ {Max(s)} : y + 1 <= Max(s) /\ y \in 1 .. n
        BY <1>0, <3>1
      <4>3. \A y \in s \ {Max(s)} : y <= m
        BY <4>1, <4>2
      <4> QED
        BY <4>2, <4>3
    <3>3. s # {} => ext[s \ {Max(s)}] = it[s \ {Max(s)}]
      <4> SUFFICES ASSUME s # {} PROVE ext[s \ {Max(s)}] = it[s \ {Max(s)}]
        OBVIOUS
      <4>1. s \ {Max(s)} \in D
        BY <3>2
      <4>2. ext[s \ {Max(s)}] = Body(it, s \ {Max(s)})
        BY <4>1
      <4> HIDE DEF Body, ext, Upto, D
      <4> QED
        BY <2>1, <3>2, <4>2
    <3> HIDE DEF ext, D, Upto
    <3> QED
      BY <3>1, <3>3
  <2> HIDE DEF ext, Body, Upto
  <2>3. \E e : \A s \in Upto(m + 1) : e[s] = Body(e, s)
    BY <2>2
  <2>4. m + 1 \in Nat
    OBVIOUS
  <2> QED
    BY <2>3, <2>4
<1>3. Nat \subseteq T
  <2> HIDE DEF T
  <2> QED
    BY <1>1, <1>2, UpTo
<1>4. PICK it : \A s \in Upto(n) : it[s] = Body(it, s)
  BY <1>3
<1>5. \A s \in D : s \in Upto(n)
  OBVIOUS
<1> DEFINE f == [s \in D |-> it[s]]
<1>6. \A s \in D : it[s] = Body(it, s)
  BY <1>4, <1>5
<1>7. \A s \in D : Body(it, s) = Body(f, s)
  BY <1>0
<1>8. f = [s \in D |-> Body(f, s)]
  <2> HIDE DEF D, Body
  <2> QED
    BY <1>6, <1>7
<1>9. f = [s \in SUBSET (1 .. n) |->
             IF s = {} THEN b ELSE FoldStep(fold, x, f[s \ {Max(s)}], Max(s))]
  <2> HIDE DEF f
  <2> QED
    BY <1>8
<1> HIDE DEF f
<1> QED
  BY <1>9 DEF Folded

(* What a fold returns is reached step by step.                            *)
Steps(fold, x, b, n, f) ==
    /\ f[0] = b
    /\ \A i \in 1 .. n : f[i] = FoldStep(fold, x, f[i - 1], i)

LEMMA FoldSteps ==
    ASSUME NEW fold, NEW x, NEW b, NEW n \in Nat, NEW h, Folded(fold, x, b, n, h)
    PROVE  \E f : Steps(fold, x, b, n, f) /\ h[1 .. n] = f[n]
<1>4. \A s \in SUBSET (1 .. n) : h[s] = IF s = {} THEN b ELSE FoldStep(fold, x, h[s \ {Max(s)}], Max(s))
  BY DEF Folded
<1> DEFINE f == [i \in 0 .. n |-> h[1 .. i]]
<1>5. f[0] = b
  <2>1. 1 .. 0 = {} /\ 1 .. 0 \in SUBSET (1 .. n) /\ f[0] = h[1 .. 0]
    OBVIOUS
  <2> QED
    BY <1>4, <2>1
<1>6. ASSUME NEW i \in 1 .. n PROVE f[i] = FoldStep(fold, x, f[i - 1], i)
  <2>1. /\ 1 .. i \in SUBSET (1 .. n) /\ 1 .. i # {} /\ i - 1 \in 0 .. n /\ i \in 0 .. n
        /\ i \in 1 .. i /\ \A y \in 1 .. i : y <= i
    <3>1. i \in 1 .. i
      OBVIOUS
    <3>2. \A y \in 1 .. i : y \in 1 .. n
      OBVIOUS
    <3>3. i - 1 \in 0 .. n /\ i \in 0 .. n /\ \A y \in 1 .. i : y <= i
      OBVIOUS
    <3> QED
      BY <3>1, <3>2, <3>3, Zenon
  <2>2. Max(1 .. i) \in 1 .. i /\ \A y \in 1 .. i : y <= Max(1 .. i)
    <3>1. i \in Nat
      OBVIOUS
    <3> QED
      BY <2>1, <3>1, MaxIn
  <2>3. Max(1 .. i) = i
    BY <2>1, <2>2
  <2>4. (1 .. i) \ {i} = 1 .. i - 1
    OBVIOUS
  <2>5. h[1 .. i] = FoldStep(fold, x, h[1 .. i - 1], i)
    BY <1>4, <2>1, <2>3, <2>4
  <2>6. f[i] = h[1 .. i] /\ f[i - 1] = h[1 .. i - 1]
    BY <2>1
  <2> QED
    BY <2>5, <2>6
<1>7. h[1 .. n] = f[n]
  OBVIOUS
<1>8. Steps(fold, x, b, n, f)
  <2> HIDE DEF f
  <2> QED
    BY <1>5, <1>6 DEF Steps
<1> QED
  BY <1>7, <1>8

ModelSteps(a, b, n, f) ==
    /\ f[0] = b
    /\ \A i \in 1 .. n : f[i] = modelChannel(a, f[i - 1], a.ch[i])

LEMMA ModelBindingSteps ==
    ASSUME NEW a, NEW slice, NEW schedules, NEW n \in Nat, DOMAIN a.ch = 1 .. n
    PROVE  \E f : /\ ModelSteps(a, createMappedActors(a, slice, schedules), n, f)
                  /\ modelBinding(a, slice, schedules) = f[n]
<1> DEFINE b == createMappedActors(a, slice, schedules)
           Fold(it) == it = [s \in SUBSET DOMAIN a.ch |->
                          IF s = {} THEN b ELSE modelChannel(a, it[s \ {Max(s)}], a.ch[Max(s)])]
           h == CHOOSE it : Fold(it)
<1>1. \A it : Fold(it) <=> Folded("model", a, b, n, it)
  <2> HIDE DEF b
  <2> QED
    BY DEF Folded, FoldStep
<1>2. Fold(h)
  <2> HIDE DEF Fold
  <2> QED
    BY <1>1, FoldExists
<1>3. modelBinding(a, slice, schedules) = h[DOMAIN a.ch]
  BY Zenon DEF modelBinding, FoldLeft, MapThenFoldSet
<1> HIDE DEF h, b, Fold
<1>4. PICK f : Steps("model", a, b, n, f) /\ h[1 .. n] = f[n]
  BY <1>1, <1>2, FoldSteps
<1> QED
  BY <1>3, <1>4 DEF Steps, FoldStep, ModelSteps, b

(* Edges of a graph with n actors                                          *)
EdgesTo(n) == [src : 1 .. n, dst : 1 .. n, p : Positive, c : Positive, t : Nat]

LEMMA EdgesMonotonic ==
    ASSUME NEW n \in Nat, NEW m \in Nat, n <= m
    PROVE  EdgesTo(n) \subseteq EdgesTo(m)
<1>1. 1 .. n \subseteq 1 .. m
  OBVIOUS
<1> QED
  BY <1>1 DEF EdgesTo

LEMMA EdgeType ==
    ASSUME NEW n \in Nat, NEW a \in 1 .. n, NEW b \in 1 .. n, NEW p \in Positive, NEW c \in Positive,
           NEW t \in Nat
    PROVE  Edge(a, b, p, c, t) \in EdgesTo(n)
BY DEF Edge, EdgesTo

(* One firing at a time by a cycle of edge c with edge d                   *)
Alternate(c, d, same) ==
    /\ c.dst = d.src /\ d.dst = c.src
    /\ {c.p, c.c, d.p, d.c} = {c.p}
    /\ c.t + (IF same THEN 0 ELSE d.t) = c.p

TilesOrNone(G) == Tiles(G) \cup {0}

(* The actors that come after n actors and are bound are alternated.      *)
NewAlternate(n, exs, tiles, chs) ==
    \A i \in 1 .. Len(exs) : tiles[i] # 0 =>
       /\ exs[i] > 0
       /\ \E j, k \in 1 .. Len(chs) : /\ chs[j].src = n + i
                                      /\ Alternate(chs[j], chs[k], j = k)

(* The parts of a bound graph                                              *)
LEMMA BoundParts ==
    ASSUME NEW G, IsBoundGraph(G)
    PROVE  /\ Len(G.ex) \in Nat /\ Len(G.ch) \in Nat
           /\ Actors(G) = 1 .. Len(G.ex) /\ Channels(G) = 1 .. Len(G.ch)
           /\ G.ex \in Seq(Nat)
           /\ G.ch \in Seq(EdgesTo(Len(G.ex)))
           /\ G.tile \in Seq(TilesOrNone(G)) /\ Len(G.tile) = Len(G.ex)
<1>1. G.ex \in Seq(Nat) /\ Actors(G) = 1 .. Len(G.ex) /\ Len(G.ex) \in Nat
  BY DEF IsBoundGraph, IsSDFGraph, Actors
<1>2. G.ch \in Seq(EdgesTo(Len(G.ex)))
  BY <1>1 DEF IsBoundGraph, IsSDFGraph, EdgesTo
<1>3. Channels(G) = 1 .. Len(G.ch) /\ Len(G.ch) \in Nat
  BY <1>2 DEF Channels
<1>4. G.tile \in [1 .. Len(G.ex) -> TilesOrNone(G)]
  BY <1>1 DEF IsBoundGraph, TilesOrNone
<1>5. G.tile \in Seq(TilesOrNone(G)) /\ Len(G.tile) = Len(G.ex)
  BY <1>1, <1>4
<1> QED
  BY <1>1, <1>2, <1>3, <1>5

LEMMA ExtendBound ==
    ASSUME NEW G, IsBoundGraph(G), NEW exs \in Seq(Nat),
           NEW tiles \in Seq(TilesOrNone(G)), Len(tiles) = Len(exs), NEW chs \in Seq(EdgesTo(Len(G.ex) + Len(exs))),
           NewAlternate(Len(G.ex), exs, tiles, chs),
           NEW H, H.ex = G.ex \o exs, H.ch = G.ch \o chs, H.tile = G.tile \o tiles,
           H.wheel = G.wheel, H.slice = G.slice
    PROVE  /\ IsBoundGraph(H) /\ Len(H.ex) = Len(G.ex) + Len(exs)
           /\ \A a \in 1 .. Len(G.ex) : H.tile[a] = G.tile[a]
<1> DEFINE n == Len(G.ex)
           m == Len(exs)
           e == Len(G.ch)
           f == Len(chs)
<1>1. /\ n \in Nat /\ e \in Nat /\ Actors(G) = 1 .. n /\ Channels(G) = 1 .. e /\ G.ex \in Seq(Nat)
      /\ G.ch \in Seq(EdgesTo(n)) /\ G.tile \in Seq(TilesOrNone(G)) /\ Len(G.tile) = n /\ tiles \in Seq(TilesOrNone(G))
  BY BoundParts
<1>2. m \in Nat /\ f \in Nat /\ n <= n + m /\ n + m \in Nat
  BY <1>1
<1>3. G.ch \in Seq(EdgesTo(n + m))
  <2>1. EdgesTo(n) \subseteq EdgesTo(n + m)
    BY <1>1, <1>2, EdgesMonotonic
  <2> QED
    BY <1>1, <2>1, SeqMonotonic
<1> HIDE DEF n, m, e, f
<1>4. /\ H.ex \in Seq(Nat) /\ Len(H.ex) = n + m
      /\ \A i \in 1 .. n + m : H.ex[i] = IF i <= n THEN G.ex[i] ELSE exs[i - n]
  <2>1. /\ G.ex \o exs \in Seq(Nat) /\ Len(G.ex \o exs) = Len(G.ex) + Len(exs)
        /\ \A i \in 1 .. Len(G.ex) + Len(exs) :
             (G.ex \o exs)[i] = IF i <= Len(G.ex) THEN G.ex[i] ELSE exs[i - Len(G.ex)]
    BY <1>1, Concatenation DEF Concatenated
  <2> QED
    BY <2>1 DEF n, m
<1>5. /\ H.ch \in Seq(EdgesTo(n + m)) /\ Len(H.ch) = e + f
      /\ \A i \in 1 .. e + f : H.ch[i] = IF i <= e THEN G.ch[i] ELSE chs[i - e]
  <2>1. chs \in Seq(EdgesTo(n + m))
    BY DEF n, m
  <2>2. /\ G.ch \o chs \in Seq(EdgesTo(n + m)) /\ Len(G.ch \o chs) = Len(G.ch) + Len(chs)
        /\ \A i \in 1 .. Len(G.ch) + Len(chs) :
             (G.ch \o chs)[i] = IF i <= Len(G.ch) THEN G.ch[i] ELSE chs[i - Len(G.ch)]
    BY <1>3, <2>1, Concatenation DEF Concatenated
  <2> QED
    BY <2>2 DEF e, f
<1>6. Concatenated(TilesOrNone(G), G.tile, tiles, H.tile)
  <2>1. G.tile \in Seq(TilesOrNone(G)) /\ tiles \in Seq(TilesOrNone(G))
    BY <1>1
  <2>2. Concatenated(TilesOrNone(G), G.tile, tiles, G.tile \o tiles)
    BY <2>1, Concatenation, Zenon
  <2>3. H.tile = G.tile \o tiles
    OBVIOUS
  <2> QED
    BY <2>2, <2>3, Zenon
<1>6a. /\ H.tile \in [1 .. n + m -> TilesOrNone(G)]
       /\ \A i \in 1 .. n + m : H.tile[i] = IF i <= n THEN G.tile[i] ELSE tiles[i - n]
  <2>1. Len(G.tile) = n /\ Len(tiles) = m
    BY <1>1 DEF m
  <2> QED
    BY <1>6, <2>1, Zenon DEF Concatenated
<1>7. Actors(H) = 1 .. n + m /\ Channels(H) = 1 .. e + f /\ Tiles(H) = Tiles(G)
  BY <1>4, <1>5 DEF Actors, Channels, Tiles
<1>8. IsSDFGraph(H)
  BY <1>4, <1>5, <1>7 DEF IsSDFGraph, EdgesTo
<1>9. H.tile \in [Actors(H) -> Tiles(H) \cup {0}]
  BY <1>6a, <1>7, Zenon DEF TilesOrNone
<1>10. ASSUME NEW a \in Actors(H), IsBound(H, a)
       PROVE  H.ex[a] > 0 /\ \E k \in OutChannels(H, a), l \in Channels(H) : OneAtATime(H, k, l)
  <2>1. a \in 1 .. n + m
    BY <1>7
  <2>2. CASE a <= n
    <3>1. a \in Actors(G) /\ IsBound(G, a) /\ H.ex[a] = G.ex[a]
      BY <1>1, <1>4, <1>6a, <1>10, <2>1, <2>2 DEF IsBound
    <3>2. PICK k \in OutChannels(G, a), l \in Channels(G) : OneAtATime(G, k, l)
      BY <3>1 DEF IsBoundGraph
    <3>3. k \in 1 .. e /\ l \in 1 .. e /\ G.ch[k].src = a
      BY <1>1, <3>2 DEF OutChannels
    <3>4. H.ch[k] = G.ch[k] /\ H.ch[l] = G.ch[l] /\ k \in Channels(H) /\ l \in Channels(H)
      <4>1. k \in 1 .. e + f /\ l \in 1 .. e + f /\ k <= e /\ l <= e
        BY <1>1, <1>2, <3>3
      <4> QED
        BY <1>5, <1>7, <4>1
    <3>5. OneAtATime(H, k, l)
      BY <3>2, <3>4, Zenon DEF OneAtATime
    <3>6. k \in OutChannels(H, a)
      BY <3>3, <3>4 DEF OutChannels
    <3>7. G.ex[a] > 0
      BY <3>1 DEF IsBoundGraph
    <3> QED
      BY <3>1, <3>4, <3>5, <3>6, <3>7
  <2>3. CASE ~(a <= n)
    <3> DEFINE i == a - n
    <3>1. i \in 1 .. m /\ H.ex[a] = exs[i] /\ H.tile[a] = tiles[i] /\ n + i = a
      <4>1. a - n \in 1 .. m /\ n + (a - n) = a
        BY <1>1, <1>2, <2>1, <2>3
      <4>2. H.ex[a] = exs[a - n]
        BY <1>4, <2>1, <2>3
      <4>3. H.tile[a] = tiles[a - n]
        BY <1>6a, <2>1, <2>3
      <4> QED
        BY <4>1, <4>2, <4>3
    <3> HIDE DEF i
    <3>2. tiles[i] # 0
      BY <1>10, <3>1 DEF IsBound
    <3>3. exs[i] > 0 /\ \E j, k \in 1 .. Len(chs) : /\ chs[j].src = Len(G.ex) + i
                                                    /\ Alternate(chs[j], chs[k], j = k)
      BY <3>1, <3>2 DEF m, NewAlternate
    <3>4. PICK j \in 1 .. f, k \in 1 .. f : chs[j].src = a /\ Alternate(chs[j], chs[k], j = k)
      BY <3>1, <3>3 DEF f, n
    <3>5. /\ e + j \in 1 .. e + f /\ e + k \in 1 .. e + f /\ ~(e + j <= e) /\ ~(e + k <= e)
          /\ (e + j) - e = j /\ (e + k) - e = k /\ (e + j = e + k <=> j = k)
      BY <1>1, <1>2
    <3>6. H.ch[e + j] = chs[j] /\ H.ch[e + k] = chs[k]
      BY <1>5, <3>5
    <3>7. OneAtATime(H, e + j, e + k)
      BY <3>4, <3>5, <3>6 DEF OneAtATime, Alternate
    <3>8. e + j \in OutChannels(H, a) /\ e + k \in Channels(H)
      BY <1>7, <3>4, <3>5, <3>6 DEF OutChannels
    <3> QED
      BY <3>1, <3>3, <3>7, <3>8
  <2> QED
    BY <2>2, <2>3
<1>11. IsBoundGraph(H)
  <2>1. /\ H.wheel \in Seq(Positive) /\ H.slice \in [Tiles(H) -> Positive]
        /\ \A p \in Tiles(H) : H.slice[p] <= H.wheel[p]
    BY <1>7 DEF IsBoundGraph
  <2> QED
    BY <1>8, <1>9, <1>10, <2>1, Zenon DEF IsBoundGraph
<1>12. \A a \in 1 .. n : H.tile[a] = G.tile[a]
  BY <1>1, <1>2, <1>6a
<1> QED
  BY <1>4, <1>11, <1>12 DEF n, m

(* What holds of the graph while the channels of a are modelled            *)
Grown(a, slice, b) ==
    /\ b = [g |-> b.g, sos |-> b.sos]
    /\ b.g = [ex |-> b.g.ex, ch |-> b.g.ch, tile |-> b.g.tile, wheel |-> a.wheel, slice |-> slice]
    /\ IsBoundGraph(b.g)
    /\ Len(a.ex) <= Len(b.g.ex)
    /\ \A x \in 1 .. Len(a.ex) : b.g.tile[x] = a.tile[x]

MappedChannels(n) == [src : 1 .. n, dst : 1 .. n, p : Positive, c : Positive, t : Nat, mem : Nat,
                      bufSrc : Nat, bufDst : Nat, delay : Positive, minLatency : Nat]

LEMMA ApplicationParts ==
    ASSUME NEW a, IsApplication(a)
    PROVE  /\ Len(a.ex) \in Nat /\ Len(a.ch) \in Nat /\ Actors(a) = 1 .. Len(a.ex)
           /\ Channels(a) = 1 .. Len(a.ch)
           /\ a.ex \in Seq(Positive) /\ a.ex \in Seq(Nat)
           /\ \A x \in 1 .. Len(a.ex) : a.ex[x] \in Positive
           /\ \A k \in 1 .. Len(a.ch) :
                 a.ch[k] \in MappedChannels(Len(a.ex))
           /\ \A x \in 1 .. Len(a.ex) : a.tile[x] \in Tiles(a) /\ a.tile[x] \in Nat /\ a.tile[x] # 0
           /\ a.wheel \in Seq(Positive) /\ Tiles(a) = 1 .. Len(a.wheel) /\ Len(a.wheel) \in Nat
<1>1. a.ex \in Seq(Positive) /\ Len(a.ex) \in Nat /\ Actors(a) = 1 .. Len(a.ex)
  BY DEF IsApplication, Actors
<1>2. a.ex \in Seq(Nat)
  <2>1. Positive \subseteq Nat
    BY DEF Positive
  <2> QED
    BY <1>1, <2>1, SeqMonotonic
<1>3. a.ch \in Seq(MappedChannels(Len(a.ex)))
  BY <1>1, Zenon DEF IsApplication, MappedChannels
<1>4. Channels(a) = 1 .. Len(a.ch) /\ Len(a.ch) \in Nat
  BY <1>3 DEF Channels
<1>5. a.wheel \in Seq(Positive) /\ Tiles(a) = 1 .. Len(a.wheel) /\ Len(a.wheel) \in Nat
  BY DEF IsApplication, Tiles
<1>6. \A x \in 1 .. Len(a.ex) : a.tile[x] \in Tiles(a)
  BY <1>1 DEF IsApplication
<1>7. \A k \in 1 .. Len(a.ch) : a.ch[k] \in MappedChannels(Len(a.ex))
  BY <1>3
<1>8. \A x \in 1 .. Len(a.ex) : a.ex[x] \in Positive
  BY <1>1
<1> QED
  BY <1>1, <1>2, <1>4, <1>5, <1>6, <1>7, <1>8

LEMMA MappedActors ==
    ASSUME NEW a, NEW slice, NEW schedules, IsApplication(a), IsReservation(a, slice)
    PROVE  Grown(a, slice, createMappedActors(a, slice, schedules))
<1> DEFINE n == Len(a.ex)
           e == Len(a.ch)
           chs == [k \in Channels(a) |-> LET c == a.ch[k] IN Edge(c.src, c.dst, c.p, c.c, c.t)]
           selves == [x \in Actors(a) |-> Edge(x, x, 1, 1, 1)]
           b == createMappedActors(a, slice, schedules)
<1>1. /\ n \in Nat /\ e \in Nat /\ Actors(a) = 1 .. n /\ Channels(a) = 1 .. e /\ a.ex \in Seq(Nat)
      /\ \A x \in 1 .. n : a.ex[x] \in Positive
  BY ApplicationParts
<1>2. chs \in [1 .. e -> EdgesTo(n)] /\ selves \in [1 .. n -> EdgesTo(n)]
  <2>1. ASSUME NEW k \in 1 .. e
        PROVE  Edge(a.ch[k].src, a.ch[k].dst, a.ch[k].p, a.ch[k].c, a.ch[k].t) \in EdgesTo(n)
    <3>1. /\ a.ch[k].src \in 1 .. n /\ a.ch[k].dst \in 1 .. n
          /\ a.ch[k].p \in Positive /\ a.ch[k].c \in Positive /\ a.ch[k].t \in Nat
      BY ApplicationParts DEF MappedChannels
    <3> QED
      BY <1>1, <3>1, EdgeType
  <2>2. ASSUME NEW x \in 1 .. n
        PROVE  Edge(x, x, 1, 1, 1) \in EdgesTo(n)
    <3>1. 1 \in Positive /\ 1 \in Nat
      BY DEF Positive
    <3> QED
      BY <1>1, <3>1, EdgeType
  <2> QED
    BY <1>1, <2>1, <2>2
<1>3. /\ b = [g |-> b.g, sos |-> b.sos]
      /\ b.g = [ex |-> b.g.ex, ch |-> b.g.ch, tile |-> b.g.tile, wheel |-> a.wheel, slice |-> slice]
      /\ b.g.ex = a.ex /\ b.g.tile = a.tile /\ b.g.wheel = a.wheel /\ b.g.slice = slice
      /\ b.g.ch = chs \o selves
  BY DEF createMappedActors
<1> HIDE DEF b, chs, selves, n, e
<1>4. /\ chs \in Seq(EdgesTo(n)) /\ selves \in Seq(EdgesTo(n)) /\ Len(chs) = e /\ Len(selves) = n
  BY <1>1, <1>2
<1>5. Concatenated(EdgesTo(n), chs, selves, b.g.ch)
  BY <1>3, <1>4, Concatenation
<1>6. /\ b.g.ch \in Seq(EdgesTo(n)) /\ Len(b.g.ch) = e + n
      /\ \A x \in 1 .. n : e + x \in 1 .. e + n /\ b.g.ch[e + x] = Edge(x, x, 1, 1, 1)
  <2>1. b.g.ch \in Seq(EdgesTo(n)) /\ Len(b.g.ch) = e + n
    BY <1>4, <1>5 DEF Concatenated
  <2>2. ASSUME NEW x \in 1 .. n PROVE e + x \in 1 .. e + n /\ b.g.ch[e + x] = Edge(x, x, 1, 1, 1)
    <3>1. e + x \in 1 .. e + n /\ ~(e + x <= e) /\ (e + x) - e = x
      BY <1>1
    <3>2. b.g.ch[e + x] = selves[x]
      BY <1>4, <1>5, <3>1 DEF Concatenated
    <3> QED
      BY <1>1, <3>1, <3>2 DEF selves
  <2> QED
    BY <2>1, <2>2
<1>7. Actors(b.g) = 1 .. n /\ Channels(b.g) = 1 .. e + n /\ Tiles(b.g) = Tiles(a)
  BY <1>1, <1>3, <1>6 DEF Actors, Channels, Tiles
<1>8. IsSDFGraph(b.g)
  BY <1>1, <1>3, <1>6, <1>7 DEF IsSDFGraph, EdgesTo
<1>9. ASSUME NEW x \in Actors(b.g)
      PROVE  b.g.ex[x] > 0 /\ \E k \in OutChannels(b.g, x), l \in Channels(b.g) : OneAtATime(b.g, k, l)
  <2>1. b.g.ch[e + x] = Edge(x, x, 1, 1, 1) /\ e + x \in Channels(b.g)
    BY <1>6, <1>7
  <2>2. e + x \in OutChannels(b.g, x)
    BY <2>1 DEF OutChannels, Edge
  <2>3. OneAtATime(b.g, e + x, e + x)
    BY <2>1 DEF OneAtATime, Edge
  <2>4. a.ex[x] \in Positive
    BY <1>1, <1>7
  <2> QED
    BY <1>3, <2>1, <2>2, <2>3, <2>4 DEF Positive
<1>10. IsBoundGraph(b.g)
  <2>1. /\ b.g.wheel \in Seq(Positive) /\ b.g.slice \in [Tiles(b.g) -> Positive]
        /\ \A p \in Tiles(b.g) : b.g.slice[p] <= b.g.wheel[p]
    BY <1>3, <1>7 DEF IsApplication, IsReservation
  <2>2. b.g.tile \in [Actors(b.g) -> Tiles(b.g) \cup {0}]
    BY <1>1, <1>3, <1>7 DEF IsApplication
  <2> QED
    BY <1>8, <1>9, <2>1, <2>2, Zenon DEF IsBoundGraph
<1>11. Len(a.ex) <= Len(b.g.ex) /\ \A x \in 1 .. Len(a.ex) : b.g.tile[x] = a.tile[x]
  BY <1>1, <1>3 DEF n
<1>12. Grown(a, slice, b)
  BY <1>3, <1>10, <1>11, Zenon DEF Grown
<1> QED
  BY <1>12 DEF b

Widened(G, q, r, s) == [[[G EXCEPT !.ex = q] EXCEPT !.tile = r] EXCEPT !.ch = s]

LEMMA ExtendRecord ==
    ASSUME NEW G, NEW x, NEW y, NEW z, NEW v, NEW w, NEW q, NEW r, NEW s,
           G = [ex |-> x, ch |-> y, tile |-> z, wheel |-> v, slice |-> w]
    PROVE  Widened(G, q, r, s) = [ex |-> q, ch |-> s, tile |-> r, wheel |-> v, slice |-> w]
<1>1. PICK H : H = [G EXCEPT !.ex = q]
  OBVIOUS
<1>2. H = [ex |-> q, ch |-> y, tile |-> z, wheel |-> v, slice |-> w]
  BY <1>1
<1>3. PICK K : K = [H EXCEPT !.tile = r]
  OBVIOUS
<1>4. K = [ex |-> q, ch |-> y, tile |-> r, wheel |-> v, slice |-> w]
  BY <1>2, <1>3
<1>5. PICK L : L = [K EXCEPT !.ch = s]
  OBVIOUS
<1>6. L = [ex |-> q, ch |-> s, tile |-> r, wheel |-> v, slice |-> w]
  BY <1>4, <1>5
<1> QED
  BY <1>1, <1>3, <1>5, <1>6, Zenon DEF Widened

LEMMA ExtendGrown ==
    ASSUME NEW a, NEW slice, NEW b, IsApplication(a), Grown(a, slice, b),
           NEW exs \in Seq(Nat), NEW tiles \in Seq(TilesOrNone(b.g)),
           Len(tiles) = Len(exs), NEW chs \in Seq(EdgesTo(Len(b.g.ex) + Len(exs))),
           NewAlternate(Len(b.g.ex), exs, tiles, chs)
    PROVE  Grown(a, slice, Extend(b, exs, tiles, chs))
<1> DEFINE E == Extend(b, exs, tiles, chs)
<1>1. /\ b = [g |-> b.g, sos |-> b.sos]
      /\ b.g = [ex |-> b.g.ex, ch |-> b.g.ch, tile |-> b.g.tile, wheel |-> a.wheel, slice |-> slice]
      /\ IsBoundGraph(b.g)
      /\ Len(a.ex) <= Len(b.g.ex)
      /\ \A x \in 1 .. Len(a.ex) : b.g.tile[x] = a.tile[x]
  BY DEF Grown
<1>2. PICK q, r, s : q = b.g.ex \o exs /\ r = b.g.tile \o tiles /\ s = b.g.ch \o chs
  OBVIOUS
<1>3. E = [b EXCEPT !.g = [[[b.g EXCEPT !.ex = q] EXCEPT !.tile = r] EXCEPT !.ch = s]]
  BY <1>1, <1>2 DEF Extend
<1> HIDE DEF E
<1>3a. /\ E = [g |-> E.g, sos |-> E.sos]
       /\ E.g = [[[b.g EXCEPT !.ex = q] EXCEPT !.tile = r] EXCEPT !.ch = s]
  <2>1. PICK G, h : b = [g |-> G, sos |-> h]
    BY <1>1
  <2> QED
    BY <1>3, <2>1
<1>4. /\ E.g.ex = b.g.ex \o exs /\ E.g.tile = b.g.tile \o tiles /\ E.g.ch = b.g.ch \o chs
      /\ E.g.wheel = a.wheel /\ E.g.slice = slice /\ b.g.wheel = a.wheel /\ b.g.slice = slice
      /\ E.g = [ex |-> E.g.ex, ch |-> E.g.ch, tile |-> E.g.tile, wheel |-> a.wheel, slice |-> slice]
  <2>1. E.g = [ex |-> q, ch |-> s, tile |-> r, wheel |-> a.wheel, slice |-> slice]
    <3>1. PICK x, y, z, w, G : G = [ex |-> x, ch |-> y, tile |-> z, wheel |-> a.wheel, slice |-> w]
                               /\ G = b.g /\ w = slice
      BY <1>1
    <3>2. Widened(G, q, r, s)
              = [ex |-> q, ch |-> s, tile |-> r, wheel |-> a.wheel, slice |-> w]
      BY <3>1, ExtendRecord
    <3> QED
      BY <1>3a, <3>1, <3>2, Zenon DEF Widened
  <2>2. b.g.wheel = a.wheel /\ b.g.slice = slice
    BY <1>1
  <2>3. E.g.ex = q /\ E.g.tile = r /\ E.g.ch = s /\ E.g.wheel = a.wheel /\ E.g.slice = slice
    BY <2>1
  <2> QED
    BY <1>2, <2>1, <2>2, <2>3
<1>5. /\ IsBoundGraph(E.g) /\ Len(E.g.ex) = Len(b.g.ex) + Len(exs)
      /\ \A x \in 1 .. Len(b.g.ex) : E.g.tile[x] = b.g.tile[x]
  <2>1. E.g.wheel = b.g.wheel /\ E.g.slice = b.g.slice
    BY <1>4
  <2> QED
    BY <1>1, <1>4, <2>1, ExtendBound, Zenon
<1>6. Len(a.ex) \in Nat /\ Len(b.g.ex) \in Nat /\ Len(exs) \in Nat
  BY <1>1, BoundParts, ApplicationParts
<1>7. Len(a.ex) <= Len(E.g.ex) /\ \A x \in 1 .. Len(a.ex) : E.g.tile[x] = a.tile[x]
  BY <1>1, <1>5, <1>6
<1> QED
  BY <1>3a, <1>4, <1>5, <1>7 DEF Grown, E

LEMMA OptionType ==
    ASSUME NEW S, NEW cond \in BOOLEAN, NEW x, cond => x \in S
    PROVE  /\ (IF cond THEN <<x>> ELSE <<>>) \in Seq(S)
           /\ Len(IF cond THEN <<x>> ELSE <<>>) = IF cond THEN 1 ELSE 0
<1>1. CASE cond
  <2>1. <<x>> \in Seq(S) /\ Len(<<x>>) = 1
    BY <1>1
  <2> QED
    BY <1>1, <2>1, Zenon
<1>2. CASE ~cond
  <2>1. <<>> \in Seq(S) /\ Len(<<>>) = 0
    OBVIOUS
  <2>2. (IF cond THEN <<x>> ELSE <<>>) = <<>>
    BY <1>2
  <2>3. (IF cond THEN 1 ELSE 0) = 0
    BY <1>2
  <2> QED
    BY <2>1, <2>2, <2>3
<1> QED
  BY <1>1, <1>2

LEMMA ConcatType ==
    ASSUME NEW S, NEW s \in Seq(S), NEW t \in Seq(S)
    PROVE  s \o t \in Seq(S) /\ Len(s \o t) = Len(s) + Len(t)
BY Concatenation DEF Concatenated

(* Actors that are all unbound                                             *)
LEMMA ExtendUnbound ==
    ASSUME NEW a, NEW slice, NEW b, IsApplication(a), Grown(a, slice, b),
           NEW m \in Nat, NEW exs \in Seq(Nat), Len(exs) = m,
           NEW chs \in Seq(EdgesTo(Len(b.g.ex) + m))
    PROVE  Grown(a, slice, Extend(b, exs, [i \in 1 .. m |-> 0], chs))
<1> DEFINE tiles == [i \in 1 .. m |-> 0]
<1>1. tiles \in Seq(TilesOrNone(b.g)) /\ Len(tiles) = Len(exs) /\ \A i \in 1 .. Len(exs) : tiles[i] = 0
  BY DEF TilesOrNone
<1> HIDE DEF tiles
<1>2. NewAlternate(Len(b.g.ex), exs, tiles, chs)
  BY <1>1 DEF NewAlternate
<1>3. chs \in Seq(EdgesTo(Len(b.g.ex) + Len(exs)))
  OBVIOUS
<1>4. Grown(a, slice, Extend(b, exs, tiles, chs))
  BY <1>1, <1>2, <1>3, ExtendGrown
<1> QED
  BY <1>4 DEF tiles

(* The channels of a fit in the buffers and memories.                      *)
LEMMA MappedFacts ==
    ASSUME NEW a, NEW slice, NEW b, IsApplication(a), IsReservation(a, slice), HoldsInitialTokens(a),
           Grown(a, slice, b), NEW k \in Channels(a), a.ch[k].src # a.ch[k].dst
    PROVE  LET c == a.ch[k]
               n == Len(b.g.ex)
           IN  /\ n \in Nat /\ c.src \in 1 .. n /\ c.dst \in 1 .. n
               /\ c.p \in Positive /\ c.c \in Positive /\ c.t \in Nat
               /\ c.mem \in Nat /\ c.bufSrc \in Nat /\ c.bufDst \in Nat
               /\ c.delay \in Positive /\ c.minLatency \in Nat
               /\ a.tile[c.src] = a.tile[c.dst] => c.mem - c.t \in Nat
               /\ a.tile[c.src] # a.tile[c.dst] => c.bufSrc - c.t \in Nat
               /\ b.g.tile[c.src] = a.tile[c.src] /\ b.g.tile[c.dst] = a.tile[c.dst]
               /\ a.tile[c.dst] \in Tiles(b.g) /\ a.tile[c.dst] # 0 /\ a.tile[c.dst] \in Nat
               /\ Rest(b.g, b.g.tile[c.src]) \in Nat /\ Rest(b.g, b.g.tile[c.dst]) \in Nat
<1> DEFINE c == a.ch[k]
           n == Len(b.g.ex)
<1>1. /\ n \in Nat /\ Len(a.ex) \in Nat /\ Len(a.ex) <= n /\ IsBoundGraph(b.g)
      /\ \A x \in 1 .. Len(a.ex) : b.g.tile[x] = a.tile[x]
  BY BoundParts, ApplicationParts DEF Grown
<1>2. /\ c \in MappedChannels(Len(a.ex))
      /\ \A x \in 1 .. Len(a.ex) : a.tile[x] \in Tiles(a) /\ a.tile[x] # 0 /\ a.tile[x] \in Nat
  BY ApplicationParts
<1>3. /\ c.src \in 1 .. Len(a.ex) /\ c.dst \in 1 .. Len(a.ex)
      /\ c.p \in Positive /\ c.c \in Positive /\ c.t \in Nat
      /\ c.mem \in Nat /\ c.bufSrc \in Nat /\ c.bufDst \in Nat
      /\ c.delay \in Positive /\ c.minLatency \in Nat
  BY <1>2 DEF MappedChannels
<1>4. c.t <= IF a.tile[c.src] = a.tile[c.dst] THEN c.mem ELSE c.bufSrc
  BY DEF HoldsInitialTokens
<1>5. /\ a.tile[c.src] = a.tile[c.dst] => c.mem - c.t \in Nat
      /\ a.tile[c.src] # a.tile[c.dst] => c.bufSrc - c.t \in Nat
  BY <1>3, <1>4
<1>6. c.src \in 1 .. n /\ c.dst \in 1 .. n
  BY <1>1, <1>3
<1>7. b.g.wheel = a.wheel /\ Tiles(b.g) = Tiles(a)
  BY DEF Grown, Tiles
<1>8. ASSUME NEW p \in Tiles(b.g) PROVE Rest(b.g, p) \in Nat
  <2>1. b.g.wheel[p] \in Positive /\ b.g.slice[p] \in Positive /\ b.g.slice[p] <= b.g.wheel[p]
    BY <1>1 DEF IsBoundGraph, Tiles
  <2> QED
    BY <2>1 DEF Rest, Positive
<1>9. /\ b.g.tile[c.src] = a.tile[c.src] /\ b.g.tile[c.dst] = a.tile[c.dst]
      /\ a.tile[c.src] \in Tiles(b.g) /\ a.tile[c.dst] \in Tiles(b.g)
      /\ a.tile[c.dst] # 0 /\ a.tile[c.dst] \in Nat
  BY <1>1, <1>2, <1>3, <1>7
<1> QED
  BY <1>1, <1>3, <1>5, <1>6, <1>8, <1>9

LEMMA ToTile ==
    ASSUME NEW a, NEW slice, NEW b, IsApplication(a), IsReservation(a, slice), HoldsInitialTokens(a),
           Grown(a, slice, b), NEW k \in Channels(a), a.ch[k].src # a.ch[k].dst,
           a.tile[a.ch[k].src] = a.tile[a.ch[k].dst]
    PROVE  Grown(a, slice, createMappedChannelToTile(b, a.ch[k]))
<1> DEFINE c == a.ch[k]
           n == Len(b.g.ex)
           chs == <<Edge(c.dst, c.src, c.c, c.p, c.mem - c.t)>>
<1>1. /\ n \in Nat /\ c.src \in 1 .. n /\ c.dst \in 1 .. n /\ c.p \in Positive /\ c.c \in Positive
      /\ c.mem - c.t \in Nat
  BY MappedFacts
<1>2. chs \in Seq(EdgesTo(n + 0))
  <2>1. Edge(c.dst, c.src, c.c, c.p, c.mem - c.t) \in EdgesTo(n + 0)
    BY <1>1, EdgeType
  <2> QED
    BY <2>1
<1>3. <<>> \in Seq(Nat) /\ Len(<<>>) = 0 /\ [i \in 1 .. 0 |-> 0] = <<>>
  OBVIOUS
<1> HIDE DEF chs
<1>4. Grown(a, slice, Extend(b, <<>>, [i \in 1 .. 0 |-> 0], chs))
  BY <1>2, <1>3, ExtendUnbound
<1>5. Grown(a, slice, Extend(b, <<>>, <<>>, chs))
  BY <1>3, <1>4, Zenon
<1> QED
  BY <1>5 DEF createMappedChannelToTile, chs

LEMMA ToConnectionNSoC ==
    ASSUME NEW a, NEW slice, NEW b, IsApplication(a), IsReservation(a, slice), HoldsInitialTokens(a),
           Grown(a, slice, b), NEW k \in Channels(a), a.ch[k].src # a.ch[k].dst,
           a.tile[a.ch[k].src] # a.tile[a.ch[k].dst]
    PROVE  Grown(a, slice, createMappedChannelToConnectionNSoC(b, a.ch[k]))
<1> DEFINE c == a.ch[k]
           N == Len(b.g.ex)
           n == N + 1
           sync == Rest(b.g, b.g.tile[c.dst])
           last == IF sync > 0 THEN n + 1 ELSE n
           e == last + 1
           l == IF c.minLatency > 0 THEN 1 ELSE 0
           m == (last - n + 1) + l
           exs == <<c.delay>> \o (IF sync > 0 THEN <<sync>> ELSE <<>>)
                        \o (IF c.minLatency > 0 THEN <<c.minLatency>> ELSE <<>>)
           four == <<Edge(n, n, 1, 1, 1), Edge(n, c.src, 1, c.p, c.bufSrc - c.t),
                     Edge(c.dst, n, c.c, 1, c.bufDst), Edge(c.src, n, c.p, 1, c.t)>>
           wait == IF sync > 0 THEN <<Edge(n, last, 1, 1, 0)>> ELSE <<>>
           arrive == <<Edge(last, c.dst, 1, c.c, 0)>>
           lat == IF c.minLatency > 0
                  THEN <<Edge(c.src, e, c.p, 1, c.t), Edge(e, c.dst, 1, c.c, 0)>> ELSE <<>>
           chs == four \o wait \o arrive \o lat
<1>1. /\ N \in Nat /\ c.src \in 1 .. N /\ c.dst \in 1 .. N
      /\ c.p \in Positive /\ c.c \in Positive /\ c.t \in Nat
      /\ c.bufSrc - c.t \in Nat /\ c.bufDst \in Nat /\ c.delay \in Positive /\ c.minLatency \in Nat
      /\ sync \in Nat
  BY MappedFacts
<1> DEFINE w == IF sync > 0 THEN 1 ELSE 0
<1>2. /\ N + m \in Nat /\ n \in 1 .. N + m /\ last \in 1 .. N + m
      /\ c.minLatency > 0 => e \in 1 .. N + m
      /\ m = 1 + w + l /\ m \in Nat
  <2> HIDE DEF sync, c, N
  <2>1. l \in {0, 1} /\ (c.minLatency > 0 => l = 1)
    OBVIOUS
  <2>2. w \in {0, 1} /\ last = n + w
    <3>1. CASE sync > 0
      BY <1>1, <3>1
    <3>2. CASE ~(sync > 0)
      BY <1>1, <3>2
    <3> QED
      BY <3>1, <3>2
  <2> HIDE DEF w, last, l
  <2> QED
    BY <1>1, <2>1, <2>2
<1>3. c.src \in 1 .. N + m /\ c.dst \in 1 .. N + m
  <2> HIDE DEF m, c, N
  <2> QED
    BY <1>1, <1>2
<1>4. exs \in Seq(Nat) /\ Len(exs) = m
  <2> DEFINE s1 == <<c.delay>>
             s2 == IF sync > 0 THEN <<sync>> ELSE <<>>
             s3 == IF c.minLatency > 0 THEN <<c.minLatency>> ELSE <<>>
  <2>1. s1 \in Seq(Nat) /\ Len(s1) = 1
    BY <1>1 DEF Positive
  <2>2. (sync > 0) \in BOOLEAN /\ (c.minLatency > 0) \in BOOLEAN
    OBVIOUS
  <2>3. s2 \in Seq(Nat) /\ Len(s2) = IF sync > 0 THEN 1 ELSE 0
    BY <1>1, <2>2, OptionType
  <2>4. s3 \in Seq(Nat) /\ Len(s3) = IF c.minLatency > 0 THEN 1 ELSE 0
    BY <1>1, <2>2, OptionType
  <2>5. exs = (s1 \o s2) \o s3
    OBVIOUS
  <2> HIDE DEF s1, s2, s3, exs, m, sync
  <2>6. s1 \o s2 \in Seq(Nat) /\ Len(s1 \o s2) = Len(s1) + Len(s2)
    BY <2>1, <2>3, ConcatType
  <2>7. (s1 \o s2) \o s3 \in Seq(Nat) /\ Len((s1 \o s2) \o s3) = Len(s1 \o s2) + Len(s3)
    BY <2>4, <2>6, ConcatType
  <2> QED
    BY <1>2, <2>1, <2>3, <2>4, <2>5, <2>6, <2>7
<1>5. chs \in Seq(EdgesTo(N + m))
  <2> HIDE DEF N, m, n, last, e, sync, c
  <2>0. 1 \in Positive /\ 0 \in Nat /\ 1 \in Nat
    BY DEF Positive
  <2>1. /\ Edge(n, n, 1, 1, 1) \in EdgesTo(N + m)
        /\ Edge(n, c.src, 1, c.p, c.bufSrc - c.t) \in EdgesTo(N + m)
        /\ Edge(c.dst, n, c.c, 1, c.bufDst) \in EdgesTo(N + m)
        /\ Edge(c.src, n, c.p, 1, c.t) \in EdgesTo(N + m)
        /\ Edge(n, last, 1, 1, 0) \in EdgesTo(N + m)
        /\ Edge(last, c.dst, 1, c.c, 0) \in EdgesTo(N + m)
    BY <1>1, <1>2, <1>3, <2>0, EdgeType
  <2>2. c.minLatency > 0 => /\ Edge(c.src, e, c.p, 1, c.t) \in EdgesTo(N + m)
                            /\ Edge(e, c.dst, 1, c.c, 0) \in EdgesTo(N + m)
    BY <1>1, <1>2, <1>3, <2>0, EdgeType
  <2>3. four \in Seq(EdgesTo(N + m))
    BY <2>1
  <2>4. wait \in Seq(EdgesTo(N + m))
    <3>1. (sync > 0) \in BOOLEAN
      OBVIOUS
    <3> QED
      BY <2>1, <3>1, OptionType
  <2>5. arrive \in Seq(EdgesTo(N + m))
    BY <2>1
  <2>6. lat \in Seq(EdgesTo(N + m))
    <3>1. CASE c.minLatency > 0
      <4>1. <<Edge(c.src, e, c.p, 1, c.t), Edge(e, c.dst, 1, c.c, 0)>> \in Seq(EdgesTo(N + m))
        BY <2>2, <3>1
      <4> QED
        BY <3>1, <4>1, Zenon
    <3>2. CASE ~(c.minLatency > 0)
      <4>1. <<>> \in Seq(EdgesTo(N + m))
        OBVIOUS
      <4> QED
        BY <3>2, <4>1, Zenon
    <3> QED
      BY <3>1, <3>2
  <2> HIDE DEF four, wait, arrive, lat
  <2>7. four \o wait \in Seq(EdgesTo(N + m))
    BY <2>3, <2>4, ConcatType
  <2>8. four \o wait \o arrive \in Seq(EdgesTo(N + m))
    BY <2>5, <2>7, ConcatType
  <2>9. four \o wait \o arrive \o lat \in Seq(EdgesTo(N + m))
    BY <2>6, <2>8, ConcatType
  <2> QED
    BY <2>9
<1>6. createMappedChannelToConnectionNSoC(b, c) = Extend(b, exs, [i \in 1 .. m |-> 0], chs)
  BY Zenon DEF createMappedChannelToConnectionNSoC
<1> HIDE DEF exs, chs, m
<1>7. Grown(a, slice, Extend(b, exs, [i \in 1 .. m |-> 0], chs))
  BY <1>2, <1>4, <1>5, ExtendUnbound
<1> QED
  BY <1>6, <1>7, Zenon

LEMMA ToConnectionMPFlow ==
    ASSUME NEW a, NEW slice, NEW b, IsApplication(a), IsReservation(a, slice), HoldsInitialTokens(a),
           Grown(a, slice, b), NEW k \in Channels(a), a.ch[k].src # a.ch[k].dst,
           a.tile[a.ch[k].src] # a.tile[a.ch[k].dst]
    PROVE  Grown(a, slice, createMappedChannelToConnectionMPFlow(b, a.ch[k]))
<1> DEFINE c == a.ch[k]
           N == Len(b.g.ex)
           p == b.g.tile[c.dst]
           exs == <<SemaphoreLatency, SemaphoreLatency, c.delay, Rest(b.g, b.g.tile[c.src]), Rest(b.g, p)>>
           tiles == <<0, 0, p, 0, 0>>
           chs == <<Edge(c.src, N + 1, c.p, 1, c.t),
                    Edge(N + 1, N + 5, 1, 1, 0),
                    Edge(N + 5, N + 3, 1, c.c, 0),
                    Edge(N + 3, c.dst, c.c, c.c, 0),
                    Edge(c.dst, N + 3, c.c, c.c, c.c),
                    Edge(N + 3, N + 2, c.c, 1, 0),
                    Edge(N + 2, N + 4, 1, 1, 0),
                    Edge(N + 4, c.src, 1, c.p, c.bufSrc - c.t)>>
           with == Extend(b, exs, tiles, chs)
           done == createMappedChannelToConnectionMPFlow(b, c)
<1>1. /\ N \in Nat /\ c.src \in 1 .. N /\ c.dst \in 1 .. N
      /\ c.p \in Positive /\ c.c \in Positive /\ c.t \in Nat
      /\ c.bufSrc - c.t \in Nat /\ c.delay \in Positive
      /\ Rest(b.g, b.g.tile[c.src]) \in Nat /\ Rest(b.g, p) \in Nat
      /\ p \in Tiles(b.g)
  BY MappedFacts
<1>2. exs \in Seq(Nat) /\ Len(exs) = 5 /\ exs[3] = c.delay
  BY <1>1 DEF SemaphoreLatency, Positive
<1>3. /\ tiles \in Seq(TilesOrNone(b.g)) /\ Len(tiles) = 5
      /\ \A i \in 1 .. 5 : tiles[i] # 0 => i = 3
  BY <1>1 DEF TilesOrNone
<1>4. chs \in Seq(EdgesTo(N + 5)) /\ Len(chs) = 8
  <2>1. /\ N + 5 \in Nat /\ N + 1 \in 1 .. N + 5 /\ N + 2 \in 1 .. N + 5 /\ N + 3 \in 1 .. N + 5
        /\ N + 4 \in 1 .. N + 5 /\ N + 5 \in 1 .. N + 5 /\ c.src \in 1 .. N + 5 /\ c.dst \in 1 .. N + 5
        /\ 1 \in Positive /\ 0 \in Nat /\ c.c \in Nat
    <3>1. 1 \in Positive /\ 0 \in Nat /\ c.c \in Nat
      BY <1>1 DEF Positive
    <3> HIDE DEF N, c
    <3>2. N \in Nat /\ c.src \in 1 .. N /\ c.dst \in 1 .. N
      BY <1>1
    <3> QED
      BY <3>1, <3>2
  <2> HIDE DEF N, c
  <2>2. /\ Edge(c.src, N + 1, c.p, 1, c.t) \in EdgesTo(N + 5)
        /\ Edge(N + 1, N + 5, 1, 1, 0) \in EdgesTo(N + 5)
        /\ Edge(N + 5, N + 3, 1, c.c, 0) \in EdgesTo(N + 5)
        /\ Edge(N + 3, c.dst, c.c, c.c, 0) \in EdgesTo(N + 5)
    BY <1>1, <2>1, EdgeType
  <2>3. /\ Edge(c.dst, N + 3, c.c, c.c, c.c) \in EdgesTo(N + 5)
        /\ Edge(N + 3, N + 2, c.c, 1, 0) \in EdgesTo(N + 5)
        /\ Edge(N + 2, N + 4, 1, 1, 0) \in EdgesTo(N + 5)
        /\ Edge(N + 4, c.src, 1, c.p, c.bufSrc - c.t) \in EdgesTo(N + 5)
    BY <1>1, <2>1, EdgeType
  <2> QED
    BY <2>2, <2>3
<1>5. NewAlternate(N, exs, tiles, chs)
  <2>1. chs[4] = Edge(N + 3, c.dst, c.c, c.c, 0) /\ chs[5] = Edge(c.dst, N + 3, c.c, c.c, c.c)
    OBVIOUS
  <2>2. Alternate(chs[4], chs[5], 4 = 5) /\ chs[4].src = N + 3
    BY <1>1, <2>1 DEF Alternate, Edge, Positive
  <2>3. exs[3] > 0
    BY <1>1, <1>2 DEF Positive
  <2> HIDE DEF chs, exs, tiles, N, c
  <2>4. 4 \in 1 .. Len(chs) /\ 5 \in 1 .. Len(chs)
    BY <1>4
  <2>5. \E i, j \in 1 .. Len(chs) : chs[i].src = N + 3 /\ Alternate(chs[i], chs[j], i = j)
    BY <2>2, <2>4
  <2>6. \A i \in 1 .. Len(exs) : tiles[i] # 0 => i = 3
    BY <1>2, <1>3
  <2> QED
    BY <2>3, <2>5, <2>6 DEF NewAlternate
<1>6. Grown(a, slice, with)
  <2> HIDE DEF chs, exs, tiles, c
  <2> QED
    BY <1>2, <1>3, <1>4, <1>5, ExtendGrown
<1>7. done = [with EXCEPT !.sos[p] = insertActors(@, c.dst, N + 3)]
  BY Zenon DEF createMappedChannelToConnectionMPFlow
<1> HIDE DEF with, done, p, c, N, exs, tiles, chs
<1>8. with = [g |-> with.g, sos |-> with.sos]
  BY <1>6 DEF Grown
<1>9. done.g = with.g /\ done = [g |-> done.g, sos |-> done.sos]
  <2>1. PICK G, h : with = [g |-> G, sos |-> h]
    BY <1>8
  <2> QED
    BY <1>7, <2>1
<1>10. Grown(a, slice, done)
  BY <1>6, <1>9 DEF Grown
<1> QED
  BY <1>10 DEF done, c

(* The binding-aware graph is a bound graph: every actor that is bound has *)
(* an execution time and fires once at a time, and the actors of the       *)
(* application stay on their tiles.                                        *)
THEOREM BindingAwareGraph ==
    ASSUME NEW a, NEW slice, NEW schedules, IsApplication(a), IsReservation(a, slice), HoldsInitialTokens(a)
    PROVE  LET b == modelBinding(a, slice, schedules)
           IN  /\ IsBoundGraph(b.g)
               /\ b.g.wheel = a.wheel /\ b.g.slice = slice
               /\ \A x \in Actors(a) : x \in Actors(b.g) /\ b.g.tile[x] = a.tile[x]
<1> DEFINE n == Len(a.ch)
           b == modelBinding(a, slice, schedules)
<1>1. n \in Nat /\ Channels(a) = 1 .. n /\ Actors(a) = 1 .. Len(a.ex) /\ Len(a.ex) \in Nat
  BY ApplicationParts
<1>2. PICK f : ModelSteps(a, createMappedActors(a, slice, schedules), n, f) /\ b = f[n]
  BY <1>1, ModelBindingSteps DEF Channels
<1> HIDE DEF n, b
<1> DEFINE S == {i \in Nat : i <= n => Grown(a, slice, f[i])}
<1>3. 0 \in S
  BY <1>2, MappedActors DEF ModelSteps
<1>4. ASSUME NEW i \in Nat, i \in S PROVE i + 1 \in S
  <2> SUFFICES ASSUME i + 1 <= n PROVE Grown(a, slice, f[i + 1])
    OBVIOUS
  <2>1. i + 1 \in 1 .. n /\ (i + 1) - 1 = i
    BY <1>1
  <2>2. Grown(a, slice, f[i])
    BY <1>1, <1>4
  <2>3. i + 1 \in Channels(a)
    BY <1>1, <2>1
  <2>4. f[i + 1] = modelChannel(a, f[i], a.ch[i + 1])
    BY <1>2, <2>1 DEF ModelSteps
  <2>5. PICK k \in Channels(a) : k = i + 1
    BY <2>3
  <2>6. CASE a.ch[k].src = a.ch[k].dst
    BY <2>2, <2>4, <2>5, <2>6 DEF modelChannel
  <2>7. CASE a.ch[k].src # a.ch[k].dst /\ a.tile[a.ch[k].src] = a.tile[a.ch[k].dst]
    <3>1. f[i + 1] = createMappedChannelToTile(f[i], a.ch[k])
      BY <2>4, <2>5, <2>7 DEF modelChannel
    <3> QED
      BY <2>2, <2>7, <3>1, ToTile
  <2>8. CASE a.ch[k].src # a.ch[k].dst /\ a.tile[a.ch[k].src] # a.tile[a.ch[k].dst]
    <3>1. CASE a.flow = "NSoC"
      <4>1. f[i + 1] = createMappedChannelToConnectionNSoC(f[i], a.ch[k])
        BY <2>4, <2>5, <2>8, <3>1 DEF modelChannel
      <4> QED
        BY <2>2, <2>8, <4>1, ToConnectionNSoC
    <3>2. CASE a.flow # "NSoC"
      <4>1. f[i + 1] = createMappedChannelToConnectionMPFlow(f[i], a.ch[k])
        BY <2>4, <2>5, <2>8, <3>2 DEF modelChannel
      <4> QED
        BY <2>2, <2>8, <4>1, ToConnectionMPFlow
    <3> QED
      BY <3>1, <3>2
  <2> QED
    BY <2>6, <2>7, <2>8
<1>5. n \in S
  <2> HIDE DEF S
  <2> QED
    BY <1>1, <1>3, <1>4, UpTo
<1>6. Grown(a, slice, b)
  BY <1>1, <1>2, <1>5
<1>7. IsBoundGraph(b.g) /\ b.g.wheel = a.wheel /\ b.g.slice = slice
  BY <1>6 DEF Grown
<1>8. ASSUME NEW x \in Actors(a) PROVE x \in Actors(b.g) /\ b.g.tile[x] = a.tile[x]
  <2>1. Actors(b.g) = 1 .. Len(b.g.ex) /\ Len(b.g.ex) \in Nat
    BY <1>7, BoundParts
  <2>2. Len(a.ex) <= Len(b.g.ex) /\ \A y \in 1 .. Len(a.ex) : b.g.tile[y] = a.tile[y]
    BY <1>6 DEF Grown
  <2> QED
    BY <1>1, <2>1, <2>2
<1> QED
  BY <1>7, <1>8 DEF b

-----------------------------------------------------------------------------
(* The steps of the two stages, in the operators of this module            *)

LEMMA SameListOperators ==
    /\ \A G : LS!Actors(G) = Actors(G) /\ LS!Channels(G) = Channels(G) /\ LS!Tiles(G) = Tiles(G)
    /\ \A G, a : LS!InChannels(G, a) = InChannels(G, a) /\ (LS!IsBound(G, a) <=> IsBound(G, a))
    /\ \A G, t, a : /\ LS!Ready(G, t, a) <=> Ready(G, t, a)
                    /\ LS!Consume(G, t, a) = Consume(G, t, a)
                    /\ LS!Produce(G, t, a) = Produce(G, t, a)
    /\ \A G, pos, a : LS!completionTime(G, pos, a) = completionTime(G, pos, a)
<1>1. \A G : LS!Actors(G) = Actors(G) /\ LS!Channels(G) = Channels(G) /\ LS!Tiles(G) = Tiles(G)
  BY Zenon DEF LS!Actors, Actors, LS!Channels, Channels, LS!Tiles, Tiles
<1>2. \A G, a : LS!InChannels(G, a) = InChannels(G, a) /\ (LS!IsBound(G, a) <=> IsBound(G, a))
  BY Zenon DEF LS!InChannels, InChannels, LS!Channels, Channels, LS!IsBound, IsBound
<1>3. \A G, t, a : /\ LS!Ready(G, t, a) <=> Ready(G, t, a)
                   /\ LS!Consume(G, t, a) = Consume(G, t, a)
                   /\ LS!Produce(G, t, a) = Produce(G, t, a)
  BY Zenon DEF LS!InChannels, InChannels, LS!Channels, Channels, LS!Ready, Ready, LS!Consume, Consume,
               LS!Produce, Produce
<1>4. \A G, pos, a : LS!completionTime(G, pos, a) = completionTime(G, pos, a)
  BY Zenon DEF LS!completionTime, completionTime, LS!Rest, Rest, LS!CeilDiv, CeilDiv, LS!IsBound, IsBound
<1> QED
  BY <1>1, <1>2, <1>3, <1>4

LEMMA SameListState ==
    /\ LS!Active = Active
    /\ \A a : LS!ReadyToEnd(a) <=> ReadyToEnd(a)
    /\ \A a : LS!FirstToEnd(a) <=> FirstToEnd(a)
    /\ \A a : LS!CompletesIteration(a) <=> CompletesIteration(a)
    /\ \A a : LS!CountFiring(a) <=> CountFiring(a)
    /\ \A a : LS!StoreState(a) <=> StoreState(a)
    /\ LS!clockStep <=> clockStep
<1>1. LS!Active = Active
  BY Zenon DEF LS!Active, Active, LS!Actors, Actors
<1>2. \A a : LS!ReadyToEnd(a) <=> ReadyToEnd(a)
  BY Zenon DEF LS!ReadyToEnd, ReadyToEnd
<1>3. \A a : LS!FirstToEnd(a) <=> FirstToEnd(a)
  BY <1>2, Zenon DEF LS!FirstToEnd, FirstToEnd, LS!Actors, Actors
<1>4. \A a : LS!IsOutputActor(a) <=> IsOutputActor(a)
  BY Zenon DEF LS!IsOutputActor, IsOutputActor, LS!Actors, Actors
<1>5. \A a : LS!CompletesIteration(a) <=> CompletesIteration(a)
  BY <1>4, Zenon DEF LS!CompletesIteration, CompletesIteration
<1>6. \A a : LS!CountFiring(a) <=> CountFiring(a)
  BY <1>4, <1>5, Zenon DEF LS!CountFiring, CountFiring
<1>7. \A a : LS!StoreState(a) <=> StoreState(a)
  BY <1>5, Zenon DEF LS!StoreState, StoreState, LS!Current, Current
<1>8. LS!clockStep <=> clockStep
  BY <1>1, Zenon DEF LS!clockStep, clockStep, LS!Actors, Actors, LS!Tiles, Tiles
<1> QED
  BY <1>1, <1>2, <1>3, <1>5, <1>6, <1>7, <1>8

ListReady(a) ==
    /\ IsBound(g, a) => LET p == g.tile[a]
                        IN  idle[p] /\ readyList[p] # <<>> /\ Head(readyList[p]) = a
    /\ Ready(g, ch, a)

ListStarts(a) ==
    /\ phase = "start"
    /\ ListReady(a)
    /\ ch' = Consume(g, ch, a)
    /\ actClk' = [actClk EXCEPT ![a] = Append(@, completionTime(g, tdmaPos, a))]
    /\ IF IsBound(g, a)
       THEN LET p == g.tile[a]
            IN  /\ idle' = [idle EXCEPT ![p] = FALSE]
                /\ readyList' = [readyList EXCEPT ![p] = Tail(@)]
                /\ sos' = [sos EXCEPT ![p].entries = Append(@, a)]
                /\ sosPos' = [sosPos EXCEPT ![p] = Len(sos[p].entries) + 1]
       ELSE UNCHANGED <<idle, readyList, sos, sosPos>>
    /\ UNCHANGED <<g, repVec, glbClk, tdmaPos, repCnt, stored, phase, thr, previousCh, recurrent, lenAt>>

Ends(a) ==
    /\ FirstToEnd(a)
    /\ ch' = Produce(g, ch, a)
    /\ actClk' = [actClk EXCEPT ![a] = Tail(@)]

ListEnds(a) ==
    /\ Ends(a)
    /\ idle' = IF IsBound(g, a) THEN [idle EXCEPT ![g.tile[a]] = TRUE] ELSE idle
    /\ UNCHANGED <<g, repVec, sos, sosPos, tdmaPos, phase, thr, previousCh, readyList, recurrent>>

ListCounts(a) == ListEnds(a) /\ CountFiring(a) /\ UNCHANGED lenAt

Recurring(i) == /\ stored[i].ch = ch
                /\ stored[i].actClk = actClk
                /\ stored[i].glbClk = glbClk

ListStores(a) ==
    /\ ListEnds(a)
    /\ StoreState(a)
    /\ lenAt' = Append(lenAt, [p \in Tiles(g) |-> Len(sos[p].entries)])

Completed(s, pos) ==
    IF Len(s.entries) > 1 THEN [entries |-> Front(s.entries), start |-> pos]
    ELSE IF Len(s.entries) = 1 THEN [s EXCEPT !.start = 1]
    ELSE s

ListRecurs(a) ==
    /\ FirstToEnd(a)
    /\ CompletesIteration(a)
    /\ \E i \in DOMAIN stored :
          /\ Recurring(i)
          /\ recurrent' = i
          /\ sos' = [p \in Tiles(g) |-> Completed(sos[p], stored[i].sosPos[p])]
          /\ thr'.fire = Len(stored) - i + 1
    /\ phase' = "done"
    /\ UNCHANGED <<g, repVec, ch, actClk, glbClk, sosPos, tdmaPos, repCnt, stored, previousCh,
                   readyList, idle, lenAt>>

ListEndsDone ==
    /\ phase = "end"
    /\ phase' = "list"
    /\ UNCHANGED <<g, repVec, sos, ch, actClk, glbClk, sosPos, tdmaPos, repCnt, stored, thr, listVars>>

(* What actor a adds to the list of tile p                                 *)
Count(tokens, a) == LS!Enabled(tokens, a)
Additions(p) == [a \in Actors(g) |-> IF g.tile[a] = p THEN [i \in 1 .. Count(ch, a) - Count(previousCh, a) |-> a]
                                     ELSE <<>>]

ListUpdates ==
    /\ phase = "list"
    /\ readyList' = [p \in Tiles(g) |-> readyList[p] \o FlattenSeq(Additions(p))]
    /\ phase' = "start"
    /\ UNCHANGED <<g, repVec, sos, ch, actClk, glbClk, sosPos, tdmaPos, repCnt, stored, thr,
                   previousCh, idle, recurrent, lenAt>>

ListClock ==
    /\ phase = "start"
    /\ clockStep
    /\ previousCh' = ch
    /\ phase' = "end"
    /\ UNCHANGED <<g, repVec, sos, ch, sosPos, repCnt, stored, thr, readyList, idle, recurrent, lenAt>>

ListDeadlock ==
    /\ phase = "start"
    /\ phase' = "done"
    /\ UNCHANGED <<g, repVec, sos, ch, actClk, glbClk, sosPos, tdmaPos, repCnt, stored, listVars>>

ListStep ==
    \/ \E a \in Actors(g) : ListCounts(a) \/ ListStores(a) \/ ListRecurs(a) \/ ListStarts(a)
    \/ ListEndsDone
    \/ ListUpdates
    \/ ListClock
    \/ ListDeadlock

LEMMA ListSteps == LS!Next => ListStep
<1> SUFFICES ASSUME LS!Next PROVE ListStep
  OBVIOUS
<1> USE SameListOperators, SameListState
<1>1. ASSUME NEW a, LS!EndFiring(a) PROVE ListCounts(a)
  BY <1>1 DEF LS!EndFiring, LS!endActorFiring, ListCounts, ListEnds, Ends
<1>2. ASSUME NEW a, LS!StoreAndEndFiring(a) PROVE ListStores(a)
  BY <1>2 DEF LS!StoreAndEndFiring, LS!endActorFiring, ListStores, ListEnds, Ends
<1>3. ASSUME NEW a, LS!RecurrentState(a) PROVE ListRecurs(a)
  <2>1. \A s, pos : LS!CompleteCycle(s, pos) = Completed(s, pos)
    BY Zenon DEF LS!CompleteCycle, Completed, LS!Front, Front
  <2>2. \A i : LS!Recurs(i) <=> Recurring(i)
    BY Zenon DEF LS!Recurs, Recurring
  <2>3. \A i : LS!computeThroughput(i).fire = Len(stored) - i + 1
    BY DEF LS!computeThroughput
  <2>4. LS!FirstToEnd(a) /\ LS!CompletesIteration(a) /\ phase' = "done"
        /\ UNCHANGED <<g, repVec, ch, actClk, glbClk, sosPos, tdmaPos, repCnt, stored, previousCh,
                       readyList, idle, lenAt>>
    BY <1>3 DEF LS!RecurrentState
  <2>5. PICK i \in DOMAIN stored :
          /\ LS!Recurs(i)
          /\ recurrent' = i
          /\ sos' = [p \in LS!Tiles(g) |-> LS!CompleteCycle(sos[p], stored[i].sosPos[p])]
          /\ thr' = LS!computeThroughput(i)
    BY <1>3 DEF LS!RecurrentState
  <2>6. /\ Recurring(i)
        /\ recurrent' = i
        /\ sos' = [p \in Tiles(g) |-> Completed(sos[p], stored[i].sosPos[p])]
        /\ thr'.fire = Len(stored) - i + 1
    BY <2>1, <2>2, <2>3, <2>5
  <2> QED
    BY <2>4, <2>6 DEF ListRecurs
<1>4. ASSUME NEW a, LS!StartFiring(a) PROVE ListStarts(a)
  BY <1>4 DEF LS!StartFiring, LS!startActorFiring, LS!actorReadyToFire, ListStarts, ListReady
<1>5. LS!EndsDone => ListEndsDone
  BY DEF LS!EndsDone, ListEndsDone, LS!listVars, listVars
<1>6. LS!UpdateReadyLists => ListUpdates
  <2> SUFFICES ASSUME LS!UpdateReadyLists PROVE ListUpdates
    OBVIOUS
  <2>1. \A s : LS!FlattenSeq(s) = FlattenSeq(s)
    BY Zenon DEF LS!FlattenSeq, FlattenSeq
  <2>2. readyList' = [p \in Tiles(g) |-> readyList[p] \o FlattenSeq(Additions(p))]
    BY <2>1 DEF LS!UpdateReadyLists, LS!NewlyEnabled, Additions, Count
  <2> QED
    BY <2>2 DEF LS!UpdateReadyLists, ListUpdates
<1>7. LS!ClockStep => ListClock
  BY DEF LS!ClockStep, ListClock
<1>8. LS!Deadlock => ListDeadlock
  BY DEF LS!Deadlock, ListDeadlock, LS!listVars, listVars
<1> QED
  BY <1>1, <1>2, <1>3, <1>4, <1>5, <1>6, <1>7, <1>8 DEF LS!Next, ListStep

LEMMA SameTimedOperators ==
    /\ \A G : TS!Actors(G) = Actors(G) /\ TS!Tiles(G) = Tiles(G)
    /\ \A G, a : TS!IsBound(G, a) <=> IsBound(G, a)
    /\ \A G, t, a : /\ TS!Ready(G, t, a) <=> Ready(G, t, a)
                    /\ TS!Consume(G, t, a) = Consume(G, t, a)
                    /\ TS!Produce(G, t, a) = Produce(G, t, a)
    /\ \A G, pos, a : TS!completionTime(G, pos, a) = completionTime(G, pos, a)
    /\ \A G, p, pos, n : TS!Served(G, p, pos, n) = Served(G, p, pos, n)
    /\ \A G, p : TS!Rest(G, p) = Rest(G, p)
    /\ \A s, i : TS!next(s, i) = next(s, i)
    /\ \A p : TS!Scheduled(p) = Scheduled(p)
<1>1. \A G : TS!Actors(G) = Actors(G) /\ TS!Tiles(G) = Tiles(G)
  BY Zenon DEF TS!Actors, Actors, TS!Tiles, Tiles
<1>2. \A G, a : TS!IsBound(G, a) <=> IsBound(G, a)
  BY Zenon DEF TS!IsBound, IsBound
<1>3. \A G, t, a : /\ TS!Ready(G, t, a) <=> Ready(G, t, a)
                   /\ TS!Consume(G, t, a) = Consume(G, t, a)
                   /\ TS!Produce(G, t, a) = Produce(G, t, a)
  BY Zenon DEF TS!InChannels, InChannels, TS!Channels, Channels, TS!Ready, Ready, TS!Consume, Consume,
               TS!Produce, Produce
<1>4. \A G, p : TS!Rest(G, p) = Rest(G, p)
  BY Zenon DEF TS!Rest, Rest
<1>5. \A G, pos, a : TS!completionTime(G, pos, a) = completionTime(G, pos, a)
  BY Zenon DEF TS!completionTime, completionTime, TS!Rest, Rest, TS!CeilDiv, CeilDiv, TS!IsBound, IsBound
<1>6. \A G, p, pos, n : TS!Served(G, p, pos, n) = Served(G, p, pos, n)
  BY Zenon DEF TS!Served, Served, TS!Rest, Rest, TS!Cardinality, Cardinality
<1>7. \A s, i : TS!next(s, i) = next(s, i)
  BY Zenon DEF TS!next, next, TS!isLast, isLast
<1>8. \A p : TS!Scheduled(p) = Scheduled(p)
  BY Zenon DEF TS!Scheduled, Scheduled
<1> QED
  BY <1>1, <1>2, <1>3, <1>4, <1>5, <1>6, <1>7, <1>8

LEMMA SameTimedState ==
    /\ \A a : TS!FirstToEnd(a) <=> FirstToEnd(a)
    /\ TS!clockStep <=> clockStep
<1>1. TS!Active = Active
  BY Zenon DEF TS!Active, Active, TS!Actors, Actors
<1>2. \A a : TS!ReadyToEnd(a) <=> ReadyToEnd(a)
  BY Zenon DEF TS!ReadyToEnd, ReadyToEnd
<1>3. \A a : TS!FirstToEnd(a) <=> FirstToEnd(a)
  BY <1>2, Zenon DEF TS!FirstToEnd, FirstToEnd, TS!Actors, Actors
<1>4. TS!clockStep <=> clockStep
  BY <1>1, Zenon DEF TS!clockStep, clockStep, TS!Actors, Actors, TS!Tiles, Tiles
<1> QED
  BY <1>3, <1>4

TimedReady(a) == (IsBound(g, a) => Scheduled(g.tile[a]) = a) /\ Ready(g, ch, a)

TimedStarts(a) ==
    /\ phase = "start"
    /\ TimedReady(a)
    /\ ch' = Consume(g, ch, a)
    /\ actClk' = [actClk EXCEPT ![a] = Append(@, completionTime(g, tdmaPos, a))]
    /\ UNCHANGED <<g, sos, sosPos, tdmaPos, phase>>

TimedEnds(a) ==
    /\ Ends(a)
    /\ sosPos' = IF IsBound(g, a)
                 THEN [sosPos EXCEPT ![g.tile[a]] = next(sos[g.tile[a]], @)]
                 ELSE sosPos
    /\ UNCHANGED <<g, sos, tdmaPos, phase>>

TimedClock ==
    /\ phase = "start"
    /\ clockStep
    /\ phase' = "end"
    /\ UNCHANGED <<g, sos, ch, sosPos>>

TimedTurns ==
    /\ phase # "done"
    /\ UNCHANGED <<g, sos, ch, actClk, sosPos, tdmaPos>>

TimedStep == (\E a \in Actors(g) : TimedStarts(a) \/ TimedEnds(a)) \/ TimedClock \/ TimedTurns

LEMMA TimedSteps == TS!Next => TimedStep
<1> SUFFICES ASSUME TS!Next PROVE TimedStep
  OBVIOUS
<1> USE SameTimedOperators, SameTimedState
<1>1. ASSUME NEW a, TS!EndFiring(a) PROVE TimedEnds(a)
  BY <1>1 DEF TS!EndFiring, TS!endActorFiring, TimedEnds, Ends
<1>2. ASSUME NEW a, TS!StoreAndEndFiring(a) PROVE TimedEnds(a)
  BY <1>2 DEF TS!StoreAndEndFiring, TS!endActorFiring, TimedEnds, Ends
<1>3. ASSUME NEW a, TS!RecurrentState(a) PROVE TimedTurns
  BY <1>3 DEF TS!RecurrentState, TimedTurns, FirstToEnd
<1>4. ASSUME NEW a, TS!StartFiring(a) PROVE TimedStarts(a)
  BY <1>4 DEF TS!StartFiring, TS!startActorFiring, TS!actorReadyToFire, TimedStarts, TimedReady
<1>5. TS!EndsDone => TimedTurns
  BY DEF TS!EndsDone, TimedTurns
<1>6. TS!ClockStep => TimedClock
  BY DEF TS!ClockStep, TimedClock
<1>7. TS!Deadlock => TimedTurns
  BY DEF TS!Deadlock, TimedTurns
<1> QED
  BY <1>1, <1>2, <1>3, <1>4, <1>5, <1>6, <1>7 DEF TS!Next, TimedStep

-----------------------------------------------------------------------------
(* One firing at a time                                                    *)

LEMMA AppendType ==
    ASSUME NEW S, NEW s \in Seq(S), NEW x \in S
    PROVE  Append(s, x) \in Seq(S)
OBVIOUS

LEMMA TailLength ==
    ASSUME NEW S, NEW s \in Seq(S), s # <<>>
    PROVE  Tail(s) \in Seq(S) /\ Len(Tail(s)) = Len(s) - 1
OBVIOUS

LEMMA DivType ==
    ASSUME NEW x \in Nat, NEW d \in Positive
    PROVE  /\ x \div d \in Nat /\ x % d \in Nat /\ x % d < d
           /\ x = d * (x \div d) + (x % d)
BY DEF Positive

LEMMA TileFacts ==
    ASSUME NEW G, IsBoundGraph(G), NEW a \in Actors(G), IsBound(G, a)
    PROVE  /\ G.tile[a] \in Tiles(G)
           /\ G.wheel[G.tile[a]] \in Positive /\ G.slice[G.tile[a]] \in Positive
           /\ G.slice[G.tile[a]] <= G.wheel[G.tile[a]]
           /\ Rest(G, G.tile[a]) \in Nat /\ Rest(G, G.tile[a]) < G.wheel[G.tile[a]]
           /\ G.ex[a] \in Nat /\ G.ex[a] > 0
<1>1. G.tile[a] \in Tiles(G)
  BY DEF IsBoundGraph, IsBound
<1>2. /\ G.wheel[G.tile[a]] \in Positive /\ G.slice[G.tile[a]] \in Positive
      /\ G.slice[G.tile[a]] <= G.wheel[G.tile[a]]
  BY <1>1 DEF IsBoundGraph, Tiles
<1>3. G.ex[a] \in Nat /\ G.ex[a] > 0
  BY ExType DEF IsBoundGraph
<1>4. Rest(G, G.tile[a]) \in Nat /\ Rest(G, G.tile[a]) < G.wheel[G.tile[a]]
  BY <1>2 DEF Rest, Positive
<1> QED
  BY <1>1, <1>2, <1>3, <1>4

LEMMA ProductType == \A x, y \in Nat : x * y \in Nat
OBVIOUS

LEMMA CompletionType ==
    ASSUME NEW G, IsBoundGraph(G), NEW pos \in [Tiles(G) -> Nat], NEW a \in Actors(G)
    PROVE  /\ completionTime(G, pos, a) \in Nat
           /\ ~IsBound(G, a) => completionTime(G, pos, a) = G.ex[a]
<1>1. CASE ~IsBound(G, a)
  BY <1>1, ExType DEF completionTime, IsBoundGraph
<1>2. CASE IsBound(G, a)
  <2> DEFINE p == G.tile[a]
             rest == Rest(G, p)
             slice == G.slice[p]
             wheel == G.wheel[p]
             ex == G.ex[a]
             over == ex - wheel + pos[p]
  <2>1. /\ wheel \in Positive /\ slice \in Positive /\ rest \in Nat /\ ex \in Nat /\ ex > 0
        /\ pos[p] \in Nat
    BY <1>2, TileFacts
  <2>2. completionTime(G, pos, a) =
           IF pos[p] < rest THEN (rest - pos[p]) + ex + rest * (CeilDiv(ex, slice) - 1)
           ELSE ex + (IF over < 0 THEN 0 ELSE (over \div slice) * rest)
    BY <1>2 DEF completionTime
  <2>3. over \in Int /\ (over < 0 \/ over \in Nat)
    BY <2>1 DEF Positive
  <2> HIDE DEF p, rest, slice, wheel, ex, over
  <2>4. over \in Nat => (over \div slice) * rest \in Nat
    BY <2>1, DivType, ProductType
  <2>5. CeilDiv(ex, slice) - 1 \in Nat
    <3>1. ex + slice - 1 \in Nat /\ ex + slice - 1 = slice + (ex - 1) /\ ex - 1 \in Nat
      BY <2>1 DEF Positive
    <3>2. /\ (ex - 1) \div slice \in Nat /\ (ex + slice - 1) \div slice = 1 + ((ex - 1) \div slice)
      BY <2>1, <3>1 DEF Positive
    <3> QED
      BY <3>2 DEF CeilDiv
  <2>6. rest * (CeilDiv(ex, slice) - 1) \in Nat
    BY <2>1, <2>5, ProductType
  <2>7. CASE pos[p] < rest
    BY <1>2, <2>1, <2>2, <2>6, <2>7
  <2>8. CASE ~(pos[p] < rest)
    <3>1. CASE over < 0
      BY <1>2, <2>1, <2>2, <2>8, <3>1
    <3>2. CASE ~(over < 0)
      <4>1. over \in Nat
        BY <2>3, <3>2
      <4> QED
        BY <1>2, <2>1, <2>2, <2>4, <2>8, <3>2, <4>1
    <3> QED
      BY <3>1, <3>2
  <2> QED
    BY <2>7, <2>8
<1> QED
  BY <1>1, <1>2

(* The tokens of channel k with those its destination has taken            *)
Taken(k) == ch[k] + g.ch[k].p * Len(actClk[g.ch[k].dst])

(* A cycle that lets an actor fire once at a time holds the tokens of one  *)
(* firing.                                                                 *)
CyclesFull ==
    \A k, l \in Channels(g) :
        OneAtATime(g, k, l) => Taken(k) + (IF k = l THEN 0 ELSE Taken(l)) = g.ch[k].p

Shape ==
    /\ IsBoundGraph(g)
    /\ ch \in [Channels(g) -> Nat]
    /\ actClk \in [Actors(g) -> Seq(Nat)]
    /\ tdmaPos \in [Tiles(g) -> Nat]
    /\ \A a \in Actors(g) : ~IsBound(g, a) => Ordered(actClk[a], g.ex[a])
    /\ CyclesFull

(* A bound actor has at most one firing under way.                         *)
LEMMA OnceAtATime ==
    ASSUME Shape, NEW a \in Actors(g), IsBound(g, a)
    PROVE  Len(actClk[a]) \in {0, 1} /\ (actClk[a] # <<>> => Len(actClk[a]) = 1)
<1>1. PICK k \in OutChannels(g, a), l \in Channels(g) : OneAtATime(g, k, l)
  BY DEF Shape, IsBoundGraph
<1>2. k \in Channels(g) /\ g.ch[k].src = a /\ g.ch[l].dst = a
  BY <1>1 DEF OutChannels, OneAtATime
<1>3. /\ g.ch[k].p \in Positive /\ g.ch[l].p = g.ch[k].p
      /\ g.ch[k].dst \in Actors(g)
  BY <1>1, <1>2, ChannelType DEF Shape, IsBoundGraph, OneAtATime
<1>4. Taken(k) + (IF k = l THEN 0 ELSE Taken(l)) = g.ch[k].p
  BY <1>1, <1>2 DEF Shape, CyclesFull
<1> DEFINE m == Len(actClk[a])
           p == g.ch[k].p
           o == Len(actClk[g.ch[k].dst])
<1>5. m \in Nat /\ o \in Nat /\ ch[k] \in Nat /\ ch[l] \in Nat /\ actClk[a] \in Seq(Nat)
  BY <1>2, <1>3 DEF Shape
<1>6. Taken(k) = ch[k] + p * o /\ Taken(l) = ch[l] + p * m
  BY <1>2, <1>3 DEF Taken
<1>7. k = l => o = m
  BY <1>2
<1> HIDE DEF m, o, p
<1>8. p * m <= p
  <2>1. p * m \in Nat /\ p * o \in Nat /\ p \in Nat
    BY <1>3, <1>5, ProductType DEF p, Positive
  <2>2. p = ch[k] + p * o + (IF k = l THEN 0 ELSE ch[l] + p * m)
    BY <1>4, <1>6 DEF p
  <2>3. CASE k = l
    BY <1>5, <1>7, <2>1, <2>2, <2>3
  <2>4. CASE k # l
    BY <1>5, <2>1, <2>2, <2>4
  <2> QED
    BY <2>3, <2>4
<1>9. m <= 1
  <2> SUFFICES ASSUME m >= 2 PROVE FALSE
    BY <1>5
  <2>1. PICK d \in Nat : m = d + 2
    <3>1. m - 2 \in Nat /\ m = (m - 2) + 2
      BY <1>5
    <3> QED
      BY <3>1
  <2>2. p * m = p * d + 2 * p /\ p * d \in Nat /\ p \in Nat /\ p > 0
    BY <1>3, <2>1 DEF p, Positive
  <2> QED
    BY <1>8, <2>2
<1>10. m \in {0, 1}
  BY <1>5, <1>9
<1>11. actClk[a] # <<>> => m # 0
  BY <1>5 DEF m
<1> QED
  BY <1>10, <1>11 DEF m

Starts(a) ==
    /\ Ready(g, ch, a)
    /\ ch' = Consume(g, ch, a)
    /\ actClk' = [actClk EXCEPT ![a] = Append(@, completionTime(g, tdmaPos, a))]

(* How the terms of a cycle change                                         *)
LEMMA StartTaken ==
    ASSUME Shape, NEW a \in Actors(g), Starts(a), g' = g, NEW k \in Channels(g), g.ch[k].p = g.ch[k].c
    PROVE  Taken(k)' = Taken(k)
<1>1. Taken(k)' = ch'[k] + g.ch[k].p * Len(actClk'[g.ch[k].dst])
  BY DEF Taken
<1>2. g.ch[k].dst \in Actors(g) /\ g.ch[k].p \in Positive
  BY ChannelType DEF Shape, IsBoundGraph
<1>3. ch'[k] = IF g.ch[k].dst = a THEN ch[k] - g.ch[k].c ELSE ch[k]
  BY DEF Starts, Consume
<1>4. /\ actClk[g.ch[k].dst] \in Seq(Nat) /\ ch[k] \in Nat
      /\ completionTime(g, tdmaPos, a) \in Nat
  BY <1>2, CompletionType DEF Shape
<1>5. g.ch[k].dst # a => actClk'[g.ch[k].dst] = actClk[g.ch[k].dst]
  BY <1>2 DEF Starts, Shape
<1>6. g.ch[k].dst = a => Len(actClk'[g.ch[k].dst]) = Len(actClk[g.ch[k].dst]) + 1
  <2>1. g.ch[k].dst = a => actClk'[a] = Append(actClk[a], completionTime(g, tdmaPos, a))
    BY <1>2 DEF Starts, Shape
  <2> QED
    BY <1>4, <2>1
<1>7. CASE g.ch[k].dst = a
  <2> DEFINE m == Len(actClk[g.ch[k].dst])
             p == g.ch[k].p
  <2>1. m \in Nat /\ p \in Nat
    BY <1>2, <1>4 DEF Positive
  <2>2. Taken(k)' = (ch[k] - p) + p * (m + 1)
    BY <1>1, <1>3, <1>6, <1>7
  <2>3. Taken(k) = ch[k] + p * m
    BY DEF Taken
  <2> HIDE DEF m, p
  <2>4. p * (m + 1) = p * m + p /\ p * m \in Int
    BY <2>1, OneMore
  <2> QED
    BY <1>4, <2>1, <2>2, <2>3, <2>4
<1>8. CASE g.ch[k].dst # a
  BY <1>1, <1>3, <1>5, <1>8 DEF Taken
<1> QED
  BY <1>7, <1>8

LEMMA EndTaken ==
    ASSUME Shape, NEW a \in Actors(g), Ends(a), g' = g, NEW k \in Channels(g)
    PROVE  /\ Taken(k) \in Nat
           /\ Taken(k)' = Taken(k) + (IF g.ch[k].src = a THEN g.ch[k].p ELSE 0)
                                   - (IF g.ch[k].dst = a THEN g.ch[k].p ELSE 0)
<1>1. Taken(k)' = ch'[k] + g.ch[k].p * Len(actClk'[g.ch[k].dst])
  BY DEF Taken
<1>2. g.ch[k].dst \in Actors(g) /\ g.ch[k].p \in Nat /\ g.ch[k].p \in Positive
  BY ChannelType DEF Shape, IsBoundGraph, Positive
<1>3. ch'[k] = IF g.ch[k].src = a THEN ch[k] + g.ch[k].p ELSE ch[k]
  BY DEF Ends, Produce
<1>4. actClk[g.ch[k].dst] \in Seq(Nat) /\ ch[k] \in Nat
  BY <1>2 DEF Shape
<1>5. g.ch[k].dst # a => actClk'[g.ch[k].dst] = actClk[g.ch[k].dst]
  BY <1>2 DEF Ends, Shape
<1>6. g.ch[k].dst = a => Len(actClk'[g.ch[k].dst]) = Len(actClk[g.ch[k].dst]) - 1
  <2>1. g.ch[k].dst = a => actClk'[a] = Tail(actClk[a])
    BY <1>2 DEF Ends, Shape
  <2>2. actClk[a] # <<>>
    BY DEF Ends, FirstToEnd, ReadyToEnd
  <2>3. actClk[a] \in Seq(Nat)
    BY DEF Shape
  <2>4. Len(Tail(actClk[a])) = Len(actClk[a]) - 1
    BY <2>2, <2>3, TailLength
  <2> QED
    BY <2>1, <2>4
<1> DEFINE m == Len(actClk[g.ch[k].dst])
           p == g.ch[k].p
<1>7. m \in Nat /\ p \in Nat /\ Taken(k) = ch[k] + p * m
  BY <1>2, <1>4 DEF Taken
<1>8. p * m = p * (m - 1) + p /\ p * (m - 1) \in Int /\ p * m \in Nat
  <2>1. m - 1 \in Int /\ (m - 1) + 1 = m
    BY <1>7
  <2> QED
    BY <1>7, <2>1, OneMore, ProductType
<1>9. Taken(k)' = ch'[k] + p * (IF g.ch[k].dst = a THEN m - 1 ELSE m)
  BY <1>1, <1>5, <1>6
<1> HIDE DEF m, p
<1>10. ch'[k] = ch[k] + (IF g.ch[k].src = a THEN p ELSE 0)
  BY <1>3, <1>4 DEF p
<1>11. Taken(k)' = Taken(k) + (IF g.ch[k].src = a THEN p ELSE 0) - (IF g.ch[k].dst = a THEN p ELSE 0)
  <2>1. CASE g.ch[k].dst = a
    <3>1. Taken(k)' = ch'[k] + p * (m - 1)
      BY <1>9, <2>1
    <3> QED
      BY <1>4, <1>7, <1>8, <1>10, <2>1, <3>1
  <2>2. CASE g.ch[k].dst # a
    <3>1. Taken(k)' = ch'[k] + p * m
      BY <1>9, <2>2
    <3> QED
      BY <1>4, <1>7, <1>8, <1>10, <2>2, <3>1
  <2> QED
    BY <2>1, <2>2
<1> QED
  BY <1>4, <1>7, <1>8, <1>11 DEF p

LEMMA CycleFacts ==
    ASSUME NEW G, IsBoundGraph(G), NEW k \in Channels(G), NEW l \in Channels(G), OneAtATime(G, k, l)
    PROVE  /\ G.ch[k].dst = G.ch[l].src /\ G.ch[l].dst = G.ch[k].src
           /\ G.ch[k].p = G.ch[k].c /\ G.ch[l].p = G.ch[k].p /\ G.ch[l].c = G.ch[k].p
           /\ G.ch[k].p \in Nat
           /\ G.ch[k].t + (IF k = l THEN 0 ELSE G.ch[l].t) = G.ch[k].p
<1>1. G.ch[k].p \in Nat
  BY ChannelType DEF IsBoundGraph, Positive
<1> QED
  BY <1>1 DEF OneAtATime

LEMMA ShapeStart ==
    ASSUME Shape, NEW a \in Actors(g), Starts(a), g' = g, tdmaPos' = tdmaPos
    PROVE  Shape'
<1>1. IsBoundGraph(g) /\ IsSDFGraph(g)
  BY DEF Shape, IsBoundGraph
<1>2. ch' \in [Channels(g) -> Nat]
  BY <1>1, ConsumeType DEF Shape, Starts
<1>3. completionTime(g, tdmaPos, a) \in Nat /\ (~IsBound(g, a) => completionTime(g, tdmaPos, a) = g.ex[a])
  BY CompletionType DEF Shape
<1>4. actClk' \in [Actors(g) -> Seq(Nat)]
  <2>1. Append(actClk[a], completionTime(g, tdmaPos, a)) \in Seq(Nat)
    BY <1>3 DEF Shape
  <2> QED
    BY <2>1 DEF Starts, Shape
<1>5. ASSUME NEW b \in Actors(g), ~IsBound(g, b) PROVE Ordered(actClk'[b], g.ex[b])
  <2>1. Ordered(actClk[b], g.ex[b]) /\ actClk[b] \in Seq(Nat) /\ g.ex[b] \in Nat
    BY <1>1, <1>5, ExType DEF Shape
  <2>2. CASE b = a
    <3>1. actClk'[b] = Append(actClk[b], g.ex[b])
      BY <1>3, <1>5, <2>2 DEF Starts, Shape
    <3> QED
      BY <2>1, <3>1, AppendOrdered
  <2>3. CASE b # a
    BY <2>1, <2>3 DEF Starts, Shape
  <2> QED
    BY <2>2, <2>3
<1>6. CyclesFull'
  <2> SUFFICES ASSUME NEW k \in Channels(g), NEW l \in Channels(g), OneAtATime(g, k, l)
               PROVE  Taken(k)' + (IF k = l THEN 0 ELSE Taken(l)') = g.ch[k].p
    BY DEF CyclesFull
  <2>1. Taken(k)' = Taken(k) /\ Taken(l)' = Taken(l)
    BY <1>1, CycleFacts, StartTaken
  <2> QED
    BY <2>1 DEF Shape, CyclesFull
<1> QED
  BY <1>1, <1>2, <1>4, <1>5, <1>6 DEF Shape

LEMMA ShapeEnd ==
    ASSUME Shape, NEW a \in Actors(g), Ends(a), g' = g, tdmaPos' = tdmaPos
    PROVE  Shape'
<1>1. IsBoundGraph(g) /\ IsSDFGraph(g)
  BY DEF Shape, IsBoundGraph
<1>2. ch' \in [Channels(g) -> Nat]
  BY <1>1, ProduceType DEF Shape, Ends
<1>3. actClk[a] # <<>> /\ actClk[a] \in Seq(Nat)
  BY DEF Ends, FirstToEnd, ReadyToEnd, Shape
<1>4. actClk' \in [Actors(g) -> Seq(Nat)]
  <2>1. Tail(actClk[a]) \in Seq(Nat)
    BY <1>3
  <2> QED
    BY <2>1 DEF Ends, Shape
<1>5. ASSUME NEW b \in Actors(g), ~IsBound(g, b) PROVE Ordered(actClk'[b], g.ex[b])
  <2>1. Ordered(actClk[b], g.ex[b]) /\ actClk[b] \in Seq(Nat) /\ g.ex[b] \in Nat
    BY <1>1, <1>5, ExType DEF Shape
  <2>2. CASE b = a
    <3>1. actClk'[b] = Tail(actClk[b])
      BY <2>2 DEF Ends, Shape
    <3> QED
      BY <1>3, <2>1, <2>2, <3>1, TailOrdered
  <2>3. CASE b # a
    BY <2>1, <2>3 DEF Ends, Shape
  <2> QED
    BY <2>2, <2>3
<1>6. CyclesFull'
  <2> SUFFICES ASSUME NEW k \in Channels(g), NEW l \in Channels(g), OneAtATime(g, k, l)
               PROVE  Taken(k)' + (IF k = l THEN 0 ELSE Taken(l)') = g.ch[k].p
    BY DEF CyclesFull
  <2>1. /\ Taken(k) \in Nat
        /\ Taken(k)' = Taken(k) + (IF g.ch[k].src = a THEN g.ch[k].p ELSE 0)
                                - (IF g.ch[k].dst = a THEN g.ch[k].p ELSE 0)
    BY EndTaken
  <2>2. /\ Taken(l) \in Nat
        /\ Taken(l)' = Taken(l) + (IF g.ch[l].src = a THEN g.ch[l].p ELSE 0)
                                - (IF g.ch[l].dst = a THEN g.ch[l].p ELSE 0)
    BY EndTaken
  <2>3. Taken(k) + (IF k = l THEN 0 ELSE Taken(l)) = g.ch[k].p
    BY DEF Shape, CyclesFull
  <2>4. /\ g.ch[k].dst = g.ch[l].src /\ g.ch[l].dst = g.ch[k].src
        /\ g.ch[l].p = g.ch[k].p /\ g.ch[k].p \in Nat
    BY <1>1, CycleFacts
  <2> QED
    BY <2>1, <2>2, <2>3, <2>4
<1> QED
  BY <1>1, <1>2, <1>4, <1>5, <1>6 DEF Shape

LEMMA ShapeClock ==
    ASSUME Shape, clockStep, g' = g, ch' = ch
    PROVE  Shape' /\ \A a \in Actors(g) : Len(actClk'[a]) = Len(actClk[a])
<1>1. IsBoundGraph(g) /\ IsSDFGraph(g)
  BY DEF Shape, IsBoundGraph
<1>2. PICK first \in Active :
         /\ \A a \in Active : Head(actClk[first]) <= Head(actClk[a])
         /\ actClk' = [a \in Actors(g) |-> [i \in DOMAIN actClk[a] |-> actClk[a][i] - Head(actClk[first])]]
         /\ tdmaPos' = [p \in Tiles(g) |-> (tdmaPos[p] + Head(actClk[first])) % g.wheel[p]]
  BY DEF clockStep
<1> DEFINE step == Head(actClk[first])
<1>3. step \in Nat
  BY <1>2 DEF Active, Shape
<1> HIDE DEF step
<1>4. ASSUME NEW a \in Actors(g)
      PROVE  /\ actClk'[a] \in Seq(Nat) /\ Len(actClk'[a]) = Len(actClk[a])
             /\ ~IsBound(g, a) => Ordered(actClk'[a], g.ex[a])
  <2>1. actClk[a] \in Seq(Nat) /\ (actClk[a] # <<>> => step <= Head(actClk[a])) /\ g.ex[a] \in Nat
    BY <1>1, <1>2, ExType DEF Active, Shape, step
  <2>2. actClk'[a] = [i \in DOMAIN actClk[a] |-> actClk[a][i] - step]
    BY <1>2 DEF step
  <2>3. PICK m \in Nat : Ordered(actClk[a], m) /\ (~IsBound(g, a) => m = g.ex[a])
    <3>1. CASE ~IsBound(g, a)
      BY <2>1, <3>1 DEF Shape
    <3>2. CASE IsBound(g, a)
      <4>1. Len(actClk[a]) \in {0, 1}
        BY <3>2, OnceAtATime
      <4>2. CASE Len(actClk[a]) = 0
        <5>1. Ordered(actClk[a], 0)
          BY <2>1, <4>2 DEF Ordered
        <5> QED
          BY <3>2, <5>1
      <4>3. CASE Len(actClk[a]) = 1
        <5>1. actClk[a][1] \in Nat /\ DOMAIN actClk[a] = 1 .. 1
          BY <2>1, <4>3
        <5>2. Ordered(actClk[a], actClk[a][1])
          BY <5>1 DEF Ordered
        <5> QED
          BY <3>2, <5>1, <5>2
      <4> QED
        BY <4>1, <4>2, <4>3
    <3> QED
      BY <3>1, <3>2
  <2>4. actClk'[a] \in Seq(Nat) /\ Ordered(actClk'[a], m)
    BY <1>3, <2>1, <2>2, <2>3, LowerOrdered
  <2>5. Len(actClk'[a]) = Len(actClk[a])
    BY <2>1, <2>2, <2>4
  <2> QED
    BY <2>3, <2>4, <2>5
<1>5. actClk' \in [Actors(g) -> Seq(Nat)]
  BY <1>2, <1>4
<1>6. tdmaPos' \in [Tiles(g) -> Nat]
  <2> SUFFICES ASSUME NEW p \in Tiles(g) PROVE (tdmaPos[p] + step) % g.wheel[p] \in Nat
    BY <1>2 DEF step
  <2>1. tdmaPos[p] + step \in Nat /\ g.wheel[p] \in Positive
    BY <1>1, <1>3 DEF Shape, IsBoundGraph, Tiles
  <2> QED
    BY <2>1, DivType
<1>7. CyclesFull'
  <2>1. \A k \in Channels(g) : g.ch[k].dst \in Actors(g)
    BY <1>1, ChannelType
  <2>2. \A k \in Channels(g) : Taken(k)' = Taken(k)
    BY <1>4, <2>1 DEF Taken
  <2> QED
    BY <2>2 DEF Shape, CyclesFull
<1> QED
  BY <1>1, <1>4, <1>5, <1>6, <1>7 DEF Shape

LEMMA ShapeInitial ==
    ASSUME IsBoundGraph(g), ch = InitialTokens(g), actClk = [a \in Actors(g) |-> <<>>],
           tdmaPos = [p \in Tiles(g) |-> 0]
    PROVE  Shape
<1>1. ch \in [Channels(g) -> Nat]
  BY InitialTokensType DEF IsBoundGraph
<1>2. <<>> \in Seq(Nat) /\ Len(<<>>) = 0 /\ \A m : Ordered(<<>>, m)
  BY DEF Ordered
<1>3. CyclesFull
  <2> SUFFICES ASSUME NEW k \in Channels(g), NEW l \in Channels(g), OneAtATime(g, k, l)
               PROVE  Taken(k) + (IF k = l THEN 0 ELSE Taken(l)) = g.ch[k].p
    BY DEF CyclesFull
  <2>1. ASSUME NEW c \in Channels(g) PROVE Taken(c) = g.ch[c].t
    <3>1. g.ch[c].dst \in Actors(g) /\ g.ch[c].p \in Nat /\ g.ch[c].t \in Nat
      BY ChannelType DEF IsBoundGraph, Positive
    <3>2. Taken(c) = g.ch[c].t + g.ch[c].p * 0
      BY <1>2, <3>1 DEF Taken, InitialTokens
    <3> QED
      BY <3>1, <3>2
  <2> QED
    BY <2>1, CycleFacts
<1> QED
  BY <1>1, <1>2, <1>3 DEF Shape

-----------------------------------------------------------------------------
(* The time a wheel gives to a firing                                      *)

LEMMA Distribute ==
    ASSUME NEW x \in Int, NEW y \in Int, NEW z \in Int
    PROVE  z * (x + y) = z * x + z * y /\ z * x \in Int /\ z * y \in Int /\ z * x = x * z
OBVIOUS

LEMMA ProductOrder ==
    ASSUME NEW x \in Nat, NEW y \in Nat, NEW z \in Nat, x <= y
    PROVE  z * x <= z * y /\ z * x \in Nat /\ z * y \in Nat
<1>1. PICK e \in Nat : y = x + e
  <2>1. y - x \in Nat /\ y = x + (y - x)
    OBVIOUS
  <2> QED
    BY <2>1
<1>2. z * (x + e) = z * x + z * e
  BY Distribute
<1>3. z * e \in Nat /\ z * x \in Nat /\ z * y \in Nat
  BY ProductType
<1> QED
  BY <1>1, <1>2, <1>3

(* A quotient does not fall when its number grows.                         *)
LEMMA QuotientOrder ==
    ASSUME NEW s \in Positive, NEW d \in Nat, NEW r \in Nat, NEW e \in Nat, NEW u \in Nat,
           r < s, u < s, s * d + r <= s * e + u
    PROVE  d <= e
<1> SUFFICES ASSUME e + 1 <= d PROVE FALSE
  OBVIOUS
<1>1. s \in Nat /\ e + 1 \in Nat
  BY DEF Positive
<1>2. s * (e + 1) <= s * d /\ s * d \in Nat /\ s * e \in Nat
  BY <1>1, ProductOrder, ProductType
<1>3. s * (e + 1) = s * e + s
  BY <1>1, OneMore
<1> QED
  BY <1>1, <1>2, <1>3

LEMMA QuotientUnique ==
    ASSUME NEW s \in Positive, NEW d \in Nat, NEW r \in Nat, r < s, NEW x \in Nat, x = s * d + r
    PROVE  x \div s = d /\ x % s = r
<1>1. /\ x \div s \in Nat /\ x % s \in Nat /\ x % s < s
      /\ x = s * (x \div s) + (x % s)
  BY DivType
<1>2. d <= x \div s /\ x \div s <= d
  <2> DEFINE e == x \div s
             u == x % s
  <2>1. e \in Nat /\ u \in Nat /\ u < s /\ s * d + r = s * e + u
    BY <1>1
  <2> HIDE DEF e, u
  <2>2. s * d \in Nat /\ s * e \in Nat
    BY <2>1, ProductType DEF Positive
  <2>3. s * d + r <= s * e + u /\ s * e + u <= s * d + r
    BY <2>1, <2>2
  <2>4. d <= e /\ e <= d
    BY <2>1, <2>3, QuotientOrder
  <2> QED
    BY <2>4 DEF e
<1>3. x \div s = d
  BY <1>1, <1>2
<1>4. s * d \in Nat
  BY ProductType DEF Positive
<1> QED
  BY <1>1, <1>3, <1>4

(* The i-th unit of a firing, counted from 0, that waits for the slice of  *)
(* length s after a rest r: rotation i \div s                              *)
Unit(r, s, i) == ((i \div s) + 1) * r + i

LEMMA UnitFacts ==
    ASSUME NEW r \in Nat, NEW s \in Positive, NEW i \in Nat
    PROVE  /\ Unit(r, s, i) \in Nat
           /\ Unit(r, s, i) \div (r + s) = i \div s
           /\ Unit(r, s, i) % (r + s) = r + (i % s)
           /\ \A j \in Nat : i <= j => Unit(r, s, i) <= Unit(r, s, j)
<1> DEFINE d == i \div s
           m == i % s
<1>1. d \in Nat /\ m \in Nat /\ m < s /\ i = s * d + m /\ s \in Nat /\ s > 0
  BY DivType DEF Positive
<1>2. Unit(r, s, i) = (d + 1) * r + i
  BY DEF Unit
<1> HIDE DEF d, m
<1>3. (d + 1) * r = r * d + r /\ r * d \in Nat
  <2>1. (d + 1) * r = r * (d + 1)
    BY <1>1
  <2>2. r * (d + 1) = r * d + r /\ r * d \in Nat
    BY <1>1, OneMore, ProductType
  <2> QED
    BY <2>1, <2>2
<1>4. (r + s) * d = r * d + s * d /\ s * d \in Nat
  <2>1. (r + s) * d = d * (r + s) /\ d * r = r * d /\ d * s = s * d
    BY <1>1
  <2>2. d * (r + s) = d * r + d * s
    BY <1>1, Distribute
  <2>3. s * d \in Nat
    BY <1>1, ProductType
  <2> QED
    BY <2>1, <2>2, <2>3
<1>5. Unit(r, s, i) = (r + s) * d + (r + m) /\ Unit(r, s, i) \in Nat
  BY <1>1, <1>2, <1>3, <1>4
<1>6. Unit(r, s, i) \div (r + s) = d /\ Unit(r, s, i) % (r + s) = r + m
  <2>1. r + s \in Positive /\ r + m \in Nat /\ r + m < r + s
    BY <1>1 DEF Positive
  <2>2. PICK x \in Nat, w \in Positive, v \in Nat : x = Unit(r, s, i) /\ w = r + s /\ v = r + m
    BY <1>5, <2>1
  <2>3. x = w * d + v /\ v < w
    BY <1>5, <2>1, <2>2
  <2>4. x \div w = d /\ x % w = v
    BY <1>1, <2>3, QuotientUnique
  <2> QED
    BY <2>2, <2>4
<1>7. ASSUME NEW j \in Nat, i <= j PROVE Unit(r, s, i) <= Unit(r, s, j)
  <2> DEFINE e == j \div s
             u == j % s
  <2>1. e \in Nat /\ u \in Nat /\ u < s /\ j = s * e + u
    BY DivType
  <2>2. Unit(r, s, j) = (e + 1) * r + j
    BY DEF Unit
  <2> HIDE DEF e, u
  <2>3. d <= e
    BY <1>1, <1>7, <2>1, QuotientOrder
  <2>4. r * (d + 1) <= r * (e + 1) /\ r * (d + 1) \in Nat /\ r * (e + 1) \in Nat
    <3>1. d + 1 \in Nat /\ e + 1 \in Nat /\ d + 1 <= e + 1
      BY <1>1, <2>1, <2>3
    <3> QED
      BY <3>1, ProductOrder
  <2>5. (d + 1) * r = r * (d + 1) /\ (e + 1) * r = r * (e + 1)
    BY <1>1, <2>1
  <2> QED
    BY <1>2, <1>7, <2>2, <2>4, <2>5
<1> QED
  BY <1>5, <1>6, <1>7 DEF d, m

(* Every time in a slice is that of a unit.                                *)
LEMMA SliceUnit ==
    ASSUME NEW r \in Nat, NEW s \in Positive, NEW t \in Nat, t % (r + s) >= r
    PROVE  \E i \in Nat : t = Unit(r, s, i)
<1> DEFINE d == t \div (r + s)
           m == t % (r + s)
<1>1. r + s \in Positive /\ s \in Nat /\ s > 0
  BY DEF Positive
<1>2. d \in Nat /\ m \in Nat /\ m < r + s /\ t = (r + s) * d + m /\ m >= r
  BY <1>1, DivType
<1> HIDE DEF d, m
<1> DEFINE u == m - r
           i == s * d + u
<1>3. u \in Nat /\ u < s /\ s * d \in Nat /\ i \in Nat
  BY <1>1, <1>2, ProductType
<1>4. i \div s = d
  BY <1>2, <1>3, QuotientUnique
<1>5. Unit(r, s, i) = (d + 1) * r + i
  BY <1>4 DEF Unit
<1>6. (d + 1) * r = r * d + r /\ r * d \in Nat
  <2>1. (d + 1) * r = r * (d + 1)
    BY <1>2
  <2>2. r * (d + 1) = r * d + r /\ r * d \in Nat
    BY <1>2, OneMore, ProductType
  <2> QED
    BY <2>1, <2>2
<1>7. (r + s) * d = r * d + s * d
  <2>1. (r + s) * d = d * (r + s) /\ d * r = r * d /\ d * s = s * d
    BY <1>1, <1>2
  <2>2. d * (r + s) = d * r + d * s
    BY <1>1, <1>2, Distribute
  <2> QED
    BY <2>1, <2>2
<1>8. t = Unit(r, s, i)
  BY <1>1, <1>2, <1>3, <1>5, <1>6, <1>7
<1> QED
  BY <1>3, <1>8

(* Before the slice, the wait and the rotations are just what the slices   *)
(* of the wheel leave over: n time units from pos hold as many units of    *)
(* the slices as the firing takes, the last one among them.                *)
Waiting(r, s, x, pos) == (r - pos) + x + r * (CeilDiv(x, s) - 1)

InSlices(r, s, pos, n) == {t \in pos .. pos + n - 1 : t % (r + s) >= r}

LEMMA UnitsServed ==
    ASSUME NEW r \in Nat, NEW s \in Positive, NEW x \in Positive, NEW pos \in Nat, pos < r
    PROVE  /\ Cardinality(InSlices(r, s, pos, Waiting(r, s, x, pos))) = x
           /\ (pos + Waiting(r, s, x, pos) - 1) % (r + s) >= r
<1> DEFINE n == (r - pos) + x + r * (CeilDiv(x, s) - 1)
           last == pos + n - 1
           served == {t \in pos .. last : t % (r + s) >= r}
           f == [i \in 1 .. x |-> Unit(r, s, i - 1)]
<1>1. x \in Nat /\ x > 0 /\ x - 1 \in Nat /\ r \in Int /\ s \in Nat /\ s > 0
  BY DEF Positive
<1>2. CeilDiv(x, s) - 1 = (x - 1) \div s /\ (x - 1) \div s \in Nat
  <2>1. x + s - 1 = s + (x - 1)
    BY <1>1
  <2>2. (x + s - 1) \div s = 1 + ((x - 1) \div s) /\ (x - 1) \div s \in Nat
    BY <1>1, <2>1 DEF Positive
  <2> QED
    BY <2>2 DEF CeilDiv
<1>3. last = Unit(r, s, x - 1)
  <2> DEFINE q == (x - 1) \div s
  <2>1. q \in Nat /\ CeilDiv(x, s) - 1 = q /\ Unit(r, s, x - 1) = (q + 1) * r + (x - 1)
    BY <1>2 DEF Unit
  <2>2. last = pos + ((r - pos) + x + r * q) - 1
    BY <2>1
  <2> HIDE DEF q, last
  <2>3. (q + 1) * r = r * q + r /\ r * q \in Nat
    <3>1. (q + 1) * r = r * (q + 1)
      BY <2>1
    <3>2. r * (q + 1) = r * q + r /\ r * q \in Nat
      BY <2>1, OneMore, ProductType
    <3> QED
      BY <3>1, <3>2
  <2> QED
    BY <1>1, <2>1, <2>2, <2>3
<1>4. last \in Nat
  BY <1>1, <1>3, UnitFacts
<1> HIDE DEF last, n
<1>5. \A i \in 1 .. x : /\ i - 1 \in Nat /\ i - 1 <= x - 1 /\ f[i] = Unit(r, s, i - 1)
                        /\ f[i] \in Nat /\ f[i] <= last /\ f[i] >= r /\ f[i] % (r + s) >= r
  <2> TAKE i \in 1 .. x
  <2>1. i - 1 \in Nat /\ i - 1 <= x - 1 /\ f[i] = Unit(r, s, i - 1)
    BY <1>1
  <2>2. /\ Unit(r, s, i - 1) \in Nat
        /\ Unit(r, s, i - 1) % (r + s) = r + ((i - 1) % s)
        /\ Unit(r, s, i - 1) <= Unit(r, s, x - 1)
    BY <1>1, <2>1, UnitFacts
  <2>3. (i - 1) % s \in Nat
    BY <2>1, DivType
  <2>4. Unit(r, s, i - 1) % (r + s) <= Unit(r, s, i - 1)
    <3>1. r + s \in Positive
      BY <1>1 DEF Positive
    <3>2. PICK u \in Nat, w \in Positive : u = Unit(r, s, i - 1) /\ w = r + s
      BY <2>2, <3>1
    <3>3. u = w * (u \div w) + (u % w) /\ u \div w \in Nat /\ u % w \in Nat
      BY DivType
    <3>4. w * (u \div w) \in Nat
      BY <3>3, ProductType DEF Positive
    <3>5. u % w <= u
      BY <3>3, <3>4
    <3> QED
      BY <3>2, <3>5
  <2> QED
    BY <1>1, <1>3, <2>1, <2>2, <2>3, <2>4
<1> HIDE DEF f
<1>6. f \in Bijection(1 .. x, served)
  <2>1. f \in [1 .. x -> served]
    <3>1. \A i \in 1 .. x : f[i] \in served
      BY <1>4, <1>5
    <3>2. f = [i \in 1 .. x |-> f[i]]
      BY DEF f
    <3> QED
      BY <3>1, <3>2
  <2>2. ASSUME NEW i \in 1 .. x, NEW j \in 1 .. x, f[i] = f[j] PROVE i = j
    <3>1. /\ f[i] \div (r + s) = (i - 1) \div s /\ f[i] % (r + s) = r + ((i - 1) % s)
          /\ f[j] \div (r + s) = (j - 1) \div s /\ f[j] % (r + s) = r + ((j - 1) % s)
      BY <1>5, UnitFacts
    <3>2. /\ i - 1 = s * ((i - 1) \div s) + ((i - 1) % s) /\ j - 1 = s * ((j - 1) \div s) + ((j - 1) % s)
          /\ (i - 1) % s \in Nat /\ (j - 1) % s \in Nat
      BY <1>5, DivType
    <3>3. (i - 1) \div s = (j - 1) \div s
      BY <2>2, <3>1, Zenon
    <3>4. (i - 1) % s = (j - 1) % s
      <4>1. r + ((i - 1) % s) = r + ((j - 1) % s)
        BY <2>2, <3>1, Zenon
      <4> QED
        BY <3>2, <4>1
    <3>5. i - 1 = j - 1
      BY <3>2, <3>3, <3>4, Zenon
    <3> QED
      BY <3>5
  <2>3. ASSUME NEW t \in served PROVE \E i \in 1 .. x : f[i] = t
    <3>1. t \in Nat /\ t <= last /\ t % (r + s) >= r
      BY <1>4
    <3>2. PICK i \in Nat : t = Unit(r, s, i)
      BY <3>1, SliceUnit
    <3>3. i <= x - 1
      <4> SUFFICES ASSUME x <= i PROVE FALSE
        BY <1>1
      <4>1. Unit(r, s, x) <= Unit(r, s, i)
        BY <1>1, UnitFacts
      <4>2. Unit(r, s, x - 1) + 1 <= Unit(r, s, x)
        <5> DEFINE d == (x - 1) \div s
                   e == x \div s
        <5>1. /\ d \in Nat /\ (x - 1) % s \in Nat /\ (x - 1) % s < s /\ x - 1 = s * d + ((x - 1) % s)
              /\ e \in Nat /\ x % s \in Nat /\ x % s < s /\ x = s * e + (x % s)
          BY <1>1, DivType
        <5>2. Unit(r, s, x - 1) = (d + 1) * r + (x - 1) /\ Unit(r, s, x) = (e + 1) * r + x
          BY DEF Unit
        <5> HIDE DEF d, e
        <5>3. d <= e
          <6>1. s * d \in Nat /\ s * e \in Nat
            BY <1>1, <5>1, ProductType
          <6>2. s * d + ((x - 1) % s) <= s * e + (x % s)
            BY <1>1, <5>1, <6>1
          <6> QED
            BY <5>1, <6>2, QuotientOrder
        <5>4. r * (d + 1) <= r * (e + 1) /\ r * (d + 1) \in Nat /\ r * (e + 1) \in Nat
          <6>1. d + 1 \in Nat /\ e + 1 \in Nat /\ d + 1 <= e + 1
            BY <5>1, <5>3
          <6> QED
            BY <6>1, ProductOrder
        <5>5. (d + 1) * r = r * (d + 1) /\ (e + 1) * r = r * (e + 1)
          BY <5>1
        <5> QED
          BY <1>1, <5>2, <5>4, <5>5
      <4>3. Unit(r, s, x - 1) \in Nat /\ Unit(r, s, x) \in Nat /\ Unit(r, s, i) \in Nat
        BY <1>1, UnitFacts
      <4> QED
        BY <1>3, <3>1, <3>2, <4>1, <4>2, <4>3
    <3>4. i + 1 \in 1 .. x /\ (i + 1) - 1 = i
      BY <1>1, <3>3
    <3>5. f[i + 1] = t
      BY <1>5, <3>2, <3>4
    <3> QED
      BY <3>4, <3>5
  <2> HIDE DEF served
  <2>4. f \in Injection(1 .. x, served)
    BY <2>1, <2>2 DEF Injection, IsInjective
  <2>5. f \in Surjection(1 .. x, served)
    BY <2>1, <2>3 DEF Surjection
  <2> QED
    BY <2>4, <2>5 DEF Bijection
<1> HIDE DEF served
<1>7. IsFiniteSet(served) /\ Cardinality(served) = x
  <2>1. ExistsBijection(1 .. x, served)
    BY <1>6 DEF ExistsBijection
  <2>2. IsFiniteSet(1 .. x) /\ Cardinality(1 .. x) = x
    BY <1>1, FS_Interval
  <2> QED
    BY <2>1, <2>2, FS_Bijection
<1>8. last % (r + s) >= r
  <2>1. x \in 1 .. x
    BY <1>1
  <2>2. f[x] = last
    BY <1>3, <1>5, <2>1
  <2> QED
    BY <1>5, <2>1, <2>2
<1> QED
  BY <1>7, <1>8 DEF served, last, n, Waiting, InSlices

LEMMA ServedExactly ==
    ASSUME NEW G, IsBoundGraph(G), NEW pos \in [Tiles(G) -> Nat], NEW a \in Actors(G), IsBound(G, a),
           pos[G.tile[a]] < Rest(G, G.tile[a])
    PROVE  LET p == G.tile[a]
               n == completionTime(G, pos, a)
           IN  /\ Served(G, p, pos[p], n) = G.ex[a]
               /\ (pos[p] + n - 1) % G.wheel[p] >= Rest(G, p)
<1> DEFINE p == G.tile[a]
           r == Rest(G, p)
           s == G.slice[p]
           x == G.ex[a]
           n == completionTime(G, pos, a)
<1>1. /\ r \in Nat /\ s \in Positive /\ x \in Positive /\ pos[p] \in Nat /\ pos[p] < r
      /\ G.wheel[p] = r + s
  <2>1. /\ p \in Tiles(G) /\ G.wheel[p] \in Positive /\ s \in Positive /\ r \in Nat
        /\ G.ex[a] \in Nat /\ G.ex[a] > 0
    BY TileFacts
  <2> QED
    BY <2>1 DEF Rest, Positive
<1>2. n = (r - pos[p]) + x + r * (CeilDiv(x, s) - 1)
  BY DEF completionTime
<1>3. Served(G, p, pos[p], n) = Cardinality({t \in pos[p] .. pos[p] + n - 1 : t % G.wheel[p] >= r})
  BY DEF Served
<1> HIDE DEF p, r, s, x, n
<1>4. PICK o \in Nat : o = pos[p] /\ o < r
  BY <1>1
<1>5. /\ Cardinality(InSlices(r, s, o, Waiting(r, s, x, o))) = x
      /\ (o + Waiting(r, s, x, o) - 1) % (r + s) >= r
  BY <1>1, <1>4, UnitsServed
<1>7. n = Waiting(r, s, x, o) /\ Served(G, p, pos[p], n) = Cardinality(InSlices(r, s, o, n))
  BY <1>1, <1>2, <1>3, <1>4 DEF Waiting, InSlices
<1>6. Served(G, p, pos[p], n) = x /\ (pos[p] + n - 1) % G.wheel[p] >= r
  BY <1>1, <1>4, <1>5, <1>7
<1> QED
  BY <1>6 DEF p, r, x, n

-----------------------------------------------------------------------------
(* A tile serves one firing                                                *)

(* The list scheduler puts a firing at the end of the schedule of its      *)
(* tile, which stays busy and where it is until the firing ends.           *)
ConstructOrder ==
    /\ sos \in [Tiles(g) -> Schedule(Actors(g))]
    /\ sosPos \in [Tiles(g) -> Nat]
    /\ idle \in [Tiles(g) -> BOOLEAN]
    /\ \A a \in Actors(g) : IsBound(g, a) /\ actClk[a] # <<>> =>
          /\ ~idle[g.tile[a]]
          /\ sos[g.tile[a]].entries # <<>>
          /\ sosPos[g.tile[a]] = Len(sos[g.tile[a]].entries)
          /\ Scheduled(g.tile[a]) = a

AnalyzeOrder ==
    /\ DOMAIN sosPos = Tiles(g)
    /\ \A a \in Actors(g) : IsBound(g, a) /\ actClk[a] # <<>> => Scheduled(g.tile[a]) = a

Order == phase # "done" => IF stage = "construct" THEN ConstructOrder ELSE AnalyzeOrder

ExecInv ==
    /\ app \in Apps /\ HoldsInitialTokens(app)
    /\ stage \in {"construct", "analyze"}
    /\ Shape
    /\ Order

Booted ==
    /\ IsBoundGraph(g)
    /\ ch = InitialTokens(g)
    /\ actClk = [a \in Actors(g) |-> <<>>]
    /\ tdmaPos = [p \in Tiles(g) |-> 0]

LEMMA BootedShape == Booted => Shape
BY ShapeInitial DEF Booted

LEMMA ApplicationGraph ==
    ASSUME NEW a \in Apps, HoldsInitialTokens(a)
    PROVE  /\ IsApplication(a) /\ IsReservation(a, HalfSlices(a))
           /\ IsBoundGraph(Constructed(a))
           /\ Constructed(a).wheel = a.wheel
           /\ Tiles(Constructed(a)) = Tiles(a)
           /\ \A x \in Actors(a) : x \in Actors(Constructed(a)) /\ Constructed(a).tile[x] = a.tile[x]
<1>1. IsApplication(a)
  BY BoundFlowAssumption
<1>2. IsReservation(a, HalfSlices(a))
  <2>1. ASSUME NEW p \in Tiles(a) PROVE HalfSlices(a)[p] \in Positive /\ HalfSlices(a)[p] <= a.wheel[p]
    <3>1. a.wheel[p] \in Positive /\ HalfSlices(a)[p] = IF a.wheel[p] < 2 THEN 1 ELSE a.wheel[p] \div 2
      BY <1>1 DEF HalfSlices, Tiles, IsApplication
    <3> QED
      BY <3>1 DEF Positive
  <2> QED
    BY <2>1 DEF IsReservation, HalfSlices, Tiles
<1>3. /\ IsBoundGraph(Constructed(a)) /\ Constructed(a).wheel = a.wheel
      /\ \A x \in Actors(a) : x \in Actors(Constructed(a)) /\ Constructed(a).tile[x] = a.tile[x]
  BY <1>1, <1>2, BindingAwareGraph DEF Constructed
<1> QED
  BY <1>1, <1>2, <1>3 DEF Tiles

LEMMA ExecInvInit == Init => ExecInv
<1> SUFFICES ASSUME Init PROVE ExecInv
  OBVIOUS
<1>1. app \in Apps /\ HoldsInitialTokens(app) /\ g = Constructed(app) /\ stage = "construct"
  BY DEF Init
<1>2. IsBoundGraph(g) /\ Tiles(g) = Tiles(app)
  BY <1>1, ApplicationGraph
<1>3. Shape
  BY <1>2, BootedShape DEF Init, NotStarted, Booted
<1>4. ConstructOrder
  <2>1. sos \in [Tiles(g) -> Schedule(Actors(g))]
    BY <1>2 DEF Init, NoSchedules, Tiles, EmptySchedule, Schedule
  <2> QED
    BY <2>1 DEF Init, NotStarted, ConstructOrder
<1> QED
  BY <1>1, <1>3, <1>4 DEF ExecInv, Order

(* The operators of a step that ends or starts a firing                    *)
LEMMA EndActive ==
    ASSUME Shape, NEW a \in Actors(g), Ends(a)
    PROVE  /\ actClk[a] # <<>>
           /\ IsBound(g, a) => actClk'[a] = <<>>
           /\ \A b \in Actors(g) : b # a => actClk'[b] = actClk[b]
<1>1. actClk[a] # <<>> /\ actClk[a] \in Seq(Nat) /\ actClk'[a] = Tail(actClk[a])
  BY DEF Ends, FirstToEnd, ReadyToEnd, Shape
<1>2. ASSUME IsBound(g, a) PROVE actClk'[a] = <<>>
  <2>1. Len(actClk[a]) = 1
    BY <1>1, <1>2, OnceAtATime
  <2>2. Len(Tail(actClk[a])) = 0 /\ Tail(actClk[a]) \in Seq(Nat)
    BY <1>1, <2>1, TailLength
  <2>3. PICK u \in Seq(Nat) : u = Tail(actClk[a])
    BY <2>2
  <2>4. u = <<>>
    BY <2>2, <2>3
  <2> QED
    BY <1>1, <2>3, <2>4
<1> QED
  BY <1>1, <1>2 DEF Ends, Shape

LEMMA StartActive ==
    ASSUME Shape, NEW a \in Actors(g), Starts(a)
    PROVE  \A b \in Actors(g) : b # a => actClk'[b] = actClk[b]
BY DEF Starts, Shape

LEMMA ConstructOrderStart ==
    ASSUME Shape, ConstructOrder, NEW a \in Actors(g), ListStarts(a)
    PROVE  ConstructOrder'
<1>1. g' = g /\ Starts(a) /\ ListReady(a)
  BY DEF ListStarts, Starts, ListReady
<1>2. \A b \in Actors(g) : b # a => actClk'[b] = actClk[b]
  BY <1>1, StartActive
<1>3. CASE ~IsBound(g, a)
  <2>1. sos' = sos /\ sosPos' = sosPos /\ idle' = idle
    BY <1>3 DEF ListStarts
  <2> QED
    BY <1>1, <1>2, <1>3, <2>1 DEF ConstructOrder, Scheduled
<1>4. CASE IsBound(g, a)
  <2> DEFINE p == g.tile[a]
  <2>1. p \in Tiles(g)
    BY <1>4, TileFacts DEF Shape
  <2>2. /\ idle[p]
        /\ idle' = [idle EXCEPT ![p] = FALSE]
        /\ sos' = [sos EXCEPT ![p].entries = Append(@, a)]
        /\ sosPos' = [sosPos EXCEPT ![p] = Len(sos[p].entries) + 1]
    BY <1>1, <1>4 DEF ListStarts, ListReady
  <2> HIDE DEF p
  <2>3. sos[p] \in Schedule(Actors(g)) /\ sos[p].entries \in Seq(Actors(g))
    BY <2>1 DEF ConstructOrder, Schedule
  <2>4. /\ sos'[p].entries = Append(sos[p].entries, a) /\ sos'[p] \in Schedule(Actors(g))
        /\ \A q \in Tiles(g) : q # p => sos'[q] = sos[q]
    <3>1. sos'[p] = [sos[p] EXCEPT !.entries = Append(sos[p].entries, a)]
      BY <2>1, <2>2 DEF ConstructOrder
    <3>2. PICK u \in Seq(Actors(g)) : u = Append(sos[p].entries, a)
      BY <2>3, AppendType
    <3>3. sos'[p] = [sos[p] EXCEPT !.entries = u]
      BY <3>1, <3>2
    <3>4. sos'[p].entries = u /\ sos'[p] \in Schedule(Actors(g))
      BY <2>3, <3>2, <3>3 DEF Schedule
    <3> QED
      BY <2>2, <3>2, <3>4 DEF ConstructOrder
  <2>5. sos' \in [Tiles(g) -> Schedule(Actors(g))]
    <3>1. DOMAIN sos' = Tiles(g) /\ sos' = [q \in DOMAIN sos' |-> sos'[q]]
      BY <2>2 DEF ConstructOrder
    <3>2. \A q \in Tiles(g) : sos'[q] \in Schedule(Actors(g))
      BY <2>4 DEF ConstructOrder
    <3> QED
      BY <3>1, <3>2
  <2>6. sosPos' \in [Tiles(g) -> Nat] /\ idle' \in [Tiles(g) -> BOOLEAN]
    <3>1. PICK n \in Nat : n = Len(sos[p].entries) + 1
      BY <2>3
    <3>2. sosPos' = [sosPos EXCEPT ![p] = n]
      BY <2>2, <3>1
    <3>3. sosPos' \in [Tiles(g) -> Nat]
      BY <3>2 DEF ConstructOrder
    <3>4. idle' \in [Tiles(g) -> BOOLEAN]
      BY <2>2 DEF ConstructOrder
    <3> QED
      BY <3>3, <3>4
  <2>7. ASSUME NEW b \in Actors(g), IsBound(g, b), actClk'[b] # <<>>
        PROVE  /\ ~idle'[g.tile[b]]
               /\ sos'[g.tile[b]].entries # <<>>
               /\ sosPos'[g.tile[b]] = Len(sos'[g.tile[b]].entries)
               /\ sos'[g.tile[b]].entries[sosPos'[g.tile[b]]] = b
    <3>1. CASE b = a
      <4>1. idle'[p] = FALSE /\ sosPos'[p] = Len(sos[p].entries) + 1
        BY <2>1, <2>2 DEF ConstructOrder
      <4>2. /\ Len(sos'[p].entries) = Len(sos[p].entries) + 1
            /\ sos'[p].entries[Len(sos[p].entries) + 1] = a /\ sos'[p].entries # <<>>
        BY <2>3, <2>4
      <4> QED
        BY <3>1, <4>1, <4>2 DEF p
    <3>2. CASE b # a
      <4>1. /\ ~idle[g.tile[b]]
            /\ sos[g.tile[b]].entries # <<>>
            /\ sosPos[g.tile[b]] = Len(sos[g.tile[b]].entries)
            /\ sos[g.tile[b]].entries[sosPos[g.tile[b]]] = b
        BY <1>2, <2>7, <3>2 DEF ConstructOrder, Scheduled
      <4>2. g.tile[b] # p
        BY <2>2, <4>1
      <4>3. g.tile[b] \in Tiles(g)
        BY <2>7, TileFacts DEF Shape
      <4>4. idle'[g.tile[b]] = idle[g.tile[b]] /\ sosPos'[g.tile[b]] = sosPos[g.tile[b]]
            /\ sos'[g.tile[b]] = sos[g.tile[b]]
        BY <2>2, <2>4, <4>2, <4>3 DEF ConstructOrder
      <4> QED
        BY <4>1, <4>4
    <3> QED
      BY <3>1, <3>2
  <2> QED
    BY <1>1, <2>5, <2>6, <2>7 DEF ConstructOrder, Scheduled
<1> QED
  BY <1>3, <1>4

LEMMA ConstructOrderEnd ==
    ASSUME Shape, ConstructOrder, NEW a \in Actors(g), ListEnds(a)
    PROVE  ConstructOrder'
<1>1. g' = g /\ Ends(a) /\ sos' = sos /\ sosPos' = sosPos
      /\ idle' = IF IsBound(g, a) THEN [idle EXCEPT ![g.tile[a]] = TRUE] ELSE idle
  BY DEF ListEnds
<1>2. /\ actClk[a] # <<>>
      /\ IsBound(g, a) => actClk'[a] = <<>>
      /\ \A b \in Actors(g) : b # a => actClk'[b] = actClk[b]
  BY <1>1, EndActive
<1>3. idle' \in [Tiles(g) -> BOOLEAN]
  BY <1>1 DEF ConstructOrder
<1>4. ASSUME NEW b \in Actors(g), IsBound(g, b), actClk'[b] # <<>>
      PROVE  /\ ~idle'[g.tile[b]]
             /\ sos[g.tile[b]].entries # <<>>
             /\ sosPos[g.tile[b]] = Len(sos[g.tile[b]].entries)
             /\ sos[g.tile[b]].entries[sosPos[g.tile[b]]] = b
  <2>1. b # a
    BY <1>2, <1>4
  <2>2. /\ ~idle[g.tile[b]]
        /\ sos[g.tile[b]].entries # <<>>
        /\ sosPos[g.tile[b]] = Len(sos[g.tile[b]].entries)
        /\ sos[g.tile[b]].entries[sosPos[g.tile[b]]] = b
    BY <1>2, <1>4, <2>1 DEF ConstructOrder, Scheduled
  <2>3. IsBound(g, a) => sos[g.tile[a]].entries[sosPos[g.tile[a]]] = a
    BY <1>2 DEF ConstructOrder, Scheduled
  <2>4. IsBound(g, a) => g.tile[a] # g.tile[b]
    BY <2>1, <2>2, <2>3
  <2>5. idle'[g.tile[b]] = idle[g.tile[b]]
    <3>1. CASE IsBound(g, a)
      <4>1. idle' = [idle EXCEPT ![g.tile[a]] = TRUE] /\ g.tile[a] # g.tile[b]
        BY <1>1, <2>4, <3>1
      <4>2. g.tile[b] \in DOMAIN idle
        BY <1>4, TileFacts DEF Shape, ConstructOrder
      <4> QED
        BY <4>1, <4>2
    <3>2. CASE ~IsBound(g, a)
      BY <1>1, <3>2
    <3> QED
      BY <3>1, <3>2
  <2> QED
    BY <2>2, <2>5
<1> QED
  BY <1>1, <1>3, <1>4 DEF ConstructOrder, Scheduled

LEMMA OrderFrame ==
    ASSUME Shape, g' = g, \A a \in Actors(g) : actClk'[a] # <<>> => actClk[a] # <<>>,
           sos' = sos, sosPos' = sosPos
    PROVE  /\ ConstructOrder /\ idle' = idle => ConstructOrder'
           /\ AnalyzeOrder => AnalyzeOrder'
BY DEF ConstructOrder, AnalyzeOrder, Scheduled

LEMMA ConstructKeeps ==
    ASSUME ExecInv, Construct
    PROVE  ExecInv'
<1>1. /\ app' = app /\ stage = "construct" /\ stage' = "construct" /\ app \in Apps /\ HoldsInitialTokens(app)
      /\ Shape /\ ListStep
      /\ phase # "done" => ConstructOrder
  BY ListSteps DEF ExecInv, Construct, Order
<1>2. HoldsInitialTokens(app')
  BY <1>1
<1> SUFFICES Shape' /\ (phase' # "done" => ConstructOrder')
  BY <1>1, <1>2 DEF ExecInv, Order
<1>3. ASSUME NEW a \in Actors(g), ListEnds(a) PROVE Shape' /\ ConstructOrder'
  <2>1. Ends(a) /\ g' = g /\ tdmaPos' = tdmaPos /\ phase # "done"
    BY <1>3 DEF ListEnds, Ends, FirstToEnd
  <2> QED
    BY <1>1, <1>3, <2>1, ShapeEnd, ConstructOrderEnd
<1>4. ASSUME NEW a \in Actors(g), ListStarts(a) PROVE Shape' /\ ConstructOrder'
  <2>1. Starts(a) /\ g' = g /\ tdmaPos' = tdmaPos /\ phase # "done"
    BY <1>4 DEF ListStarts, ListReady, Starts
  <2> QED
    BY <1>1, <1>4, <2>1, ShapeStart, ConstructOrderStart
<1>5. ASSUME g' = g, ch' = ch, actClk' = actClk, tdmaPos' = tdmaPos PROVE Shape'
  <2>1. \A k : Taken(k)' = Taken(k)
    BY <1>5 DEF Taken
  <2>2. CyclesFull'
    BY <1>1, <1>5, <2>1 DEF Shape, CyclesFull
  <2> QED
    BY <1>1, <1>5, <2>2 DEF Shape
<1>6. ASSUME NEW a \in Actors(g), ListRecurs(a) PROVE Shape' /\ phase' = "done"
  BY <1>5, <1>6 DEF ListRecurs
<1>7. CASE ListEndsDone \/ ListUpdates
  <2>1. /\ g' = g /\ ch' = ch /\ actClk' = actClk /\ tdmaPos' = tdmaPos /\ phase # "done"
        /\ sos' = sos /\ sosPos' = sosPos /\ idle' = idle
    BY <1>7 DEF ListEndsDone, ListUpdates, listVars
  <2> QED
    BY <1>1, <1>5, <2>1, OrderFrame
<1>8. CASE ListClock
  <2>1. /\ clockStep /\ g' = g /\ ch' = ch /\ phase # "done"
        /\ sos' = sos /\ sosPos' = sosPos /\ idle' = idle
    BY <1>8 DEF ListClock
  <2>2. Shape' /\ \A a \in Actors(g) : Len(actClk'[a]) = Len(actClk[a])
    BY <1>1, <2>1, ShapeClock
  <2>3. \A a \in Actors(g) : actClk[a] \in Seq(Nat) /\ actClk'[a] \in Seq(Nat)
    BY <1>1, <2>1, <2>2 DEF Shape
  <2>4. \A a \in Actors(g) : actClk'[a] # <<>> => actClk[a] # <<>>
    BY <2>2, <2>3
  <2> QED
    BY <1>1, <2>1, <2>2, <2>4, OrderFrame
<1>9. CASE ListDeadlock
  BY <1>5, <1>9 DEF ListDeadlock
<1> QED
  BY <1>1, <1>3, <1>4, <1>6, <1>7, <1>8, <1>9 DEF ListStep, ListCounts, ListStores

LEMMA RestartKeeps ==
    ASSUME ExecInv, analyzeThroughput
    PROVE  ExecInv'
<1>1. /\ app' = app /\ stage' = "analyze" /\ app \in Apps /\ HoldsInitialTokens(app)
      /\ \E b \in Allocations : Restart(b.g) /\ sos' = b.sos
  BY DEF analyzeThroughput, ExecInv
<1> DEFINE schedules == [p \in Tiles(g) |-> ProcessorSchedule(p)]
<1>2. PICK slice \in Slices(app) : Restart(modelBinding(app, slice, schedules).g)
  BY <1>1 DEF Allocations
<1> HIDE DEF schedules
<1>3. IsApplication(app) /\ IsReservation(app, slice)
  BY <1>1, BoundFlowAssumption
<1>4. IsBoundGraph(modelBinding(app, slice, schedules).g)
  BY <1>1, <1>3, BindingAwareGraph
<1>5. Booted'
  BY <1>2, <1>4 DEF Restart, Booted
<1>6. Shape'
  <2>1. Booted' => Shape'
    BY BootedShape, PTL
  <2> QED
    BY <1>5, <2>1
<1>7. AnalyzeOrder'
  <2>1. actClk' = [a \in Actors(g') |-> <<>>] /\ sosPos' = [p \in Tiles(g') |-> 1]
    BY <1>2 DEF Restart
  <2> QED
    BY <2>1 DEF AnalyzeOrder
<1>8. HoldsInitialTokens(app')
  BY <1>1
<1> QED
  BY <1>1, <1>6, <1>7, <1>8 DEF ExecInv, Order

LEMMA AnalyzeKeeps ==
    ASSUME ExecInv, Analyze
    PROVE  ExecInv'
<1>1. /\ app' = app /\ stage = "analyze" /\ stage' = "analyze" /\ app \in Apps /\ HoldsInitialTokens(app)
      /\ Shape /\ TimedStep
      /\ phase # "done" => AnalyzeOrder
  BY TimedSteps DEF ExecInv, Analyze, Order
<1>2. HoldsInitialTokens(app')
  BY <1>1
<1> SUFFICES Shape' /\ (phase' # "done" => AnalyzeOrder')
  BY <1>1, <1>2 DEF ExecInv, Order
<1>3. ASSUME NEW a \in Actors(g), TimedStarts(a) PROVE Shape' /\ AnalyzeOrder'
  <2>1. /\ Starts(a) /\ g' = g /\ tdmaPos' = tdmaPos /\ phase # "done" /\ sos' = sos /\ sosPos' = sosPos
        /\ IsBound(g, a) => Scheduled(g.tile[a]) = a
    BY <1>3 DEF TimedStarts, TimedReady, Starts
  <2>2. \A b \in Actors(g) : b # a => actClk'[b] = actClk[b]
    BY <1>1, <2>1, StartActive
  <2>3. AnalyzeOrder'
    BY <1>1, <2>1, <2>2 DEF AnalyzeOrder, Scheduled
  <2> QED
    BY <1>1, <2>1, <2>3, ShapeStart
<1>4. ASSUME NEW a \in Actors(g), TimedEnds(a) PROVE Shape' /\ AnalyzeOrder'
  <2>1. /\ Ends(a) /\ g' = g /\ tdmaPos' = tdmaPos /\ phase # "done" /\ sos' = sos
        /\ sosPos' = IF IsBound(g, a) THEN [sosPos EXCEPT ![g.tile[a]] = next(sos[g.tile[a]], @)]
                     ELSE sosPos
    BY <1>4 DEF TimedEnds, Ends, FirstToEnd
  <2>2. /\ actClk[a] # <<>>
        /\ IsBound(g, a) => actClk'[a] = <<>>
        /\ \A b \in Actors(g) : b # a => actClk'[b] = actClk[b]
    BY <1>1, <2>1, EndActive
  <2>3. DOMAIN sosPos' = Tiles(g)
    BY <1>1, <2>1 DEF AnalyzeOrder
  <2>4. ASSUME NEW b \in Actors(g), IsBound(g, b), actClk'[b] # <<>>
        PROVE  sos[g.tile[b]].entries[sosPos'[g.tile[b]]] = b
    <3>1. CASE ~IsBound(g, a)
      <4>1. b # a /\ sosPos' = sosPos
        BY <2>1, <2>4, <3>1
      <4> QED
        BY <1>1, <2>1, <2>2, <2>4, <4>1 DEF AnalyzeOrder, Scheduled
    <3>2. CASE IsBound(g, a)
      <4>1. b # a
        BY <2>2, <2>4, <3>2
      <4>2. /\ sos[g.tile[b]].entries[sosPos[g.tile[b]]] = b
            /\ sos[g.tile[a]].entries[sosPos[g.tile[a]]] = a
        BY <1>1, <2>1, <2>2, <2>4, <3>2, <4>1 DEF AnalyzeOrder, Scheduled
      <4>3. g.tile[a] # g.tile[b] /\ g.tile[b] \in DOMAIN sosPos
        BY <1>1, <2>1, <2>4, <4>1, <4>2, TileFacts DEF AnalyzeOrder, Shape
      <4>4. sosPos'[g.tile[b]] = sosPos[g.tile[b]]
        BY <2>1, <3>2, <4>3
      <4> QED
        BY <4>2, <4>4
    <3> QED
      BY <3>1, <3>2
  <2>5. AnalyzeOrder'
    BY <2>1, <2>3, <2>4 DEF AnalyzeOrder, Scheduled
  <2> QED
    BY <1>1, <2>1, <2>5, ShapeEnd
<1>5. CASE TimedClock
  <2>1. clockStep /\ g' = g /\ ch' = ch /\ phase # "done" /\ sos' = sos /\ sosPos' = sosPos
    BY <1>5 DEF TimedClock
  <2>2. Shape' /\ \A a \in Actors(g) : Len(actClk'[a]) = Len(actClk[a])
    BY <1>1, <2>1, ShapeClock
  <2>3. \A a \in Actors(g) : actClk[a] \in Seq(Nat) /\ actClk'[a] \in Seq(Nat)
    BY <1>1, <2>1, <2>2 DEF Shape
  <2>4. \A a \in Actors(g) : actClk'[a] # <<>> => actClk[a] # <<>>
    BY <2>2, <2>3
  <2> QED
    BY <1>1, <2>1, <2>2, <2>4, OrderFrame
<1>6. CASE TimedTurns
  <2>1. /\ g' = g /\ ch' = ch /\ actClk' = actClk /\ tdmaPos' = tdmaPos /\ phase # "done"
        /\ sos' = sos /\ sosPos' = sosPos
    BY <1>6 DEF TimedTurns
  <2>2. \A k : Taken(k)' = Taken(k)
    BY <2>1 DEF Taken
  <2>3. CyclesFull'
    BY <1>1, <2>1, <2>2 DEF Shape, CyclesFull
  <2>4. Shape'
    BY <1>1, <2>1, <2>3 DEF Shape
  <2> QED
    BY <1>1, <2>1, <2>4, OrderFrame
<1> QED
  BY <1>1, <1>3, <1>4, <1>5, <1>6 DEF TimedStep

LEMMA ExecInvHolds == Spec => []ExecInv
<1>1. ExecInv /\ [Next]_vars => ExecInv'
  <2> SUFFICES ASSUME ExecInv, [Next]_vars PROVE ExecInv'
    OBVIOUS
  <2>1. CASE Next
    BY <2>1, ConstructKeeps, RestartKeeps, AnalyzeKeeps DEF Next
  <2>2. CASE UNCHANGED vars
    <3>1. /\ app' = app /\ stage' = stage /\ g' = g /\ ch' = ch /\ actClk' = actClk /\ tdmaPos' = tdmaPos
          /\ sos' = sos /\ sosPos' = sosPos /\ phase' = phase /\ idle' = idle
      BY <2>2 DEF vars, execVars, listVars
    <3>2. \A k : Taken(k)' = Taken(k)
      BY <3>1 DEF Taken
    <3>3. Shape'
      BY <3>1, <3>2 DEF ExecInv, Shape, CyclesFull
    <3>4. Order'
      BY <3>1 DEF ExecInv, Order, ConstructOrder, AnalyzeOrder, Scheduled
    <3>5. HoldsInitialTokens(app')
      BY <3>1 DEF ExecInv
    <3> QED
      BY <3>1, <3>3, <3>4, <3>5 DEF ExecInv
  <2> QED
    BY <2>1, <2>2
<1> QED
  BY <1>1, ExecInvInit, PTL DEF Spec

(* Tiles serve one firing (BoundExec): in both stages and for every        *)
(* application a tile has at most one firing under way, that of the entry  *)
(* of its schedule, and in the analysis a firing that starts before the    *)
(* slice of its tile gets exactly its execution time inside the slices.    *)
THEOREM OneFiringExactly == Spec => []TilesServeOneFiring
<1>1. ExecInv => TilesServeOneFiring
  <2> SUFFICES ASSUME ExecInv PROVE TilesServeOneFiring
    OBVIOUS
  <2>1. Shape /\ Order
    BY DEF ExecInv
  <2>2. OneFiringPerTile
    <3> SUFFICES ASSUME phase # "done", NEW a \in Active, IsBound(g, a)
                 PROVE  Len(actClk[a]) = 1 /\ Scheduled(g.tile[a]) = a
      BY DEF OneFiringPerTile
    <3>1. a \in Actors(g) /\ actClk[a] # <<>>
      BY DEF Active
    <3>2. Len(actClk[a]) = 1
      BY <2>1, <3>1, OnceAtATime
    <3>3. Scheduled(g.tile[a]) = a
      BY <2>1, <3>1 DEF Order, ConstructOrder, AnalyzeOrder
    <3> QED
      BY <3>2, <3>3
  <2>3. TS!ServedFromBefore
    <3> SUFFICES ASSUME NEW a \in Actors(g), IsBound(g, a), tdmaPos[g.tile[a]] < Rest(g, g.tile[a])
                 PROVE  LET p == g.tile[a]
                            n == completionTime(g, tdmaPos, a)
                        IN  /\ Served(g, p, tdmaPos[p], n) = g.ex[a]
                            /\ (tdmaPos[p] + n - 1) % g.wheel[p] >= Rest(g, p)
      BY SameTimedOperators DEF TS!ServedFromBefore
    <3> QED
      BY <2>1, ServedExactly DEF Shape
  <2> QED
    BY <2>2, <2>3 DEF TilesServeOneFiring
<1> QED
  BY <1>1, ExecInvHolds, PTL

-----------------------------------------------------------------------------
(* The ready lists                                                         *)

(* How often a fires on the tokens                                         *)
Enough(G, tokens, a) == {tokens[k] \div G.ch[k].c : k \in InChannels(G, a)}
Fewest(G, tokens, a) == CHOOSE m \in Enough(G, tokens, a) : \A i \in Enough(G, tokens, a) : m <= i

LEMMA CountIsFewest == \A tokens, a : Count(tokens, a) = Fewest(g, tokens, a)
BY Zenon DEF Count, LS!Enabled, LS!InChannels, InChannels, LS!Channels, Channels, Fewest, Enough

LEMMA FewestFacts ==
    ASSUME NEW G, IsBoundGraph(G), NEW a \in Actors(G), IsBound(G, a), NEW tokens \in [Channels(G) -> Nat]
    PROVE  /\ Fewest(G, tokens, a) \in Nat
           /\ \E k \in InChannels(G, a) : Fewest(G, tokens, a) = tokens[k] \div G.ch[k].c
           /\ \A k \in InChannels(G, a) : Fewest(G, tokens, a) <= tokens[k] \div G.ch[k].c
<1> DEFINE S == Enough(G, tokens, a)
<1>1. S # {}
  <2>1. PICK k \in OutChannels(G, a), l \in Channels(G) : OneAtATime(G, k, l)
    BY DEF IsBoundGraph
  <2>2. l \in InChannels(G, a)
    BY <2>1 DEF OneAtATime, OutChannels, InChannels
  <2> QED
    BY <2>2 DEF Enough
<1>2. S \subseteq Nat
  <2> SUFFICES ASSUME NEW k \in InChannels(G, a) PROVE tokens[k] \div G.ch[k].c \in Nat
    BY DEF Enough
  <2>1. k \in Channels(G) /\ G.ch[k].c \in Positive
    BY ChannelType DEF InChannels, IsBoundGraph
  <2> QED
    BY <2>1, DivType
<1>3. \E m \in S : \A i \in S : m <= i
  <2> HIDE DEF S
  <2>1. IsWellFoundedOn(OpToRel(<, Nat), Nat)
    BY NatLessThanWellFounded
  <2>2. PICK m \in S : \A i \in S : <<i, m>> \notin OpToRel(<, Nat)
    BY <1>1, <1>2, <2>1, WFMin
  <2>3. ASSUME NEW i \in S PROVE m <= i
    <3>1. i \in Nat /\ m \in Nat /\ ~(i < m)
      BY <1>2, <2>2 DEF OpToRel
    <3> QED
      BY <3>1
  <2> QED
    BY <2>3
<1>4. Fewest(G, tokens, a) \in S /\ \A i \in S : Fewest(G, tokens, a) <= i
  BY <1>3 DEF Fewest
<1> QED
  BY <1>2, <1>4 DEF Enough

(* With more tokens an actor fires at least as often.                      *)
LEMMA FewestGrows ==
    ASSUME NEW G, IsBoundGraph(G), NEW a \in Actors(G), IsBound(G, a),
           NEW s \in [Channels(G) -> Nat], NEW t \in [Channels(G) -> Nat],
           \A k \in Channels(G) : s[k] <= t[k]
    PROVE  Fewest(G, s, a) \in Nat /\ Fewest(G, t, a) \in Nat /\ Fewest(G, s, a) <= Fewest(G, t, a)
<1>1. /\ Fewest(G, s, a) \in Nat /\ Fewest(G, t, a) \in Nat
      /\ \A k \in InChannels(G, a) : Fewest(G, s, a) <= s[k] \div G.ch[k].c
  BY FewestFacts
<1>2. PICK k \in InChannels(G, a) : Fewest(G, t, a) = t[k] \div G.ch[k].c
  BY FewestFacts
<1>3. k \in Channels(G) /\ G.ch[k].c \in Positive /\ s[k] \in Nat /\ t[k] \in Nat /\ s[k] <= t[k]
  BY ChannelType DEF InChannels, IsBoundGraph
<1>4. s[k] \div G.ch[k].c <= t[k] \div G.ch[k].c
  <2>1. PICK c \in Positive, x \in Nat, y \in Nat : c = G.ch[k].c /\ x = s[k] /\ y = t[k]
    BY <1>3
  <2>2. /\ x \div c \in Nat /\ x % c \in Nat /\ x % c < c /\ x = c * (x \div c) + (x % c)
        /\ y \div c \in Nat /\ y % c \in Nat /\ y % c < c /\ y = c * (y \div c) + (y % c)
    BY DivType
  <2>3. c * (x \div c) + (x % c) <= c * (y \div c) + (y % c)
    BY <1>3, <2>1, <2>2
  <2>4. x \div c <= y \div c
    BY <2>2, <2>3, QuotientOrder
  <2> QED
    BY <2>1, <2>4
<1>5. s[k] \div G.ch[k].c \in Nat /\ t[k] \div G.ch[k].c \in Nat
  BY <1>3, DivType
<1> QED
  BY <1>1, <1>2, <1>4, <1>5

(* A firing of an actor takes one from its own count and nothing from      *)
(* others.                                                                 *)
LEMMA FewestConsumed ==
    ASSUME NEW G, IsBoundGraph(G), NEW a \in Actors(G), IsBound(G, a), NEW b \in Actors(G),
           NEW s \in [Channels(G) -> Nat], Ready(G, s, b), NEW t \in [Channels(G) -> Nat],
           t = Consume(G, s, b)
    PROVE  Fewest(G, t, a) = IF a = b THEN Fewest(G, s, a) - 1 ELSE Fewest(G, s, a)
<1>1. CASE a # b
  <2>1. \A k \in InChannels(G, a) : t[k] = s[k]
    BY <1>1 DEF InChannels, Consume
  <2>2. Enough(G, t, a) = Enough(G, s, a)
    BY <2>1 DEF Enough
  <2> QED
    BY <1>1, <2>2 DEF Fewest
<1>2. CASE a = b
  <2>1. ASSUME NEW k \in InChannels(G, a)
        PROVE  t[k] \div G.ch[k].c = (s[k] \div G.ch[k].c) - 1 /\ s[k] \div G.ch[k].c \in Nat
    <3>1. /\ k \in Channels(G) /\ G.ch[k].c \in Positive /\ s[k] \in Nat /\ t[k] \in Nat
          /\ s[k] >= G.ch[k].c /\ t[k] = s[k] - G.ch[k].c
      BY <1>2, ChannelType DEF InChannels, IsBoundGraph, Ready, Consume
    <3>2. PICK c \in Positive, x \in Nat, y \in Nat : c = G.ch[k].c /\ x = s[k] /\ y = t[k]
      BY <3>1
    <3>3. /\ y \div c \in Nat /\ y % c \in Nat /\ y % c < c /\ y = c * (y \div c) + (y % c)
      BY DivType
    <3>4. c * ((y \div c) + 1) = c * (y \div c) + c
      BY <3>3, OneMore DEF Positive
    <3>5. x = c * ((y \div c) + 1) + (y % c)
      <4>1. c \in Nat /\ c * (y \div c) \in Nat
        BY <3>3, ProductType DEF Positive
      <4>2. x = y + c
        BY <3>1, <3>2, <4>1
      <4> QED
        BY <3>3, <3>4, <4>1, <4>2
    <3>6. (y \div c) + 1 \in Nat
      BY <3>3
    <3>7. x \div c = (y \div c) + 1
      BY <3>3, <3>5, <3>6, QuotientUnique
    <3> QED
      BY <3>2, <3>3, <3>7
  <2>2. PICK k \in InChannels(G, a) : Fewest(G, s, a) = s[k] \div G.ch[k].c
    BY FewestFacts
  <2>3. PICK l \in InChannels(G, a) : Fewest(G, t, a) = t[l] \div G.ch[l].c
    BY FewestFacts
  <2>4. /\ Fewest(G, s, a) \in Nat /\ Fewest(G, t, a) \in Nat
        /\ Fewest(G, s, a) <= s[l] \div G.ch[l].c /\ Fewest(G, t, a) <= t[k] \div G.ch[k].c
    BY FewestFacts
  <2>5. /\ t[k] \div G.ch[k].c = (s[k] \div G.ch[k].c) - 1 /\ s[k] \div G.ch[k].c \in Nat
        /\ t[l] \div G.ch[l].c = (s[l] \div G.ch[l].c) - 1 /\ s[l] \div G.ch[l].c \in Nat
    BY <2>1
  <2> QED
    BY <1>2, <2>2, <2>3, <2>4, <2>5
<1> QED
  BY <1>1, <1>2

LEMMA FewestNone ==
    ASSUME NEW G, IsBoundGraph(G), NEW a \in Actors(G), IsBound(G, a)
    PROVE  Fewest(G, [k \in Channels(G) |-> 0], a) = 0
<1>1. PICK s \in [Channels(G) -> Nat] : s = [k \in Channels(G) |-> 0]
  OBVIOUS
<1>2. PICK k \in InChannels(G, a) : Fewest(G, s, a) = s[k] \div G.ch[k].c
  BY FewestFacts
<1>3. k \in Channels(G) /\ G.ch[k].c \in Positive
  BY ChannelType DEF InChannels, IsBoundGraph
<1>4. s[k] = 0
  BY <1>1, <1>3
<1>5. 0 \div G.ch[k].c = 0
  BY <1>3 DEF Positive
<1> QED
  BY <1>1, <1>2, <1>4, <1>5

(* Between clock step and update the lists are those of the tokens before  *)
(* the clock step, and there are no fewer tokens since.                    *)
ListsTyped ==
    /\ previousCh \in [Channels(g) -> Nat]
    /\ readyList \in [Tiles(g) -> Seq(Actors(g))]

Listed(tokens) ==
    \A a \in Actors(g) : IsBound(g, a) => Fewest(g, tokens, a) = Times(readyList[g.tile[a]], a)

Lists ==
    /\ ListsTyped
    /\ phase = "start" => Listed(ch)
    /\ phase \in {"end", "list"} => /\ Listed(previousCh)
                                    /\ \A k \in Channels(g) : previousCh[k] <= ch[k]

ListsInv == stage = "construct" => Lists

LEMMA ListsInit == Init => ListsInv
<1> SUFFICES ASSUME Init PROVE Lists
  BY DEF ListsInv
<1>1. IsBoundGraph(g) /\ ch \in [Channels(g) -> Nat]
  BY ExecInvInit DEF ExecInv, Shape
<1>2. previousCh = [k \in Channels(g) |-> 0] /\ readyList = [p \in Tiles(g) |-> <<>>] /\ phase = "end"
  BY DEF Init, NotStarted
<1>3. ListsTyped
  BY <1>2 DEF ListsTyped
<1>4. Listed(previousCh)
  <2> SUFFICES ASSUME NEW a \in Actors(g), IsBound(g, a)
               PROVE  Fewest(g, previousCh, a) = Times(readyList[g.tile[a]], a)
    BY DEF Listed
  <2>1. readyList[g.tile[a]] = <<>>
    BY <1>1, <1>2, TileFacts
  <2>2. Fewest(g, previousCh, a) = 0
    BY <1>1, <1>2, FewestNone
  <2> QED
    BY <2>1, <2>2, TimesEmpty
<1> QED
  BY <1>1, <1>2, <1>3, <1>4 DEF Lists

LEMMA ListsStart ==
    ASSUME Shape, Lists, NEW a \in Actors(g), ListStarts(a), Shape'
    PROVE  Lists'
<1>1. /\ g' = g /\ phase = "start" /\ phase' = "start" /\ previousCh' = previousCh
      /\ ListReady(a) /\ Ready(g, ch, a) /\ ch' = Consume(g, ch, a)
  BY DEF ListStarts, ListReady
<1>2. IsBoundGraph(g) /\ ch \in [Channels(g) -> Nat] /\ ch' \in [Channels(g) -> Nat]
  BY <1>1 DEF Shape
<1>3. \A b \in Actors(g) : IsBound(g, b) =>
         Fewest(g, ch', b) = IF b = a THEN Fewest(g, ch, b) - 1 ELSE Fewest(g, ch, b)
  BY <1>1, <1>2, FewestConsumed
<1>4. Listed(ch) /\ readyList \in [Tiles(g) -> Seq(Actors(g))]
  BY <1>1 DEF Lists, ListsTyped
<1>5. CASE ~IsBound(g, a)
  <2>1. readyList' = readyList
    BY <1>5 DEF ListStarts
  <2>2. \A b \in Actors(g) : IsBound(g, b) => Fewest(g, ch', b) = Times(readyList'[g.tile[b]], b)
    BY <1>3, <1>4, <1>5, <2>1 DEF Listed
  <2> QED
    BY <1>1, <2>1, <2>2 DEF Lists, ListsTyped, Listed
<1>6. CASE IsBound(g, a)
  <2> DEFINE p == g.tile[a]
  <2>1. /\ p \in Tiles(g) /\ readyList[p] # <<>> /\ Head(readyList[p]) = a
        /\ readyList' = [readyList EXCEPT ![p] = Tail(readyList[p])]
    BY <1>1, <1>2, <1>6, TileFacts DEF ListStarts, ListReady
  <2> HIDE DEF p
  <2>2. PICK u \in Seq(Actors(g)) : /\ u = Tail(readyList[p])
                                    /\ \A b : Times(u, b) = IF b = a THEN Times(readyList[p], b) - 1
                                                            ELSE Times(readyList[p], b)
    <3>1. readyList[p] \in Seq(Actors(g)) /\ readyList[p] # <<>>
      BY <1>4, <2>1
    <3>2. \A b : /\ Tail(readyList[p]) \in Seq(Actors(g))
                 /\ Times(Tail(readyList[p]), b) = IF b = a THEN Times(readyList[p], b) - 1
                                                   ELSE Times(readyList[p], b)
      BY <2>1, <3>1, TimesTail
    <3> QED
      BY <3>2
  <2>3. readyList' = [readyList EXCEPT ![p] = u]
    BY <2>1, <2>2
  <2>4. readyList' \in [Tiles(g) -> Seq(Actors(g))]
    BY <1>4, <2>1, <2>3
  <2>5. ASSUME NEW b \in Actors(g), IsBound(g, b)
        PROVE  Fewest(g, ch', b) = Times(readyList'[g.tile[b]], b)
    <3>1. g.tile[b] \in Tiles(g)
      BY <1>2, <2>5, TileFacts
    <3>2. Fewest(g, ch, b) = Times(readyList[g.tile[b]], b)
      BY <1>4, <2>5 DEF Listed
    <3>3. Fewest(g, ch', b) = IF b = a THEN Fewest(g, ch, b) - 1 ELSE Fewest(g, ch, b)
      BY <1>3, <2>5
    <3>4. CASE g.tile[b] = p
      <4>1. readyList'[g.tile[b]] = u
        BY <1>4, <2>1, <2>3, <3>4
      <4> QED
        BY <2>2, <3>2, <3>3, <3>4, <4>1
    <3>5. CASE g.tile[b] # p
      <4>1. readyList'[g.tile[b]] = readyList[g.tile[b]] /\ b # a
        BY <1>4, <2>3, <3>1, <3>5 DEF p
      <4> QED
        BY <3>2, <3>3, <4>1
    <3> QED
      BY <3>4, <3>5
  <2> QED
    BY <1>1, <2>4, <2>5 DEF Lists, ListsTyped, Listed
<1> QED
  BY <1>5, <1>6

LEMMA ListsEnd ==
    ASSUME Shape, Lists, NEW a \in Actors(g), ListEnds(a)
    PROVE  Lists'
<1>1. /\ g' = g /\ phase = "end" /\ phase' = "end" /\ previousCh' = previousCh /\ readyList' = readyList
      /\ ch' = Produce(g, ch, a)
  BY DEF ListEnds, Ends, FirstToEnd
<1>2. IsBoundGraph(g) /\ ch \in [Channels(g) -> Nat]
  BY DEF Shape
<1>3. ASSUME NEW k \in Channels(g) PROVE previousCh[k] <= ch'[k]
  <2>1. g.ch[k].p \in Nat /\ ch[k] \in Nat /\ previousCh[k] \in Nat /\ previousCh[k] <= ch[k]
    BY <1>1, <1>2, ChannelType DEF IsBoundGraph, Positive, Lists, ListsTyped
  <2>2. ch'[k] = IF g.ch[k].src = a THEN ch[k] + g.ch[k].p ELSE ch[k]
    BY <1>1 DEF Produce
  <2> QED
    BY <2>1, <2>2
<1> QED
  BY <1>1, <1>3 DEF Lists, ListsTyped, Listed

LEMMA ListsClock ==
    ASSUME Shape, Lists, ListClock
    PROVE  Lists'
<1>1. g' = g /\ phase = "start" /\ phase' = "end" /\ previousCh' = ch /\ readyList' = readyList /\ ch' = ch
  BY DEF ListClock
<1>2. ch \in [Channels(g) -> Nat]
  BY DEF Shape
<1> QED
  BY <1>1, <1>2 DEF Lists, ListsTyped, Listed

(* What an update adds to the list of a tile                               *)
LEMMA AdditionsFacts ==
    ASSUME Shape, ListsTyped, \A k \in Channels(g) : previousCh[k] <= ch[k], NEW p \in Tiles(g)
    PROVE  /\ FlattenSeq(Additions(p)) \in Seq(Actors(g))
           /\ \A a \in Actors(g) : g.tile[a] = p =>
                 Times(FlattenSeq(Additions(p)), a) = Fewest(g, ch, a) - Fewest(g, previousCh, a)
<1> DEFINE n == Len(g.ex)
           more(a) == [i \in 1 .. Fewest(g, ch, a) - Fewest(g, previousCh, a) |-> a]
           seqs == [a \in Actors(g) |-> IF g.tile[a] = p THEN more(a) ELSE <<>>]
<1>1. IsBoundGraph(g) /\ n \in Nat /\ Actors(g) = 1 .. n /\ p # 0
  <2>1. IsBoundGraph(g)
    BY DEF Shape
  <2>2. g.wheel \in Seq(Positive)
    BY <2>1 DEF IsBoundGraph
  <2>3. p # 0
    BY <2>2 DEF Tiles
  <2> QED
    BY <2>1, <2>3, BoundParts
<1>2. Additions(p) = seqs
  BY CountIsFewest DEF Additions
<1>3. ASSUME NEW a \in Actors(g), g.tile[a] = p
      PROVE  /\ Fewest(g, ch, a) - Fewest(g, previousCh, a) \in Nat
             /\ more(a) \in Seq(Actors(g))
             /\ \A x : Times(more(a), x) = IF x = a THEN Fewest(g, ch, a) - Fewest(g, previousCh, a) ELSE 0
  <2>1. IsBound(g, a)
    BY <1>1, <1>3 DEF IsBound
  <2>2. /\ Fewest(g, previousCh, a) \in Nat /\ Fewest(g, ch, a) \in Nat
        /\ Fewest(g, previousCh, a) <= Fewest(g, ch, a)
    BY <1>1, <2>1, FewestGrows DEF Shape, ListsTyped
  <2>3. PICK m \in Nat : m = Fewest(g, ch, a) - Fewest(g, previousCh, a)
    BY <2>2
  <2>4. \A x : /\ [i \in 1 .. m |-> a] \in Seq(Actors(g))
               /\ Times([i \in 1 .. m |-> a], x) = IF x = a THEN m ELSE 0
    BY TimesSame
  <2> QED
    BY <2>3, <2>4
<1> HIDE DEF n, more
<1>4. \A a \in Actors(g) : seqs[a] = IF g.tile[a] = p THEN more(a) ELSE <<>>
  OBVIOUS
<1>5. seqs \in [1 .. n -> Seq(Actors(g))]
  <2>1. ASSUME NEW a \in 1 .. n PROVE (IF g.tile[a] = p THEN more(a) ELSE <<>>) \in Seq(Actors(g))
    <3>1. <<>> \in Seq(Actors(g))
      OBVIOUS
    <3>2. CASE g.tile[a] = p
      BY <1>1, <1>3, <3>2, Zenon
    <3>3. CASE g.tile[a] # p
      BY <3>1, <3>3, Zenon
    <3> QED
      BY <3>2, <3>3
  <2> QED
    BY <1>1, <2>1
<1> HIDE DEF seqs
<1>6. CASE n = 0
  <2>1. seqs = <<>> /\ FlattenSeq(seqs) = seqs
    <3>1. seqs \in Seq(Seq(Actors(g))) /\ Len(seqs) = 0
      BY <1>5, <1>6
    <3>2. seqs = <<>>
      BY <3>1
    <3> QED
      BY <3>1, <3>2 DEF FlattenSeq
  <2>2. <<>> \in Seq(Actors(g)) /\ ~\E a : a \in Actors(g)
    BY <1>1, <1>6
  <2> QED
    BY <1>2, <2>1, <2>2
<1>7. CASE n # 0
  <2>1. ASSUME NEW a \in 1 .. n, g.tile[a] = p
        PROVE  /\ FlattenSeq(seqs) \in Seq(Actors(g))
               /\ Times(FlattenSeq(seqs), a) = Times(seqs[a], a)
    <3>1. ASSUME NEW i \in 1 .. n, i # a PROVE Times(seqs[i], a) = 0
      <4>1. CASE g.tile[i] = p
        BY <1>1, <1>3, <1>4, <3>1, <4>1
      <4>2. CASE g.tile[i] # p
        BY <1>1, <1>4, <4>2, TimesEmpty
      <4> QED
        BY <4>1, <4>2
    <3>2. \A i \in 1 .. n : i # a => Times(seqs[i], a) = 0
      BY <3>1
    <3>3. n \in Nat
      BY <1>1
    <3> QED
      <4>2. Flattens(Actors(g), seqs, a, a)
        BY <1>5, <1>7, <3>2, <3>3, TimesFlattened
      <4> QED
        BY <4>2 DEF Flattens
  <2>2. FlattenSeq(seqs) \in Seq(Actors(g))
    <3>1. PICK f : FlatPrefixes(Actors(g), n, seqs, f) /\ FlattenSeq(seqs) = f[n]
      BY <1>1, <1>5, <1>7, Flattened
    <3>2. n \in 1 .. n /\ f \in [1 .. n -> Seq(Actors(g))]
      BY <1>1, <1>7, <3>1 DEF FlatPrefixes
    <3> QED
      BY <3>1, <3>2
  <2>3. ASSUME NEW a \in Actors(g), g.tile[a] = p
        PROVE  Times(FlattenSeq(seqs), a) = Fewest(g, ch, a) - Fewest(g, previousCh, a)
    BY <1>1, <1>3, <1>4, <2>1, <2>3
  <2> QED
    BY <1>2, <2>2, <2>3
<1> QED
  BY <1>1, <1>6, <1>7

LEMMA ListsUpdate ==
    ASSUME Shape, Lists, ListUpdates
    PROVE  Lists'
<1>1. /\ g' = g /\ phase = "list" /\ phase' = "start" /\ previousCh' = previousCh /\ ch' = ch
      /\ readyList' = [p \in Tiles(g) |-> readyList[p] \o FlattenSeq(Additions(p))]
  BY DEF ListUpdates
<1>2. /\ ListsTyped /\ Listed(previousCh) /\ \A k \in Channels(g) : previousCh[k] <= ch[k]
      /\ readyList \in [Tiles(g) -> Seq(Actors(g))] /\ IsBoundGraph(g)
  BY <1>1 DEF Lists, ListsTyped, Shape
<1>3. ASSUME NEW p \in Tiles(g)
      PROVE  /\ readyList'[p] \in Seq(Actors(g))
             /\ \A a \in Actors(g) : g.tile[a] = p /\ IsBound(g, a) => Fewest(g, ch, a) = Times(readyList'[p], a)
  <2>1. PICK t : t = FlattenSeq(Additions(p))
    OBVIOUS
  <2>2. t \in Seq(Actors(g)) /\ readyList[p] \in Seq(Actors(g)) /\ readyList'[p] = readyList[p] \o t
    BY <1>1, <1>2, <2>1, AdditionsFacts
  <2>3. readyList[p] \o t \in Seq(Actors(g))
    BY <2>2, ConcatType
  <2>4. ASSUME NEW a \in Actors(g), g.tile[a] = p, IsBound(g, a) PROVE Fewest(g, ch, a) = Times(readyList'[p], a)
    <3>1. Times(t, a) = Fewest(g, ch, a) - Fewest(g, previousCh, a)
      BY <1>2, <2>1, <2>4, AdditionsFacts
    <3>2. Times(readyList[p] \o t, a) = Times(readyList[p], a) + Times(t, a)
      BY <2>2, TimesConcat
    <3>3. Fewest(g, previousCh, a) = Times(readyList[p], a)
      BY <1>2, <2>4 DEF Listed
    <3>4. Fewest(g, ch, a) \in Nat /\ Fewest(g, previousCh, a) \in Nat
      BY <1>2, <2>4, FewestGrows DEF Shape, ListsTyped
    <3> QED
      BY <2>2, <3>1, <3>2, <3>3, <3>4
  <2> QED
    BY <2>2, <2>3, <2>4
<1>4. readyList' \in [Tiles(g) -> Seq(Actors(g))]
  BY <1>1, <1>3
<1>5. ASSUME NEW a \in Actors(g), IsBound(g, a) PROVE Fewest(g, ch, a) = Times(readyList'[g.tile[a]], a)
  <2>1. g.tile[a] \in Tiles(g)
    BY <1>2, <1>5, TileFacts
  <2> QED
    BY <1>3, <1>5, <2>1
<1> QED
  BY <1>1, <1>2, <1>4, <1>5 DEF Lists, ListsTyped, Listed

LEMMA ListsStay ==
    ASSUME Lists, g' = g, ch' = ch, previousCh' = previousCh, readyList' = readyList,
           phase' = "done" \/ (phase = "end" /\ phase' = "list")
    PROVE  Lists'
<1>1. ListsTyped' /\ (Listed(previousCh) => Listed(previousCh)')
  BY DEF Lists, ListsTyped, Listed
<1>2. phase' = "done" => phase' # "start" /\ phase' \notin {"end", "list"}
  OBVIOUS
<1>3. CASE phase' = "done"
  BY <1>1, <1>2, <1>3 DEF Lists
<1>4. CASE phase = "end" /\ phase' = "list"
  BY <1>1, <1>4 DEF Lists
<1> QED
  BY <1>3, <1>4

LEMMA ListsKept ==
    ASSUME ExecInv, ExecInv', ListsInv, [Next]_vars
    PROVE  ListsInv'
<1>1. CASE Construct
  <2> SUFFICES Lists'
    BY DEF ListsInv
  <2>1. Shape /\ Shape' /\ Lists /\ ListStep
    BY <1>1, ListSteps DEF ExecInv, ListsInv, Construct
  <2>2. ASSUME NEW a \in Actors(g), ListRecurs(a) PROVE Lists'
    <3>1. /\ g' = g /\ previousCh' = previousCh /\ readyList' = readyList /\ ch' = ch
          /\ phase' = "done"
      BY <2>2 DEF ListRecurs
    <3> QED
      BY <2>1, <3>1, ListsStay
  <2>3. CASE ListDeadlock
    <3>1. /\ g' = g /\ previousCh' = previousCh /\ readyList' = readyList /\ ch' = ch
          /\ phase' = "done"
      BY <2>3 DEF ListDeadlock, listVars
    <3> QED
      BY <2>1, <3>1, ListsStay
  <2>4. CASE ListEndsDone
    <3>1. /\ g' = g /\ previousCh' = previousCh /\ readyList' = readyList /\ ch' = ch
          /\ phase = "end" /\ phase' = "list"
      BY <2>4 DEF ListEndsDone, listVars
    <3> QED
      BY <2>1, <3>1, ListsStay
  <2>6. ASSUME NEW a \in Actors(g), ListStarts(a) PROVE Lists'
    BY <2>1, <2>6, ListsStart
  <2>7. ASSUME NEW a \in Actors(g), ListCounts(a) \/ ListStores(a) PROVE Lists'
    <3>1. ListEnds(a)
      BY <2>7 DEF ListCounts, ListStores
    <3> QED
      BY <2>1, <3>1, ListsEnd
  <2>8. (ListUpdates \/ ListClock) => Lists'
    BY <2>1, ListsUpdate, ListsClock
  <2>5. Lists'
    BY <2>1, <2>2, <2>3, <2>4, <2>6, <2>7, <2>8 DEF ListStep
  <2> QED
    BY <2>5
<1>2. CASE analyzeThroughput \/ Analyze
  BY <1>2 DEF analyzeThroughput, Analyze, ListsInv
<1>3. CASE UNCHANGED vars
  BY <1>3 DEF vars, execVars, listVars, ListsInv, Lists, ListsTyped, Listed
<1> QED
  BY <1>1, <1>2, <1>3 DEF Next

(* The ready lists are exact (ListScheduler): for every application, when  *)
(* firings are started, every list holds every firing of an actor of its   *)
(* tile for which the tokens are there, and no other.                      *)
THEOREM ListsExact == Spec => []ReadyListsExact
<1>1. ListsInv => ReadyListsExact
  <2> SUFFICES ASSUME Lists, phase = "start" PROVE LS!ReadyListsExact
    BY DEF ListsInv, ReadyListsExact, LS!ReadyListsExact
  <2>1. Listed(ch)
    BY DEF Lists
  <2>2. \A a : LS!Enabled(ch, a) = Fewest(g, ch, a)
    BY CountIsFewest DEF Count
  <2>3. \A s, a : LS!Cardinality({i \in DOMAIN s : s[i] = a}) = Times(s, a)
    BY Zenon DEF LS!Cardinality, Cardinality, Times, At
  <2> QED
    BY <2>1, <2>2, <2>3, SameListOperators DEF LS!ReadyListsExact, Listed
<1> QED
  BY <1>1, ListsInit, ListsKept, ExecInvHolds, PTL DEF Spec

-----------------------------------------------------------------------------
(* The periodic part                                                       *)

(* The entries after the n-th that are a                                   *)
Since(s, n, a) == {j \in n + 1 .. Len(s) : s[j] = a}
Later(s, n, a) == Cardinality(Since(s, n, a))

LEMMA LaterType ==
    ASSUME NEW S, NEW s \in Seq(S), NEW n \in Nat, NEW a
    PROVE  IsFiniteSet(Since(s, n, a)) /\ Later(s, n, a) \in Nat
<1>1. n + 1 \in Int /\ Len(s) \in Int
  OBVIOUS
<1>2. IsFiniteSet(n + 1 .. Len(s))
  BY <1>1, FS_Interval
<1>3. IsFiniteSet(Since(s, n, a))
  BY <1>2, FS_Subset DEF Since
<1> QED
  BY <1>3, FS_CardinalityType DEF Later

LEMMA LaterNone ==
    ASSUME NEW S, NEW s \in Seq(S), NEW a
    PROVE  Later(s, Len(s), a) = 0
<1>1. Since(s, Len(s), a) = {}
  BY DEF Since
<1> QED
  BY <1>1, FS_EmptySet DEF Later

LEMMA LaterAppend ==
    ASSUME NEW S, NEW s \in Seq(S), NEW n \in Nat, n <= Len(s), NEW x \in S, NEW a
    PROVE  Later(Append(s, x), n, a) = Later(s, n, a) + (IF a = x THEN 1 ELSE 0)
<1> DEFINE t == Append(s, x)
<1>1. /\ Len(s) \in Nat /\ Len(t) = Len(s) + 1 /\ t[Len(s) + 1] = x
      /\ \A j \in 1 .. Len(s) : t[j] = s[j]
  OBVIOUS
<1> HIDE DEF t
<1>2. IsFiniteSet(Since(s, n, a)) /\ Later(s, n, a) \in Nat
  BY LaterType
<1>3. CASE a = x
  <2>1. Since(t, n, a) = Since(s, n, a) \cup {Len(s) + 1}
    <3>1. ASSUME NEW j \in n + 1 .. Len(t), t[j] = a PROVE j = Len(s) + 1 \/ j \in Since(s, n, a)
      BY <1>1, <3>1 DEF Since
    <3>2. ASSUME NEW j \in Since(s, n, a) PROVE j \in n + 1 .. Len(t) /\ t[j] = a
      BY <1>1 DEF Since
    <3>3. Len(s) + 1 \in n + 1 .. Len(t)
      BY <1>1
    <3> QED
      BY <1>1, <1>3, <3>1, <3>2, <3>3 DEF Since
  <2>2. Len(s) + 1 \notin Since(s, n, a)
    BY <1>1 DEF Since
  <2>3. Cardinality(Since(s, n, a) \cup {Len(s) + 1}) = Cardinality(Since(s, n, a)) + 1
    BY <1>2, <2>2, FS_AddElement
  <2> QED
    BY <1>3, <2>1, <2>3 DEF Later, t
<1>4. CASE a # x
  <2>1. Since(t, n, a) = Since(s, n, a)
    <3>1. ASSUME NEW j \in n + 1 .. Len(t), t[j] = a PROVE j \in Since(s, n, a)
      BY <1>1, <1>4, <3>1 DEF Since
    <3>2. ASSUME NEW j \in Since(s, n, a) PROVE j \in n + 1 .. Len(t) /\ t[j] = a
      BY <1>1 DEF Since
    <3> QED
      BY <3>1, <3>2 DEF Since
  <2> QED
    BY <1>2, <1>4, <2>1 DEF Later, t
<1> QED
  BY <1>3, <1>4

(* When the n-th entry is the last one again, the entries from the n-th up *)
(* to the last but one are those after the n-th.                           *)
LEMMA LaterExchanged ==
    ASSUME NEW S, NEW s \in Seq(S), NEW n \in 1 .. Len(s), s[n] = s[Len(s)], NEW a
    PROVE  Times(SubSeq(Front(s), n, Len(s) - 1), a) = Later(s, n, a)
<1> DEFINE m == Len(s)
           t == SubSeq(Front(s), n, m - 1)
           from == {j \in n .. m - 1 : s[j] = a}
           both == {j \in n + 1 .. m - 1 : s[j] = a}
<1>1. m \in Nat /\ m >= 1 /\ n \in Nat /\ n >= 1 /\ n <= m
  OBVIOUS
<1>2. Len(t) = m - n /\ DOMAIN t = 1 .. m - n /\ \A j \in 1 .. m - n : t[j] = s[n + j - 1]
  <2>1. /\ Front(s) \in Seq(S) /\ Len(Front(s)) = m - 1
        /\ \A j \in 1 .. m - 1 : Front(s)[j] = s[j]
    <3>1. \A i \in 1 .. m - 1 : s[i] \in S
      BY <1>1
    <3>2. PICK l \in Nat : l = m - 1
      BY <1>1
    <3>3. /\ SubSeq(s, 1, l) \in Seq(S) /\ Len(SubSeq(s, 1, l)) = IF 1 <= l THEN l - 1 + 1 ELSE 0
          /\ \A i \in 1 .. l - 1 + 1 : SubSeq(s, 1, l)[i] = s[1 + i - 1]
      BY <3>1, <3>2, SubSeqProperties
    <3>4. SubSeq(s, 1, l) = Front(s)
      BY <3>2 DEF Front
    <3>5. Len(Front(s)) = l
      BY <3>3, <3>4
    <3>6. ASSUME NEW j \in 1 .. m - 1 PROVE Front(s)[j] = s[j]
      <4>1. j \in 1 .. l - 1 + 1 /\ 1 + j - 1 = j
        BY <3>2
      <4> QED
        BY <3>3, <3>4, <4>1
    <3> QED
      BY <3>2, <3>3, <3>4, <3>5, <3>6
  <2>2. PICK f \in Seq(S) : f = Front(s)
    BY <2>1
  <2>3. Len(SubSeq(f, n, m - 1)) = m - n /\ DOMAIN SubSeq(f, n, m - 1) = 1 .. m - n
        /\ \A j \in 1 .. m - n : SubSeq(f, n, m - 1)[j] = f[n + j - 1]
    BY <1>1, <2>1, <2>2
  <2> QED
    BY <1>1, <2>1, <2>2, <2>3
<1> HIDE DEF t, m
<1>3. from = {j + (n - 1) : j \in At(t, a)}
  <2>1. ASSUME NEW j \in from PROVE \E i \in At(t, a) : j = i + (n - 1)
    <3>1. j - (n - 1) \in 1 .. m - n /\ j = (j - (n - 1)) + (n - 1) /\ n + (j - (n - 1)) - 1 = j
      BY <1>1
    <3>2. t[j - (n - 1)] = s[j]
      BY <1>2, <3>1
    <3> QED
      BY <1>2, <3>1, <3>2 DEF At
  <2>2. ASSUME NEW i \in At(t, a) PROVE i + (n - 1) \in from
    <3>1. i \in 1 .. m - n /\ t[i] = a /\ t[i] = s[n + i - 1]
      BY <1>2 DEF At
    <3>2. i + (n - 1) = n + i - 1 /\ i + (n - 1) \in n .. m - 1
      BY <1>1, <3>1
    <3> QED
      BY <3>1, <3>2
  <2> QED
    BY <2>1, <2>2
<1>4. Cardinality(from) = Times(t, a)
  <2>1. At(t, a) \in SUBSET Int /\ IsFiniteSet(At(t, a)) /\ n - 1 \in Int
    <3>1. IsFiniteSet(1 .. m - n)
      BY <1>1, FS_Interval
    <3> QED
      BY <1>1, <1>2, <3>1, FS_Subset DEF At
  <2> QED
    BY <1>3, <2>1, Moved DEF Times
<1>5. IsFiniteSet(both) /\ n \notin both /\ m \notin both
  <2>1. IsFiniteSet(n + 1 .. m - 1)
    BY <1>1, FS_Interval
  <2>2. both \subseteq n + 1 .. m - 1
    OBVIOUS
  <2>3. n \notin n + 1 .. m - 1 /\ m \notin n + 1 .. m - 1
    BY <1>1
  <2> QED
    BY <2>1, <2>2, <2>3, FS_Subset
<1>6. Since(s, n, a) = {j \in n + 1 .. m : s[j] = a}
  BY DEF Since, m
<1>7. s[n] = s[m]
  BY DEF m
<1>8. CASE n = m
  <2>1. from = {} /\ Since(s, n, a) = {}
    BY <1>1, <1>6, <1>8
  <2> QED
    BY <1>4, <2>1 DEF Later, t, m
<1>9. CASE n # m /\ s[n] = a
  <2>1. from = both \cup {n} /\ Since(s, n, a) = both \cup {m}
    <3>1. n .. m - 1 = (n + 1 .. m - 1) \cup {n} /\ n + 1 .. m = (n + 1 .. m - 1) \cup {m}
      BY <1>1, <1>9
    <3> QED
      BY <1>6, <1>7, <1>9, <3>1
  <2>2. Cardinality(both \cup {n}) = Cardinality(both) + 1 /\ Cardinality(both \cup {m}) = Cardinality(both) + 1
    BY <1>5, FS_AddElement
  <2> QED
    BY <1>4, <2>1, <2>2 DEF Later, t, m
<1>10. CASE n # m /\ s[n] # a
  <2>1. from = both /\ Since(s, n, a) = both
    <3>1. n .. m - 1 = (n + 1 .. m - 1) \cup {n} /\ n + 1 .. m = (n + 1 .. m - 1) \cup {m}
      BY <1>1, <1>10
    <3> QED
      BY <1>6, <1>7, <1>10, <3>1
  <2> QED
    BY <1>4, <2>1 DEF Later, t, m
<1> QED
  BY <1>8, <1>9, <1>10

(* Since a state x was stored, when the schedules had n entries each, the  *)
(* actors have ended e firings and started s.  An actor bound to a tile    *)
(* has started as often as it came into the schedule of the tile.          *)
Elapsed(x, n, e, s) ==
    /\ e \in [Actors(g) -> Nat] /\ s \in [Actors(g) -> Nat]
    /\ \A k \in Channels(g) :
          ch[k] + g.ch[k].c * s[g.ch[k].dst] = x.ch[k] + g.ch[k].p * e[g.ch[k].src]
    /\ \A a \in Actors(g) : s[a] + Len(x.actClk[a]) = e[a] + Len(actClk[a])
    /\ \A a \in Actors(g) : IsBound(g, a) => s[a] = Later(sos[g.tile[a]].entries, n[g.tile[a]], a)
    /\ \A p \in Tiles(g) : n[p] <= Len(sos[p].entries) /\ (n[p] > 0 => x.sosPos[p] = n[p])

(* The output actor has ended the firings of the iterations since then.    *)
Outputs(i, e) ==
    \A a \in Actors(g) : IsOutputActor(a) => e[a] = (Len(stored) - i) * repVec[a] + repCnt + 1

Past(i) ==
    \E x, n, e, s : x = stored[i] /\ n = lenAt[i] /\ Elapsed(x, n, e, s) /\ Outputs(i, e)

Remembered ==
    /\ repVec = RepVec(g)
    /\ glbClk \in Nat /\ repCnt \in Nat
    /\ stored \in Seq(State(g))
    /\ lenAt \in Seq([Tiles(g) -> Nat]) /\ Len(lenAt) = Len(stored)
    /\ \A p \in Tiles(g) : sos[p].entries # <<>> => sosPos[p] = Len(sos[p].entries)

History ==
    /\ Remembered
    /\ \A i \in DOMAIN stored : Past(i)

HistoryInv == stage = "construct" => g = Constructed(app) /\ (phase # "done" => History)

LEMMA HistoryInit == Init => HistoryInv
<1> SUFFICES ASSUME Init PROVE g = Constructed(app) /\ History
  BY DEF HistoryInv
<1>1. Tiles(g) = Tiles(app) /\ app \in Apps /\ HoldsInitialTokens(app) /\ g = Constructed(app)
  BY ApplicationGraph DEF Init
<1>2. /\ repVec = RepVec(g) /\ glbClk = 0 /\ repCnt = 0 /\ stored = <<>> /\ lenAt = <<>>
      /\ sos = [p \in Tiles(g) |-> EmptySchedule]
  BY <1>1 DEF Init, NotStarted, NoSchedules, Tiles
<1>3. <<>> \in Seq(State(g)) /\ <<>> \in Seq([Tiles(g) -> Nat]) /\ ~\E i : i \in DOMAIN <<>>
  OBVIOUS
<1>4. \A p \in Tiles(g) : sos[p].entries = <<>>
  BY <1>2 DEF EmptySchedule
<1> QED
  BY <1>1, <1>2, <1>3, <1>4 DEF History, Remembered

(* One firing more                                                         *)
OneMoreOf(e, a) == [e EXCEPT ![a] = @ + 1]

LEMMA OneMoreFacts ==
    ASSUME NEW S, NEW e \in [S -> Nat], NEW a \in S
    PROVE  /\ OneMoreOf(e, a) \in [S -> Nat]
           /\ \A b \in S : OneMoreOf(e, a)[b] = IF b = a THEN e[b] + 1 ELSE e[b]
           /\ \A b \in S, c \in Nat : /\ c * OneMoreOf(e, a)[b] = c * e[b] + (IF b = a THEN c ELSE 0)
                                      /\ c * e[b] \in Nat
<1>1. \A b \in S : OneMoreOf(e, a)[b] = IF b = a THEN e[b] + 1 ELSE e[b]
  BY DEF OneMoreOf
<1>2. OneMoreOf(e, a) \in [S -> Nat]
  BY DEF OneMoreOf
<1>3. ASSUME NEW b \in S, NEW c \in Nat
      PROVE  c * OneMoreOf(e, a)[b] = c * e[b] + (IF b = a THEN c ELSE 0) /\ c * e[b] \in Nat
  <2>1. PICK m \in Nat : m = e[b]
    OBVIOUS
  <2>2. c * (m + 1) = c * m + c /\ c * m \in Nat
    BY OneMore, ProductType
  <2>3. CASE b = a
    BY <1>1, <2>1, <2>2, <2>3
  <2>4. CASE b # a
    BY <1>1, <2>1, <2>2, <2>4
  <2> QED
    BY <2>3, <2>4
<1> QED
  BY <1>1, <1>2, <1>3

LEMMA ElapsedStart ==
    ASSUME Shape, ConstructOrder, NEW a \in Actors(g), ListStarts(a),
           NEW x \in State(g), NEW n \in [Tiles(g) -> Nat], NEW e, NEW s, Elapsed(x, n, e, s)
    PROVE  Elapsed(x, n, e, OneMoreOf(s, a))'
<1> DEFINE s1 == OneMoreOf(s, a)
<1>1. /\ g' = g /\ Ready(g, ch, a) /\ ch' = Consume(g, ch, a)
      /\ actClk' = [actClk EXCEPT ![a] = Append(@, completionTime(g, tdmaPos, a))]
  BY DEF ListStarts, ListReady
<1>2. /\ IsBoundGraph(g) /\ ch \in [Channels(g) -> Nat] /\ actClk \in [Actors(g) -> Seq(Nat)]
      /\ e \in [Actors(g) -> Nat] /\ s \in [Actors(g) -> Nat]
  BY DEF Shape, Elapsed
<1>3. /\ s1 \in [Actors(g) -> Nat]
      /\ \A b \in Actors(g) : s1[b] = IF b = a THEN s[b] + 1 ELSE s[b]
      /\ \A b \in Actors(g), c \in Nat : /\ c * s1[b] = c * s[b] + (IF b = a THEN c ELSE 0)
                                         /\ c * s[b] \in Nat
  BY <1>2, OneMoreFacts
<1> HIDE DEF s1
<1>4. ASSUME NEW k \in Channels(g)
      PROVE  ch'[k] + g.ch[k].c * s1[g.ch[k].dst] = x.ch[k] + g.ch[k].p * e[g.ch[k].src]
  <2>1. /\ g.ch[k].dst \in Actors(g) /\ g.ch[k].src \in Actors(g) /\ g.ch[k].c \in Nat /\ g.ch[k].p \in Nat
        /\ ch[k] \in Nat
    BY <1>2, ChannelType DEF IsBoundGraph, Positive
  <2>2. ch'[k] = IF g.ch[k].dst = a THEN ch[k] - g.ch[k].c ELSE ch[k]
    BY <1>1 DEF Consume
  <2>3. ch[k] + g.ch[k].c * s[g.ch[k].dst] = x.ch[k] + g.ch[k].p * e[g.ch[k].src]
    BY DEF Elapsed
  <2>4. /\ g.ch[k].c * s1[g.ch[k].dst] = g.ch[k].c * s[g.ch[k].dst] + (IF g.ch[k].dst = a THEN g.ch[k].c ELSE 0)
        /\ g.ch[k].c * s[g.ch[k].dst] \in Nat
    BY <1>3, <2>1
  <2>5. ch'[k] + g.ch[k].c * s1[g.ch[k].dst] = ch[k] + g.ch[k].c * s[g.ch[k].dst]
    BY <2>1, <2>2, <2>4
  <2> QED
    BY <2>3, <2>5
<1>5. ASSUME NEW b \in Actors(g)
      PROVE  s1[b] + Len(x.actClk[b]) = e[b] + Len(actClk'[b])
  <2>1. /\ s[b] + Len(x.actClk[b]) = e[b] + Len(actClk[b]) /\ s[b] \in Nat /\ e[b] \in Nat
        /\ Len(x.actClk[b]) \in Nat /\ Len(actClk[b]) \in Nat
    BY <1>2 DEF Elapsed, State
  <2>2. Len(actClk'[b]) = IF b = a THEN Len(actClk[b]) + 1 ELSE Len(actClk[b])
    <3>1. actClk'[b] = IF b = a THEN Append(actClk[b], completionTime(g, tdmaPos, a)) ELSE actClk[b]
      BY <1>1, <1>2
    <3>2. PICK c \in Nat : c = completionTime(g, tdmaPos, a)
      BY <1>2, CompletionType DEF Shape
    <3>3. actClk[b] \in Seq(Nat) /\ Len(Append(actClk[b], c)) = Len(actClk[b]) + 1
      BY <1>2
    <3> QED
      BY <3>1, <3>2, <3>3
  <2>3. CASE b = a
    <3>1. s1[b] = s[b] + 1 /\ Len(actClk'[b]) = Len(actClk[b]) + 1
      BY <1>3, <2>2, <2>3
    <3>2. PICK i \in Nat, j \in Nat, u \in Nat, v \in Nat :
             i = s[b] /\ j = e[b] /\ u = Len(x.actClk[b]) /\ v = Len(actClk[b])
      BY <2>1
    <3>3. i + u = j + v /\ s1[b] = i + 1 /\ Len(actClk'[b]) = v + 1
      BY <2>1, <3>1, <3>2
    <3>4. (i + 1) + u = j + (v + 1)
      BY <3>3
    <3> QED
      BY <3>2, <3>3, <3>4
  <2>4. CASE b # a
    <3>1. s1[b] = s[b] /\ Len(actClk'[b]) = Len(actClk[b])
      BY <1>3, <2>2, <2>4
    <3> QED
      BY <2>1, <3>1
  <2> QED
    BY <2>3, <2>4
<1>6. ASSUME NEW p \in Tiles(g)
      PROVE  /\ sos[p].entries \in Seq(Actors(g))
             /\ sos'[p].entries = IF IsBound(g, a) /\ p = g.tile[a] THEN Append(sos[p].entries, a)
                                  ELSE sos[p].entries
  <2>1. sos \in [Tiles(g) -> Schedule(Actors(g))] /\ sos[p].entries \in Seq(Actors(g))
    BY DEF ConstructOrder, Schedule
  <2>2. CASE ~IsBound(g, a)
    BY <2>1, <2>2 DEF ListStarts
  <2>3. CASE IsBound(g, a)
    <3>1. sos' = [sos EXCEPT ![g.tile[a]].entries = Append(@, a)]
      BY <2>3 DEF ListStarts
    <3>2. CASE p = g.tile[a]
      <4>1. PICK u : u = Append(sos[p].entries, a)
        OBVIOUS
      <4>2. sos' = [sos EXCEPT ![p].entries = u]
        BY <3>1, <3>2, <4>1
      <4>3. sos'[p].entries = u
        BY <2>1, <4>2 DEF Schedule
      <4> QED
        BY <2>1, <2>3, <3>2, <4>1, <4>3
    <3>3. CASE p # g.tile[a]
      BY <2>1, <3>1, <3>3
    <3> QED
      BY <3>2, <3>3
  <2> QED
    BY <2>2, <2>3
<1>7. ASSUME NEW b \in Actors(g), IsBound(g, b)
      PROVE  s1[b] = Later(sos'[g.tile[b]].entries, n[g.tile[b]], b)
  <2>1. PICK p \in Tiles(g) : p = g.tile[b]
    BY <1>2, <1>7, TileFacts
  <2>2. s[b] = Later(sos[p].entries, n[p], b) /\ n[p] <= Len(sos[p].entries) /\ n[p] \in Nat
    BY <1>7, <2>1 DEF Elapsed
  <2>3. CASE IsBound(g, a) /\ p = g.tile[a]
    <3>1. Later(Append(sos[p].entries, a), n[p], b) = Later(sos[p].entries, n[p], b) + (IF b = a THEN 1 ELSE 0)
      BY <1>6, <2>2, LaterAppend
    <3>2. Later(sos'[p].entries, n[p], b) = s[b] + (IF b = a THEN 1 ELSE 0)
      BY <1>6, <2>2, <2>3, <3>1
    <3>3. s1[b] = s[b] + (IF b = a THEN 1 ELSE 0)
      <4>1. s[b] \in Nat /\ (b = a => s1[b] = s[b] + 1) /\ (b # a => s1[b] = s[b])
        BY <1>2, <1>3
      <4>2. CASE b = a
        BY <4>1, <4>2
      <4>3. CASE b # a
        BY <4>1, <4>3
      <4> QED
        BY <4>2, <4>3
    <3> QED
      BY <2>1, <3>2, <3>3, Zenon
  <2>4. CASE ~(IsBound(g, a) /\ p = g.tile[a])
    <3>1. b # a
      BY <1>7, <2>1, <2>4
    <3> QED
      BY <1>3, <1>6, <2>1, <2>2, <2>4, <3>1
  <2> QED
    BY <2>3, <2>4
<1>8. ASSUME NEW p \in Tiles(g)
      PROVE  n[p] <= Len(sos'[p].entries) /\ (n[p] > 0 => x.sosPos[p] = n[p])
  <2>1. n[p] <= Len(sos[p].entries) /\ (n[p] > 0 => x.sosPos[p] = n[p]) /\ n[p] \in Nat
    BY DEF Elapsed
  <2>2. Len(sos[p].entries) \in Nat /\ Len(Append(sos[p].entries, a)) = Len(sos[p].entries) + 1
    BY <1>6
  <2>3. Len(sos'[p].entries) \in {Len(sos[p].entries), Len(sos[p].entries) + 1}
    BY <1>6, <2>2, Zenon
  <2> QED
    BY <2>1, <2>2, <2>3
<1>9. Elapsed(x, n, e, s1)'
  BY <1>1, <1>2, <1>3, <1>4, <1>5, <1>7, <1>8, Zenon DEF Elapsed
<1> QED
  BY <1>9 DEF s1

LEMMA ElapsedEnd ==
    ASSUME Shape, NEW a \in Actors(g), Ends(a), g' = g, sos' = sos,
           NEW x \in State(g), NEW n \in [Tiles(g) -> Nat], NEW e, NEW s, Elapsed(x, n, e, s)
    PROVE  Elapsed(x, n, OneMoreOf(e, a), s)'
<1> DEFINE e1 == OneMoreOf(e, a)
<1>1. /\ ch' = Produce(g, ch, a)
      /\ actClk' = [actClk EXCEPT ![a] = Tail(@)] /\ actClk[a] # <<>>
  BY DEF Ends, FirstToEnd, ReadyToEnd
<1>2. /\ IsBoundGraph(g) /\ ch \in [Channels(g) -> Nat] /\ actClk \in [Actors(g) -> Seq(Nat)]
      /\ e \in [Actors(g) -> Nat] /\ s \in [Actors(g) -> Nat]
  BY DEF Shape, Elapsed
<1>3. /\ e1 \in [Actors(g) -> Nat]
      /\ \A b \in Actors(g) : e1[b] = IF b = a THEN e[b] + 1 ELSE e[b]
      /\ \A b \in Actors(g), c \in Nat : /\ c * e1[b] = c * e[b] + (IF b = a THEN c ELSE 0)
                                         /\ c * e[b] \in Nat
  BY <1>2, OneMoreFacts
<1> HIDE DEF e1
<1>4. ASSUME NEW k \in Channels(g)
      PROVE  ch'[k] + g.ch[k].c * s[g.ch[k].dst] = x.ch[k] + g.ch[k].p * e1[g.ch[k].src]
  <2>1. /\ g.ch[k].dst \in Actors(g) /\ g.ch[k].src \in Actors(g) /\ g.ch[k].c \in Nat /\ g.ch[k].p \in Nat
        /\ ch[k] \in Nat /\ x.ch[k] \in Nat
    BY <1>2, ChannelType DEF IsBoundGraph, Positive, State
  <2>2. ch'[k] = IF g.ch[k].src = a THEN ch[k] + g.ch[k].p ELSE ch[k]
    BY <1>1 DEF Produce
  <2>3. ch[k] + g.ch[k].c * s[g.ch[k].dst] = x.ch[k] + g.ch[k].p * e[g.ch[k].src]
    BY DEF Elapsed
  <2>4. /\ g.ch[k].p * e1[g.ch[k].src] = g.ch[k].p * e[g.ch[k].src] + (IF g.ch[k].src = a THEN g.ch[k].p ELSE 0)
        /\ g.ch[k].p * e[g.ch[k].src] \in Nat
    BY <1>3, <2>1
  <2>5. g.ch[k].c * s[g.ch[k].dst] \in Nat
    BY <1>2, <2>1, ProductType
  <2>6. PICK u \in Nat, v \in Nat, w \in Nat, y \in Nat, z \in Nat :
           u = ch[k] /\ v = g.ch[k].c * s[g.ch[k].dst] /\ w = x.ch[k] /\ y = g.ch[k].p * e[g.ch[k].src]
           /\ z = g.ch[k].p
    BY <2>1, <2>4, <2>5
  <2>7. u + v = w + y
    BY <2>3, <2>6
  <2>8. CASE g.ch[k].src = a
    <3>1. ch'[k] = u + z /\ g.ch[k].p * e1[g.ch[k].src] = y + z
      BY <2>2, <2>4, <2>6, <2>8
    <3>2. (u + z) + v = w + (y + z)
      BY <2>7
    <3> QED
      BY <2>6, <3>1, <3>2
  <2>9. CASE g.ch[k].src # a
    <3>1. ch'[k] = u /\ g.ch[k].p * e1[g.ch[k].src] = y
      BY <2>2, <2>4, <2>6, <2>9
    <3> QED
      BY <2>6, <2>7, <3>1
  <2> QED
    BY <2>8, <2>9
<1>5. ASSUME NEW b \in Actors(g)
      PROVE  s[b] + Len(x.actClk[b]) = e1[b] + Len(actClk'[b])
  <2>1. /\ s[b] + Len(x.actClk[b]) = e[b] + Len(actClk[b]) /\ s[b] \in Nat /\ e[b] \in Nat
        /\ Len(x.actClk[b]) \in Nat /\ Len(actClk[b]) \in Nat
    BY <1>2 DEF Elapsed, State
  <2>2. CASE b = a
    <3>1. actClk[a] \in Seq(Nat) /\ actClk'[a] = Tail(actClk[a])
      BY <1>1, <1>2
    <3>2. Len(Tail(actClk[a])) = Len(actClk[a]) - 1
      BY <1>1, <3>1, TailLength
    <3>3. e1[b] = e[b] + 1 /\ Len(actClk'[b]) = Len(actClk[b]) - 1
      BY <1>3, <2>2, <3>1, <3>2
    <3>4. PICK j \in Nat, v \in Nat : j = e[b] /\ v = Len(actClk[b])
      BY <2>1
    <3>5. e1[b] = j + 1 /\ Len(actClk'[b]) = v - 1 /\ s[b] + Len(x.actClk[b]) = j + v
      BY <2>1, <3>3, <3>4
    <3>6. (j + 1) + (v - 1) = j + v
      OBVIOUS
    <3> QED
      BY <3>5, <3>6
  <2>3. CASE b # a
    <3>1. e1[b] = e[b] /\ actClk'[b] = actClk[b]
      BY <1>1, <1>2, <1>3, <2>3
    <3> QED
      BY <2>1, <3>1
  <2> QED
    BY <2>2, <2>3
<1>6. /\ \A b \in Actors(g) : IsBound(g, b) => s[b] = Later(sos[g.tile[b]].entries, n[g.tile[b]], b)
      /\ \A p \in Tiles(g) : n[p] <= Len(sos[p].entries) /\ (n[p] > 0 => x.sosPos[p] = n[p])
  BY DEF Elapsed
<1>7. Elapsed(x, n, e1, s)'
  BY <1>2, <1>3, <1>4, <1>5, <1>6, Zenon DEF Elapsed
<1> QED
  BY <1>7 DEF e1

(* Nothing has happened since now.                                         *)
LEMMA ElapsedNow ==
    ASSUME Shape, ConstructOrder, Remembered, NEW x, x = Current, NEW n,
           n = [p \in Tiles(g) |-> Len(sos[p].entries)], NEW e, e = [a \in Actors(g) |-> 0]
    PROVE  x \in State(g) /\ n \in [Tiles(g) -> Nat] /\ Elapsed(x, n, e, e)
<1>1. \A p \in Tiles(g) : sos[p].entries \in Seq(Actors(g)) /\ Len(sos[p].entries) \in Nat
  BY DEF ConstructOrder, Schedule
<1>2. x \in State(g)
  BY DEF Current, State, Shape, ConstructOrder, Remembered
<1>3. n \in [Tiles(g) -> Nat]
  BY <1>1
<1>4. e \in [Actors(g) -> Nat] /\ \A a \in Actors(g) : e[a] = 0
  OBVIOUS
<1>5. x.ch = ch /\ x.actClk = actClk /\ x.sosPos = sosPos
  BY DEF Current
<1>6. ASSUME NEW k \in Channels(g)
      PROVE  ch[k] + g.ch[k].c * e[g.ch[k].dst] = x.ch[k] + g.ch[k].p * e[g.ch[k].src]
  <2>1. /\ g.ch[k].dst \in Actors(g) /\ g.ch[k].src \in Actors(g) /\ g.ch[k].c \in Nat /\ g.ch[k].p \in Nat
    BY ChannelType DEF Shape, IsBoundGraph, Positive
  <2>2. g.ch[k].c * 0 = 0 /\ g.ch[k].p * 0 = 0
    BY <2>1
  <2>3. e[g.ch[k].dst] = 0 /\ e[g.ch[k].src] = 0
    BY <1>4, <2>1
  <2> QED
    BY <1>5, <2>2, <2>3
<1>7. ASSUME NEW a \in Actors(g), IsBound(g, a)
      PROVE  e[a] = Later(sos[g.tile[a]].entries, n[g.tile[a]], a)
  <2>1. g.tile[a] \in Tiles(g)
    BY <1>7, TileFacts DEF Shape
  <2> QED
    BY <1>1, <1>4, <2>1, LaterNone
<1>8. ASSUME NEW p \in Tiles(g)
      PROVE  n[p] <= Len(sos[p].entries) /\ (n[p] > 0 => x.sosPos[p] = n[p])
  <2>1. n[p] = Len(sos[p].entries) /\ n[p] \in Nat
    BY <1>1
  <2>2. n[p] > 0 => sos[p].entries # <<>>
    BY <1>1, <2>1
  <2> QED
    BY <1>5, <2>1, <2>2 DEF Remembered
<1> QED
  BY <1>2, <1>3, <1>4, <1>5, <1>6, <1>7, <1>8 DEF Elapsed

LEMMA ElapsedClock ==
    ASSUME Shape, clockStep, g' = g, ch' = ch, sos' = sos, NEW x, NEW n, NEW e, NEW s, Elapsed(x, n, e, s)
    PROVE  Elapsed(x, n, e, s)'
<1>1. \A a \in Actors(g) : Len(actClk'[a]) = Len(actClk[a])
  BY ShapeClock
<1> QED
  BY <1>1 DEF Elapsed

-----------------------------------------------------------------------------
(* The firings of the output actor                                         *)
RepVecTyped == IsBoundGraph(g) /\ repVec \in [Actors(g) -> Positive]

LEMMA OneOutputActor ==
    ASSUME RepVecTyped, NEW a \in Actors(g), NEW b \in Actors(g), IsOutputActor(a), IsOutputActor(b)
    PROVE  a = b
<1>1. a \in Nat /\ b \in Nat /\ repVec[a] \in Nat /\ repVec[b] \in Nat
  BY BoundParts DEF RepVecTyped, Positive
<1>2. /\ repVec[a] < repVec[b] \/ (repVec[a] = repVec[b] /\ a <= b)
      /\ repVec[b] < repVec[a] \/ (repVec[b] = repVec[a] /\ b <= a)
  BY DEF IsOutputActor
<1> QED
  BY <1>1, <1>2

LEMMA OutputsCount ==
    ASSUME RepVecTyped, NEW a \in Actors(g), CountFiring(a), g' = g, repVec' = repVec, repCnt \in Nat,
           Len(stored) \in Nat, NEW i \in 1 .. Len(stored), NEW e \in [Actors(g) -> Nat], Outputs(i, e)
    PROVE  Outputs(i, OneMoreOf(e, a))'
<1>1. /\ stored' = stored /\ repCnt' = IF IsOutputActor(a) THEN repCnt + 1 ELSE repCnt
      /\ \A b : IsOutputActor(b)' <=> IsOutputActor(b)
  BY DEF CountFiring, IsOutputActor
<1>2. ASSUME NEW b \in Actors(g), IsOutputActor(b)
      PROVE  OneMoreOf(e, a)[b] = (Len(stored) - i) * repVec[b] + repCnt' + 1
  <2>1. PICK m \in Nat : m = (Len(stored) - i) * repVec[b]
    <3>1. Len(stored) - i \in Nat /\ repVec[b] \in Nat
      BY DEF RepVecTyped, Positive
    <3> QED
      BY <3>1, ProductType
  <2>2. e[b] = m + repCnt + 1
    BY <1>2, <2>1 DEF Outputs
  <2>3. OneMoreOf(e, a)[b] = IF b = a THEN e[b] + 1 ELSE e[b]
    BY DEF OneMoreOf
  <2>4. CASE IsOutputActor(a)
    <3>1. a = b
      BY <1>2, <2>4, OneOutputActor
    <3>2. OneMoreOf(e, a)[b] = m + repCnt + 1 + 1 /\ repCnt' = repCnt + 1
      BY <1>1, <2>2, <2>3, <2>4, <3>1
    <3> QED
      BY <2>1, <3>2
  <2>5. CASE ~IsOutputActor(a)
    <3>1. a # b
      BY <1>2, <2>5
    <3> QED
      BY <1>1, <2>1, <2>2, <2>3, <2>5, <3>1
  <2> QED
    BY <2>4, <2>5
<1> QED
  BY <1>1, <1>2 DEF Outputs

LEMMA OutputsStore ==
    ASSUME RepVecTyped, NEW a \in Actors(g), StoreState(a), g' = g, repVec' = repVec, repCnt \in Nat,
           Len(stored) \in Nat, Len(stored') = Len(stored) + 1,
           NEW i \in 1 .. Len(stored), NEW e \in [Actors(g) -> Nat], Outputs(i, e)
    PROVE  Outputs(i, OneMoreOf(e, a))'
<1>1. /\ IsOutputActor(a) /\ repCnt + 1 = repVec[a] /\ repCnt' = 0
      /\ \A b : IsOutputActor(b)' <=> IsOutputActor(b)
  BY DEF StoreState, CompletesIteration, IsOutputActor
<1>2. ASSUME NEW b \in Actors(g), IsOutputActor(b)
      PROVE  OneMoreOf(e, a)[b] = (Len(stored') - i) * repVec[b] + repCnt' + 1
  <2>1. a = b
    BY <1>1, <1>2, OneOutputActor
  <2>2. PICK m \in Nat, r \in Nat : m = Len(stored) - i /\ r = repVec[a]
    <3>1. Len(stored) - i \in Nat /\ repVec[a] \in Nat
      BY DEF RepVecTyped, Positive
    <3> QED
      BY <3>1
  <2>3. e[a] = m * r + repCnt + 1
    BY <1>1, <2>2 DEF Outputs
  <2>4. OneMoreOf(e, a)[b] = e[a] + 1
    BY <2>1, OneMoreFacts
  <2>5. Len(stored') - i = m + 1
    BY <2>2
  <2>6. (m + 1) * r = m * r + r /\ m * r \in Nat
    <3>1. (m + 1) * r = r * (m + 1) /\ m * r = r * m
      BY <2>2
    <3>2. r * (m + 1) = r * m + r /\ r * m \in Nat
      BY <2>2, OneMore, ProductType
    <3> QED
      BY <3>1, <3>2
  <2>7. m * r + repCnt + 1 + 1 = (m + 1) * r + 0 + 1
    BY <1>1, <2>2, <2>6
  <2> QED
    BY <1>1, <2>1, <2>2, <2>3, <2>4, <2>5, <2>7
<1> QED
  BY <1>1, <1>2 DEF Outputs

LEMMA OutputsFirst ==
    ASSUME RepVecTyped, NEW a \in Actors(g), StoreState(a), g' = g, repVec' = repVec,
           NEW i \in Nat, Len(stored') = i, NEW e, e = [b \in Actors(g) |-> 0]
    PROVE  Outputs(i, OneMoreOf(e, a))'
<1>1. /\ IsOutputActor(a) /\ repCnt' = 0 /\ \A b : IsOutputActor(b)' <=> IsOutputActor(b)
  BY DEF StoreState, CompletesIteration, IsOutputActor
<1>2. ASSUME NEW b \in Actors(g), IsOutputActor(b)
      PROVE  OneMoreOf(e, a)[b] = (Len(stored') - i) * repVec[b] + repCnt' + 1
  <2>1. a = b
    BY <1>1, <1>2, OneOutputActor
  <2>2. OneMoreOf(e, a)[b] = 1
    <3>1. e \in [Actors(g) -> Nat] /\ e[b] = 0
      OBVIOUS
    <3> QED
      BY <2>1, <3>1, OneMoreFacts
  <2>3. Len(stored') - i = 0 /\ repVec[b] \in Nat
    BY DEF RepVecTyped, Positive
  <2>4. 0 * repVec[b] = 0
    BY <2>3
  <2> QED
    BY <1>1, <2>2, <2>3, <2>4
<1> QED
  BY <1>1, <1>2 DEF Outputs

LEMMA Remaining ==
    ASSUME RepVecTyped, History, Shape, ConstructOrder, g' = g, repVec' = repVec,
           glbClk' \in Nat, repCnt' \in Nat, stored' = stored, lenAt' = lenAt,
           \A p \in Tiles(g) : sos'[p].entries # <<>> => sosPos'[p] = Len(sos'[p].entries),
           \A i \in DOMAIN stored, x \in State(g), n \in [Tiles(g) -> Nat] : \A e, s :
              x = stored[i] /\ n = lenAt[i] /\ Elapsed(x, n, e, s) /\ Outputs(i, e) =>
                 \E e1, s1 : Elapsed(x, n, e1, s1)' /\ Outputs(i, e1)'
    PROVE  History'
<1>1. Remembered'
  BY DEF History, Remembered
<1>2. ASSUME NEW i \in DOMAIN stored PROVE Past(i)'
  <2>1. PICK x, n, e, s : x = stored[i] /\ n = lenAt[i] /\ Elapsed(x, n, e, s) /\ Outputs(i, e)
    BY DEF History, Past
  <2>2. x \in State(g) /\ n \in [Tiles(g) -> Nat]
    <3>1. stored \in Seq(State(g)) /\ lenAt \in Seq([Tiles(g) -> Nat]) /\ Len(lenAt) = Len(stored)
      BY DEF History, Remembered
    <3> QED
      BY <2>1, <3>1
  <2>3. PICK e1, s1 : Elapsed(x, n, e1, s1)' /\ Outputs(i, e1)'
    BY <2>1, <2>2
  <2> QED
    BY <2>1, <2>3 DEF Past
<1> QED
  BY <1>1, <1>2 DEF History

LEMMA Kept ==
    ASSUME g' = g, repVec' = repVec, repCnt' = repCnt, stored' = stored, NEW i, NEW e, Outputs(i, e)
    PROVE  Outputs(i, e)'
BY DEF Outputs, IsOutputActor

LEMMA HistoryStart ==
    ASSUME RepVecTyped, History, Shape, ConstructOrder, NEW a \in Actors(g), ListStarts(a), ConstructOrder'
    PROVE  History'
<1>1. /\ g' = g /\ repVec' = repVec /\ glbClk' = glbClk /\ repCnt' = repCnt /\ stored' = stored /\ lenAt' = lenAt
  BY DEF ListStarts
<1>2. glbClk \in Nat /\ repCnt \in Nat
  BY DEF History, Remembered
<1>3. ASSUME NEW p \in Tiles(g), sos'[p].entries # <<>> PROVE sosPos'[p] = Len(sos'[p].entries)
  <2>1. sos[p].entries # <<>> => sosPos[p] = Len(sos[p].entries)
    BY DEF History, Remembered
  <2>2. CASE ~IsBound(g, a)
    BY <1>3, <2>1, <2>2 DEF ListStarts
  <2>3. CASE IsBound(g, a)
    <3>1. /\ sos' = [sos EXCEPT ![g.tile[a]].entries = Append(@, a)]
          /\ sosPos' = [sosPos EXCEPT ![g.tile[a]] = Len(sos[g.tile[a]].entries) + 1]
      BY <2>3 DEF ListStarts
    <3>2. CASE p = g.tile[a]
      <4>1. PICK u : u = Append(sos[p].entries, a)
        OBVIOUS
      <4>2. sos' = [sos EXCEPT ![p].entries = u]
        BY <3>1, <3>2, <4>1
      <4>3. sos \in [Tiles(g) -> Schedule(Actors(g))] /\ sosPos \in [Tiles(g) -> Nat]
        BY DEF ConstructOrder
      <4>4. sos[p].entries \in Seq(Actors(g))
        BY <4>3 DEF Schedule
      <4>5. sos'[p].entries = u
        BY <4>2, <4>3 DEF Schedule
      <4>6. Len(u) = Len(sos[p].entries) + 1
        BY <4>1, <4>4
      <4> QED
        BY <3>1, <3>2, <4>3, <4>5, <4>6
    <3>3. CASE p # g.tile[a]
      <4>1. sos'[p] = sos[p] /\ sosPos'[p] = sosPos[p]
        BY <3>1, <3>3 DEF ConstructOrder
      <4> QED
        BY <1>3, <2>1, <4>1
    <3> QED
      BY <3>2, <3>3
  <2> QED
    BY <2>2, <2>3
<1>4. ASSUME NEW i \in DOMAIN stored, NEW x \in State(g), NEW n \in [Tiles(g) -> Nat], NEW e, NEW s,
             x = stored[i] /\ n = lenAt[i] /\ Elapsed(x, n, e, s) /\ Outputs(i, e)
      PROVE  \E e1, s1 : Elapsed(x, n, e1, s1)' /\ Outputs(i, e1)'
  <2>1. Elapsed(x, n, e, OneMoreOf(s, a))'
    BY <1>4, ElapsedStart
  <2>2. Outputs(i, e)'
    BY <1>1, <1>4, Kept
  <2> QED
    BY <2>1, <2>2
<1> QED
  BY <1>1, <1>2, <1>3, <1>4, Remaining

LEMMA HistoryCount ==
    ASSUME RepVecTyped, History, Shape, ConstructOrder, NEW a \in Actors(g), ListCounts(a)
    PROVE  History'
<1>1. /\ g' = g /\ repVec' = repVec /\ glbClk' = glbClk /\ stored' = stored /\ lenAt' = lenAt
      /\ sos' = sos /\ sosPos' = sosPos /\ Ends(a) /\ CountFiring(a)
  BY DEF ListCounts, ListEnds, CountFiring
<1>2. glbClk \in Nat /\ repCnt \in Nat /\ Len(stored) \in Nat /\ DOMAIN stored = 1 .. Len(stored)
  BY DEF History, Remembered
<1>3. repCnt' \in Nat
  BY <1>1, <1>2 DEF CountFiring
<1>4. ASSUME NEW i \in DOMAIN stored, NEW x \in State(g), NEW n \in [Tiles(g) -> Nat], NEW e, NEW s,
             x = stored[i] /\ n = lenAt[i] /\ Elapsed(x, n, e, s) /\ Outputs(i, e)
      PROVE  \E e1, s1 : Elapsed(x, n, e1, s1)' /\ Outputs(i, e1)'
  <2>1. Elapsed(x, n, OneMoreOf(e, a), s)'
    BY <1>1, <1>4, ElapsedEnd
  <2>2. e \in [Actors(g) -> Nat] /\ i \in 1 .. Len(stored)
    BY <1>2, <1>4 DEF Elapsed
  <2>3. Outputs(i, OneMoreOf(e, a))'
    BY <1>1, <1>2, <1>4, <2>2, OutputsCount
  <2> QED
    BY <2>1, <2>3
<1>5. \A p \in Tiles(g) : sos'[p].entries # <<>> => sosPos'[p] = Len(sos'[p].entries)
  BY <1>1 DEF History, Remembered
<1> QED
  BY <1>1, <1>2, <1>3, <1>4, <1>5, Remaining

LEMMA HistoryClock ==
    ASSUME RepVecTyped, History, Shape, ConstructOrder, ListClock
    PROVE  History'
<1>1. /\ g' = g /\ repVec' = repVec /\ repCnt' = repCnt /\ stored' = stored /\ lenAt' = lenAt
      /\ sos' = sos /\ sosPos' = sosPos /\ ch' = ch /\ clockStep
  BY DEF ListClock
<1>2. glbClk \in Nat /\ repCnt \in Nat
  BY DEF History, Remembered
<1>3. glbClk' \in Nat
  <2>1. PICK first \in Active : glbClk' = glbClk + Head(actClk[first])
    BY <1>1 DEF clockStep
  <2>2. actClk[first] \in Seq(Nat) /\ actClk[first] # <<>>
    BY DEF Active, Shape
  <2>3. Head(actClk[first]) \in Nat
    BY <2>2
  <2> QED
    BY <1>2, <2>1, <2>3
<1>4. ASSUME NEW i \in DOMAIN stored, NEW x \in State(g), NEW n \in [Tiles(g) -> Nat], NEW e, NEW s,
             x = stored[i] /\ n = lenAt[i] /\ Elapsed(x, n, e, s) /\ Outputs(i, e)
      PROVE  \E e1, s1 : Elapsed(x, n, e1, s1)' /\ Outputs(i, e1)'
  <2>1. Elapsed(x, n, e, s)'
    BY <1>1, <1>4, ElapsedClock
  <2>2. Outputs(i, e)'
    BY <1>1, <1>4, Kept
  <2> QED
    BY <2>1, <2>2
<1>5. \A p \in Tiles(g) : sos'[p].entries # <<>> => sosPos'[p] = Len(sos'[p].entries)
  BY <1>1 DEF History, Remembered
<1> QED
  BY <1>1, <1>2, <1>3, <1>4, <1>5, Remaining

LEMMA HistoryStore ==
    ASSUME RepVecTyped, History, Shape, ConstructOrder, NEW a \in Actors(g), ListStores(a)
    PROVE  History'
<1>1. /\ g' = g /\ repVec' = repVec /\ glbClk' = 0 /\ repCnt' = 0 /\ StoreState(a)
      /\ sos' = sos /\ sosPos' = sosPos /\ Ends(a)
      /\ stored' = Append(stored, Current)
      /\ lenAt' = Append(lenAt, [p \in Tiles(g) |-> Len(sos[p].entries)])
  BY DEF ListStores, ListEnds, StoreState
<1>2. PICK z, l, o : /\ z = Current /\ l = [p \in Tiles(g) |-> Len(sos[p].entries)]
                     /\ o = [b \in Actors(g) |-> 0]
  OBVIOUS
<1>3. z \in State(g) /\ l \in [Tiles(g) -> Nat] /\ Elapsed(z, l, o, o)
  BY <1>2, ElapsedNow DEF History
<1>4. /\ stored \in Seq(State(g)) /\ lenAt \in Seq([Tiles(g) -> Nat]) /\ Len(lenAt) = Len(stored)
      /\ repCnt \in Nat
  BY DEF History, Remembered
<1>5. /\ stored' \in Seq(State(g)) /\ Len(stored') = Len(stored) + 1 /\ stored'[Len(stored) + 1] = z
      /\ \A i \in 1 .. Len(stored) : stored'[i] = stored[i]
  BY <1>1, <1>2, <1>3, <1>4
<1>6. /\ lenAt' \in Seq([Tiles(g) -> Nat]) /\ Len(lenAt') = Len(stored) + 1 /\ lenAt'[Len(stored) + 1] = l
      /\ \A i \in 1 .. Len(stored) : lenAt'[i] = lenAt[i]
  BY <1>1, <1>2, <1>3, <1>4
<1>7. Len(stored) \in Nat /\ DOMAIN stored = 1 .. Len(stored) /\ DOMAIN stored' = 1 .. Len(stored) + 1
  BY <1>4, <1>5
<1>8. Remembered'
  <2>1. \A p \in Tiles(g) : sos'[p].entries # <<>> => sosPos'[p] = Len(sos'[p].entries)
    BY <1>1 DEF History, Remembered
  <2>2. repVec' = RepVec(g')
    BY <1>1 DEF History, Remembered
  <2> QED
    BY <1>1, <1>5, <1>6, <2>1, <2>2 DEF Remembered, State
<1>9. ASSUME NEW i \in 1 .. Len(stored) PROVE Past(i)'
  <2>1. PICK x, n, e, s : x = stored[i] /\ n = lenAt[i] /\ Elapsed(x, n, e, s) /\ Outputs(i, e)
    BY <1>7 DEF History, Past
  <2>2. x \in State(g) /\ n \in [Tiles(g) -> Nat] /\ e \in [Actors(g) -> Nat]
    BY <1>4, <2>1 DEF Elapsed
  <2>3. Elapsed(x, n, OneMoreOf(e, a), s)'
    BY <1>1, <2>1, <2>2, ElapsedEnd
  <2>4. Outputs(i, OneMoreOf(e, a))'
    BY <1>1, <1>4, <1>5, <1>7, <2>1, <2>2, OutputsStore
  <2>5. x = stored'[i] /\ n = lenAt'[i]
    BY <1>5, <1>6, <2>1
  <2> QED
    BY <2>3, <2>4, <2>5 DEF Past
<1>10. ASSUME NEW i, i = Len(stored) + 1 PROVE Past(i)'
  <2>1. Elapsed(z, l, OneMoreOf(o, a), o)'
    BY <1>1, <1>3, ElapsedEnd
  <2>2. i \in Nat /\ Len(stored') = i
    BY <1>5, <1>7, <1>10
  <2>3. Outputs(i, OneMoreOf(o, a))'
    BY <1>1, <1>2, <2>2, OutputsFirst
  <2>4. z = stored'[i] /\ l = lenAt'[i]
    BY <1>5, <1>6, <1>10
  <2> QED
    BY <2>1, <2>3, <2>4 DEF Past
<1>11. ASSUME NEW i \in DOMAIN stored' PROVE Past(i)'
  <2>1. i \in 1 .. Len(stored) \/ i = Len(stored) + 1
    BY <1>7
  <2> QED
    BY <1>9, <1>10, <2>1
<1> QED
  BY <1>8, <1>11 DEF History

(* What the assumption says of the graph under construction                *)
LEMMA ConstructedFacts ==
    ASSUME ExecInv, HistoryInv, stage = "construct", phase # "done"
    PROVE  /\ RepVecTyped /\ Balanced(g, repVec) /\ StronglyConnected(g)
           /\ History /\ Shape /\ ConstructOrder
<1>1. /\ app \in Apps /\ HoldsInitialTokens(app) /\ g = Constructed(app) /\ repVec = RepVec(g)
      /\ History /\ Shape /\ ConstructOrder
  BY DEF ExecInv, HistoryInv, Order, History, Remembered
<1>2. /\ StronglyConnected(Constructed(app))
      /\ RepVec(Constructed(app)) \in [Actors(Constructed(app)) -> Positive]
      /\ Balanced(Constructed(app), RepVec(Constructed(app)))
  BY <1>1, BoundFlowAssumption
<1> QED
  BY <1>1, <1>2 DEF RepVecTyped, Shape

LEMMA HistoryStay ==
    ASSUME History, g' = g, repVec' = repVec, ch' = ch, actClk' = actClk, glbClk' = glbClk, repCnt' = repCnt,
           stored' = stored, lenAt' = lenAt, sos' = sos, sosPos' = sosPos
    PROVE  History'
<1>1. Remembered'
  BY DEF History, Remembered
<1>2. ASSUME NEW i \in DOMAIN stored PROVE Past(i)'
  <2>1. PICK x, n, e, s : x = stored[i] /\ n = lenAt[i] /\ Elapsed(x, n, e, s) /\ Outputs(i, e)
    BY DEF History, Past
  <2>2. Elapsed(x, n, e, s)'
    BY <2>1 DEF Elapsed
  <2>3. Outputs(i, e)'
    BY <2>1, Kept
  <2> QED
    BY <2>1, <2>2, <2>3 DEF Past
<1> QED
  BY <1>1, <1>2 DEF History

LEMMA HistoryKept ==
    ASSUME ExecInv, ExecInv', HistoryInv, [Next]_vars
    PROVE  HistoryInv'
<1>1. CASE Construct
  <2>1. stage = "construct" /\ stage' = "construct" /\ app' = app /\ ListStep
    BY <1>1, ListSteps DEF Construct
  <2>2. g' = g /\ (phase' # "done" => phase # "done")
    BY <2>1 DEF ListStep, ListCounts, ListStores, ListEnds, Ends, FirstToEnd, ListRecurs, ListStarts,
           ListEndsDone, ListUpdates, ListClock, ListDeadlock
  <2>3. g' = Constructed(app')
    BY <2>1, <2>2 DEF HistoryInv
  <2> SUFFICES ASSUME phase' # "done" PROVE History'
    BY <2>3 DEF HistoryInv
  <2>4. RepVecTyped /\ History /\ Shape /\ ConstructOrder
    BY <2>1, <2>2, ConstructedFacts
  <2>5. ConstructOrder'
    BY <2>1 DEF ExecInv, Order
  <2>6. ASSUME NEW a \in Actors(g), ListCounts(a) \/ ListStores(a) \/ ListRecurs(a) \/ ListStarts(a)
        PROVE  History'
    <3>1. ListCounts(a) => History'
      BY <2>4, HistoryCount
    <3>2. ListStores(a) => History'
      BY <2>4, HistoryStore
    <3>3. ListStarts(a) => History'
      BY <2>4, <2>5, HistoryStart
    <3>4. ~ListRecurs(a)
      BY DEF ListRecurs
    <3> QED
      BY <2>6, <3>1, <3>2, <3>3, <3>4
  <2>7. CASE ListEndsDone \/ ListUpdates
    <3>1. /\ g' = g /\ repVec' = repVec /\ ch' = ch /\ actClk' = actClk /\ glbClk' = glbClk
          /\ repCnt' = repCnt /\ stored' = stored /\ lenAt' = lenAt /\ sos' = sos /\ sosPos' = sosPos
      BY <2>7 DEF ListEndsDone, ListUpdates, listVars
    <3> QED
      BY <2>4, <3>1, HistoryStay
  <2>8. ListClock => History'
    BY <2>4, HistoryClock
  <2>9. ~ListDeadlock
    BY DEF ListDeadlock
  <2> QED
    BY <2>1, <2>6, <2>7, <2>8, <2>9 DEF ListStep
<1>2. CASE analyzeThroughput \/ Analyze
  BY <1>2 DEF analyzeThroughput, Analyze, HistoryInv
<1>3. CASE UNCHANGED vars
  <2>1. /\ g' = g /\ repVec' = repVec /\ ch' = ch /\ actClk' = actClk /\ glbClk' = glbClk
        /\ repCnt' = repCnt /\ stored' = stored /\ lenAt' = lenAt /\ sos' = sos /\ sosPos' = sosPos
        /\ app' = app /\ stage' = stage /\ phase' = phase
    BY <1>3 DEF vars, execVars, listVars
  <2>2. g' = g /\ app' = app => (g = Constructed(app) => g' = Constructed(app'))
    OBVIOUS
  <2> QED
    BY <2>1, <2>2, HistoryStay DEF HistoryInv
<1> QED
  BY <1>1, <1>2, <1>3 DEF Next

LEMMA HistoryHolds == Spec => []HistoryInv
BY HistoryInit, HistoryKept, ExecInvHolds, PTL DEF Spec

LEMMA Cancel ==
    ASSUME NEW c \in Positive, NEW x \in Nat, NEW y \in Nat, c * x = c * y
    PROVE  x = y
<1>1. c * x \in Nat /\ c * y \in Nat /\ 0 \in Nat /\ 0 < c
  BY ProductType DEF Positive
<1>2. c * x + 0 <= c * y + 0 /\ c * y + 0 <= c * x + 0
  BY <1>1
<1>3. x <= y /\ y <= x
  BY <1>1, <1>2, QuotientOrder
<1> QED
  BY <1>3

(* Between two visits of a state every actor fires as often as the whole   *)
(* iterations of the output actor ask for: the balance equations carry it  *)
(* from one actor to the next, all over the graph.                         *)
LEMMA WholeIterations ==
    ASSUME RepVecTyped, Balanced(g, repVec), StronglyConnected(g), Shape,
           NEW x, NEW n, NEW e, NEW s, NEW i \in Nat, NEW f \in Nat, Elapsed(x, n, e, s), Outputs(i, e),
           x.ch = ch, x.actClk = actClk, repCnt \in Nat, Len(stored) \in Nat, f = Len(stored) - i + 1, i <= Len(stored),
           NEW o \in Actors(g), CompletesIteration(o)
    PROVE  \A a \in Actors(g) : s[a] = f * repVec[a]
<1> DEFINE S == {a \in Actors(g) : e[a] = f * repVec[a]}
<1>1. IsBoundGraph(g) /\ repVec \in [Actors(g) -> Positive] /\ \A a \in Actors(g) : repVec[a] \in Nat
  BY DEF RepVecTyped, Positive
<1>2. /\ e \in [Actors(g) -> Nat] /\ s \in [Actors(g) -> Nat] /\ ch \in [Channels(g) -> Nat]
      /\ actClk \in [Actors(g) -> Seq(Nat)]
  BY DEF Elapsed, Shape
<1>3. \A a \in Actors(g) : s[a] = e[a]
  <2> TAKE a \in Actors(g)
  <2>1. s[a] + Len(actClk[a]) = e[a] + Len(actClk[a])
    BY DEF Elapsed
  <2>2. s[a] \in Nat /\ e[a] \in Nat /\ Len(actClk[a]) \in Nat
    BY <1>2
  <2> QED
    BY <2>1, <2>2
<1>4. o \in S
  <2>1. IsOutputActor(o) /\ repCnt + 1 = repVec[o]
    BY DEF CompletesIteration
  <2>2. e[o] = (Len(stored) - i) * repVec[o] + repCnt + 1
    BY <2>1 DEF Outputs
  <2>3. PICK m \in Nat, r \in Nat : m = Len(stored) - i /\ r = repVec[o] /\ f = m + 1
    <3>1. Len(stored) - i \in Nat /\ repVec[o] \in Nat /\ f = (Len(stored) - i) + 1
      BY <1>1
    <3> QED
      BY <3>1
  <2>4. (m + 1) * r = m * r + r /\ m * r \in Nat
    <3>1. (m + 1) * r = r * (m + 1) /\ m * r = r * m
      BY <2>3
    <3>2. r * (m + 1) = r * m + r /\ r * m \in Nat
      BY <2>3, OneMore, ProductType
    <3> QED
      BY <3>1, <3>2
  <2>5. e[o] = (m + 1) * r
    BY <2>1, <2>2, <2>3, <2>4
  <2> QED
    BY <2>3, <2>5
<1>5. ASSUME NEW k \in Channels(g), g.ch[k].src \in S PROVE g.ch[k].dst \in S
  <2>1. /\ g.ch[k].dst \in Actors(g) /\ g.ch[k].src \in Actors(g)
        /\ g.ch[k].c \in Positive /\ g.ch[k].p \in Positive /\ ch[k] \in Nat
    BY <1>1, <1>2, ChannelType DEF IsBoundGraph
  <2>2. PICK c \in Positive, p \in Nat, u \in Nat, v \in Nat, ru \in Nat, rv \in Nat :
           /\ c = g.ch[k].c /\ p = g.ch[k].p /\ u = e[g.ch[k].src] /\ v = e[g.ch[k].dst]
           /\ ru = repVec[g.ch[k].src] /\ rv = repVec[g.ch[k].dst]
    BY <1>1, <1>2, <2>1 DEF Positive
  <2>3. ch[k] + c * v = ch[k] + p * u
    BY <1>3, <2>1, <2>2 DEF Elapsed
  <2>4. c * v \in Nat /\ p * u \in Nat /\ c \in Nat
    BY ProductType DEF Positive
  <2>5. c * v = p * u
    BY <2>1, <2>3, <2>4
  <2>6. ru * p = rv * c
    BY <2>2 DEF Balanced
  <2>7. u = f * ru
    BY <1>5, <2>2
  <2>8. p * (f * ru) = f * (ru * p) /\ f * (rv * c) = c * (f * rv)
    BY <2>4
  <2>9. c * v = c * (f * rv)
    BY <2>5, <2>6, <2>7, <2>8
  <2>10. f * rv \in Nat
    BY ProductType
  <2>11. v = f * rv
    BY <2>9, <2>10, Cancel
  <2> QED
    BY <2>1, <2>2, <2>11
<1>6. S = Actors(g)
  <2>1. S \in SUBSET Actors(g) /\ S # {}
    BY <1>4
  <2> HIDE DEF S
  <2> QED
    BY <1>5, <2>1 DEF StronglyConnected
<1> QED
  BY <1>3, <1>6

(* What the construction hands out for tile p, when it finds state i again *)
Repeats(i, p) ==
    \A a \in BoundTo(g, p) : Times(PeriodicPart(sos[p]), a)' = thr'.fire * repVec'[a]

LEMMA CompletedPart ==
    ASSUME NEW S, NEW s \in Seq(S), NEW st, NEW n \in 1 .. Len(s), n < Len(s), s[n] = s[Len(s)], NEW a
    PROVE  LET c == Completed([entries |-> s, start |-> st], n)
           IN  Times(SubSeq(c.entries, c.start, Len(c.entries)), a) = Later(s, n, a)
<1> DEFINE c == Completed([entries |-> s, start |-> st], n)
<1>1. Len(s) \in Nat /\ Len(s) > 1 /\ n \in Nat
  OBVIOUS
<1>2. c = [entries |-> Front(s), start |-> n]
  BY <1>1 DEF Completed
<1>3. c.entries = Front(s) /\ c.start = n
  BY <1>2
<1> HIDE DEF c
<1>4. Len(Front(s)) = Len(s) - 1
  <2>1. Len(s) - 1 \in 0 .. Len(s)
    BY <1>1
  <2> QED
    BY <2>1 DEF Front
<1>5. Times(SubSeq(Front(s), n, Len(s) - 1), a) = Later(s, n, a)
  BY LaterExchanged
<1> QED
  BY <1>3, <1>4, <1>5 DEF c

LEMMA PeriodsComplete ==
    ASSUME ExecInv, HistoryInv, stage = "construct", NEW o \in Actors(g), ListRecurs(o),
           NEW p \in Tiles(g), lenAt[recurrent'][p] > 0,
           sos[p].entries[lenAt[recurrent'][p]] = sos[p].entries[Len(sos[p].entries)]
    PROVE  Repeats(recurrent', p)
<1>1. /\ RepVecTyped /\ Balanced(g, repVec) /\ StronglyConnected(g)
      /\ History /\ Shape /\ ConstructOrder
  BY ConstructedFacts DEF ListRecurs, FirstToEnd
<1>2. PICK i \in DOMAIN stored :
          /\ Recurring(i)
          /\ recurrent' = i
          /\ sos' = [q \in Tiles(g) |-> Completed(sos[q], stored[i].sosPos[q])]
          /\ thr'.fire = Len(stored) - i + 1
  BY DEF ListRecurs
<1>3. g' = g /\ repVec' = repVec
  BY DEF ListRecurs
<1>4. PICK x, n, e, s : x = stored[i] /\ n = lenAt[i] /\ Elapsed(x, n, e, s) /\ Outputs(i, e)
  BY <1>1 DEF History, Past
<1>5. /\ i \in Nat /\ Len(stored) \in Nat /\ i <= Len(stored) /\ repCnt \in Nat
      /\ n \in [Tiles(g) -> Nat]
  <2>1. stored \in Seq(State(g)) /\ lenAt \in Seq([Tiles(g) -> Nat]) /\ Len(lenAt) = Len(stored) /\ repCnt \in Nat
    BY <1>1 DEF History, Remembered
  <2> QED
    BY <1>4, <2>1
<1>6. PICK f \in Nat : f = Len(stored) - i + 1 /\ f > 0
  <2>1. Len(stored) - i + 1 \in Nat /\ Len(stored) - i + 1 > 0
    BY <1>5
  <2> QED
    BY <2>1
<1>7. x.ch = ch /\ x.actClk = actClk
  BY <1>2, <1>4 DEF Recurring
<1>8. \A a \in Actors(g) : s[a] = f * repVec[a]
  <2>1. CompletesIteration(o)
    BY DEF ListRecurs
  <2> QED
    BY <1>1, <1>4, <1>5, <1>6, <1>7, <2>1, WholeIterations
<1>9. PICK en \in Seq(Actors(g)), st \in Nat : sos[p] = [entries |-> en, start |-> st]
  BY <1>1 DEF ConstructOrder, Schedule
<1>10. PICK m \in Nat : m = n[p] /\ m > 0 /\ m <= Len(en) /\ x.sosPos[p] = m /\ en[m] = en[Len(en)]
  <2>1. n[p] \in Nat /\ n[p] > 0 /\ sos[p].entries = en
    BY <1>2, <1>4, <1>5, <1>9
  <2>2. n[p] <= Len(en) /\ x.sosPos[p] = n[p]
    BY <1>4, <2>1 DEF Elapsed
  <2> QED
    BY <1>2, <1>4, <2>1, <2>2
<1>11. ASSUME NEW a \in BoundTo(g, p) PROVE Times(PeriodicPart(sos[p]), a)' = thr'.fire * repVec'[a]
  <2>1. a \in Actors(g) /\ g.tile[a] = p /\ IsBound(g, a)
    <3>1. g.wheel \in Seq(Positive)
      BY <1>1 DEF Shape, IsBoundGraph
    <3>2. p \in 1 .. Len(g.wheel)
      BY <3>1 DEF Tiles
    <3> QED
      BY <3>2 DEF BoundTo, IsBound
  <2>2. s[a] = Later(en, m, a)
    BY <1>4, <1>9, <1>10, <2>1 DEF Elapsed
  <2>3. Later(en, m, a) = f * repVec[a]
    BY <1>8, <2>1, <2>2
  <2>4. PICK r \in Positive : r = repVec[a]
    BY <1>1, <2>1 DEF RepVecTyped
  <2>5. f * r > 0
    BY <1>6 DEF Positive
  <2>6. m < Len(en)
    <3>1. m # Len(en)
      BY <2>3, <2>4, <2>5, LaterNone
    <3> QED
      BY <1>10, <3>1
  <2>7. sos'[p] = Completed([entries |-> en, start |-> st], m)
    BY <1>2, <1>4, <1>9, <1>10
  <2>8. m \in 1 .. Len(en)
    BY <1>10
  <2>9. Times(SubSeq(sos'[p].entries, sos'[p].start, Len(sos'[p].entries)), a) = Later(en, m, a)
    BY <1>10, <2>6, <2>7, <2>8, CompletedPart
  <2>10. Times(PeriodicPart(sos[p]), a)' = f * repVec[a]
    BY <2>3, <2>9 DEF PeriodicPart, Times, At
  <2> QED
    BY <1>2, <1>3, <1>6, <2>10
<1> QED
  BY <1>11 DEF Repeats

(* The periodic part is complete (ListScheduler): for every application,   *)
(* when a state is found again, the schedule of a tile whose last entry is *)
(* the one it had at the first visit repeats every actor of the tile as    *)
(* often as the iterations between the two visits ask for.                 *)
THEOREM CompletePeriods == Spec => PeriodicPartComplete
<1> DEFINE A == recurrent = 0 /\ recurrent' # 0 =>
                  \A p \in LS!Tiles(g) :
                     LET n == lenAt[recurrent'][p]
                     IN  n > 0 /\ sos[p].entries[n] = LS!Last(sos[p].entries) =>
                            LS!HoldsIterations(p, thr.fire)'
<1>1. ASSUME ExecInv, HistoryInv, [Next]_vars, recurrent = 0, recurrent' # 0 PROVE A
  <2>1. stage = "construct" /\ ListStep
    <3>1. ~UNCHANGED vars /\ ~analyzeThroughput /\ ~Analyze
      BY <1>1 DEF vars, listVars, analyzeThroughput, Analyze
    <3> QED
      BY <1>1, <3>1, ListSteps DEF Next, Construct
  <2>2. PICK o \in Actors(g) : ListRecurs(o)
    BY <1>1, <2>1 DEF ListStep, ListCounts, ListStores, ListEnds, ListStarts, ListEndsDone, ListUpdates,
                      ListClock, ListDeadlock, listVars
  <2>3. \A p \in Tiles(g) : lenAt[recurrent'][p] > 0 /\
           sos[p].entries[lenAt[recurrent'][p]] = sos[p].entries[Len(sos[p].entries)] => Repeats(recurrent', p)
    BY <1>1, <2>1, <2>2, PeriodsComplete
  <2>4. \A p : Repeats(recurrent', p) => LS!HoldsIterations(p, thr.fire)'
    <3> SUFFICES ASSUME NEW p, Repeats(recurrent', p) PROVE LS!HoldsIterations(p, thr.fire)'
      OBVIOUS
    <3>1. \A a \in LS!BoundTo(g', p) : a \in BoundTo(g, p)
      BY <2>2 DEF LS!BoundTo, BoundTo, LS!Actors, Actors, ListRecurs
    <3>2. \A a : LS!Occurrences(LS!PeriodicPart(sos'[p]), a) = Times(PeriodicPart(sos[p]), a)'
      BY Zenon DEF LS!Occurrences, LS!PeriodicPart, PeriodicPart, Times, At, LS!Cardinality, Cardinality
    <3> QED
      BY <3>1, <3>2 DEF Repeats, LS!HoldsIterations
  <2>5. \A s : LS!Last(s) = s[Len(s)]
    BY Zenon DEF LS!Last
  <2> QED
    BY <2>3, <2>4, <2>5, SameListOperators
<1>2. ExecInv /\ HistoryInv /\ [Next]_vars => [A]_LS!vars
  BY <1>1
<1>3. PeriodicPartComplete <=> [][A]_LS!vars
  BY PTL DEF PeriodicPartComplete, LS!PeriodicPartComplete
<1> HIDE DEF A
<1> QED
  BY <1>2, <1>3, ExecInvHolds, HistoryHolds, PTL DEF Spec

-----------------------------------------------------------------------------
(* The deadlock test, on a graph of its own: its module has the names of   *)
(* this one for the graph, its tokens and the vector.                      *)

CONSTANT Graphs

VARIABLES vector, actor, firedSomeActor, answer

DC == INSTANCE DeadlockCheck WITH q <- vector

(* DeadlockGraphs, the assumption of the module                            *)
DeadlockAssumption ==
    \A G \in Graphs : /\ IsSDFGraph(G)
                      /\ RepVec(G) \in [Actors(G) -> Nat]
                      /\ Balanced(G, RepVec(G))

LEMMA SameDeadlockOperators ==
    /\ \A G : DC!Actors(G) = Actors(G) /\ DC!Channels(G) = Channels(G) /\ DC!InitialTokens(G) = InitialTokens(G)
    /\ \A G, t, a : /\ DC!Ready(G, t, a) <=> Ready(G, t, a)
                    /\ DC!Consume(G, t, a) = Consume(G, t, a)
                    /\ DC!Produce(G, t, a) = Produce(G, t, a)
<1>1. \A G : DC!Actors(G) = Actors(G) /\ DC!Channels(G) = Channels(G) /\ DC!InitialTokens(G) = InitialTokens(G)
  BY Zenon DEF DC!Actors, Actors, DC!Channels, Channels, DC!InitialTokens, InitialTokens
<1>2. \A G, t, a : /\ DC!Ready(G, t, a) <=> Ready(G, t, a)
                   /\ DC!Consume(G, t, a) = Consume(G, t, a)
                   /\ DC!Produce(G, t, a) = Produce(G, t, a)
  BY Zenon DEF DC!InChannels, InChannels, DC!Channels, Channels, DC!Ready, Ready, DC!Consume, Consume,
               DC!Produce, Produce
<1> QED
  BY <1>1, <1>2

DeadlockInv == DC!TypeOK /\ DC!TokensAreFirings

LEMMA DeadlockGraph ==
    ASSUME DeadlockAssumption, DC!TypeOK
    PROVE  IsSDFGraph(g) /\ vector \in [Actors(g) -> Nat] /\ Balanced(g, vector)
BY SameDeadlockOperators DEF DeadlockAssumption, DC!TypeOK

LEMMA DeadlockFired ==
    ASSUME DeadlockAssumption, DC!TypeOK, NEW k \in Channels(g)
    PROVE  /\ g.ch[k].src \in Actors(g) /\ g.ch[k].dst \in Actors(g)
           /\ g.ch[k].p \in Nat /\ g.ch[k].c \in Nat /\ g.ch[k].t \in Nat
           /\ DC!Fired(g.ch[k].src) \in Int /\ DC!Fired(g.ch[k].dst) \in Int
<1>1. /\ g.ch[k].src \in Actors(g) /\ g.ch[k].dst \in Actors(g)
      /\ g.ch[k].p \in Nat /\ g.ch[k].c \in Nat /\ g.ch[k].t \in Nat
  BY DeadlockGraph, ChannelType DEF Positive
<1>2. \A a \in Actors(g) : vector[a] \in Nat /\ repVec[a] \in Nat
  BY DeadlockGraph, SameDeadlockOperators DEF DC!TypeOK
<1> QED
  BY <1>1, <1>2 DEF DC!Fired

LEMMA DeadlockInit ==
    ASSUME DeadlockAssumption
    PROVE  DC!Init => DeadlockInv
<1> SUFFICES ASSUME DC!Init PROVE DeadlockInv
  OBVIOUS
<1>1. IsSDFGraph(g) /\ vector \in [Actors(g) -> Nat]
  BY SameDeadlockOperators DEF DeadlockAssumption, DC!Init
<1>2. ch \in [Channels(g) -> Nat]
  BY <1>1, InitialTokensType, SameDeadlockOperators DEF DC!Init
<1>3. Len(g.ex) \in Nat
  BY <1>1 DEF IsSDFGraph
<1>4. DC!TypeOK
  <2>1. actor \in 1 .. Len(g.ex) + 1
    BY <1>3, SameDeadlockOperators DEF DC!Init
  <2>2. firedSomeActor \in BOOLEAN
    BY Zenon DEF DC!Init
  <2> QED
    BY <1>1, <1>2, <2>1, <2>2, SameDeadlockOperators DEF DC!Init, DC!TypeOK
<1>5. ASSUME NEW k \in Channels(g)
      PROVE  ch[k] = g.ch[k].t + g.ch[k].p * DC!Fired(g.ch[k].src) - g.ch[k].c * DC!Fired(g.ch[k].dst)
  <2>1. DC!Fired(g.ch[k].src) = 0 /\ DC!Fired(g.ch[k].dst) = 0
    BY <1>1, <1>4, DeadlockFired, SameDeadlockOperators DEF DC!Init, DC!Fired
  <2>2. ch[k] = g.ch[k].t
    BY SameDeadlockOperators DEF DC!Init, InitialTokens
  <2> QED
    BY <1>4, <2>1, <2>2, DeadlockFired
<1> QED
  BY <1>4, <1>5, SameDeadlockOperators DEF DeadlockInv, DC!TokensAreFirings

LEMMA DeadlockFires ==
    ASSUME DeadlockAssumption
    PROVE  DeadlockInv /\ DC!fireActor => DeadlockInv'
<1> SUFFICES ASSUME DeadlockInv, DC!fireActor PROVE DeadlockInv'
  OBVIOUS
<1>1. /\ IsSDFGraph(g) /\ ch \in [Channels(g) -> Nat] /\ actor \in Actors(g)
      /\ Ready(g, ch, actor) /\ repVec[actor] # 0 /\ repVec \in [Actors(g) -> Nat]
      /\ g' = g /\ vector' = vector /\ ch' = Produce(g, Consume(g, ch, actor), actor)
      /\ repVec' = [repVec EXCEPT ![actor] = @ - 1]
  BY DeadlockGraph, SameDeadlockOperators DEF DeadlockInv, DC!TypeOK, DC!fireActor, DC!CanFire
<1>2. ch' \in [Channels(g) -> Nat]
  BY <1>1, ConsumeType, ProduceType
<1>3. repVec' \in [Actors(g) -> Nat]
  BY <1>1
<1>4. DC!TypeOK'
  BY <1>1, <1>2, <1>3, SameDeadlockOperators DEF DeadlockInv, DC!TypeOK, DC!fireActor
<1>5. ASSUME NEW a \in Actors(g)
      PROVE  DC!Fired(a)' = IF a = actor THEN DC!Fired(a) + 1 ELSE DC!Fired(a)
  <2>1. vector[a] \in Nat /\ repVec[a] \in Nat /\ vector' = vector
    BY <1>1, DeadlockGraph DEF DeadlockInv
  <2>2. repVec'[a] = IF a = actor THEN repVec[a] - 1 ELSE repVec[a]
    BY <1>1
  <2>3. DC!Fired(a)' = vector'[a] - repVec'[a] /\ DC!Fired(a) = vector[a] - repVec[a]
    BY DEF DC!Fired
  <2> QED
    BY <2>1, <2>2, <2>3
<1>6. ASSUME NEW k \in Channels(g)
      PROVE  ch'[k] = g.ch[k].t + g.ch[k].p * DC!Fired(g.ch[k].src)' - g.ch[k].c * DC!Fired(g.ch[k].dst)'
  <2> DEFINE e == g.ch[k]
             m == DC!Fired(e.src)
             n == DC!Fired(e.dst)
             dm == IF e.src = actor THEN m + 1 ELSE m
             dn == IF e.dst = actor THEN n + 1 ELSE n
  <2>1. /\ e.src \in Actors(g) /\ e.dst \in Actors(g)
        /\ e.p \in Nat /\ e.c \in Nat /\ e.t \in Nat /\ m \in Int /\ n \in Int
    BY DeadlockFired DEF DeadlockInv
  <2>2. ch[k] = e.t + e.p * m - e.c * n
    BY SameDeadlockOperators DEF DeadlockInv, DC!TokensAreFirings
  <2>3. ch'[k] = ch[k] - (IF e.dst = actor THEN e.c ELSE 0)
                       + (IF e.src = actor THEN e.p ELSE 0)
    <3>1. Produce(g, Consume(g, ch, actor), actor)[k] =
             ch[k] - (IF g.ch[k].dst = actor THEN g.ch[k].c ELSE 0)
                   + (IF g.ch[k].src = actor THEN g.ch[k].p ELSE 0)
      <4>1. IsSDFGraph(g) /\ ch \in [Channels(g) -> Nat] /\ actor \in Actors(g)
        BY <1>1
      <4> HIDE DEF e, m, n, dm, dn
      <4> QED
        BY <4>1, FireTokens
    <3> QED
      BY <1>1, <3>1
  <2>4. DC!Fired(e.src)' = dm /\ DC!Fired(e.dst)' = dn
    BY <1>1, <1>5, <2>1
  <2> HIDE DEF e, m, n
  <2>5. e.p * dm = e.p * m + (IF e.src = actor THEN e.p ELSE 0) /\ e.p * m \in Int
    BY <2>1, OneMore
  <2>6. e.c * dn = e.c * n + (IF e.dst = actor THEN e.c ELSE 0) /\ e.c * n \in Int
    BY <2>1, OneMore
  <2>7. ch'[k] = e.t + e.p * dm - e.c * dn
    <3> HIDE DEF dm, dn
    <3>1. PICK x \in Int, y \in Int : x = e.p * m /\ y = e.c * n
      BY <2>5, <2>6
    <3>2. ch[k] = e.t + x - y
      BY <2>2, <3>1
    <3>3. e.p * dm = x + (IF e.src = actor THEN e.p ELSE 0) /\ e.c * dn = y + (IF e.dst = actor THEN e.c ELSE 0)
      BY <2>5, <2>6, <3>1
    <3>4. PICK u, v : u = e.p * dm /\ v = e.c * dn
      OBVIOUS
    <3>5. ch'[k] = e.t + u - v
      BY <2>1, <2>3, <3>2, <3>3, <3>4
    <3> QED
      BY <3>4, <3>5
  <2> QED
    BY <2>4, <2>7 DEF e
<1> QED
  BY <1>1, <1>4, <1>6, SameDeadlockOperators DEF DeadlockInv, DC!TokensAreFirings

LEMMA DeadlockNext ==
    ASSUME DeadlockAssumption
    PROVE  DeadlockInv /\ [DC!Next]_(DC!vars) => DeadlockInv'
<1> SUFFICES ASSUME DeadlockInv, [DC!Next]_(DC!vars) PROVE DeadlockInv'
  OBVIOUS
<1>1. CASE DC!fireActor
  BY <1>1, DeadlockFires
<1>2. ASSUME UNCHANGED <<g, vector, ch, repVec>>
      PROVE  DC!TokensAreFirings'
  BY <1>2, SameDeadlockOperators DEF DeadlockInv, DC!TokensAreFirings, DC!Fired
<1>3. CASE DC!NextActor
  <2>1. Actors(g) = 1 .. Len(g.ex) /\ Len(g.ex) \in Nat
    BY DeadlockGraph DEF DeadlockInv, IsSDFGraph, Actors
  <2> QED
    BY <1>2, <1>3, <2>1, SameDeadlockOperators DEF DC!NextActor, DeadlockInv, DC!TypeOK
<1>4. CASE DC!NextRound
  <2>1. Len(g.ex) \in Nat
    BY DeadlockGraph DEF DeadlockInv, IsSDFGraph
  <2>2. actor' \in 1 .. Len(g.ex) + 1
    BY <1>4, <2>1 DEF DC!NextRound
  <2>3. firedSomeActor' \in BOOLEAN
    BY <1>4, Zenon DEF DC!NextRound
  <2> QED
    BY <1>2, <1>4, <2>2, <2>3, SameDeadlockOperators DEF DC!NextRound, DeadlockInv, DC!TypeOK
<1>5. CASE DC!Answer
  BY <1>2, <1>5, SameDeadlockOperators DEF DC!Answer, DeadlockInv, DC!TypeOK
<1>6. CASE UNCHANGED DC!vars
  BY <1>2, <1>6, SameDeadlockOperators DEF DC!vars, DeadlockInv, DC!TypeOK
<1> QED
  BY <1>1, <1>3, <1>4, <1>5, <1>6 DEF DC!Next

(* The tokens of a channel are its initial tokens and those of the firings *)
(* counted down, in every state and for every graph.                       *)
THEOREM TokenBalance ==
    ASSUME DeadlockAssumption
    PROVE  DC!Spec => []DC!TokensAreFirings
<1>1. DeadlockInv => DC!TokensAreFirings
  BY DEF DeadlockInv
<1>2. (DC!Init => DeadlockInv) /\ (DeadlockInv /\ [DC!Next]_(DC!vars) => DeadlockInv')
  BY DeadlockInit, DeadlockNext
<1> QED
  BY <1>1, <1>2, PTL DEF DC!Spec

(* When every actor has fired its share the graph is in its initial state, *)
(* because the repetition vector solves the balance equations: the test    *)
(* "initialState == currentState" holds whenever it is reached.            *)
THEOREM BackInInitialState ==
    ASSUME DeadlockAssumption
    PROVE  DC!Spec => []DC!AllFiredIsBack
<1>1. DeadlockInv => DC!AllFiredIsBack
  <2> SUFFICES ASSUME DeadlockInv, DC!AllFired PROVE ch = InitialTokens(g)
    BY SameDeadlockOperators DEF DC!AllFiredIsBack
  <2>1. ASSUME NEW k \in Channels(g) PROVE ch[k] = g.ch[k].t
    <3> DEFINE e == g.ch[k]
    <3>1. /\ e.src \in Actors(g) /\ e.dst \in Actors(g)
          /\ e.p \in Nat /\ e.c \in Nat /\ e.t \in Nat
      BY DeadlockFired DEF DeadlockInv
    <3>2. DC!Fired(e.src) = vector[e.src] /\ DC!Fired(e.dst) = vector[e.dst]
          /\ vector[e.src] \in Nat /\ vector[e.dst] \in Nat
      BY <3>1, DeadlockGraph, SameDeadlockOperators DEF DC!AllFired, DC!Fired, DeadlockInv
    <3>3. vector[e.src] * e.p = vector[e.dst] * e.c
      BY DeadlockGraph DEF DeadlockInv, Balanced
    <3>4. ch[k] = e.t + e.p * vector[e.src] - e.c * vector[e.dst]
      BY <3>2, SameDeadlockOperators DEF DeadlockInv, DC!TokensAreFirings
    <3> HIDE DEF e
    <3>5. e.p * vector[e.src] = e.c * vector[e.dst] /\ e.c * vector[e.dst] \in Int
      BY <3>1, <3>2, <3>3
    <3> QED
      BY <3>1, <3>4, <3>5 DEF e
  <2> QED
    BY <2>1, SameDeadlockOperators DEF DeadlockInv, DC!TypeOK, InitialTokens
<1>2. (DC!Init => DeadlockInv) /\ (DeadlockInv /\ [DC!Next]_(DC!vars) => DeadlockInv')
  BY DeadlockInit, DeadlockNext
<1> QED
  BY <1>1, <1>2, PTL DEF DC!Spec

-----------------------------------------------------------------------------
(* The shortest static order                                               *)

LEMMA SmallResidue ==
    ASSUME NEW s \in Positive, NEW r \in Nat, r < s
    PROVE  r % s = r
<1>1. r \div s \in Nat /\ r % s \in Nat /\ r % s < s /\ r = s * (r \div s) + (r % s)
  BY DivType
<1>2. PICK d \in Nat, n \in Nat : d = r \div s /\ n = s
  BY <1>1 DEF Positive
<1>3. d = 0
  <2> SUFFICES ASSUME 1 <= d PROVE FALSE
    BY <1>2
  <2>1. n * 1 <= n * d /\ n * 1 = n /\ n * d \in Nat
    BY <1>2, ProductOrder, ProductType
  <2> QED
    BY <1>1, <1>2, <2>1
<1>4. s * d = 0
  BY <1>2, <1>3
<1> QED
  BY <1>1, <1>2, <1>4

LEMMA TurnsMore ==
    ASSUME NEW P \in Positive, NEW x \in Nat, NEW m \in Nat
    PROVE  (x + P * m) % P = x % P
<1>1. x \div P \in Nat /\ x % P \in Nat /\ x % P < P /\ x = P * (x \div P) + (x % P)
  BY DivType
<1>2. PICK q \in Nat, r \in Nat : q = x \div P /\ r = x % P
  BY <1>1
<1>3. PICK p \in Nat : p = P
  BY DEF Positive
<1>4. P * q + P * m = P * (q + m) /\ P * q \in Nat /\ P * m \in Nat
  BY <1>3, ProductType
<1>5. x + P * m = P * (q + m) + r /\ x + P * m \in Nat
  BY <1>1, <1>2, <1>4
<1> QED
  BY <1>1, <1>2, <1>5, QuotientUnique

MatchStates == [last : Nat, pat : Nat, whole : BOOLEAN]

(* After entry e: the periodic part up to there goes round the pattern,    *)
(* and the pattern goes on at pat.                                         *)
GoesRound(s, e, r, P) ==
    /\ s.start <= r.pat /\ r.pat <= r.last /\ r.last <= e
    /\ \A o \in 0 .. e - s.start : s.entries[s.start + o] = s.entries[s.start + (o % P)]
    /\ (e + 1 - s.start) % P = r.pat - s.start
    /\ r.whole => r.pat = s.start

Matches(s, e, r) == r \in MatchStates /\ GoesRound(s, e, r, r.last - s.start + 1)

LEMMA MatchEntryStep ==
    ASSUME NEW S, NEW s \in Schedule(S), s.start > 0, NEW e \in Nat, s.start <= e, NEW r, Matches(s, e, r)
    PROVE  Matches(s, e + 1, MatchEntry(s, r, e + 1))
<1> DEFINE t == MatchEntry(s, r, e + 1)
<1>1. PICK b \in Nat, E \in Seq(S) : b = s.start /\ b > 0 /\ b <= e /\ E = s.entries
  BY DEF Schedule
<1>2. PICK l \in Nat, p \in Nat, w \in BOOLEAN : r = [last |-> l, pat |-> p, whole |-> w]
  BY DEF Matches, MatchStates
<1>3. b <= p /\ p <= l /\ l <= e
  BY <1>1, <1>2 DEF Matches, GoesRound
<1>4. PICK P \in Positive : P = l - b + 1
  <2>1. l - b + 1 \in Positive
    BY <1>3 DEF Positive
  <2> QED
    BY <2>1
<1>5. /\ \A o \in 0 .. e - b : E[b + o] = E[b + (o % P)]
      /\ (e + 1 - b) % P = p - b
  BY <1>1, <1>2, <1>4 DEF Matches, GoesRound
<1>6. PICK x \in Nat, q \in Nat, v \in Nat : x = e + 1 - b /\ v = p - b /\ x = P * q + v /\ v < P
  <2>1. e + 1 - b \in Nat /\ p - b \in Nat
    BY <1>1, <1>3
  <2>2. PICK x \in Nat : x = e + 1 - b
    BY <2>1
  <2>3. x \div P \in Nat /\ x % P \in Nat /\ x % P < P /\ x = P * (x \div P) + (x % P)
    BY DivType
  <2> QED
    BY <1>5, <2>1, <2>2, <2>3
<1>7. P * q \in Nat /\ P > 0 /\ P \in Nat
  BY ProductType DEF Positive
<1>8. ASSUME E[e + 1] # E[p] PROVE Matches(s, e + 1, t)
  <2>1. t = [last |-> e + 1, pat |-> b, whole |-> FALSE]
    BY <1>1, <1>2, <1>8 DEF MatchEntry
  <2> HIDE DEF t
  <2>2. PICK R \in Positive : R = e + 1 - b + 1 /\ R > x
    BY <1>6 DEF Positive
  <2>3. \A o \in 0 .. e + 1 - b : o % R = o
    <3> TAKE o \in 0 .. e + 1 - b
    <3>1. o \in Nat /\ o < R /\ o = R * 0 + o
      BY <1>6, <2>2 DEF Positive
    <3> QED
      BY <3>1, QuotientUnique
  <2>4. (e + 1 + 1 - b) % R = 0
    <3>1. e + 1 + 1 - b = R * 1 + 0 /\ e + 1 + 1 - b \in Nat /\ 0 < R
      BY <1>6, <2>2 DEF Positive
    <3> QED
      BY <3>1, QuotientUnique
  <2>5. /\ t.last = e + 1 /\ t.pat = b /\ t.whole = FALSE /\ t \in MatchStates
        /\ t.last - s.start + 1 = R
    BY <1>1, <2>1, <2>2 DEF MatchStates
  <2>6. \A o \in 0 .. e + 1 - s.start : s.entries[s.start + o] = s.entries[s.start + (o % R)]
    BY <1>1, <2>3
  <2> QED
    BY <1>1, <2>4, <2>5, <2>6 DEF Matches, GoesRound
<1>9. ASSUME E[e + 1] = E[p] PROVE \A o \in 0 .. e + 1 - b : E[b + o] = E[b + (o % P)]
  <2>1. ASSUME NEW o \in 0 .. e + 1 - b, o = x PROVE E[b + o] = E[b + (o % P)]
    <3>1. o % P = v
      BY <1>6, <2>1, QuotientUnique
    <3>2. b + o = e + 1 /\ b + v = p
      BY <1>6, <2>1
    <3> QED
      BY <1>9, <3>1, <3>2
  <2>2. \A o \in 0 .. e + 1 - b : o # x => o \in 0 .. e - b
    BY <1>1, <1>6
  <2> QED
    BY <1>5, <2>1, <2>2
<1>10. ASSUME E[e + 1] = E[p], p = l PROVE Matches(s, e + 1, t)
  <2>1. t = [last |-> l, pat |-> b, whole |-> TRUE]
    BY <1>1, <1>2, <1>10 DEF MatchEntry
  <2> HIDE DEF t
  <2>2. (e + 1 + 1 - b) % P = 0
    <3>1. v = P - 1
      BY <1>4, <1>6, <1>10
    <3>2. P * (q + 1) = P * q + P
      BY <1>7, OneMore
    <3>3. e + 1 + 1 - b = P * (q + 1) + 0 /\ e + 1 + 1 - b \in Nat
      BY <1>6, <1>7, <3>1, <3>2
    <3> QED
      BY <1>7, <3>3, QuotientUnique
  <2>3. t.last = l /\ t.pat = b /\ t.whole = TRUE /\ t \in MatchStates /\ t.last - s.start + 1 = P
    BY <1>1, <1>4, <2>1 DEF MatchStates
  <2>4. \A o \in 0 .. e + 1 - s.start : s.entries[s.start + o] = s.entries[s.start + (o % P)]
    BY <1>1, <1>9, <1>10
  <2>5. s.start <= t.pat /\ t.pat <= t.last /\ t.last <= e + 1 /\ (t.whole => t.pat = s.start)
    BY <1>1, <1>3, <2>3
  <2>6. (e + 1 + 1 - s.start) % P = t.pat - s.start
    BY <1>1, <2>2, <2>3
  <2> QED
    <3>1. t \in MatchStates /\ P = t.last - s.start + 1
      BY <2>3
    <3>2. GoesRound(s, e + 1, t, P)
      <4>1. (e + 1) - s.start = e + 1 - s.start /\ (e + 1) + 1 - s.start = e + 1 + 1 - s.start
        BY <1>1
      <4> QED
        BY <2>4, <2>5, <2>6, <4>1 DEF GoesRound
    <3> QED
      BY <3>1, <3>2 DEF Matches
<1>11. ASSUME E[e + 1] = E[p], p # l PROVE Matches(s, e + 1, t)
  <2>1. t = [last |-> l, pat |-> p + 1, whole |-> FALSE]
    BY <1>1, <1>2, <1>11 DEF MatchEntry
  <2> HIDE DEF t
  <2>2. (e + 1 + 1 - b) % P = p + 1 - b
    <3>1. v + 1 < P /\ v + 1 = p + 1 - b /\ v + 1 \in Nat
      BY <1>3, <1>4, <1>6, <1>11
    <3>2. e + 1 + 1 - b = P * q + (v + 1) /\ e + 1 + 1 - b \in Nat
      BY <1>6, <1>7
    <3> QED
      BY <3>1, <3>2, QuotientUnique
  <2>3. t.last = l /\ t.pat = p + 1 /\ t.whole = FALSE /\ t \in MatchStates /\ t.last - s.start + 1 = P
    BY <1>1, <1>4, <2>1 DEF MatchStates
  <2>4. \A o \in 0 .. e + 1 - s.start : s.entries[s.start + o] = s.entries[s.start + (o % P)]
    BY <1>1, <1>9, <1>11
  <2>5. s.start <= t.pat /\ t.pat <= t.last /\ t.last <= e + 1 /\ (t.whole => t.pat = s.start)
    BY <1>1, <1>3, <1>11, <2>3
  <2>6. (e + 1 + 1 - s.start) % P = t.pat - s.start
    BY <1>1, <2>2, <2>3
  <2> QED
    <3>1. t \in MatchStates /\ P = t.last - s.start + 1
      BY <2>3
    <3>2. GoesRound(s, e + 1, t, P)
      <4>1. (e + 1) - s.start = e + 1 - s.start /\ (e + 1) + 1 - s.start = e + 1 + 1 - s.start
        BY <1>1
      <4> QED
        BY <2>4, <2>5, <2>6, <4>1 DEF GoesRound
    <3> QED
      BY <3>1, <3>2 DEF Matches
<1> QED
  BY <1>8, <1>10, <1>11

(* The pattern that the search ends with                                   *)
Repeated(s, last, P, K, k) ==
    /\ last \in s.start .. Len(s.entries)
    /\ \A o \in 0 .. K - 1 : s.entries[s.start + o] = s.entries[s.start + (o % P)]
    /\ k \in Nat /\ K = P * k

Pattern(s, last) == \E k : Repeated(s, last, last - s.start + 1, Len(s.entries) - s.start + 1, k)

LEMMA PeriodicEndPattern ==
    ASSUME NEW S, NEW s \in Schedule(S), s.start \in 1 .. Len(s.entries)
    PROVE  Pattern(s, PeriodicEnd(s))
<1> DEFINE first == [last |-> s.start, pat |-> s.start, whole |-> TRUE]
           n == Len(s.entries) - s.start
           seq == [i \in 1 .. n |-> s.start + i]
           Fold(it) == it = [u \in SUBSET DOMAIN seq |->
                          IF u = {} THEN first ELSE MatchEntry(s, it[u \ {Max(u)}], seq[Max(u)])]
           h == CHOOSE it : Fold(it)
           r == FoldLeft(LAMBDA acc, i : MatchEntry(s, acc, i), first, seq)
<1>1. PICK b \in Nat, E \in Seq(S) : b = s.start /\ b > 0 /\ b <= Len(E) /\ E = s.entries
  BY DEF Schedule
<1>2. n \in Nat /\ DOMAIN seq = 1 .. n /\ \A i \in 1 .. n : seq[i] = s.start + i
  BY <1>1
<1>3. r = h[DOMAIN seq] /\ PeriodicEnd(s) = IF r.whole THEN r.last ELSE Len(s.entries)
  <2>1. r = h[DOMAIN seq]
    BY Zenon DEF FoldLeft, MapThenFoldSet
  <2>2. PeriodicEnd(s) = IF r.whole THEN r.last ELSE Len(s.entries)
    BY Zenon DEF PeriodicEnd
  <2> QED
    BY <2>1, <2>2
<1> HIDE DEF r, seq, n
<1>4. \A it : Fold(it) <=> Folded("match", s, first, n, it)
  <2>1. \A u \in SUBSET (1 .. n) : u # {} => seq[Max(u)] = s.start + Max(u)
    <3> SUFFICES ASSUME NEW u \in SUBSET (1 .. n), u # {} PROVE seq[Max(u)] = s.start + Max(u)
      OBVIOUS
    <3>1. Max(u) \in 1 .. n
      BY <1>2, MaxIn
    <3> QED
      BY <1>2, <3>1
  <2> DEFINE A(it) == [u \in SUBSET (1 .. n) |->
                         IF u = {} THEN first ELSE MatchEntry(s, it[u \ {Max(u)}], seq[Max(u)])]
             B(it) == [u \in SUBSET (1 .. n) |->
                         IF u = {} THEN first ELSE FoldStep("match", s, it[u \ {Max(u)}], Max(u))]
  <2> HIDE DEF first
  <2>2. \A it : A(it) = B(it)
    <3> TAKE it
    <3>1. \A x, y : FoldStep("match", s, x, y) = MatchEntry(s, x, s.start + y)
      BY DEF FoldStep
    <3>2. \A u \in SUBSET (1 .. n) :
             (IF u = {} THEN first ELSE MatchEntry(s, it[u \ {Max(u)}], seq[Max(u)]))
             = (IF u = {} THEN first ELSE FoldStep("match", s, it[u \ {Max(u)}], Max(u)))
      BY <2>1, <3>1
    <3> QED
      BY <3>2, Zenon
  <2>3. \A it : Fold(it) <=> it = A(it)
    BY <1>2
  <2>4. \A it : Folded("match", s, first, n, it) <=> it = B(it)
    BY DEF Folded
  <2> HIDE DEF Fold, A, B
  <2> QED
    BY <2>2, <2>3, <2>4, Zenon
<1>5. Fold(h)
  <2>1. \E it : Fold(it)
    BY <1>2, <1>4, FoldExists
  <2> HIDE DEF Fold
  <2> QED
    BY <2>1
<1> HIDE DEF h, Fold
<1>6. PICK f : Steps("match", s, first, n, f) /\ h[1 .. n] = f[n]
  <2>1. Folded("match", s, first, n, h)
    BY <1>4, <1>5
  <2> HIDE DEF first
  <2> QED
    BY <1>2, <2>1, FoldSteps
<1> DEFINE T == {i \in Nat : i <= n => Matches(s, b + i, f[i])}
<1>7. 0 \in T
  <2>1. f[0] = first
    BY <1>6 DEF Steps
  <2>2. PICK t \in MatchStates : t = first /\ t.last = b /\ t.pat = b /\ t.whole
    <3>1. first \in MatchStates /\ first.last = b /\ first.pat = b /\ first.whole
      BY <1>1 DEF MatchStates
    <3> QED
      BY <3>1
  <2>3. \A o \in 0 .. b - s.start : o = 0
    BY <1>1
  <2>4. PICK P \in Positive : P = t.last - s.start + 1 /\ P = 1
    BY <1>1, <2>2 DEF Positive
  <2>5. 0 % P = 0 /\ (b + 1 - s.start) % P = 0
    BY <1>1, <2>4
  <2>6. Matches(s, b, t)
    <3>1. \A o \in 0 .. b - s.start : s.entries[s.start + o] = s.entries[s.start + (o % P)]
      BY <2>3, <2>5
    <3>2. s.start <= t.pat /\ t.pat <= t.last /\ t.last <= b /\ t.pat = s.start /\ t.pat - s.start = 0
      BY <1>1, <2>2
    <3> QED
      <4>1. GoesRound(s, b, t, P)
        BY <2>2, <2>5, <3>1, <3>2 DEF GoesRound
      <4> QED
        BY <2>4, <4>1 DEF Matches
  <2> QED
    BY <1>1, <2>1, <2>2, <2>6
<1>8. ASSUME NEW i \in Nat, i \in T PROVE i + 1 \in T
  <2> SUFFICES ASSUME i + 1 <= n PROVE Matches(s, b + (i + 1), f[i + 1])
    OBVIOUS
  <2>1. i + 1 \in 1 .. n /\ (i + 1) - 1 = i /\ i <= n
    BY <1>2
  <2>2. f[i + 1] = MatchEntry(s, f[i], s.start + (i + 1))
    BY <1>6, <2>1 DEF Steps, FoldStep
  <2>3. Matches(s, b + i, f[i]) /\ b + i \in Nat /\ s.start <= b + i /\ s.start > 0
    BY <1>1, <1>8, <2>1
  <2>4. Matches(s, (b + i) + 1, MatchEntry(s, f[i], (b + i) + 1))
    BY <2>3, MatchEntryStep
  <2>5. (b + i) + 1 = b + (i + 1) /\ s.start + (i + 1) = b + (i + 1)
    BY <1>1
  <2> QED
    BY <2>2, <2>4, <2>5
<1>9. Matches(s, b + n, r)
  <2> HIDE DEF T
  <2>1. n \in T
    BY <1>2, <1>7, <1>8, UpTo
  <2>2. r = f[n]
    BY <1>2, <1>3, <1>6
  <2> QED
    BY <1>2, <2>1, <2>2 DEF T
<1> DEFINE L == Len(E)
<1>10. b + n = L /\ L \in Nat
  BY <1>1 DEF n
<1> HIDE DEF L
<1>11. PICK l \in Nat, p \in Nat : l = r.last /\ p = r.pat
  BY <1>9 DEF Matches, MatchStates
<1>12. /\ b <= p /\ p <= l /\ l <= L
       /\ \A o \in 0 .. L - b : E[b + o] = E[b + (o % (l - b + 1))]
       /\ (L + 1 - b) % (l - b + 1) = p - b
       /\ r.whole => p = b
  BY <1>1, <1>9, <1>10, <1>11 DEF Matches, GoesRound
<1>13. PICK K \in Nat : K = L - b + 1 /\ K > 0
  BY <1>1, <1>10 DEF L
<1>14. CASE r.whole
  <2>1. PICK P \in Positive : P = l - b + 1
    <3>1. l - b + 1 \in Positive
      BY <1>12 DEF Positive
    <3> QED
      BY <3>1
  <2>2. K % P = 0
    BY <1>10, <1>12, <1>13, <1>14, <2>1
  <2>3. K \div P \in Nat /\ K = P * (K \div P) + (K % P)
    BY DivType
  <2>4. PICK k \in Nat : k = K \div P /\ P * k \in Nat
    BY <2>3, ProductType DEF Positive
  <2>5. K = P * k
    BY <2>2, <2>3, <2>4
  <2> QED
    <3>1. PeriodicEnd(s) = l /\ s.start = b /\ s.entries = E /\ Len(s.entries) - s.start + 1 = K
          /\ l - s.start + 1 = P /\ l \in s.start .. Len(s.entries) /\ L - b = K - 1
      BY <1>1, <1>3, <1>10, <1>11, <1>12, <1>13, <1>14, <2>1 DEF L
    <3>2. \A o \in 0 .. K - 1 : E[b + o] = E[b + (o % P)]
      BY <1>12, <2>1, <3>1
    <3> QED
      <4>1. Repeated(s, l, P, K, k)
        BY <2>4, <2>5, <3>1, <3>2 DEF Repeated
      <4> QED
        BY <3>1, <4>1 DEF Pattern
<1>15. CASE ~r.whole
  <2>1. \A o \in 0 .. K - 1 : o % K = o
    <3> TAKE o \in 0 .. K - 1
    <3>1. K \in Positive /\ o \in Nat /\ o < K
      BY <1>13 DEF Positive
    <3> QED
      BY <3>1, SmallResidue
  <2>2. K = K * 1 /\ 1 \in Nat
    OBVIOUS
  <2>3. PeriodicEnd(s) = Len(s.entries) /\ s.start = b /\ s.entries = E /\ Len(s.entries) - s.start + 1 = K
        /\ Len(s.entries) \in s.start .. Len(s.entries)
    BY <1>1, <1>3, <1>13, <1>15 DEF L
  <2>4. \A o \in 0 .. K - 1 : E[b + o] = E[b + (o % K)]
    BY <2>1
  <2> QED
    <3>1. Repeated(s, Len(s.entries), K, K, 1)
      BY <2>2, <2>3, <2>4 DEF Repeated
    <3> QED
      BY <2>3, <3>1 DEF Pattern
<1> QED
  BY <1>14, <1>15

(* The m * P entries before entry b go round the pattern of the P entries  *)
(* b .. last, and end with its end; before them are the first T entries.   *)
TurnsBefore(E, b, P, last, m, T) ==
    /\ T = b - 1 - P * m
    /\ P * m <= b - 1
    /\ \A i \in 1 .. m * P : E[b - i] = E[last - ((i - 1) % P)]

LEMMA TransientEndRepeats ==
    ASSUME NEW S, NEW s \in Schedule(S), NEW b \in Nat, NEW P \in Positive, NEW last \in Nat,
           b = s.start, b > 0, P = last - b + 1
    PROVE  \E m \in Nat : TurnsBefore(s.entries, b, P, last, m, TransientEnd(s, last))
<1> DEFINE len == last - s.start + 1
           repeats == {m \in 0 .. (s.start - 1) \div len :
                         \A i \in 1 .. m * len :
                            s.entries[s.start - i] = s.entries[last - ((i - 1) % len)]}
           most == CHOOSE m \in repeats : \A n \in repeats : n <= m
<1>1. TransientEnd(s, last) = s.start - 1 - len * most
  BY Zenon DEF TransientEnd
<1>2. len = P /\ s.start = b
  OBVIOUS
<1>3. PICK x \in Nat : x = b - 1
  BY SMT
<1>4. PICK q \in Nat, v \in Nat : q = x \div P /\ v = x % P /\ x = P * q + v /\ P * q \in Nat
  <2>1. x \div P \in Nat /\ x % P \in Nat /\ x = P * (x \div P) + (x % P)
    BY DivType
  <2>2. P * (x \div P) \in Nat
    BY <2>1, ProductType DEF Positive
  <2> QED
    BY <2>1, <2>2
<1> HIDE DEF len
<1>5. repeats = {m \in 0 .. q : \A i \in 1 .. m * P : s.entries[b - i] = s.entries[last - ((i - 1) % P)]}
  BY <1>2, <1>3, <1>4
<1>6. 0 \in repeats
  <2>1. 0 * P = 0 /\ 1 .. 0 = {} /\ 0 \in 0 .. q
    BY DEF Positive
  <2> QED
    BY <1>5, <2>1
<1>7. \E m \in repeats : \A n \in repeats : n <= m
  <2>1. repeats \ {0} \in SUBSET (1 .. q) /\ repeats \in SUBSET (0 .. q)
    BY <1>5
  <2> HIDE DEF repeats
  <2>2. CASE repeats \ {0} = {}
    BY <1>6, <2>1, <2>2
  <2>3. CASE repeats \ {0} # {}
    <3>1. /\ Max(repeats \ {0}) \in repeats \ {0}
          /\ \A y \in repeats \ {0} : y <= Max(repeats \ {0})
      BY <2>1, <2>3, MaxIn
    <3>2. 0 <= Max(repeats \ {0})
      <4>1. PICK y : y = Max(repeats \ {0})
        OBVIOUS
      <4>2. y \in 1 .. q
        BY <2>1, <3>1, <4>1, Zenon
      <4> QED
        BY <4>1, <4>2
    <3>3. \A y \in repeats : y <= Max(repeats \ {0})
      BY <3>1, <3>2
    <3> QED
      BY <3>1, <3>3
  <2> QED
    BY <2>2, <2>3
<1>8. most \in repeats
  <2> HIDE DEF repeats
  <2> QED
    BY <1>7
<1> HIDE DEF most
<1>9. PICK m \in Nat : m = most /\ m <= q
  BY <1>5, <1>8
<1>10. P * m <= P * q /\ P * m \in Nat
  BY <1>9, ProductOrder, ProductType DEF Positive
<1>11. P * m <= b - 1
  BY <1>3, <1>4, <1>10
<1>12. \A i \in 1 .. m * P : s.entries[b - i] = s.entries[last - ((i - 1) % P)]
  BY <1>5, <1>8, <1>9
<1>13. TransientEnd(s, last) = b - 1 - P * m
  BY <1>1, <1>2, <1>9
<1> QED
  BY <1>11, <1>12, <1>13 DEF TurnsBefore

(* From the end of the transient part on both schedules go round the       *)
(* pattern.                                                                *)
LEMMA RepeatsForward ==
    ASSUME NEW E, NEW b \in Nat, NEW P \in Positive, NEW last \in Nat, NEW m \in Nat, NEW T \in Nat,
           P = last - b + 1, TurnsBefore(E, b, P, last, m, T), NEW o \in Nat, o < P * m
    PROVE  E[T + 1 + o] = E[b + (o % P)]
<1>0. /\ T = b - 1 - P * m
      /\ \A i \in 1 .. m * P : E[b - i] = E[last - ((i - 1) % P)]
  BY DEF TurnsBefore
<1>1. PICK u \in Nat, v \in Nat : u = o \div P /\ v = o % P /\ v < P /\ o = P * u + v
  <2>1. o \div P \in Nat /\ o % P \in Nat /\ o % P < P /\ o = P * (o \div P) + (o % P)
    BY DivType
  <2> QED
    BY <2>1
<1>2. PICK p \in Nat : p = P /\ p > 0
  BY DEF Positive
<1>3. P * m \in Nat /\ P * u \in Nat /\ m * P = P * m
  BY <1>2, ProductType
<1>4. u < m
  <2> SUFFICES ASSUME m <= u PROVE FALSE
    OBVIOUS
  <2>1. P * m <= P * u
    BY <1>2, ProductOrder
  <2> QED
    BY <1>1, <1>3, <2>1
<1>5. PICK w \in Nat : w = m - (u + 1)
  BY <1>4
<1>6. P * w = P * m - P * u - P /\ P * w \in Nat
  <2>1. w + (u + 1) = m /\ u + 1 \in Int
    BY <1>4, <1>5
  <2>2. P * (w + (u + 1)) = P * w + P * (u + 1)
    BY <1>2, <2>1, Distribute
  <2>3. P * (u + 1) = P * u + P
    BY <1>2, OneMore
  <2>4. P * w \in Nat
    BY <1>2, ProductType
  <2>5. P * m = P * w + P * (u + 1)
    BY <2>1, <2>2
  <2>6. PICK k, j, i : k = P * w /\ j = P * u /\ i = P * m
    OBVIOUS
  <2>7. i = k + (j + p) /\ k \in Nat /\ j \in Nat /\ i \in Nat
    BY <1>2, <1>3, <2>3, <2>4, <2>5, <2>6
  <2>8. k = i - j - p
    BY <1>2, <2>7
  <2> QED
    BY <1>2, <2>4, <2>6, <2>8
<1>7. PICK i \in Nat : i = P * m - o /\ i \in 1 .. m * P
  <2>1. P * m - o \in Nat /\ P * m - o \in 1 .. m * P
    BY <1>3
  <2> QED
    BY <2>1
<1>8. PICK y \in Nat : y = i - 1 /\ y = P * w + (P - 1 - v)
  <2>1. i - 1 \in Nat /\ i - 1 = P * w + (P - 1 - v)
    BY <1>1, <1>2, <1>3, <1>6, <1>7
  <2> QED
    BY <2>1
<1>9. y % P = P - 1 - v
  <2>1. PICK z \in Nat : z = P - 1 - v /\ z < P
    <3>1. P - 1 - v \in Nat /\ P - 1 - v < P
      BY <1>1, <1>2
    <3> QED
      BY <3>1
  <2>2. y = P * w + z
    BY <1>8, <2>1
  <2>3. y % P = z % P
    <3>1. PICK k \in Nat : k = P * w
      BY <1>6
    <3>2. y = z + P * w
      BY <2>1, <2>2, <3>1
    <3> QED
      BY <3>2, TurnsMore, Zenon
  <2>4. z % P = z
    BY <2>1, SmallResidue
  <2> QED
    BY <2>1, <2>3, <2>4
<1>10. E[b - i] = E[last - (y % P)]
  BY <1>0, <1>7, <1>8
<1>11. b - i = T + 1 + o /\ last - (y % P) = b + v
  BY <1>0, <1>1, <1>2, <1>3, <1>7, <1>9
<1> QED
  BY <1>1, <1>10, <1>11

LEMMA Joined ==
    ASSUME NEW S, NEW X \in Seq(S), NEW Y \in Seq(S)
    PROVE  /\ X \o Y \in Seq(S)
           /\ Len(X \o Y) = Len(X) + Len(Y)
           /\ \A i \in 1 .. Len(X) + Len(Y) : (X \o Y)[i] = IF i <= Len(X) THEN X[i] ELSE Y[i - Len(X)]
OBVIOUS

(* Minimizing a static order keeps the sequence of firings it stands for,  *)
(* for every schedule with a periodic part, and makes it no longer: a      *)
(* pattern that is cut off by the end of the periodic part is not taken,   *)
(* and the transient part loses whole repetitions only.                    *)
THEOREM MinimizedSequence ==
    ASSUME NEW S, NEW s \in Schedule(S), s.start \in 1 .. Len(s.entries)
    PROVE  /\ Len(minimize(s).entries) <= Len(s.entries)
           /\ \A n \in Nat \ {0} : Firing(minimize(s), n) = Firing(s, n)
<1>1. PICK b \in Nat, E \in Seq(S) : b = s.start /\ b > 0 /\ b <= Len(E) /\ E = s.entries
  BY DEF Schedule
<1>2. PICK L \in Nat : L = Len(E) /\ b <= L
  BY <1>1
<1>3. PICK last \in Nat : last = PeriodicEnd(s) /\ last \in b .. L /\ Pattern(s, last)
  <2>1. Pattern(s, PeriodicEnd(s))
    BY PeriodicEndPattern
  <2>2. PeriodicEnd(s) \in b .. L
    BY <1>1, <1>2, <2>1 DEF Pattern, Repeated
  <2> QED
    BY <1>1, <2>1, <2>2
<1>4. PICK P \in Positive : P = last - b + 1
  <2>1. last - b + 1 \in Positive
    BY <1>3 DEF Positive
  <2> QED
    BY <2>1
<1>5. PICK K \in Positive : K = L - b + 1
  <2>1. L - b + 1 \in Positive
    BY <1>2 DEF Positive
  <2> QED
    BY <2>1
<1>6. PICK k \in Nat : K = P * k /\ \A o \in 0 .. K - 1 : E[b + o] = E[b + (o % P)]
  <2>1. PICK k : Repeated(s, last, last - s.start + 1, Len(s.entries) - s.start + 1, k)
    BY <1>3 DEF Pattern
  <2>2. Repeated(s, last, P, K, k)
    BY <1>1, <1>2, <1>4, <1>5, <2>1
  <2> QED
    BY <1>1, <2>2 DEF Repeated
<1>7. PICK m \in Nat : TurnsBefore(E, b, P, last, m, TransientEnd(s, last))
  <2>1. b = s.start /\ b > 0 /\ E = s.entries /\ P = last - b + 1
    BY <1>1, <1>4
  <2>2. \E m \in Nat : TurnsBefore(s.entries, b, P, last, m, TransientEnd(s, last))
    BY <2>1, TransientEndRepeats
  <2> QED
    BY <2>1, <2>2, Zenon
<1>8. PICK M \in Nat, T \in Nat : M = P * m /\ M <= b - 1 /\ T = b - 1 - M /\ T = TransientEnd(s, last)
  <2>1. P * m \in Nat
    BY ProductType DEF Positive
  <2>2. TransientEnd(s, last) = b - 1 - P * m /\ P * m <= b - 1
    BY <1>7 DEF TurnsBefore
  <2>3. b - 1 - P * m \in Nat
    BY <1>1, <2>1, <2>2
  <2> QED
    BY <2>1, <2>2, <2>3
<1>9. PICK F \in Seq(S) :
         /\ minimize(s) = [entries |-> F, start |-> T + 1]
         /\ Len(F) = T + P
         /\ \A i \in 1 .. T : F[i] = E[i]
         /\ \A o \in 0 .. P - 1 : F[T + 1 + o] = E[b + o]
  <2> DEFINE X == SubSeq(E, 1, T)
             Y == SubSeq(E, b, last)
  <2>1. minimize(s) = [entries |-> X \o Y, start |-> T + 1]
    <3>1. s.entries # <<>>
      BY <1>1
    <3> QED
      BY <1>1, <1>3, <1>8, <3>1 DEF minimize
  <2>2. X \in Seq(S) /\ Len(X) = T /\ \A i \in 1 .. T : X[i] = E[i]
    <3>1. T <= Len(E)
      BY <1>1, <1>2, <1>8
    <3> QED
      BY <3>1
  <2>3. Y \in Seq(S) /\ Len(Y) = P /\ \A o \in 0 .. P - 1 : Y[o + 1] = E[b + o]
    <3>1. last <= Len(E) /\ b >= 1 /\ b <= last + 1
      BY <1>1, <1>2, <1>3
    <3> QED
      BY <1>1, <1>4, <3>1
  <2> HIDE DEF X, Y
  <2>4. PICK F \in Seq(S) :
          /\ F = X \o Y
          /\ Len(F) = Len(X) + Len(Y)
          /\ \A i \in 1 .. Len(X) + Len(Y) : F[i] = IF i <= Len(X) THEN X[i] ELSE Y[i - Len(X)]
    <3>1. X \in Seq(S) /\ Y \in Seq(S)
      BY <2>2, <2>3
    <3>2. PICK F : F = X \o Y
      OBVIOUS
    <3>3. /\ F \in Seq(S)
          /\ Len(F) = Len(X) + Len(Y)
          /\ \A i \in 1 .. Len(X) + Len(Y) : F[i] = IF i <= Len(X) THEN X[i] ELSE Y[i - Len(X)]
      BY <3>1, <3>2, Joined
    <3> QED
      BY <3>2, <3>3, Zenon
  <2>5. P \in Nat /\ Len(F) = T + P /\ \A i \in 1 .. T + P : F[i] = IF i <= T THEN X[i] ELSE Y[i - T]
    <3>1. P \in Nat
      BY DEF Positive
    <3>2. Len(X) = T /\ Len(Y) = P
      BY <2>2, <2>3
    <3> QED
      BY <2>4, <3>1, <3>2
  <2>6. \A i \in 1 .. T : F[i] = E[i]
    <3> TAKE i \in 1 .. T
    <3>1. i \in 1 .. T + P /\ i <= T
      BY <2>5
    <3>2. F[i] = X[i]
      BY <2>5, <3>1
    <3> QED
      BY <2>2, <3>2
  <2>7. ASSUME NEW o \in 0 .. P - 1 PROVE F[T + 1 + o] = E[b + o]
    <3>1. T + 1 + o \in 1 .. T + P /\ ~(T + 1 + o <= T) /\ (T + 1 + o) - T = o + 1
      BY <2>5
    <3> QED
      BY <2>3, <2>5, <3>1
  <2> QED
    BY <2>1, <2>4, <2>5, <2>6, <2>7
<1>10. P \in Nat /\ P > 0 /\ K \in Nat /\ K > 0
  BY DEF Positive
<1>11. ASSUME NEW o \in Nat PROVE Firing(minimize(s), T + 1 + o) = E[b + (o % P)]
  <2>1. minimize(s).entries = F /\ minimize(s).start = T + 1
    BY <1>9
  <2>2. o % P \in 0 .. P - 1
    BY <1>10, DivType
  <2>3. CASE o < P
    <3>1. T + 1 + o <= Len(F) /\ o \in 0 .. P - 1 /\ o % P = o
      BY <1>9, <1>10, <2>3, SmallResidue
    <3> QED
      BY <1>9, <2>1, <3>1 DEF Firing
  <2>4. CASE ~(o < P)
    <3>1. ~(T + 1 + o <= Len(F)) /\ T + 1 + o - (T + 1) = o /\ Len(F) - (T + 1) + 1 = P
      BY <1>9, <1>10, <2>4
    <3>2. Firing(minimize(s), T + 1 + o) = F[T + 1 + (o % P)]
      BY <2>1, <3>1 DEF Firing
    <3> QED
      BY <1>9, <2>2, <3>2
  <2> QED
    BY <2>3, <2>4
<1>12. ASSUME NEW o \in Nat PROVE Firing(s, T + 1 + o) = E[b + (o % P)]
  <2>1. CASE o < M
    <3>1. T + 1 + o <= L
      BY <1>2, <1>8, <2>1
    <3>2. E[T + 1 + o] = E[b + (o % P)]
      <4>1. P = last - b + 1 /\ o < P * m
        BY <1>4, <1>8, <2>1
      <4>2. TurnsBefore(E, b, P, last, m, T)
        BY <1>7, <1>8
      <4> QED
        BY <4>1, <4>2, RepeatsForward
    <3> QED
      BY <1>1, <1>2, <3>1, <3>2 DEF Firing
  <2>2. ASSUME ~(o < M) PROVE Firing(s, T + 1 + o) = E[b + (o % P)]
    <3>1. PICK x \in Nat : x = o - M /\ o = x + M /\ T + 1 + o = b + x
      <4>1. o - M \in Nat /\ o = (o - M) + M /\ T + 1 + o = b + (o - M)
        BY <1>8, <2>2
      <4> QED
        BY <4>1
    <3>2. o % P = x % P
      <4>1. o = x + P * m
        BY <1>8, <3>1
      <4> QED
        BY <4>1, TurnsMore, Zenon
    <3>3. CASE b + x <= L
      <4>1. x \in 0 .. K - 1
        BY <1>5, <3>3
      <4>2. E[b + x] = E[b + (x % P)]
        BY <1>6, <4>1
      <4> QED
        BY <1>1, <1>2, <3>1, <3>2, <3>3, <4>2 DEF Firing
    <3>4. CASE ~(b + x <= L)
      <4>1. PICK q \in Nat, y \in Nat : q = x \div K /\ y = x % K /\ y < K /\ x = K * q + y
        <5>1. x \div K \in Nat /\ x % K \in Nat /\ x % K < K /\ x = K * (x \div K) + (x % K)
          BY DivType
        <5> QED
          BY <5>1
      <4>2. Firing(s, b + x) = E[b + y]
        <5>1. b + x - b = x /\ L - b + 1 = K
          BY <1>5
        <5>2. s.start = b /\ s.entries = E /\ Len(E) = L
          BY <1>1, <1>2
        <5>3. ~(b + x <= Len(s.entries))
          BY <3>4, <5>2
        <5>4. Firing(s, b + x)
                = s.entries[s.start + (((b + x) - s.start) % (Len(s.entries) - s.start + 1))]
          BY <5>3, Zenon DEF Firing
        <5>5. (b + x) - s.start = x /\ Len(s.entries) - s.start + 1 = K
          BY <5>1, <5>2
        <5>6. Firing(s, b + x) = s.entries[s.start + y]
          BY <4>1, <5>4, <5>5
        <5> QED
          BY <5>2, <5>6
      <4>3. E[b + y] = E[b + (y % P)]
        <5>1. y \in 0 .. K - 1
          BY <1>10, <4>1
        <5> QED
          BY <1>6, <5>1, Zenon
      <4>4. x % P = y % P
        <5>1. PICK n \in Nat : n = k * q
          BY ProductType
        <5>2. K * q = P * n
          BY <1>6, <1>10, <5>1
        <5>3. x = y + P * n
          <6>1. PICK z \in Nat : z = P * n
            BY <1>10, ProductType
          <6> QED
            BY <4>1, <5>2, <6>1
        <5> QED
          BY <5>3, TurnsMore
      <4> QED
        BY <3>1, <3>2, <4>2, <4>3, <4>4
    <3> QED
      BY <3>3, <3>4
  <2> QED
    BY <2>1, <2>2
<1>13. ASSUME NEW n \in Nat \ {0} PROVE Firing(minimize(s), n) = Firing(s, n)
  <2>1. CASE n <= T
    <3>1. n <= Len(F) /\ n <= L /\ n \in 1 .. T
      BY <1>2, <1>8, <1>9, <1>10, <2>1
    <3>2. minimize(s).entries = F
      BY <1>9
    <3> QED
      BY <1>1, <1>2, <1>9, <3>1, <3>2 DEF Firing
  <2>2. CASE ~(n <= T)
    <3>1. PICK o \in Nat : n = T + 1 + o
      <4>1. n - T - 1 \in Nat /\ n = T + 1 + (n - T - 1)
        BY <2>2
      <4> QED
        BY <4>1
    <3> QED
      BY <1>11, <1>12, <3>1
  <2> QED
    BY <2>1, <2>2
<1>14. Len(minimize(s).entries) <= Len(s.entries)
  <2>1. Len(F) = T + P /\ T <= b - 1 /\ P = last - b + 1 /\ last <= L
    BY <1>3, <1>4, <1>8, <1>9
  <2>2. Len(F) <= L
    BY <1>10, <2>1
  <2>3. minimize(s).entries = F /\ L = Len(s.entries)
    BY <1>1, <1>2, <1>9
  <2> QED
    BY <2>2, <2>3
<1> QED
  BY <1>13, <1>14
=============================================================================
