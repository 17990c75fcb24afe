------------------------ MODULE TileAllocation_proofs ------------------------
(***************************************************************************)
(* Proofs about the allocation of tiles: the claims of an attempt, and the *)
(* search for time slices.                                                 *)
(***************************************************************************)
EXTENDS TileAllocation, FiniteSetTheorems, WellFoundedInduction, TLAPS

(* Induction on numbers and on finite sets, for a set in place of a        *)
(* predicate.                                                              *)
LEMMA NumberInduction ==
    ASSUME NEW S, 0 \in S, \A n \in Nat : n \in S => n + 1 \in S
    PROVE  Nat \subseteq S
<1> DEFINE bad == Nat \ S
<1> SUFFICES ASSUME bad # {} PROVE FALSE
  OBVIOUS
<1>1. IsWellFoundedOn(OpToRel(<, Nat), Nat)
  BY NatLessThanWellFounded
<1>2. PICK n \in bad : \A m \in bad : <<m, n>> \notin OpToRel(<, Nat)
  BY <1>1, WFMin
<1>3. n # 0 /\ n - 1 \in Nat /\ n - 1 < n /\ (n - 1) + 1 = n
  OBVIOUS
<1>4. n - 1 \in S
  BY <1>2, <1>3 DEF OpToRel
<1> QED
  BY <1>3, <1>4

LEMMA SetInduction ==
    ASSUME NEW D, IsFiniteSet(D), NEW S, {} \in S,
           \A T \in SUBSET D : \A x \in T : T \ {x} \in S => T \in S
    PROVE  SUBSET D \subseteq S
<1> DEFINE bad == (SUBSET D) \ S
<1> SUFFICES ASSUME bad # {} PROVE FALSE
  OBVIOUS
<1>1. IsWellFoundedOn(StrictSubsetOrdering(D), SUBSET D)
  BY FS_StrictSubsetOrderingWellFounded, FS_FiniteSubsetsOfFinite
<1>2. PICK T \in bad : \A U \in bad : <<U, T>> \notin StrictSubsetOrdering(D)
  <2>1. bad \subseteq SUBSET D /\ bad # {}
    OBVIOUS
  <2> HIDE DEF bad
  <2> QED
    BY <1>1, <2>1, WFMin
<1>3. PICK x \in T : TRUE
  OBVIOUS
<1>4. <<T \ {x}, T>> \in StrictSubsetOrdering(D)
  BY <1>3 DEF StrictSubsetOrdering
<1>5. T \ {x} \in S
  BY <1>2, <1>4
<1> QED
  BY <1>3, <1>5

(* The same with the hypothesis for all smaller sets by one element        *)
LEMMA SetInductionAll ==
    ASSUME NEW D, IsFiniteSet(D), NEW S, {} \in S,
           \A T \in SUBSET D : (\A x \in T : T \ {x} \in S) => T \in S
    PROVE  SUBSET D \subseteq S
<1> DEFINE bad == (SUBSET D) \ S
<1> SUFFICES ASSUME bad # {} PROVE FALSE
  OBVIOUS
<1>1. IsWellFoundedOn(StrictSubsetOrdering(D), SUBSET D)
  <2> HIDE DEF bad
  <2> QED
    BY FS_StrictSubsetOrderingWellFounded, FS_FiniteSubsetsOfFinite
<1>2. PICK T \in bad : \A U \in bad : <<U, T>> \notin StrictSubsetOrdering(D)
  <2>1. bad \subseteq SUBSET D /\ bad # {}
    OBVIOUS
  <2> HIDE DEF bad
  <2> QED
    BY <1>1, <2>1, WFMin
<1>3. T \in SUBSET D /\ T \notin S
  OBVIOUS
<1>4. PICK x \in T : T \ {x} \notin S
  BY <1>3
<1>5. <<T \ {x}, T>> \in StrictSubsetOrdering(D)
  BY <1>3, <1>4 DEF StrictSubsetOrdering
<1>6. T \ {x} \in bad
  BY <1>3, <1>4
<1> QED
  BY <1>2, <1>5, <1>6

Pick(T) == CHOOSE x \in T : TRUE

(* it gives, for the subsets of D, what a fold of f computes.              *)
IsFold(it, D, f, op) ==
    it = [T \in SUBSET D |-> IF T = {} THEN 0 ELSE op[f[Pick(T)], it[T \ {Pick(T)}]]]

LEMMA FoldExists ==
    ASSUME NEW D, IsFiniteSet(D), NEW f, \A x \in D : f[x] \in Nat, NEW op \in [Nat \X Nat -> Nat]
    PROVE  \E it : IsFold(it, D, f, op)
<1> DEFINE Body(it, T) == IF T = {} THEN 0 ELSE op[f[Pick(T)], it[T \ {Pick(T)}]]
           Small(n) == {T \in SUBSET D : Cardinality(T) <= n}
           S == {n \in Nat : \E it \in [SUBSET D -> Nat] : \A T \in Small(n) : it[T] = Body(it, T)}
<1>1. \A T \in SUBSET D : T # {} => /\ Pick(T) \in T /\ f[Pick(T)] \in Nat
                                    /\ T \ {Pick(T)} \in SUBSET D
                                    /\ Cardinality(T) \in Nat /\ Cardinality(T) # 0
                                    /\ Cardinality(T \ {Pick(T)}) = Cardinality(T) - 1
  <2> SUFFICES ASSUME NEW T \in SUBSET D, T # {}
               PROVE  /\ Pick(T) \in T /\ f[Pick(T)] \in Nat
                      /\ T \ {Pick(T)} \in SUBSET D
                      /\ Cardinality(T) \in Nat /\ Cardinality(T) # 0
                      /\ Cardinality(T \ {Pick(T)}) = Cardinality(T) - 1
    OBVIOUS
  <2>1. Pick(T) \in T
    BY DEF Pick
  <2>2. IsFiniteSet(T)
    BY FS_Subset
  <2> QED
    BY <2>1, <2>2, FS_CardinalityType, FS_EmptySet, FS_RemoveElement
<1>2. 0 \in S
  <2> DEFINE it == [T \in SUBSET D |-> 0]
  <2>1. it \in [SUBSET D -> Nat]
    OBVIOUS
  <2>2. ASSUME NEW T \in Small(0) PROVE T = {}
    <3>1. T \in SUBSET D /\ Cardinality(T) <= 0
      OBVIOUS
    <3>2. T # {} => Cardinality(T) \in Nat /\ Cardinality(T) # 0
      BY <1>1, <3>1
    <3> QED
      BY <3>1, <3>2
  <2>3. \A T \in Small(0) : it[T] = Body(it, T)
    BY <2>2
  <2> QED
    BY <2>1, <2>3
<1>3. ASSUME NEW n \in Nat, n \in S PROVE n + 1 \in S
  <2>1. PICK it \in [SUBSET D -> Nat] : \A T \in Small(n) : it[T] = Body(it, T)
    BY <1>3
  <2> DEFINE ext == [T \in SUBSET D |-> IF T \in Small(n) THEN it[T]
                                        ELSE IF T = {} THEN 0 ELSE op[f[Pick(T)], it[T \ {Pick(T)}]]]
  <2>2. ext \in [SUBSET D -> Nat]
    BY <1>1
  <2>3. ASSUME NEW T \in Small(n + 1) PROVE ext[T] = Body(ext, T)
    <3>1. T # {} => T \ {Pick(T)} \in Small(n)
      BY <1>1, <2>3
    <3>2. T # {} => ext[T \ {Pick(T)}] = it[T \ {Pick(T)}]
      BY <3>1
    <3>3. ext[T] = Body(it, T)
      BY <2>1
    <3> QED
      BY <3>2, <3>3
  <2> HIDE DEF Small, Body, ext
  <2> QED
    BY <2>2, <2>3
<1>4. Nat \subseteq S
  <2> HIDE DEF S
  <2> QED
    BY <1>2, <1>3, NumberInduction
<1>5. Cardinality(D) \in Nat /\ \A T \in SUBSET D : T \in Small(Cardinality(D))
  BY FS_CardinalityType, FS_Subset
<1>6. PICK it \in [SUBSET D -> Nat] : \A T \in Small(Cardinality(D)) : it[T] = Body(it, T)
  BY <1>4, <1>5
<1>7. it = [T \in SUBSET D |-> it[T]]
  BY <1>6
<1>8. it = [T \in SUBSET D |-> Body(it, T)]
  BY <1>5, <1>6, <1>7
<1> QED
  BY <1>8 DEF IsFold

(* Two folds of values that agree agree.                                   *)
LEMMA FoldsAgree ==
    ASSUME NEW D, IsFiniteSet(D), NEW E \in SUBSET D, NEW f, NEW h, \A x \in E : f[x] = h[x],
           NEW op, NEW i, NEW j, IsFold(i, D, f, op), IsFold(j, E, h, op)
    PROVE  \A T \in SUBSET E : i[T] = j[T]
<1> DEFINE S == {T \in SUBSET E : i[T] = j[T]}
<1>1. IsFiniteSet(E)
  BY FS_Subset
<1> DEFINE bad == (SUBSET E) \ S
<1> SUFFICES ASSUME bad # {} PROVE FALSE
  OBVIOUS
<1>2. IsWellFoundedOn(StrictSubsetOrdering(E), SUBSET E)
  BY <1>1, FS_StrictSubsetOrderingWellFounded, FS_FiniteSubsetsOfFinite
<1>3. PICK T \in bad : \A U \in bad : <<U, T>> \notin StrictSubsetOrdering(E)
  BY <1>2, WFMin
<1>4. T \in SUBSET E /\ T \in SUBSET D
  OBVIOUS
<1>5. /\ i[T] = IF T = {} THEN 0 ELSE op[f[Pick(T)], i[T \ {Pick(T)}]]
      /\ j[T] = IF T = {} THEN 0 ELSE op[h[Pick(T)], j[T \ {Pick(T)}]]
  BY <1>4 DEF IsFold
<1>6. T # {}
  BY <1>3, <1>5
<1>7. Pick(T) \in T
  BY <1>6 DEF Pick
<1>8. <<T \ {Pick(T)}, T>> \in StrictSubsetOrdering(E)
  BY <1>4, <1>7 DEF StrictSubsetOrdering
<1>9. i[T \ {Pick(T)}] = j[T \ {Pick(T)}]
  BY <1>3, <1>4, <1>8
<1> QED
  BY <1>3, <1>4, <1>5, <1>7, <1>9

-----------------------------------------------------------------------------
(* Sums over a finite set                                                  *)
Plus == [p \in Nat \X Nat |-> p[1] + p[2]]
SumOf(f, T) == FoldFunctionOnSet(+, 0, f, T)
Numbers(f, T) == IsFiniteSet(T) /\ \A x \in T : f[x] \in Nat

(* The fold that the sum over T takes                                      *)
LEMMA SumFold ==
    ASSUME NEW f, NEW T, Numbers(f, T)
    PROVE  \E it : /\ IsFold(it, T, f, Plus) /\ SumOf(f, T) = it[T]
                   /\ \A U \in SUBSET T : it[U] \in Nat
<1> DEFINE Fold(it) == it = [U \in SUBSET T |-> IF U = {} THEN 0
                                  ELSE f[Pick(U)] + it[U \ {Pick(U)}]]
           i == CHOOSE it : Fold(it)
<1>1. SumOf(f, T) = i[T]
  BY DEF SumOf, FoldFunctionOnSet, MapThenFoldSet, Pick
<1>2. PICK j : IsFold(j, T, f, Plus)
  <2>1. Plus \in [Nat \X Nat -> Nat]
    BY DEF Plus
  <2> QED
    BY <2>1, FoldExists DEF Numbers
<1>3. \A U \in SUBSET T : U # {} => Pick(U) \in U /\ Pick(U) \in T /\ U \ {Pick(U)} \in SUBSET T
  BY DEF Pick
<1>4. \A U \in SUBSET T : j[U] \in Nat
  <2> DEFINE S == {U \in SUBSET T : j[U] \in Nat}
  <2> SUFFICES ASSUME (SUBSET T) \ S # {} PROVE FALSE
    OBVIOUS
  <2> DEFINE bad == (SUBSET T) \ S
  <2>1. IsWellFoundedOn(StrictSubsetOrdering(T), SUBSET T)
    BY FS_StrictSubsetOrderingWellFounded, FS_FiniteSubsetsOfFinite DEF Numbers
  <2>2. PICK U \in bad : \A V \in bad : <<V, U>> \notin StrictSubsetOrdering(T)
    <3>1. bad \subseteq SUBSET T /\ bad # {}
      OBVIOUS
    <3> HIDE DEF bad
    <3> QED
      BY <2>1, <3>1, WFMin
  <2>3. U \in SUBSET T /\ j[U] \notin Nat
    OBVIOUS
  <2>4. j[U] = IF U = {} THEN 0 ELSE Plus[f[Pick(U)], j[U \ {Pick(U)}]]
    BY <2>3, <1>2 DEF IsFold
  <2>5. U # {}
    <3>1. U = {} => j[U] = 0
      BY <2>4, Zenon
    <3> QED
      BY <2>3, <3>1
  <2>6. <<U \ {Pick(U)}, U>> \in StrictSubsetOrdering(T)
    BY <1>3, <2>3, <2>5 DEF StrictSubsetOrdering
  <2>7. j[U \ {Pick(U)}] \in Nat
    BY <1>3, <2>2, <2>3, <2>5, <2>6
  <2>8. f[Pick(U)] \in Nat
    BY <1>3, <2>3, <2>5 DEF Numbers
  <2>9. Plus[f[Pick(U)], j[U \ {Pick(U)}]] \in Nat
    <3>1. PICK a \in Nat : a = f[Pick(U)]
      BY <2>8
    <3>2. PICK b \in Nat : b = j[U \ {Pick(U)}]
      BY <2>7
    <3>3. Plus[a, b] = a + b
      BY DEF Plus
    <3>4. a + b \in Nat
      OBVIOUS
    <3>5. Plus[a, b] \in Nat
      BY <3>3, <3>4, Zenon
    <3> QED
      BY <3>1, <3>2, <3>5, Zenon
  <2>10. j[U] = Plus[f[Pick(U)], j[U \ {Pick(U)}]]
    BY <2>4, <2>5, Zenon
  <2> QED
    BY <2>3, <2>9, <2>10, Zenon
<1>5. \A U \in SUBSET T : U # {} =>
          Plus[f[Pick(U)], j[U \ {Pick(U)}]] = f[Pick(U)] + j[U \ {Pick(U)}]
  BY <1>3, <1>4 DEF Plus, Numbers
<1>6. Fold(j)
  <2>1. j = [U \in SUBSET T |-> IF U = {} THEN 0 ELSE Plus[f[Pick(U)], j[U \ {Pick(U)}]]]
    BY <1>2 DEF IsFold
  <2> QED
    BY <1>5, <2>1
<1>7. Fold(i)
  <2> HIDE DEF Fold
  <2> QED
    BY <1>6
<1>8. \A U \in SUBSET T : i[U] = j[U]
  <2> DEFINE S == {U \in SUBSET T : i[U] = j[U]}
             bad == (SUBSET T) \ S
  <2> SUFFICES ASSUME bad # {} PROVE FALSE
    OBVIOUS
  <2>1. IsWellFoundedOn(StrictSubsetOrdering(T), SUBSET T)
    BY FS_StrictSubsetOrderingWellFounded, FS_FiniteSubsetsOfFinite DEF Numbers
  <2>2. PICK U \in bad : \A V \in bad : <<V, U>> \notin StrictSubsetOrdering(T)
    <3>1. bad \subseteq SUBSET T /\ bad # {}
      OBVIOUS
    <3> HIDE DEF bad
    <3> QED
      BY <2>1, <3>1, WFMin
  <2>3. U \in SUBSET T /\ i[U] # j[U]
    OBVIOUS
  <2>4. /\ i[U] = IF U = {} THEN 0 ELSE f[Pick(U)] + i[U \ {Pick(U)}]
        /\ j[U] = IF U = {} THEN 0 ELSE f[Pick(U)] + j[U \ {Pick(U)}]
    <3> HIDE DEF i, bad
    <3> QED
      BY <1>6, <1>7, <2>3
  <2>5. <<U \ {Pick(U)}, U>> \in StrictSubsetOrdering(T)
    BY <1>3, <2>3, <2>4 DEF StrictSubsetOrdering
  <2>6. i[U \ {Pick(U)}] = j[U \ {Pick(U)}]
    BY <1>3, <2>2, <2>3, <2>4, <2>5
  <2> QED
    BY <2>3, <2>4, <2>6
<1>9. i = [U \in SUBSET T |-> i[U]] /\ j = [U \in SUBSET T |-> j[U]]
  <2> HIDE DEF i
  <2> QED
    BY <1>6, <1>7
<1>10. i = j
  <2> HIDE DEF i
  <2> QED
    BY <1>8, <1>9
<1> QED
  BY <1>1, <1>2, <1>4, <1>10

LEMMA SumAgrees ==
    ASSUME NEW f, NEW h, NEW T, Numbers(f, T), \A x \in T : f[x] = h[x]
    PROVE  SumOf(f, T) = SumOf(h, T)
<1>1. Numbers(h, T)
  BY DEF Numbers
<1>2. PICK i : IsFold(i, T, f, Plus) /\ SumOf(f, T) = i[T]
  BY SumFold
<1>3. PICK j : IsFold(j, T, h, Plus) /\ SumOf(h, T) = j[T]
  BY <1>1, SumFold
<1>4. i[T] = j[T]
  BY <1>2, <1>3, FoldsAgree DEF Numbers
<1> QED
  BY <1>2, <1>3, <1>4

LEMMA SumPart ==
    ASSUME NEW f, NEW T, Numbers(f, T), NEW i, IsFold(i, T, f, Plus), NEW U \in SUBSET T
    PROVE  SumOf(f, U) = i[U]
<1>1. Numbers(f, U)
  BY FS_Subset DEF Numbers
<1>2. PICK j : IsFold(j, U, f, Plus) /\ SumOf(f, U) = j[U]
  BY <1>1, SumFold
<1>3. i[U] = j[U]
  BY <1>2, FoldsAgree DEF Numbers
<1> QED
  BY <1>2, <1>3

LEMMA SumEmpty == \A f : SumOf(f, {}) = 0
<1> SUFFICES ASSUME NEW f PROVE SumOf(f, {}) = 0
  OBVIOUS
<1>1. Numbers(f, {})
  BY FS_EmptySet DEF Numbers
<1>2. PICK i : IsFold(i, {}, f, Plus) /\ SumOf(f, {}) = i[{}]
  BY <1>1, SumFold
<1>3. i[{}] = 0
  BY <1>2, Zenon DEF IsFold
<1> QED
  BY <1>2, <1>3

LEMMA SumType ==
    ASSUME NEW f, NEW T, Numbers(f, T)
    PROVE  SumOf(f, T) \in Nat
BY SumFold

(* Any element can be taken out of a sum.                                  *)
LEMMA SumElement ==
    ASSUME NEW f, NEW T, Numbers(f, T), NEW x \in T
    PROVE  SumOf(f, T) = f[x] + SumOf(f, T \ {x})
<1> DEFINE S == {U \in SUBSET T : \A y \in U : SumOf(f, U) = f[y] + SumOf(f, U \ {y})}
           bad == (SUBSET T) \ S
<1>0. SUFFICES ASSUME bad # {} PROVE FALSE
  <2>1. T \in S
    BY <1>0
  <2> QED
    BY <2>1
<1>1. PICK i : IsFold(i, T, f, Plus) /\ \A U \in SUBSET T : i[U] \in Nat
  BY SumFold
<1>2. IsWellFoundedOn(StrictSubsetOrdering(T), SUBSET T)
  BY FS_StrictSubsetOrderingWellFounded, FS_FiniteSubsetsOfFinite DEF Numbers
<1>3. PICK U \in bad : \A V \in bad : <<V, U>> \notin StrictSubsetOrdering(T)
  <2>1. bad \subseteq SUBSET T /\ bad # {}
    BY <1>0
  <2> HIDE DEF bad
  <2> QED
    BY <1>2, <2>1, WFMin
<1>4. U \in SUBSET T
  OBVIOUS
<1>5. PICK y \in U : SumOf(f, U) # f[y] + SumOf(f, U \ {y})
  BY <1>4
<1> DEFINE c == Pick(U)
<1>6. c \in U /\ c \in T /\ y \in T /\ f[c] \in Nat /\ f[y] \in Nat
  BY <1>4, <1>5 DEF Pick, Numbers
<1>7. \A V \in SUBSET T : SumOf(f, V) = i[V] /\ i[V] \in Nat
  BY <1>1, SumPart
<1>8. SumOf(f, U) = f[c] + SumOf(f, U \ {c})
  <2>1. i[U] = Plus[f[c], i[U \ {c}]]
    <3>1. i[U] = IF U = {} THEN 0 ELSE Plus[f[Pick(U)], i[U \ {Pick(U)}]]
      BY <1>1, <1>4 DEF IsFold
    <3> QED
      BY <1>6, <3>1, Zenon
  <2>2. i[U \ {c}] \in Nat /\ SumOf(f, U \ {c}) = i[U \ {c}] /\ SumOf(f, U) = i[U]
    BY <1>4, <1>7
  <2>3. Plus[f[c], i[U \ {c}]] = f[c] + i[U \ {c}]
    BY <1>6, <2>2 DEF Plus
  <2> QED
    BY <2>1, <2>2, <2>3
<1>9. y # c
  BY <1>5, <1>8
<1>10. ASSUME NEW z \in U PROVE U \ {z} \in S
  <2>1. <<U \ {z}, U>> \in StrictSubsetOrdering(T)
    BY <1>4 DEF StrictSubsetOrdering
  <2>2. U \ {z} \notin bad
    BY <1>3, <2>1
  <2>3. U \ {z} \in SUBSET T
    BY <1>4
  <2> QED
    BY <2>2, <2>3
<1>11. SumOf(f, U \ {c}) = f[y] + SumOf(f, (U \ {c}) \ {y})
  BY <1>5, <1>6, <1>9, <1>10
<1>12. SumOf(f, U \ {y}) = f[c] + SumOf(f, (U \ {y}) \ {c})
  BY <1>5, <1>6, <1>9, <1>10
<1>13. (U \ {y}) \ {c} = (U \ {c}) \ {y} /\ SumOf(f, (U \ {c}) \ {y}) \in Nat
  BY <1>4, <1>7
<1> DEFINE r == SumOf(f, (U \ {c}) \ {y})
<1>14. r \in Nat /\ SumOf(f, U \ {y}) = f[c] + r /\ SumOf(f, U) = f[c] + (f[y] + r)
  BY <1>8, <1>11, <1>12, <1>13
<1>15. f[c] + (f[y] + r) = f[y] + (f[c] + r)
  <2> HIDE DEF r, c
  <2> QED
    BY <1>6, <1>14
<1> QED
  BY <1>5, <1>14, <1>15

LEMMA SumAdd ==
    ASSUME NEW f, NEW T, IsFiniteSet(T), NEW x, x \notin T, Numbers(f, T \cup {x})
    PROVE  SumOf(f, T \cup {x}) = f[x] + SumOf(f, T)
<1>1. (T \cup {x}) \ {x} = T
  OBVIOUS
<1> QED
  BY <1>1, SumElement

(* A sum of larger values is larger.                                       *)
LEMMA SumMonotone ==
    ASSUME NEW f, NEW h, NEW T, Numbers(f, T), Numbers(h, T), \A x \in T : f[x] <= h[x]
    PROVE  SumOf(f, T) <= SumOf(h, T)
<1> DEFINE S == {U \in SUBSET T : SumOf(f, U) <= SumOf(h, U)}
<1>1. {} \in S
  BY SumEmpty
<1>2. ASSUME NEW U \in SUBSET T, NEW x \in U, U \ {x} \in S PROVE U \in S
  <2>1. Numbers(f, U) /\ Numbers(h, U) /\ Numbers(f, U \ {x}) /\ Numbers(h, U \ {x})
    BY FS_Subset DEF Numbers
  <2>2. SumOf(f, U) = f[x] + SumOf(f, U \ {x}) /\ SumOf(h, U) = h[x] + SumOf(h, U \ {x})
    BY <2>1, SumElement
  <2>3. SumOf(f, U \ {x}) \in Nat /\ SumOf(h, U \ {x}) \in Nat
    BY <2>1, SumType
  <2>4. f[x] \in Nat /\ h[x] \in Nat /\ f[x] <= h[x]
    BY DEF Numbers
  <2>5. SumOf(f, U \ {x}) <= SumOf(h, U \ {x})
    BY <1>2
  <2> QED
    BY <2>2, <2>3, <2>4, <2>5
<1>3. SUBSET T \subseteq S
  <2> HIDE DEF S
  <2> QED
    BY <1>1, <1>2, SetInduction DEF Numbers
<1>4. T \in S
  BY <1>3
<1> QED
  BY <1>4

-----------------------------------------------------------------------------
(* The total of a function is the sum over its domain.                     *)
LEMMA TotalIsSum == \A f : Total(f) = SumOf(f, DOMAIN f)
BY DEF Total, FoldFunction, SumOf

LEMMA TotalType ==
    ASSUME NEW D, IsFiniteSet(D), NEW f \in [D -> Nat]
    PROVE  Total(f) \in Nat
BY SumType, TotalIsSum DEF Numbers

LEMMA TotalMonotone ==
    ASSUME NEW D, IsFiniteSet(D), NEW f \in [D -> Nat], NEW h \in [D -> Nat],
           \A x \in D : f[x] <= h[x]
    PROVE  Total(f) <= Total(h)
BY SumMonotone, TotalIsSum DEF Numbers

(* A total changes by what one of the values changes.                      *)
LEMMA TotalChange ==
    ASSUME NEW D, IsFiniteSet(D), NEW f \in [D -> Nat], NEW h \in [D -> Nat], NEW x \in D,
           \A y \in D \ {x} : f[y] = h[y]
    PROVE  Total(f) + h[x] = Total(h) + f[x]
<1>1. Numbers(f, D) /\ Numbers(h, D) /\ Numbers(f, D \ {x})
  BY FS_Subset DEF Numbers
<1>2. SumOf(f, D) = f[x] + SumOf(f, D \ {x}) /\ SumOf(h, D) = h[x] + SumOf(h, D \ {x})
  BY <1>1, SumElement
<1>3. SumOf(f, D \ {x}) = SumOf(h, D \ {x}) /\ SumOf(f, D \ {x}) \in Nat
  BY <1>1, SumAgrees, SumType
<1>4. Total(f) = SumOf(f, D) /\ Total(h) = SumOf(h, D)
  BY TotalIsSum
<1> QED
  BY <1>2, <1>3, <1>4

LEMMA TotalZero ==
    ASSUME NEW D, IsFiniteSet(D), NEW f \in [D -> Nat], \A x \in D : f[x] = 0
    PROVE  Total(f) = 0
<1> DEFINE S == {U \in SUBSET D : SumOf(f, U) = 0}
<1>1. {} \in S
  BY SumEmpty
<1>2. ASSUME NEW U \in SUBSET D, NEW x \in U, U \ {x} \in S PROVE U \in S
  <2>1. Numbers(f, U)
    BY FS_Subset DEF Numbers
  <2> QED
    BY <1>2, <2>1, SumElement
<1>3. SUBSET D \subseteq S
  <2> HIDE DEF S
  <2> QED
    BY <1>1, <1>2, SetInduction
<1> QED
  BY <1>3, TotalIsSum

(* Lists                                                                   *)
LEMMA TotalEmpty == Total(<<>>) = 0
<1>1. DOMAIN <<>> = {}
  OBVIOUS
<1> QED
  BY <1>1, TotalIsSum, SumEmpty

LEMMA TotalAppend ==
    ASSUME NEW s \in Seq(Nat), NEW v \in Nat
    PROVE  Append(s, v) \in Seq(Nat) /\ Total(Append(s, v)) = Total(s) + v
<1>1. PICK n \in Nat : n = Len(s)
  OBVIOUS
<1>2. PICK w : w = Append(s, v)
  OBVIOUS
<1>3. s \in [1..n -> Nat] /\ w \in Seq(Nat) /\ Len(w) = n + 1
  BY <1>1, <1>2
<1>4. w[n + 1] = v /\ (\A i \in 1..n : w[i] = s[i]) /\ DOMAIN w = 1..(n + 1)
  BY <1>1, <1>2
<1>5. DOMAIN s = 1..n /\ DOMAIN w = (1..n) \cup {n + 1} /\ n + 1 \notin 1..n
  BY <1>3, <1>4
<1>6. IsFiniteSet(1..n)
  BY FS_Interval
<1>7. IsFiniteSet((1..n) \cup {n + 1})
  BY <1>6, FS_AddElement
<1>8. Numbers(s, 1..n) /\ Numbers(w, (1..n) \cup {n + 1})
  BY <1>3, <1>4, <1>6, <1>7 DEF Numbers
<1>9. SumOf(w, (1..n) \cup {n + 1}) = w[n + 1] + SumOf(w, 1..n)
  BY <1>5, <1>6, <1>8, SumAdd
<1>10. SumOf(s, 1..n) = SumOf(w, 1..n) /\ SumOf(s, 1..n) \in Nat
  BY <1>4, <1>8, SumAgrees, SumType
<1>11. Total(w) = SumOf(w, (1..n) \cup {n + 1}) /\ Total(s) = SumOf(s, 1..n)
  BY <1>5, TotalIsSum
<1>12. Total(w) = Total(s) + v
  BY <1>4, <1>9, <1>10, <1>11
<1> QED
  BY <1>2, <1>3, <1>12

LEMMA TotalList ==
    ASSUME NEW v \in Nat, NEW w \in Nat
    PROVE  Total(<<v>>) = v /\ Total(<<v, w>>) = v + w
<1>1. <<v>> = Append(<<>>, v) /\ <<v, w>> = Append(<<v>>, w) /\ <<>> \in Seq(Nat) /\ <<v>> \in Seq(Nat)
  OBVIOUS
<1>2. Total(<<v>>) = 0 + v
  BY <1>1, TotalAppend, TotalEmpty
<1>3. Total(<<v, w>>) = Total(<<v>>) + w
  BY <1>1, TotalAppend
<1> QED
  BY <1>2, <1>3

-----------------------------------------------------------------------------
(* The largest of a set of values                                          *)
Most == [p \in Nat \X Nat |-> IF p[1] > p[2] THEN p[1] ELSE p[2]]
MostOf(f, T) == FoldFunctionOnSet(Larger, 0, f, T)

LEMMA MostAt ==
    ASSUME NEW a \in Nat, NEW b \in Nat
    PROVE  Most[a, b] \in {a, b} /\ Most[a, b] \in Nat /\ Most[a, b] >= a /\ Most[a, b] >= b
<1>1. Most[a, b] = IF a > b THEN a ELSE b
  BY DEF Most
<1>2. PICK m : m = Most[a, b]
  OBVIOUS
<1>3. m = IF a > b THEN a ELSE b
  BY <1>1, <1>2, Zenon
<1>4. m \in {a, b} /\ m \in Nat /\ m >= a /\ m >= b
  BY <1>3
<1> QED
  BY <1>2, <1>4, Zenon

(* The fold that the largest of T takes                                    *)
LEMMA MostFold ==
    ASSUME NEW f, NEW T, Numbers(f, T)
    PROVE  \E it : /\ IsFold(it, T, f, Most) /\ MostOf(f, T) = it[T]
                   /\ \A U \in SUBSET T : it[U] \in Nat
<1> DEFINE Fold(it) == it = [U \in SUBSET T |-> IF U = {} THEN 0
                                  ELSE Larger(f[Pick(U)], it[U \ {Pick(U)}])]
           i == CHOOSE it : Fold(it)
<1>1. MostOf(f, T) = i[T]
  BY Zenon DEF MostOf, FoldFunctionOnSet, MapThenFoldSet, Pick
<1>2. PICK j : IsFold(j, T, f, Most)
  <2>1. Most \in [Nat \X Nat -> Nat]
    BY DEF Most
  <2> QED
    BY <2>1, FoldExists DEF Numbers
<1>3. \A U \in SUBSET T : U # {} => Pick(U) \in U /\ Pick(U) \in T /\ U \ {Pick(U)} \in SUBSET T
  BY DEF Pick
<1>4. \A U \in SUBSET T : j[U] = IF U = {} THEN 0 ELSE Most[f[Pick(U)], j[U \ {Pick(U)}]]
  BY <1>2 DEF IsFold
<1>5. \A U \in SUBSET T : j[U] \in Nat
  <2> DEFINE S == {U \in SUBSET T : j[U] \in Nat}
  <2>1. {} \in S
    <3>1. j[{}] = 0
      BY <1>4, Zenon
    <3> QED
      BY <3>1
  <2>2. ASSUME NEW U \in SUBSET T, \A x \in U : U \ {x} \in S PROVE U \in S
    <3>1. CASE U = {}
      BY <2>1, <3>1
    <3>2. CASE U # {}
      <4>1. PICK a \in Nat : a = f[Pick(U)]
        BY <1>3, <3>2 DEF Numbers
      <4>2. PICK b \in Nat : b = j[U \ {Pick(U)}]
        BY <1>3, <2>2, <3>2
      <4>3. j[U] = Most[a, b]
        BY <1>4, <3>2, <4>1, <4>2, Zenon
      <4> QED
        BY <4>3, MostAt
    <3> QED
      BY <3>1, <3>2
  <2>3. SUBSET T \subseteq S
    <3> HIDE DEF S
    <3> QED
      BY <2>1, <2>2, SetInductionAll DEF Numbers
  <2> QED
    BY <2>3
<1>6. \A U \in SUBSET T : U # {} =>
          Most[f[Pick(U)], j[U \ {Pick(U)}]] = Larger(f[Pick(U)], j[U \ {Pick(U)}])
  BY <1>3, <1>5 DEF Most, Larger, Numbers
<1>7. Fold(j)
  <2>1. j = [U \in SUBSET T |-> IF U = {} THEN 0 ELSE Most[f[Pick(U)], j[U \ {Pick(U)}]]]
    BY <1>2 DEF IsFold
  <2>2. \A U \in SUBSET T : (IF U = {} THEN 0 ELSE Most[f[Pick(U)], j[U \ {Pick(U)}]])
                          = (IF U = {} THEN 0 ELSE Larger(f[Pick(U)], j[U \ {Pick(U)}]))
    BY <1>6, Zenon
  <2> QED
    BY <2>1, <2>2, Zenon
<1>8. Fold(i)
  <2> HIDE DEF Fold
  <2> QED
    BY <1>7
<1>9. \A U \in SUBSET T :
        /\ i[U] = IF U = {} THEN 0 ELSE Larger(f[Pick(U)], i[U \ {Pick(U)}])
        /\ j[U] = IF U = {} THEN 0 ELSE Larger(f[Pick(U)], j[U \ {Pick(U)}])
  <2> HIDE DEF i
  <2> QED
    BY <1>7, <1>8, Zenon
<1>10. i[T] = j[T]
  <2> HIDE DEF i
  <2> DEFINE S == {U \in SUBSET T : i[U] = j[U]}
  <2>1. {} \in S
    <3>1. i[{}] = 0 /\ j[{}] = 0
      BY <1>9, Zenon
    <3> QED
      BY <3>1
  <2>2. ASSUME NEW U \in SUBSET T, \A x \in U : U \ {x} \in S PROVE U \in S
    <3>1. CASE U = {}
      BY <2>1, <3>1
    <3>2. CASE U # {}
      <4>1. i[U \ {Pick(U)}] = j[U \ {Pick(U)}]
        BY <1>3, <2>2, <3>2
      <4>2. i[U] = j[U]
        BY <1>9, <3>2, <4>1, Zenon
      <4> QED
        BY <4>2
    <3> QED
      BY <3>1, <3>2
  <2>3. SUBSET T \subseteq S
    <3> HIDE DEF S
    <3> QED
      BY <2>1, <2>2, SetInductionAll DEF Numbers
  <2> QED
    BY <2>3
<1> QED
  BY <1>1, <1>2, <1>5, <1>10

(* The largest bounds every value, and is one of them (or 0).              *)
LEMMA MostBounds ==
    ASSUME NEW f, NEW T, Numbers(f, T)
    PROVE  /\ MostOf(f, T) \in Nat /\ \A x \in T : f[x] <= MostOf(f, T)
           /\ MostOf(f, T) = 0 \/ \E x \in T : MostOf(f, T) = f[x]
<1>1. PICK i : /\ IsFold(i, T, f, Most) /\ MostOf(f, T) = i[T]
               /\ \A U \in SUBSET T : i[U] \in Nat
  BY MostFold
<1> DEFINE S == {U \in SUBSET T : /\ \A x \in U : f[x] <= i[U]
                                  /\ i[U] = 0 \/ \E x \in U : i[U] = f[x]}
<1>2. \A U \in SUBSET T : i[U] = IF U = {} THEN 0 ELSE Most[f[Pick(U)], i[U \ {Pick(U)}]]
  BY <1>1 DEF IsFold
<1>3. {} \in S
  BY <1>2
<1>4. ASSUME NEW U \in SUBSET T, \A x \in U : U \ {x} \in S PROVE U \in S
  <2>1. CASE U = {}
    BY <1>3, <2>1
  <2>2. CASE U # {}
    <3>1. Pick(U) \in U
      BY <2>2 DEF Pick
    <3>2. PICK a \in Nat : a = f[Pick(U)]
      BY <3>1 DEF Numbers
    <3>3. PICK b \in Nat : b = i[U \ {Pick(U)}]
      BY <1>1, <3>1
    <3>4. i[U] = Most[a, b]
      BY <1>2, <2>2, <3>2, <3>3, Zenon
    <3>5. i[U] \in {a, b} /\ i[U] >= a /\ i[U] >= b /\ i[U] \in Nat
      BY <3>4, MostAt
    <3>6. (\A x \in U \ {Pick(U)} : f[x] <= b) /\ (b = 0 \/ \E x \in U \ {Pick(U)} : b = f[x])
      BY <1>4, <3>1, <3>3
    <3>7. ASSUME NEW x \in U PROVE f[x] <= i[U]
      <4>1. f[x] \in Nat
        BY DEF Numbers
      <4>2. CASE x = Pick(U)
        BY <3>2, <3>5, <4>2
      <4>3. CASE x # Pick(U)
        BY <3>5, <3>6, <4>1, <4>3
      <4> QED
        BY <4>2, <4>3
    <3>8. i[U] = 0 \/ \E x \in U : i[U] = f[x]
      BY <3>1, <3>2, <3>5, <3>6
    <3> QED
      BY <3>7, <3>8
  <2> QED
    BY <2>1, <2>2
<1>5. SUBSET T \subseteq S
  <2> HIDE DEF S
  <2> QED
    BY <1>3, <1>4, SetInductionAll DEF Numbers
<1>6. T \in S
  BY <1>5
<1> QED
  BY <1>1, <1>6
-----------------------------------------------------------------------------
(* What is in use                                                          *)
Sized(m) == [c \in Channels |-> Total(m[c])]
Counted(m) == [c \in Channels |-> Len(m[c])]
Valued(m, f) == [c \in Channels |-> Total(Values(m[c], f))]
Rates == [in : Nat, out : Nat]

LEMMA ListTotal ==
    ASSUME NEW s \in Seq(Nat)
    PROVE  Total(s) \in Nat
<1>1. Len(s) \in Nat /\ s \in [1..Len(s) -> Nat]
  OBVIOUS
<1>2. IsFiniteSet(1..Len(s))
  BY <1>1, FS_Interval
<1> QED
  BY <1>1, <1>2, TotalType

LEMMA RateTotal ==
    ASSUME NEW s \in Seq(Rates), NEW f \in {"in", "out"}
    PROVE  Total(Values(s, f)) \in Nat
<1>1. PICK n \in Nat : n = Len(s) /\ DOMAIN s = 1..n
  OBVIOUS
<1>2. \A i \in 1..n : s[i] \in Rates
  BY <1>1
<1>3. Values(s, f) = [i \in 1..n |-> s[i][f]]
  BY <1>1 DEF Values
<1>4. \A i \in 1..n : s[i][f] \in Nat
  BY <1>2 DEF Rates
<1>5. Values(s, f) \in [1..n -> Nat]
  BY <1>3, <1>4
<1>6. IsFiniteSet(1..n)
  BY FS_Interval
<1> QED
  BY <1>5, <1>6, TotalType

LEMMA RateList ==
    /\ \A f : Total(Values(<<>>, f)) = 0
    /\ \A r \in Rates : Total(Values(<<r>>, "in")) = r.in /\ Total(Values(<<r>>, "out")) = r.out
<1>1. ASSUME NEW f PROVE Total(Values(<<>>, f)) = 0
  <2>1. DOMAIN <<>> = {}
    OBVIOUS
  <2>2. DOMAIN Values(<<>>, f) = {}
    BY <2>1 DEF Values
  <2> QED
    BY <2>2, TotalIsSum, SumEmpty
<1>2. ASSUME NEW r \in Rates
      PROVE  Total(Values(<<r>>, "in")) = r.in /\ Total(Values(<<r>>, "out")) = r.out
  <2>1. Values(<<r>>, "in") = <<r.in>> /\ Values(<<r>>, "out") = <<r.out>>
    BY DEF Values, Rates
  <2>2. r.in \in Nat /\ r.out \in Nat
    BY DEF Rates
  <2> QED
    BY <2>1, <2>2, TotalList
<1> QED
  BY <1>1, <1>2

LEMMA SizedType ==
    ASSUME NEW m \in [Channels -> Seq(Nat)]
    PROVE  Sized(m) \in [Channels -> Nat] /\ Total(Sized(m)) \in Nat
<1>1. Sized(m) \in [Channels -> Nat]
  BY ListTotal DEF Sized
<1> QED
  BY <1>1, TotalType, BindingAssumption

LEMMA CountedType ==
    ASSUME NEW m \in [Channels -> Seq(Rates)]
    PROVE  Counted(m) \in [Channels -> Nat] /\ Total(Counted(m)) \in Nat
<1>1. Counted(m) \in [Channels -> Nat]
  BY DEF Counted
<1> QED
  BY <1>1, TotalType, BindingAssumption

LEMMA ValuedType ==
    ASSUME NEW m \in [Channels -> Seq(Rates)], NEW f \in {"in", "out"}
    PROVE  Valued(m, f) \in [Channels -> Nat] /\ Total(Valued(m, f)) \in Nat
<1>1. Valued(m, f) \in [Channels -> Nat]
  BY RateTotal DEF Valued
<1> QED
  BY <1>1, TotalType, BindingAssumption

(* When the lists of some channels are emptied less is in use.             *)
LEMMA SizedShrinks ==
    ASSUME NEW m \in [Channels -> Seq(Nat)], NEW n \in [Channels -> Seq(Nat)],
           \A c \in Channels : n[c] = m[c] \/ n[c] = <<>>
    PROVE  Total(Sized(n)) <= Total(Sized(m))
<1>1. \A c \in Channels : Total(n[c]) <= Total(m[c])
  BY ListTotal, TotalEmpty
<1>2. Sized(m) \in [Channels -> Nat] /\ Sized(n) \in [Channels -> Nat]
  BY SizedType
<1>3. \A c \in Channels : Sized(n)[c] <= Sized(m)[c]
  BY <1>1 DEF Sized
<1> QED
  BY <1>2, <1>3, TotalMonotone, BindingAssumption

LEMMA RatesShrink ==
    ASSUME NEW m \in [Channels -> Seq(Rates)], NEW n \in [Channels -> Seq(Rates)],
           \A c \in Channels : n[c] = m[c] \/ n[c] = <<>>
    PROVE  /\ Total(Counted(n)) <= Total(Counted(m))
           /\ \A f \in {"in", "out"} : Total(Valued(n, f)) <= Total(Valued(m, f))
<1>1. Total(Counted(n)) <= Total(Counted(m))
  <2>1. \A c \in Channels : Counted(n)[c] <= Counted(m)[c]
    BY DEF Counted
  <2> QED
    BY <2>1, CountedType, TotalMonotone, BindingAssumption
<1>2. ASSUME NEW f \in {"in", "out"} PROVE Total(Valued(n, f)) <= Total(Valued(m, f))
  <2>1. \A c \in Channels : Total(Values(n[c], f)) <= Total(Values(m[c], f))
    BY RateTotal, RateList
  <2>2. \A c \in Channels : Valued(n, f)[c] <= Valued(m, f)[c]
    BY <2>1 DEF Valued
  <2> QED
    BY <2>2, ValuedType, TotalMonotone, BindingAssumption
<1> QED
  BY <1>1, <1>2

(* One list is changed.                                                    *)
LEMMA ChannelsChange ==
    ASSUME NEW f \in [Channels -> Nat], NEW h \in [Channels -> Nat], NEW c \in Channels,
           \A d \in Channels \ {c} : f[d] = h[d]
    PROVE  Total(f) + h[c] = Total(h) + f[c]
<1>1. IsFiniteSet(Channels)
  BY BindingAssumption
<1> QED
  BY <1>1, TotalChange

LEMMA SizedChange ==
    ASSUME NEW m \in [Channels -> Seq(Nat)], NEW n \in [Channels -> Seq(Nat)], NEW c \in Channels,
           \A d \in Channels \ {c} : n[d] = m[d]
    PROVE  Total(Sized(n)) + Total(m[c]) = Total(Sized(m)) + Total(n[c])
<1>1. Sized(m) \in [Channels -> Nat] /\ Sized(n) \in [Channels -> Nat]
  BY SizedType
<1>2. \A d \in Channels \ {c} : Sized(n)[d] = Sized(m)[d]
  BY DEF Sized
<1>3. Total(Sized(n)) + Sized(m)[c] = Total(Sized(m)) + Sized(n)[c]
  BY <1>1, <1>2, ChannelsChange
<1> QED
  BY <1>3 DEF Sized

LEMMA RatesChange ==
    ASSUME NEW m \in [Channels -> Seq(Rates)], NEW n \in [Channels -> Seq(Rates)], NEW c \in Channels,
           \A d \in Channels \ {c} : n[d] = m[d]
    PROVE  /\ Total(Counted(n)) + Len(m[c]) = Total(Counted(m)) + Len(n[c])
           /\ \A f \in {"in", "out"} : Total(Valued(n, f)) + Total(Values(m[c], f))
                                     = Total(Valued(m, f)) + Total(Values(n[c], f))
<1>1. Total(Counted(n)) + Len(m[c]) = Total(Counted(m)) + Len(n[c])
  <2>1. \A d \in Channels \ {c} : Counted(n)[d] = Counted(m)[d]
    BY DEF Counted
  <2>2. Total(Counted(n)) + Counted(m)[c] = Total(Counted(m)) + Counted(n)[c]
    BY <2>1, CountedType, ChannelsChange
  <2> QED
    BY <2>2 DEF Counted
<1>2. ASSUME NEW f \in {"in", "out"}
      PROVE  Total(Valued(n, f)) + Total(Values(m[c], f)) = Total(Valued(m, f)) + Total(Values(n[c], f))
  <2>1. \A d \in Channels \ {c} : Valued(n, f)[d] = Valued(m, f)[d]
    BY DEF Valued
  <2>2. PICK g \in [Channels -> Nat] : g = Valued(n, f)
    BY ValuedType
  <2>3. PICK h \in [Channels -> Nat] : h = Valued(m, f)
    BY ValuedType
  <2>4. Total(g) + h[c] = Total(h) + g[c]
    BY <2>1, <2>2, <2>3, ChannelsChange
  <2> QED
    BY <2>2, <2>3, <2>4 DEF Valued
<1> QED
  BY <1>1, <1>2

-----------------------------------------------------------------------------
(* The states on the way of an attempt                                     *)
Phases == {"srcMem", "dstMem", "srcNI", "dstNI"}
Claiming == {"state", "port"} \cup Phases
Trying == {"next", "tile"} \cup Claiming

(* The ports of the actor being bound that are still to be visited         *)
Pending == IF pc = "state" THEN Ports(cur) ELSE IF pc \in Claiming THEN todo ELSE {}
Out(c) == <<c, "out">> \in Pending
In(c) == <<c, "in">> \in Pending

(* Nothing of the channel is claimed yet; one of the two claims of a       *)
(* self-edge may be.                                                       *)
Waits(c) == IF Src[c] = Dst[c] THEN Out(c) /\ In(c) ELSE Out(c) \/ In(c)
Half(c) == Src[c] = Dst[c] /\ (Out(c) \/ In(c))
Doing(c, phases) == chan = c /\ pc \in phases

(* The claims that a channel has on a tile at every point of an attempt    *)
LocalNow(c) == IF Half(c) THEN <<demand.mem[c]>> ELSE Copies(c, demand.mem[c])
SourceNow(c) == IF Doing(c, {"srcMem"}) THEN <<>> ELSE <<demand.src[c]>>
TargetNow(c) == IF Doing(c, {"srcMem", "dstMem"}) THEN <<>> ELSE <<demand.dst[c]>>

BufferNow(t, c) ==
    IF Waits(c) THEN <<>>
    ELSE IF isChannelBoundToTile(c) /\ t = binding[Src[c]] THEN LocalNow(c)
    ELSE IF isChannelBoundToConnection(c) /\ t = binding[Src[c]] THEN SourceNow(c)
    ELSE IF isChannelBoundToConnection(c) /\ t = binding[Dst[c]] THEN TargetNow(c)
    ELSE <<>>

SendNow(c) == IF Doing(c, Phases \ {"dstNI"}) THEN <<>> ELSE <<[in |-> 0, out |-> demand.bw[c]]>>
ReceiveNow(c) == IF Doing(c, Phases) THEN <<>> ELSE <<[in |-> demand.bw[c], out |-> 0]>>

InterfaceNow(t, c) ==
    IF Waits(c) \/ ~isChannelBoundToConnection(c) THEN <<>>
    ELSE IF t = binding[Src[c]] THEN SendNow(c)
    ELSE IF t = binding[Dst[c]] THEN ReceiveNow(c)
    ELSE <<>>

On(t) == {a \in Actors : binding[a] = t}

ExactActors ==
    \A t \in Tiles : /\ procs[t] = On(t)
                     /\ memActor[t] = IF pc = "state" THEN On(t) \ {cur} ELSE On(t)

ExactLists ==
    \A t \in Tiles, c \in Channels : /\ memChannel[t][c] = BufferNow(t, c)
                                     /\ ni[t][c] = InterfaceNow(t, c)

ExactLinks == \A t, u \in Tiles : conn[t, u] = {c \in Between(t, u) : ~Waits(c)}

Exact == ExactActors /\ ExactLists /\ ExactLinks

(* What is claimed can be released: it belongs to bound actors, and a      *)
(* release takes off all that a channel has claimed.                       *)
ReleasableActors == \A t \in Tiles : procs[t] \subseteq On(t) /\ memActor[t] \subseteq On(t)

ReleasableLists ==
    /\ \A t \in Tiles, c \in Channels : Len(memChannel[t][c]) <= IF Src[c] = Dst[c] THEN 2 ELSE 1
    /\ \A t \in Tiles, c \in Channels : Len(ni[t][c]) <= 1
    /\ \A t \in Tiles, c \in Channels : memChannel[t][c] # <<>> => HasBuffer(c, t)
    /\ \A t \in Tiles, c \in Channels : ni[t][c] # <<>> => HasInterface(c, t)

ReleasableLinks == \A t, u \in Tiles : conn[t, u] \subseteq Between(t, u)

Releasable == ReleasableActors /\ ReleasableLists /\ ReleasableLinks

(* The port visited last has its connection.                               *)
AtPort ==
    /\ Pending \subseteq Ports(cur)
    /\ pc \in Claiming => binding[cur] # None
    /\ pc \in Phases => /\ chan \in ConnectedTo(cur) /\ isChannelBoundToConnection(chan)
                        /\ ~Waits(chan)

Loads(t) == [a \in Actors |-> platform.load[a][t]]
Loaded == \A t \in Tiles : tileLoad[t] = SumOf(Loads(t), On(t))
Running ==
    \A a \in Actors : binding[a] # None => /\ <<a, binding[a]>> \in platform.runs
                                           /\ platform.wheel[binding[a]] > 0

(* What a release leaves                                                   *)
ReleasedTypes ==
    /\ binding' \in [Actors -> Tiles \cup {None}]
    /\ procs' \in [Tiles -> SUBSET Actors] /\ memActor' \in [Tiles -> SUBSET Actors]
    /\ memChannel' \in [Tiles -> [Channels -> Seq(Nat)]]
    /\ ni' \in [Tiles -> [Channels -> Seq(Rates)]]
    /\ conn' \in [Tiles \X Tiles -> SUBSET Channels]
    /\ tileLoad' \in [Tiles -> Nat] /\ slice' \in [Tiles -> Nat]

ReleasedActor(a) ==
    /\ binding' = [binding EXCEPT ![a] = None]
    /\ \A t \in Tiles : On(t)' = On(t) \ {a}
    /\ \A t \in Tiles : procs'[t] = procs[t] \ {a} /\ memActor'[t] = memActor[t] \ {a}

ReleasedLists(a) ==
    /\ \A t \in Tiles, c \in Channels :
         memChannel'[t][c] = IF c \in ConnectedTo(a) THEN <<>> ELSE memChannel[t][c]
    /\ \A t \in Tiles, c \in Channels :
         ni'[t][c] = IF c \in ConnectedTo(a) THEN <<>> ELSE ni[t][c]

ReleasedLinks(a) == \A t, u \in Tiles : conn'[t, u] = conn[t, u] \ ConnectedTo(a)

ReleasedLoads(a) ==
    /\ \A t \in Tiles : slice'[t] = IF t = binding[a] THEN 0 ELSE slice[t]
    /\ \A t \in Tiles : tileLoad'[t] = SumOf(Loads(t), On(t)')

Released(a) ==
    /\ platform' = platform /\ demand' = demand
    /\ ReleasedTypes /\ ReleasedActor(a) /\ ReleasedLists(a) /\ ReleasedLinks(a) /\ ReleasedLoads(a)

LEMMA PlatformType ==
    ASSUME TypeOK
    PROVE  /\ platform.runs \in SUBSET (Actors \X Tiles)
           /\ platform.load \in [Actors -> [Tiles -> Nat]] /\ platform.state \in [Actors -> Nat]
           /\ platform.memory \in [Tiles -> Nat] /\ platform.conns \in [Tiles -> Nat]
           /\ platform.inBw \in [Tiles -> Nat] /\ platform.outBw \in [Tiles -> Nat]
           /\ platform.wheel \in [Tiles -> Nat]
BY BindingAssumption DEF TypeOK, Platform, Amounts

LEMMA LoadNumbers ==
    ASSUME TypeOK, NEW t \in Tiles, NEW A \in SUBSET Actors
    PROVE  Numbers(Loads(t), A) /\ SumOf(Loads(t), A) \in Nat
<1>1. IsFiniteSet(A)
  BY BindingAssumption, FS_Subset
<1>2. Numbers(Loads(t), A)
  BY <1>1, PlatformType DEF Loads, Numbers
<1> QED
  BY <1>2, SumType

LEMMA UnboundLists ==
    ASSUME NEW T, NEW s \in Seq(T), NEW c \in Channels
    PROVE  /\ Unbound(c, s) \in Seq(T)
           /\ Len(s) <= (IF Src[c] = Dst[c] THEN 2 ELSE 1) => Unbound(c, s) = <<>>
<1>1. CASE Src[c] = Dst[c]
  <2>1. Unbound(c, s) = SubSeq(s, 3, Len(s))
    BY <1>1 DEF Unbound
  <2>2. SubSeq(s, 3, Len(s)) \in Seq(T) /\ (Len(s) <= 2 => SubSeq(s, 3, Len(s)) = <<>>)
    OBVIOUS
  <2> QED
    BY <1>1, <2>1, <2>2
<1>2. CASE Src[c] # Dst[c]
  <2>1. Unbound(c, s) = SubSeq(s, 2, Len(s))
    BY <1>2 DEF Unbound
  <2>2. SubSeq(s, 2, Len(s)) \in Seq(T) /\ (Len(s) <= 1 => SubSeq(s, 2, Len(s)) = <<>>)
    OBVIOUS
  <2> QED
    BY <1>2, <2>1, <2>2
<1> QED
  BY <1>1, <1>2

LEMMA Release ==
    ASSUME TypeOK, Releasable, Loaded, NEW a \in Actors, binding[a] # None, releaseResources(a)
    PROVE  Released(a)
<1> DEFINE b == binding[a]
<1>1. b \in Tiles /\ None \notin Tiles /\ Src \in [Channels -> Actors] /\ Dst \in [Channels -> Actors]
  BY BindingAssumption DEF TypeOK
<1>2. /\ platform' = platform /\ demand' = demand
      /\ binding' = [binding EXCEPT ![a] = None]
      /\ binding' \in [Actors -> Tiles \cup {None}]
  BY DEF TypeOK, releaseResources, releaseActor
<1>3. /\ procs' \in [Tiles -> SUBSET Actors] /\ memActor' \in [Tiles -> SUBSET Actors]
      /\ \A t \in Tiles : procs'[t] = procs[t] \ {a} /\ memActor'[t] = memActor[t] \ {a}
  <2>1. procs' = [procs EXCEPT ![b] = @ \ {a}] /\ memActor' = [memActor EXCEPT ![b] = @ \ {a}]
    BY DEF releaseResources, releaseActor
  <2>2. \A t \in Tiles : t # b => a \notin procs[t] /\ a \notin memActor[t]
    BY DEF Releasable, ReleasableActors, On
  <2> QED
    BY <1>1, <2>1, <2>2 DEF TypeOK
<1>4. /\ memChannel' \in [Tiles -> [Channels -> Seq(Nat)]]
      /\ \A t \in Tiles, c \in Channels :
           memChannel'[t][c] = IF c \in ConnectedTo(a) THEN <<>> ELSE memChannel[t][c]
  <2>1. memChannel' = [u \in Tiles |-> [c \in Channels |->
                        IF c \in ConnectedTo(a) /\ HasBuffer(c, u)
                        THEN Unbound(c, memChannel[u][c]) ELSE memChannel[u][c]]]
    BY DEF releaseResources, releaseChannels
  <2>2. \A t \in Tiles, c \in Channels :
          /\ memChannel[t][c] \in Seq(Nat)
          /\ Len(memChannel[t][c]) <= IF Src[c] = Dst[c] THEN 2 ELSE 1
          /\ memChannel[t][c] # <<>> => HasBuffer(c, t)
    BY DEF TypeOK, Releasable, ReleasableLists
  <2>3. \A t \in Tiles, c \in Channels : Unbound(c, memChannel[t][c]) = <<>>
    BY <2>2, UnboundLists
  <2>4. <<>> \in Seq(Nat)
    OBVIOUS
  <2> QED
    BY <2>1, <2>2, <2>3, <2>4
<1>5. /\ ni' \in [Tiles -> [Channels -> Seq(Rates)]]
      /\ \A t \in Tiles, c \in Channels :
           ni'[t][c] = IF c \in ConnectedTo(a) THEN <<>> ELSE ni[t][c]
  <2>1. ni' = [u \in Tiles |-> [c \in Channels |->
                IF c \in ConnectedTo(a) /\ HasInterface(c, u)
                THEN Unbound(c, ni[u][c]) ELSE ni[u][c]]]
    BY DEF releaseResources, releaseChannels
  <2>2. \A t \in Tiles, c \in Channels :
          /\ ni[t][c] \in Seq(Rates)
          /\ Len(ni[t][c]) <= IF Src[c] = Dst[c] THEN 2 ELSE 1
          /\ ni[t][c] # <<>> => HasInterface(c, t)
    <3> SUFFICES ASSUME NEW t \in Tiles, NEW c \in Channels
                 PROVE  /\ ni[t][c] \in Seq(Rates)
                        /\ Len(ni[t][c]) <= IF Src[c] = Dst[c] THEN 2 ELSE 1
                        /\ ni[t][c] # <<>> => HasInterface(c, t)
      OBVIOUS
    <3>1. ni[t][c] \in Seq(Rates)
      BY DEF TypeOK, Rates
    <3>2. Len(ni[t][c]) \in Nat /\ Len(ni[t][c]) <= 1
      <4>1. Len(ni[t][c]) <= 1
        BY Zenon DEF Releasable, ReleasableLists
      <4> QED
        BY <3>1, <4>1
    <3>3. ni[t][c] # <<>> => HasInterface(c, t)
      BY Zenon DEF Releasable, ReleasableLists
    <3> QED
      BY <3>1, <3>2, <3>3
  <2>3. \A t \in Tiles, c \in Channels : Unbound(c, ni[t][c]) = <<>>
    BY <2>2, UnboundLists
  <2>4. <<>> \in Seq(Rates)
    OBVIOUS
  <2> QED
    BY <2>1, <2>2, <2>3, <2>4
<1>6. /\ conn' \in [Tiles \X Tiles -> SUBSET Channels]
      /\ \A t, u \in Tiles : conn'[t, u] = conn[t, u] \ ConnectedTo(a)
  <2>1. conn' = [l \in Tiles \X Tiles |-> conn[l] \ (ConnectedTo(a) \cap Between(l[1], l[2]))]
    BY DEF releaseResources, releaseChannels
  <2>2. \A t, u \in Tiles : conn[t, u] \subseteq Between(t, u)
    BY DEF Releasable, ReleasableLinks
  <2> QED
    BY <2>1, <2>2 DEF TypeOK
<1>7. \A t \in Tiles : On(t)' = On(t) \ {a} /\ On(t) \in SUBSET Actors /\ (a \in On(t) <=> t = b)
  BY <1>1, <1>2 DEF On, TypeOK
<1>8. \A t \in Tiles : /\ tileLoad[t] \in Nat /\ platform.load[a][t] \in Nat
                       /\ (IF t = b THEN tileLoad[t] - platform.load[a][t] ELSE tileLoad[t])
                          = SumOf(Loads(t), On(t)')
  <2> SUFFICES ASSUME NEW t \in Tiles
               PROVE  /\ tileLoad[t] \in Nat /\ platform.load[a][t] \in Nat
                      /\ (IF t = b THEN tileLoad[t] - platform.load[a][t] ELSE tileLoad[t])
                          = SumOf(Loads(t), On(t)')
    OBVIOUS
  <2>1. /\ Numbers(Loads(t), On(t)) /\ SumOf(Loads(t), On(t)') \in Nat
        /\ tileLoad[t] = SumOf(Loads(t), On(t)) /\ tileLoad[t] \in Nat
    BY <1>7, LoadNumbers DEF Loaded, TypeOK
  <2>2. Loads(t)[a] = platform.load[a][t] /\ platform.load[a][t] \in Nat
    BY PlatformType DEF Loads
  <2>3. CASE t = b
    <3>1. SumOf(Loads(t), On(t)) = Loads(t)[a] + SumOf(Loads(t), On(t) \ {a})
      BY <1>7, <2>1, <2>3, SumElement
    <3>2. On(t)' = On(t) \ {a}
      BY <1>7
    <3>3. PICK r \in Nat : r = SumOf(Loads(t), On(t)')
      BY <2>1
    <3>4. PICK l \in Nat : l = platform.load[a][t]
      BY <2>2
    <3>5. tileLoad[t] = l + r
      BY <2>1, <2>2, <3>1, <3>2, <3>3, <3>4
    <3>6. tileLoad[t] - l = r
      BY <3>5
    <3> QED
      BY <2>1, <2>2, <2>3, <3>3, <3>4, <3>6
  <2>4. CASE t # b
    BY <1>7, <2>1, <2>2, <2>4
  <2> QED
    BY <2>3, <2>4
<1>9. /\ tileLoad' \in [Tiles -> Nat]
      /\ \A t \in Tiles : tileLoad'[t] = IF t = b THEN tileLoad[t] - platform.load[a][t]
                                         ELSE tileLoad[t]
  <2>1. tileLoad' = [tileLoad EXCEPT ![b] = @ - platform.load[a][b]]
    BY DEF releaseResources, releaseActor
  <2>2. \A t \in Tiles : SumOf(Loads(t), On(t)') \in Nat
    BY <1>7, LoadNumbers
  <2>3. tileLoad[b] - platform.load[a][b] \in Nat
    BY <1>1, <1>8, <2>2
  <2> HIDE DEF b
  <2> QED
    BY <1>1, <2>1, <2>3 DEF TypeOK
<1>10. /\ slice' \in [Tiles -> Nat]
       /\ \A t \in Tiles : slice'[t] = IF t = b THEN 0 ELSE slice[t]
  BY <1>1 DEF TypeOK, releaseResources, releaseActor
<1>11. \A t \in Tiles : tileLoad'[t] = SumOf(Loads(t), On(t)')
  BY <1>8, <1>9
<1> QED
  BY <1>2, <1>3, <1>4, <1>5, <1>6, <1>7, <1>9, <1>10, <1>11
     DEF Released, ReleasedTypes, ReleasedActor, ReleasedLists, ReleasedLinks, ReleasedLoads

-----------------------------------------------------------------------------
(* Releasing keeps the claims of the others.                               *)
LEMMA Ends == /\ Src \in [Channels -> Actors] /\ Dst \in [Channels -> Actors] /\ None \notin Tiles
BY BindingAssumption

(* A channel that is neither waiting nor under way has all its claims.     *)
LEMMA Calm ==
    ASSUME NEW c \in Channels, ~Out(c), ~In(c), ~Doing(c, Phases)
    PROVE  /\ ~Waits(c)
           /\ \A t \in Tiles : BufferNow(t, c) = BufferClaims(t, c)
           /\ \A t \in Tiles : InterfaceNow(t, c) = InterfaceClaims(t, c)
<1>1. ~Waits(c) /\ ~Half(c)
  BY DEF Waits, Half
<1>2. /\ ~Doing(c, {"srcMem"}) /\ ~Doing(c, {"srcMem", "dstMem"}) /\ ~Doing(c, Phases \ {"dstNI"})
  BY DEF Doing, Phases
<1>3. /\ LocalNow(c) = Copies(c, demand.mem[c])
      /\ SourceNow(c) = <<demand.src[c]>> /\ TargetNow(c) = <<demand.dst[c]>>
      /\ SendNow(c) = <<[in |-> 0, out |-> demand.bw[c]]>>
      /\ ReceiveNow(c) = <<[in |-> demand.bw[c], out |-> 0]>>
  BY <1>1, <1>2, Zenon DEF LocalNow, SourceNow, TargetNow, SendNow, ReceiveNow
<1>4. ASSUME NEW t \in Tiles PROVE BufferNow(t, c) = BufferClaims(t, c)
  BY <1>1, <1>3 DEF BufferNow, BufferClaims
<1>5. ASSUME NEW t \in Tiles PROVE InterfaceNow(t, c) = InterfaceClaims(t, c)
  BY <1>1, <1>3 DEF InterfaceNow, InterfaceClaims
<1> QED
  BY <1>1, <1>4, <1>5

LEMMA CalmNext ==
    ASSUME NEW c \in Channels, ~Out(c)', ~In(c)', ~Doing(c, Phases)'
    PROVE  /\ ~Waits(c)'
           /\ \A t \in Tiles : BufferNow(t, c)' = BufferClaims(t, c)'
           /\ \A t \in Tiles : InterfaceNow(t, c)' = InterfaceClaims(t, c)'
<1>1. ~Waits(c)' /\ ~Half(c)'
  BY DEF Waits, Half
<1>2. /\ ~Doing(c, {"srcMem"})' /\ ~Doing(c, {"srcMem", "dstMem"})' /\ ~Doing(c, Phases \ {"dstNI"})'
  BY DEF Doing, Phases
<1>3. /\ LocalNow(c)' = Copies(c, demand'.mem[c])
      /\ SourceNow(c)' = <<demand'.src[c]>> /\ TargetNow(c)' = <<demand'.dst[c]>>
      /\ SendNow(c)' = <<[in |-> 0, out |-> demand'.bw[c]]>>
      /\ ReceiveNow(c)' = <<[in |-> demand'.bw[c], out |-> 0]>>
  BY <1>1, <1>2, Zenon DEF LocalNow, SourceNow, TargetNow, SendNow, ReceiveNow
<1>4. ASSUME NEW t \in Tiles PROVE BufferNow(t, c)' = BufferClaims(t, c)'
  BY <1>1, <1>3 DEF BufferNow, BufferClaims
<1>5. ASSUME NEW t \in Tiles PROVE InterfaceNow(t, c)' = InterfaceClaims(t, c)'
  BY <1>1, <1>3 DEF InterfaceNow, InterfaceClaims
<1> QED
  BY <1>1, <1>4, <1>5

(* A port that is pending is one of the actor that is being bound.         *)
LEMMA NotPending ==
    ASSUME NEW c \in Channels, c \notin ConnectedTo(cur), AtPort
    PROVE  ~Out(c) /\ ~In(c) /\ ~Doing(c, Phases)
BY DEF AtPort, ConnectedTo, Ports, Out, In, Doing

LEMMA NothingPending ==
    ASSUME pc \notin Claiming
    PROVE  Pending = {} /\ \A c : ~Out(c) /\ ~In(c) /\ ~Doing(c, Phases)
BY DEF Pending, Claiming, Out, In, Doing

LEMMA ListLengths ==
    ASSUME TypeOK, NEW t \in Tiles, NEW c \in Channels
    PROVE  /\ BufferNow(t, c) \in Seq(Nat) /\ InterfaceNow(t, c) \in Seq(Rates)
           /\ Len(BufferNow(t, c)) <= IF Src[c] = Dst[c] THEN 2 ELSE 1
           /\ Len(InterfaceNow(t, c)) <= 1
           /\ BufferNow(t, c) # <<>> => HasBuffer(c, t)
           /\ InterfaceNow(t, c) # <<>> => HasInterface(c, t)
<1>1. demand.mem[c] \in Nat /\ demand.src[c] \in Nat /\ demand.dst[c] \in Nat /\ demand.bw[c] \in Nat
  BY DEF TypeOK, Demand, Sizes
<1>2. /\ LocalNow(c) \in Seq(Nat) /\ Len(LocalNow(c)) <= IF Src[c] = Dst[c] THEN 2 ELSE 1
      /\ SourceNow(c) \in Seq(Nat) /\ Len(SourceNow(c)) <= 1
      /\ TargetNow(c) \in Seq(Nat) /\ Len(TargetNow(c)) <= 1
  BY <1>1 DEF LocalNow, SourceNow, TargetNow, Copies
<1>3. /\ SendNow(c) \in Seq(Rates) /\ Len(SendNow(c)) <= 1
      /\ ReceiveNow(c) \in Seq(Rates) /\ Len(ReceiveNow(c)) <= 1
  <2>1. [in |-> 0, out |-> demand.bw[c]] \in Rates /\ [in |-> demand.bw[c], out |-> 0] \in Rates
    BY <1>1 DEF Rates
  <2>2. \A r \in Rates : <<r>> \in Seq(Rates) /\ Len(<<r>>) = 1
    OBVIOUS
  <2>3. <<>> \in Seq(Rates) /\ Len(<<>>) = 0
    OBVIOUS
  <2>4. SendNow(c) \in Seq(Rates) /\ Len(SendNow(c)) <= 1
    BY <2>1, <2>2, <2>3 DEF SendNow
  <2>5. ReceiveNow(c) \in Seq(Rates) /\ Len(ReceiveNow(c)) <= 1
    BY <2>1, <2>2, <2>3 DEF ReceiveNow
  <2> QED
    BY <2>4, <2>5
<1>4. <<>> \in Seq(Nat) /\ <<>> \in Seq(Rates) /\ Len(<<>>) = 0
  OBVIOUS
<1>5. /\ BufferNow(t, c) \in Seq(Nat)
      /\ Len(BufferNow(t, c)) <= IF Src[c] = Dst[c] THEN 2 ELSE 1
  BY <1>2, <1>4 DEF BufferNow
<1>6. BufferNow(t, c) # <<>> => HasBuffer(c, t)
  BY DEF BufferNow, HasBuffer
<1>7. InterfaceNow(t, c) \in Seq(Rates) /\ Len(InterfaceNow(t, c)) <= 1
  BY <1>3, <1>4 DEF InterfaceNow
<1>8. InterfaceNow(t, c) # <<>> => HasInterface(c, t)
  BY DEF InterfaceNow, HasInterface, HasBuffer
<1> QED
  BY <1>5, <1>6, <1>7, <1>8

LEMMA ExactReleasable ==
    ASSUME TypeOK, Exact
    PROVE  Releasable
<1>1. \A t \in Tiles : procs[t] \subseteq On(t) /\ memActor[t] \subseteq On(t)
  BY DEF Exact, ExactActors
<1>2. \A t \in Tiles, c \in Channels : /\ memChannel[t][c] = BufferNow(t, c)
                                       /\ ni[t][c] = InterfaceNow(t, c)
  BY DEF Exact, ExactLists
<1>3. \A t \in Tiles, c \in Channels : Len(memChannel[t][c]) <= IF Src[c] = Dst[c] THEN 2 ELSE 1
  BY <1>2, ListLengths, Zenon
<1>4. \A t \in Tiles, c \in Channels : Len(ni[t][c]) <= 1
  BY <1>2, ListLengths, Zenon
<1>5. \A t \in Tiles, c \in Channels : memChannel[t][c] # <<>> => HasBuffer(c, t)
  BY <1>2, ListLengths, Zenon
<1>6. \A t \in Tiles, c \in Channels : ni[t][c] # <<>> => HasInterface(c, t)
  BY <1>2, ListLengths, Zenon
<1>7. \A t, u \in Tiles : conn[t, u] \subseteq Between(t, u)
  BY DEF Exact, ExactLinks
<1> QED
  BY <1>1, <1>3, <1>4, <1>5, <1>6, <1>7, Zenon
     DEF Releasable, ReleasableActors, ReleasableLists, ReleasableLinks

(* The channels between other actors stay as they are bound.               *)
LEMMA OtherChannels ==
    ASSUME TypeOK, NEW a \in Actors, Released(a), NEW c \in Channels
    PROVE  /\ c \notin ConnectedTo(a) =>
                /\ binding'[Src[c]] = binding[Src[c]] /\ binding'[Dst[c]] = binding[Dst[c]]
                /\ isChannelBoundToTile(c)' = isChannelBoundToTile(c)
                /\ isChannelBoundToConnection(c)' = isChannelBoundToConnection(c)
                /\ \A t \in Tiles : /\ HasBuffer(c, t)' = HasBuffer(c, t)
                                    /\ HasInterface(c, t)' = HasInterface(c, t)
                                    /\ BufferClaims(t, c)' = BufferClaims(t, c)
                                    /\ InterfaceClaims(t, c)' = InterfaceClaims(t, c)
           /\ c \in ConnectedTo(a) => /\ ~isChannelBoundToTile(c)'
                                      /\ ~isChannelBoundToConnection(c)'
<1>1. CASE c \notin ConnectedTo(a)
  <2>1. Src[c] \in Actors \ {a} /\ Dst[c] \in Actors \ {a}
    BY <1>1, Ends DEF ConnectedTo
  <2>2. binding'[Src[c]] = binding[Src[c]] /\ binding'[Dst[c]] = binding[Dst[c]]
    BY <2>1 DEF Released, ReleasedActor, TypeOK
  <2>3. /\ isChannelBoundToTile(c)' = isChannelBoundToTile(c)
        /\ isChannelBoundToConnection(c)' = isChannelBoundToConnection(c)
    BY <2>2 DEF isChannelBoundToTile, isChannelBoundToConnection
  <2>4. demand' = demand
    BY DEF Released
  <2> QED
    BY <1>1, <2>2, <2>3, <2>4 DEF HasBuffer, HasInterface, BufferClaims, InterfaceClaims
<1>2. CASE c \in ConnectedTo(a)
  <2>1. binding'[a] = None /\ (Src[c] = a \/ Dst[c] = a)
    BY <1>2 DEF Released, ReleasedActor, TypeOK, ConnectedTo
  <2> QED
    BY <1>2, <2>1 DEF isChannelBoundToTile, isChannelBoundToConnection
<1> QED
  BY <1>1, <1>2

LEMMA ReleaseKeeps ==
    ASSUME TypeOK, Releasable, Running, NEW a \in Actors, Released(a)
    PROVE  Releasable' /\ Running' /\ Loaded'
<1>1. \A t \in Tiles : procs'[t] \subseteq On(t)' /\ memActor'[t] \subseteq On(t)'
  BY DEF Released, ReleasedActor, Releasable, ReleasableActors
<1>2. \A t \in Tiles, c \in Channels : Len(memChannel'[t][c]) <= IF Src[c] = Dst[c] THEN 2 ELSE 1
  <2>1. \A t \in Tiles, c \in Channels : Len(memChannel[t][c]) <= IF Src[c] = Dst[c] THEN 2 ELSE 1
    BY Zenon DEF Releasable, ReleasableLists
  <2>2. \A t \in Tiles, c \in Channels :
          memChannel'[t][c] = IF c \in ConnectedTo(a) THEN <<>> ELSE memChannel[t][c]
    BY Zenon DEF Released, ReleasedLists
  <2>3. Len(<<>>) <= 1 /\ Len(<<>>) <= 2
    OBVIOUS
  <2> QED
    BY <2>1, <2>2, <2>3
<1>3. \A t \in Tiles, c \in Channels : Len(ni'[t][c]) <= 1
  <2>1. \A t \in Tiles, c \in Channels : Len(ni[t][c]) <= 1
    BY Zenon DEF Releasable, ReleasableLists
  <2>2. \A t \in Tiles, c \in Channels :
          ni'[t][c] = IF c \in ConnectedTo(a) THEN <<>> ELSE ni[t][c]
    BY Zenon DEF Released, ReleasedLists
  <2>3. Len(<<>>) <= 1
    OBVIOUS
  <2> QED
    BY <2>1, <2>2, <2>3
<1>4. \A t \in Tiles, c \in Channels : memChannel'[t][c] # <<>> => HasBuffer(c, t)'
  <2>1. \A t \in Tiles, c \in Channels : memChannel'[t][c] # <<>> =>
          c \notin ConnectedTo(a) /\ memChannel'[t][c] = memChannel[t][c]
    BY DEF Released, ReleasedLists
  <2> QED
    BY <2>1, OtherChannels DEF Releasable, ReleasableLists
<1>5. \A t \in Tiles, c \in Channels : ni'[t][c] # <<>> => HasInterface(c, t)'
  <2>1. \A t \in Tiles, c \in Channels : ni'[t][c] # <<>> =>
          c \notin ConnectedTo(a) /\ ni'[t][c] = ni[t][c]
    BY DEF Released, ReleasedLists
  <2> QED
    BY <2>1, OtherChannels DEF Releasable, ReleasableLists
<1>6. \A t, u \in Tiles : conn'[t, u] \subseteq Between(t, u)'
  <2> SUFFICES ASSUME NEW t \in Tiles, NEW u \in Tiles, NEW c \in conn'[t, u]
               PROVE  c \in Between(t, u)'
    OBVIOUS
  <2>1. c \in conn[t, u] /\ c \notin ConnectedTo(a)
    BY DEF Released, ReleasedLinks
  <2>2. c \in Between(t, u)
    BY <2>1 DEF Releasable, ReleasableLinks
  <2>3. c \in Channels
    BY <2>2 DEF Between
  <2> QED
    BY <2>1, <2>2, <2>3, OtherChannels DEF Between
<1>7. Running'
  <2>1. \A c \in Actors : binding'[c] # None => binding'[c] = binding[c]
    BY DEF Released, ReleasedActor, TypeOK
  <2>2. platform' = platform
    BY DEF Released
  <2> QED
    BY <2>1, <2>2 DEF Running
<1>8. Loaded'
  <2>1. platform' = platform /\ \A t \in Tiles : tileLoad'[t] = SumOf(Loads(t), On(t)')
    BY DEF Released, ReleasedLoads
  <2>2. \A t \in Tiles : Loads(t)' = Loads(t)
    BY <2>1 DEF Loads
  <2> QED
    BY <2>1, <2>2 DEF Loaded
<1> QED
  BY <1>1, <1>2, <1>3, <1>4, <1>5, <1>6, <1>7, <1>8, Zenon
     DEF Releasable, ReleasableActors, ReleasableLists, ReleasableLinks

(* A release during a claim, or of an actor that is moved, takes back what *)
(* the actor has, whatever is claimed so far.                              *)
LEMMA ReleaseExact ==
    ASSUME TypeOK, AtPort, Exact, NEW a \in Actors, Released(a), pc' \notin Claiming,
           pc \in Claiming => a = cur
    PROVE  Exact'
<1>1. /\ Pending' = {} /\ \A c : ~Out(c)' /\ ~In(c)' /\ ~Doing(c, Phases)'
  <2>1. pc' \notin Claiming
    OBVIOUS
  <2> QED
    BY <2>1 DEF Pending, Claiming, Out, In, Doing
<1>2. \A c \in Channels : /\ ~Waits(c)'
                          /\ \A t \in Tiles : BufferNow(t, c)' = BufferClaims(t, c)'
                          /\ \A t \in Tiles : InterfaceNow(t, c)' = InterfaceClaims(t, c)'
  BY <1>1, CalmNext
<1>3. \A c \in Channels : c \notin ConnectedTo(a) =>
                          /\ ~Waits(c)
                          /\ \A t \in Tiles : BufferNow(t, c) = BufferClaims(t, c)
                          /\ \A t \in Tiles : InterfaceNow(t, c) = InterfaceClaims(t, c)
  BY Calm, NotPending, NothingPending
<1>4. \A t \in Tiles : procs'[t] = On(t)' /\ memActor'[t] = IF pc' = "state" THEN On(t)' \ {cur'} ELSE On(t)'
  <2>1. \A t \in Tiles : procs[t] \ {a} = On(t) \ {a} /\ memActor[t] \ {a} = On(t) \ {a}
    BY DEF Exact, ExactActors, Claiming
  <2>2. pc' # "state"
    BY DEF Claiming
  <2> QED
    BY <2>1, <2>2 DEF Released, ReleasedActor
<1>5. \A t \in Tiles, c \in Channels : memChannel'[t][c] = BufferNow(t, c)'
  <2> SUFFICES ASSUME NEW t \in Tiles, NEW c \in Channels PROVE memChannel'[t][c] = BufferClaims(t, c)'
    BY <1>2
  <2>1. CASE c \in ConnectedTo(a)
    BY <2>1, OtherChannels DEF Released, ReleasedLists, BufferClaims
  <2>2. CASE c \notin ConnectedTo(a)
    <3>1. memChannel'[t][c] = memChannel[t][c] /\ memChannel[t][c] = BufferNow(t, c)
      BY <2>2 DEF Released, ReleasedLists, Exact, ExactLists
    <3>2. BufferNow(t, c) = BufferClaims(t, c) /\ BufferClaims(t, c)' = BufferClaims(t, c)
      BY <1>3, <2>2, OtherChannels
    <3> QED
      BY <3>1, <3>2
  <2> QED
    BY <2>1, <2>2
<1>6. \A t \in Tiles, c \in Channels : ni'[t][c] = InterfaceNow(t, c)'
  <2> SUFFICES ASSUME NEW t \in Tiles, NEW c \in Channels PROVE ni'[t][c] = InterfaceClaims(t, c)'
    BY <1>2
  <2>1. CASE c \in ConnectedTo(a)
    BY <2>1, OtherChannels DEF Released, ReleasedLists, InterfaceClaims
  <2>2. CASE c \notin ConnectedTo(a)
    <3>1. ni'[t][c] = ni[t][c] /\ ni[t][c] = InterfaceNow(t, c)
      BY <2>2 DEF Released, ReleasedLists, Exact, ExactLists
    <3>2. InterfaceNow(t, c) = InterfaceClaims(t, c) /\ InterfaceClaims(t, c)' = InterfaceClaims(t, c)
      BY <1>3, <2>2, OtherChannels
    <3> QED
      BY <3>1, <3>2
  <2> QED
    BY <2>1, <2>2
<1>7. \A t, u \in Tiles : conn'[t, u] = {c \in Between(t, u)' : ~Waits(c)'}
  <2> SUFFICES ASSUME NEW t \in Tiles, NEW u \in Tiles
               PROVE  conn'[t, u] = {c \in Between(t, u)' : ~Waits(c)'}
    OBVIOUS
  <2>1. conn'[t, u] = {c \in Between(t, u) : ~Waits(c)} \ ConnectedTo(a)
    BY DEF Released, ReleasedLinks, Exact, ExactLinks
  <2>2. \A c \in Channels : c \in Between(t, u)' <=> c \in Between(t, u) /\ c \notin ConnectedTo(a)
    <3> SUFFICES ASSUME NEW c \in Channels
                 PROVE  c \in Between(t, u)' <=> c \in Between(t, u) /\ c \notin ConnectedTo(a)
      OBVIOUS
    <3>1. CASE c \in ConnectedTo(a)
      <4>1. ~isChannelBoundToConnection(c)'
        BY <3>1, OtherChannels
      <4>2. c \notin Between(t, u)'
        BY <4>1, Ends DEF Between, isChannelBoundToConnection
      <4> QED
        BY <3>1, <4>2
    <3>2. CASE c \notin ConnectedTo(a)
      BY <3>2, OtherChannels DEF Between
    <3> QED
      BY <3>1, <3>2
  <2>3. Between(t, u) \subseteq Channels /\ Between(t, u)' \subseteq Channels
    BY DEF Between
  <2> QED
    BY <1>2, <1>3, <2>1, <2>2, <2>3
<1> QED
  BY <1>4, <1>5, <1>6, <1>7, Zenon DEF Exact, ExactActors, ExactLists, ExactLinks

-----------------------------------------------------------------------------
(* Capacity                                                                *)
FitsMemory(p, t, A, m) == MostOf(p.state, A) + Total(Sized(m)) <= p.memory[t]

FitsRates(p, t, n) ==
    /\ Total(Counted(n)) <= p.conns[t]
    /\ Total(Valued(n, "in")) <= p.inBw[t]
    /\ Total(Valued(n, "out")) <= p.outBw[t]

LEMMA StateNumbers ==
    ASSUME NEW p \in Platform, NEW A \in SUBSET Actors
    PROVE  /\ Numbers(p.state, A) /\ MostOf(p.state, A) \in Nat
           /\ \A a \in A : p.state[a] <= MostOf(p.state, A)
           /\ MostOf(p.state, A) = 0 \/ \E a \in A : MostOf(p.state, A) = p.state[a]
<1>1. IsFiniteSet(A)
  BY BindingAssumption, FS_Subset
<1>2. Numbers(p.state, A)
  BY <1>1 DEF Numbers, Platform
<1> QED
  BY <1>2, MostBounds

LEMMA MostShrinks ==
    ASSUME NEW p \in Platform, NEW A \in SUBSET Actors, NEW B \in SUBSET A
    PROVE  MostOf(p.state, B) <= MostOf(p.state, A)
<1>1. B \in SUBSET Actors
  OBVIOUS
<1>2. MostOf(p.state, A) \in Nat /\ \A a \in A : p.state[a] <= MostOf(p.state, A)
  BY StateNumbers
<1>3. MostOf(p.state, B) = 0 \/ \E a \in B : MostOf(p.state, B) = p.state[a]
  BY <1>1, StateNumbers
<1> QED
  BY <1>2, <1>3

LEMMA MostAdds ==
    ASSUME NEW p \in Platform, NEW A \in SUBSET Actors, NEW a \in Actors
    PROVE  MostOf(p.state, A \cup {a}) \in {MostOf(p.state, A), p.state[a]}
           \/ MostOf(p.state, A \cup {a}) <= MostOf(p.state, A)
<1>1. A \cup {a} \in SUBSET Actors
  OBVIOUS
<1>2. MostOf(p.state, A) \in Nat /\ \A b \in A : p.state[b] <= MostOf(p.state, A)
  BY StateNumbers
<1>3. \/ MostOf(p.state, A \cup {a}) = 0
      \/ \E b \in A \cup {a} : MostOf(p.state, A \cup {a}) = p.state[b]
  BY <1>1, StateNumbers
<1> QED
  BY <1>2, <1>3

(* What the model calls in use                                             *)
LEMMA Use ==
    ASSUME TypeOK, NEW t \in Tiles
    PROVE  /\ stateMemory(t) = MostOf(platform.state, memActor[t]) /\ stateMemory(t) \in Nat
           /\ usedMemory(t) = stateMemory(t) + Total(Sized(memChannel[t]))
           /\ Total(Sized(memChannel[t])) \in Nat
           /\ usedConns(t) = Total(Counted(ni[t])) /\ usedConns(t) \in Nat
           /\ usedBw(t, "in") = Total(Valued(ni[t], "in")) /\ usedBw(t, "in") \in Nat
           /\ usedBw(t, "out") = Total(Valued(ni[t], "out")) /\ usedBw(t, "out") \in Nat
<1>1. platform \in Platform /\ memActor[t] \in SUBSET Actors
  BY BindingAssumption DEF TypeOK
<1>2. stateMemory(t) = MostOf(platform.state, memActor[t])
  BY Zenon DEF stateMemory, MostOf
<1>3. usedMemory(t) = stateMemory(t) + Total(Sized(memChannel[t]))
  BY Zenon DEF usedMemory, Sized
<1>4. usedConns(t) = Total(Counted(ni[t]))
  BY Zenon DEF usedConns, Counted
<1>5. \A w : usedBw(t, w) = Total(Valued(ni[t], w))
  BY Zenon DEF usedBw, Valued
<1>6. memChannel[t] \in [Channels -> Seq(Nat)] /\ ni[t] \in [Channels -> Seq(Rates)]
  BY DEF TypeOK, Rates
<1>7. /\ Total(Sized(memChannel[t])) \in Nat /\ Total(Counted(ni[t])) \in Nat
      /\ Total(Valued(ni[t], "in")) \in Nat /\ Total(Valued(ni[t], "out")) \in Nat
  BY <1>6, SizedType, CountedType, ValuedType
<1>8. MostOf(platform.state, memActor[t]) \in Nat
  BY <1>1, StateNumbers
<1> QED
  BY <1>2, <1>3, <1>4, <1>5, <1>7, <1>8

LEMMA Capacity ==
    ASSUME TypeOK
    PROVE  WithinCapacity <=> \A t \in Tiles : /\ FitsMemory(platform, t, memActor[t], memChannel[t])
                                               /\ FitsRates(platform, t, ni[t])
<1>1. ASSUME NEW t \in Tiles
      PROVE  availableMemorySize(t) >= 0 <=> FitsMemory(platform, t, memActor[t], memChannel[t])
  <2>1. platform.memory[t] \in Nat
    BY PlatformType
  <2>2. PICK s \in Nat : s = MostOf(platform.state, memActor[t])
    BY Use
  <2>3. PICK m \in Nat : m = Total(Sized(memChannel[t]))
    BY Use
  <2>4. availableMemorySize(t) = platform.memory[t] - (s + m)
    BY <2>2, <2>3, Use DEF availableMemorySize
  <2>5. FitsMemory(platform, t, memActor[t], memChannel[t]) <=> s + m <= platform.memory[t]
    BY <2>2, <2>3 DEF FitsMemory
  <2> QED
    BY <2>1, <2>4, <2>5
<1>2. ASSUME NEW t \in Tiles
      PROVE  FitsRates(platform, t, ni[t]) <=> /\ usedConns(t) <= platform.conns[t]
                                               /\ usedBw(t, "in") <= platform.inBw[t]
                                               /\ usedBw(t, "out") <= platform.outBw[t]
  <2>1. /\ usedConns(t) = Total(Counted(ni[t])) /\ usedBw(t, "in") = Total(Valued(ni[t], "in"))
        /\ usedBw(t, "out") = Total(Valued(ni[t], "out"))
    BY Use
  <2> QED
    BY <2>1, Zenon DEF FitsRates
<1> QED
  BY <1>1, <1>2 DEF WithinCapacity

LEMMA ShrinkFits ==
    ASSUME NEW p \in Platform, NEW t \in Tiles, NEW A \in SUBSET Actors, NEW B \in SUBSET A,
           NEW m \in [Channels -> Seq(Nat)], NEW k \in [Channels -> Seq(Nat)],
           \A c \in Channels : k[c] = m[c] \/ k[c] = <<>>, FitsMemory(p, t, A, m)
    PROVE  FitsMemory(p, t, B, k)
<1>1. p.memory[t] \in Nat
  BY DEF Platform, Amounts
<1>2. MostOf(p.state, A) \in Nat /\ MostOf(p.state, B) \in Nat /\ MostOf(p.state, B) <= MostOf(p.state, A)
  <2>1. B \in SUBSET Actors
    OBVIOUS
  <2> QED
    BY <2>1, StateNumbers, MostShrinks
<1>3. /\ Total(Sized(m)) \in Nat /\ Total(Sized(k)) \in Nat /\ Total(Sized(k)) <= Total(Sized(m))
  BY SizedType, SizedShrinks
<1> QED
  BY <1>1, <1>2, <1>3 DEF FitsMemory

LEMMA ShrinkFitsRates ==
    ASSUME NEW p \in Platform, NEW t \in Tiles,
           NEW n \in [Channels -> Seq(Rates)], NEW k \in [Channels -> Seq(Rates)],
           \A c \in Channels : k[c] = n[c] \/ k[c] = <<>>, FitsRates(p, t, n)
    PROVE  FitsRates(p, t, k)
<1>1. p.conns[t] \in Nat /\ p.inBw[t] \in Nat /\ p.outBw[t] \in Nat
  BY DEF Platform, Amounts
<1>2. /\ Total(Counted(n)) \in Nat /\ Total(Counted(k)) \in Nat
      /\ Total(Counted(k)) <= Total(Counted(n))
  BY CountedType, RatesShrink
<1>3. /\ Total(Valued(n, "in")) \in Nat /\ Total(Valued(k, "in")) \in Nat
      /\ Total(Valued(k, "in")) <= Total(Valued(n, "in"))
  BY ValuedType, RatesShrink
<1>4. /\ Total(Valued(n, "out")) \in Nat /\ Total(Valued(k, "out")) \in Nat
      /\ Total(Valued(k, "out")) <= Total(Valued(n, "out"))
  BY ValuedType, RatesShrink
<1> QED
  BY <1>1, <1>2, <1>3, <1>4 DEF FitsRates

LEMMA CapacityAlways ==
    TypeOK => (WithinCapacity <=> \A t \in Tiles : /\ FitsMemory(platform, t, memActor[t], memChannel[t])
                                                   /\ FitsRates(platform, t, ni[t]))
BY Capacity

LEMMA CapacityNext ==
    TypeOK' => (WithinCapacity' <=> \A t \in Tiles : /\ FitsMemory(platform', t, memActor'[t], memChannel'[t])
                                                     /\ FitsRates(platform', t, ni'[t]))
<1>1. (TypeOK => (WithinCapacity <=> \A t \in Tiles : /\ FitsMemory(platform, t, memActor[t], memChannel[t])
                                                      /\ FitsRates(platform, t, ni[t])))'
  BY CapacityAlways, PTL
<1> QED
  BY <1>1

-----------------------------------------------------------------------------
(* The claims of an attempt, action by action                              *)
Claimed ==
    /\ pc \in {"release", "undo"} => Releasable
    /\ pc \notin {"release", "undo", "exception"} => Exact

(* The actors that have no tile                                            *)
Free == (IF mode = "bind" THEN remaining ELSE {}) \cup (IF pc = "tile" THEN {cur} ELSE {})

Progress ==
    /\ pc \in Trying => \A a \in Actors : binding[a] = None <=> a \in Free
    /\ pc \in Trying \ {"next"} => cur \notin remaining
    /\ pc \in {"bound", "sliced"} => Bound = Actors
    /\ pc = "idle" => Bound \in {{}, Actors}

Resizing == pc = "sliced" => todo \subseteq Buffers

Core ==
    /\ TypeOK /\ Claimed /\ AtPort /\ Loaded /\ Running /\ Progress /\ Resizing

Quiet == \A c \in Channels : ~Out(c) /\ ~In(c) /\ ~Doing(c, Phases)

LEMMA QuietOutside == pc \notin Claiming => Quiet
BY NothingPending DEF Quiet

LEMMA QuietOutsideNext == pc' \notin Claiming => Quiet'
<1>1. (pc \notin Claiming => Quiet)'
  BY QuietOutside, PTL
<1> QED
  BY <1>1

LEMMA ClaimedReleasable ==
    ASSUME TypeOK, Claimed, pc # "exception"
    PROVE  Releasable
BY ExactReleasable DEF Claimed

(* Nothing is claimed between two states without a port pending.           *)
LEMMA KeptExact ==
    ASSUME Exact, Quiet, Quiet', pc # "state", pc' # "state", UNCHANGED <<demand, binding, claims>>
    PROVE  Exact'
<1>1. /\ procs' = procs /\ memActor' = memActor /\ memChannel' = memChannel /\ ni' = ni /\ conn' = conn
      /\ demand' = demand /\ binding' = binding
  BY DEF claims
<1>2. \A c \in Channels : /\ ~Waits(c)
                          /\ \A t \in Tiles : BufferNow(t, c) = BufferClaims(t, c)
                          /\ \A t \in Tiles : InterfaceNow(t, c) = InterfaceClaims(t, c)
  BY Calm DEF Quiet
<1>3. \A c \in Channels : /\ ~Waits(c)'
                          /\ \A t \in Tiles : BufferNow(t, c)' = BufferClaims(t, c)'
                          /\ \A t \in Tiles : InterfaceNow(t, c)' = InterfaceClaims(t, c)'
  BY CalmNext DEF Quiet
<1>4. \A t \in Tiles : On(t)' = On(t)
  BY <1>1 DEF On
<1>5. \A t, u \in Tiles : Between(t, u)' = Between(t, u) /\ Between(t, u) \subseteq Channels
  BY <1>1 DEF Between
<1>6. \A t \in Tiles, c \in Channels : /\ BufferClaims(t, c)' = BufferClaims(t, c)
                                       /\ InterfaceClaims(t, c)' = InterfaceClaims(t, c)
  BY <1>1 DEF BufferClaims, InterfaceClaims, isChannelBoundToTile, isChannelBoundToConnection
<1>7. ExactActors'
  BY <1>1, <1>4 DEF Exact, ExactActors
<1>8. ExactLists'
  BY <1>1, <1>2, <1>3, <1>6 DEF Exact, ExactLists
<1>9. ExactLinks'
  <2>1. ASSUME NEW t \in Tiles, NEW u \in Tiles
        PROVE  conn'[t, u] = {c \in Between(t, u)' : ~Waits(c)'}
    <3>1. conn'[t, u] = {c \in Between(t, u) : ~Waits(c)}
      BY <1>1, Zenon DEF Exact, ExactLinks
    <3>2. {c \in Between(t, u) : ~Waits(c)} = Between(t, u)
      BY <1>2, <1>5
    <3>3. {c \in Between(t, u)' : ~Waits(c)'} = Between(t, u)'
      BY <1>3, <1>5
    <3> QED
      BY <1>5, <3>1, <3>2, <3>3, Zenon
  <2> QED
    BY <2>1 DEF ExactLinks
<1> QED
  BY <1>7, <1>8, <1>9 DEF Exact

(* A channel whose ports and phase do not change keeps its claims.         *)
SamePoint(c) ==
    /\ (Out(c)' <=> Out(c)) /\ (In(c)' <=> In(c))
    /\ (Doing(c, {"srcMem"})' <=> Doing(c, {"srcMem"}))
    /\ (Doing(c, {"srcMem", "dstMem"})' <=> Doing(c, {"srcMem", "dstMem"}))
    /\ (Doing(c, Phases \ {"dstNI"})' <=> Doing(c, Phases \ {"dstNI"}))
    /\ (Doing(c, Phases)' <=> Doing(c, Phases))

LEMMA SameNow ==
    ASSUME NEW c \in Channels, UNCHANGED <<demand, binding>>, SamePoint(c)
    PROVE  /\ Waits(c)' <=> Waits(c)
           /\ \A t \in Tiles : BufferNow(t, c)' = BufferNow(t, c)
           /\ \A t \in Tiles : InterfaceNow(t, c)' = InterfaceNow(t, c)
<1>1. (Waits(c)' <=> Waits(c)) /\ (Half(c)' <=> Half(c))
  BY DEF SamePoint, Waits, Half
<1>2. /\ isChannelBoundToTile(c)' <=> isChannelBoundToTile(c)
      /\ isChannelBoundToConnection(c)' <=> isChannelBoundToConnection(c)
  BY DEF isChannelBoundToTile, isChannelBoundToConnection
<1>3. LocalNow(c)' = LocalNow(c)
  BY <1>1 DEF LocalNow
<1>4. SourceNow(c)' = SourceNow(c) /\ TargetNow(c)' = TargetNow(c)
  BY DEF SamePoint, SourceNow, TargetNow
<1>5. SendNow(c)' = SendNow(c) /\ ReceiveNow(c)' = ReceiveNow(c)
  BY DEF SamePoint, SendNow, ReceiveNow
<1>6. \A t \in Tiles : BufferNow(t, c)' = BufferNow(t, c)
  BY <1>1, <1>2, <1>3, <1>4 DEF BufferNow
<1>7. \A t \in Tiles : InterfaceNow(t, c)' = InterfaceNow(t, c)
  BY <1>1, <1>2, <1>5 DEF InterfaceNow
<1> QED
  BY <1>1, <1>6, <1>7

(* A release in the loops over the bound actors                            *)
LEMMA ReleaseNextCore ==
    ASSUME Core, ReleaseNext
    PROVE  Core'
<1>1. PICK a \in Bound : releaseResources(a)
  BY DEF ReleaseNext
<1>2. a \in Actors /\ binding[a] # None /\ pc \in {"release", "undo"}
  BY <1>1 DEF Bound, ReleaseNext
<1>3. TypeOK /\ Releasable /\ Loaded /\ Running
  BY <1>2 DEF Core, Claimed
<1>4. Released(a)
  BY <1>1, <1>2, <1>3, Release
<1>5. Releasable' /\ Running' /\ Loaded'
  BY <1>2, <1>3, <1>4, ReleaseKeeps
<1>6. /\ pc' = pc /\ mode' = mode /\ cur' = cur /\ remaining' = remaining /\ untried' = untried
      /\ todo' = todo /\ chan' = chan
  BY DEF ReleaseNext, control
<1>7. platform' = platform /\ demand' = demand /\ ReleasedTypes
  BY <1>4 DEF Released
<1>8. TypeOK'
  BY <1>3, <1>6, <1>7 DEF TypeOK, ReleasedTypes, Rates
<1>9. Claimed'
  BY <1>2, <1>5, <1>6 DEF Claimed
<1>10. pc' \notin Claiming /\ pc' \notin Trying
  BY <1>2, <1>6 DEF Claiming, Trying, Phases
<1>11. AtPort'
  BY <1>10 DEF AtPort, Pending, Claiming
<1>12. Progress' /\ Resizing'
  BY <1>2, <1>6, <1>10 DEF Progress, Resizing
<1> QED
  BY <1>5, <1>8, <1>9, <1>11, <1>12 DEF Core

(* The steps between attempts claim and release nothing.                   *)
LEMMA OutsideCore ==
    ASSUME Core, NewAttempt \/ Undone \/ StartBinding \/ BindingFails
    PROVE  Core'
<1>1. /\ platform' = platform /\ binding' = binding /\ slice' = slice
      /\ procs' = procs /\ memActor' = memActor /\ memChannel' = memChannel /\ ni' = ni /\ conn' = conn
      /\ pc \notin Claiming /\ pc' \notin Claiming
      /\ cur' = cur /\ untried' = untried /\ todo' = todo /\ chan' = chan
  BY DEF NewAttempt, Undone, StartBinding, BindingFails, resources, claims, Claiming, Phases
<1>2. /\ demand' \in Demand
      /\ pc' \in {"idle", "release", "undo", "next"} /\ pc \in {"idle", "undo", "release", "tile"}
      /\ mode' \in {"bind", "move"} /\ remaining' \subseteq Actors
  BY BindingAssumption DEF Core, TypeOK, NewAttempt, Undone, StartBinding, BindingFails
<1>3. \A t \in Tiles : On(t)' = On(t)
  BY <1>1 DEF On
<1>4. tileLoad' \in [Tiles -> Nat] /\ Loaded'
  <2>1. \A t \in Tiles : Loads(t)' = Loads(t)
    BY <1>1 DEF Loads
  <2>2. CASE tileLoad' = tileLoad
    BY <1>3, <2>1, <2>2 DEF Core, TypeOK, Loaded
  <2>3. CASE StartBinding
    <3>1. tileLoad' = [t \in Tiles |-> 0] /\ Bound = {}
      BY <2>3 DEF StartBinding
    <3>2. \A t \in Tiles : On(t) = {}
      BY <3>1, Ends DEF On, Bound
    <3>3. \A t \in Tiles : SumOf(Loads(t)', On(t)') = 0
      BY <1>3, <3>2, SumEmpty
    <3> QED
      BY <3>1, <3>3 DEF Loaded
  <2> QED
    BY <2>2, <2>3 DEF NewAttempt, Undone, BindingFails, resources
<1>5. TypeOK'
  BY <1>1, <1>2, <1>4 DEF Core, TypeOK
<1>6. Running'
  BY <1>1 DEF Core, Running
<1>7. AtPort' /\ Resizing'
  BY <1>1, <1>2 DEF AtPort, Pending, Claiming, Resizing
<1>8. Releasable
  BY <1>2, ClaimedReleasable DEF Core
<1>9. Releasable'
  <2>1. \A c \in Channels, t \in Tiles : /\ HasBuffer(c, t)' = HasBuffer(c, t)
                                         /\ HasInterface(c, t)' = HasInterface(c, t)
    BY <1>1 DEF HasBuffer, HasInterface, isChannelBoundToTile, isChannelBoundToConnection
  <2>2. \A t, u \in Tiles : Between(t, u)' = Between(t, u)
    BY <1>1 DEF Between
  <2>3. ReleasableActors'
    BY <1>1, <1>3, <1>8 DEF Releasable, ReleasableActors
  <2>4. ReleasableLists'
    BY <1>1, <1>8, <2>1 DEF Releasable, ReleasableLists
  <2>5. ReleasableLinks'
    BY <1>1, <1>8, <2>2 DEF Releasable, ReleasableLinks
  <2> QED
    BY <2>3, <2>4, <2>5 DEF Releasable
<1>10. CASE pc' \in {"release", "undo"}
  <2>1. Claimed' /\ Progress'
    BY <1>9, <1>10 DEF Claimed, Progress, Trying, Claiming, Phases
  <2> QED
    BY <1>4, <1>5, <1>6, <1>7, <2>1 DEF Core
<1>11. CASE pc' \in {"idle", "next"}
  <2>1. Bound = {} /\ Bound' = Bound
    BY <1>1, <1>11 DEF NewAttempt, Undone, StartBinding, BindingFails, Bound
  <2>2. \A a \in Actors : binding[a] = None
    BY <2>1 DEF Bound
  <2>3. \A t \in Tiles, c \in Channels : memChannel[t][c] = <<>> /\ ni[t][c] = <<>>
    BY <1>8, <2>2, Ends DEF Releasable, ReleasableLists, HasBuffer, HasInterface,
                            isChannelBoundToTile, isChannelBoundToConnection
  <2>4. \A t \in Tiles : procs[t] = {} /\ memActor[t] = {} /\ On(t) = {}
    BY <1>8, <2>2, Ends DEF Releasable, ReleasableActors, On
  <2>5. \A t, u \in Tiles : conn[t, u] = {} /\ Between(t, u)' = {}
    BY <1>1, <1>8, <2>2, Ends DEF Releasable, ReleasableLinks, Between
  <2>6. ExactActors'
    BY <1>1, <1>3, <2>4 DEF ExactActors
  <2>7. \A c \in Channels : ~isChannelBoundToTile(c)' /\ ~isChannelBoundToConnection(c)'
    BY <1>1, <2>2, Ends DEF isChannelBoundToTile, isChannelBoundToConnection
  <2>8. ExactLists'
    BY <1>1, <2>3, <2>7 DEF ExactLists, BufferNow, InterfaceNow
  <2>9. ExactLinks'
    BY <1>1, <2>5 DEF ExactLinks
  <2>10. Claimed'
    BY <1>11, <2>6, <2>8, <2>9 DEF Claimed, Exact
  <2>11. Progress'
    <3>1. CASE pc' = "idle"
      BY <2>1, <3>1 DEF Progress, Trying, Claiming, Phases
    <3>2. CASE pc' = "next"
      <4>1. mode' = "bind" /\ remaining' = Actors
        BY <3>2 DEF StartBinding, NewAttempt, Undone, BindingFails
      <4> QED
        BY <1>1, <2>2, <3>2, <4>1 DEF Progress, Free
    <3> QED
      BY <1>11, <3>1, <3>2
  <2> QED
    BY <1>4, <1>5, <1>6, <1>7, <2>10, <2>11 DEF Core
<1> QED
  BY <1>2, <1>10, <1>11

LEMMA UnchangedLoads ==
    ASSUME Core, UNCHANGED <<platform, binding, tileLoad>>
    PROVE  Loaded' /\ Running' /\ \A t \in Tiles : On(t)' = On(t)
<1>1. \A t \in Tiles : On(t)' = On(t) /\ Loads(t)' = Loads(t)
  BY DEF On, Loads
<1>2. Loaded' /\ Running'
  BY <1>1 DEF Core, Loaded, Running
<1> QED
  BY <1>1, <1>2

LEMMA NextActorCore ==
    ASSUME Core, NextActor
    PROVE  Core'
<1>1. PICK a \in remaining : /\ cur' = a
                             /\ remaining' = remaining \ {a}
                             /\ IF mode = "move" THEN releaseResources(a)
                                                 ELSE UNCHANGED <<platform, demand, resources>>
  BY DEF NextActor
<1>2. /\ pc = "next" /\ pc' = "tile" /\ mode' = mode /\ untried' = Tiles /\ todo' = todo /\ chan' = chan
      /\ a \in Actors
  BY DEF NextActor, Core, TypeOK
<1>3. /\ TypeOK /\ Exact /\ Releasable /\ Loaded /\ Running /\ AtPort /\ mode \in {"bind", "move"}
  BY <1>2, ClaimedReleasable DEF Core, Claimed, TypeOK
<1>4. \A b \in Actors : binding[b] = None <=> mode = "bind" /\ b \in remaining
  BY <1>2 DEF Core, Progress, Trying, Free
<1>5. AtPort' /\ Resizing'
  BY <1>2 DEF AtPort, Pending, Claiming, Phases, Resizing
<1>6. pc \notin Claiming /\ pc' \notin Claiming
  BY <1>2 DEF Claiming, Phases
<1>7. CASE mode = "move"
  <2>1. releaseResources(a) /\ binding[a] # None
    BY <1>1, <1>2, <1>4, <1>7
  <2>2. Released(a)
    BY <1>2, <1>3, <2>1, Release
  <2>3. Releasable' /\ Running' /\ Loaded'
    BY <1>2, <1>3, <2>2, ReleaseKeeps
  <2>4. Exact'
    BY <1>2, <1>3, <1>6, <2>2, ReleaseExact
  <2>5. platform' = platform /\ demand' = demand /\ ReleasedTypes /\ binding' = [binding EXCEPT ![a] = None]
    BY <2>2 DEF Released, ReleasedActor
  <2>6. TypeOK'
    BY <1>1, <1>2, <1>3, <2>5 DEF TypeOK, ReleasedTypes, Rates
  <2>7. Claimed'
    BY <1>2, <2>4 DEF Claimed
  <2>8. Progress'
    BY <1>1, <1>2, <1>3, <1>4, <1>7, <2>5 DEF Progress, Free, TypeOK
  <2> QED
    BY <1>5, <2>3, <2>6, <2>7, <2>8 DEF Core
<1>8. CASE mode = "bind"
  <2>1. UNCHANGED <<platform, demand, binding, claims, tileLoad, slice>>
    BY <1>1, <1>8 DEF resources
  <2>2. TypeOK'
    BY <1>1, <1>2, <1>3, <2>1 DEF TypeOK, claims
  <2>3. Loaded' /\ Running'
    BY <2>1, UnchangedLoads
  <2>4. Exact'
    BY <1>2, <1>3, <1>6, <2>1, KeptExact, QuietOutside, QuietOutsideNext
  <2>5. Claimed'
    BY <1>2, <2>4 DEF Claimed
  <2>6. Progress'
    BY <1>1, <1>2, <1>3, <1>4, <1>8, <2>1 DEF Progress, Free, TypeOK
  <2> QED
    BY <1>5, <2>2, <2>3, <2>5, <2>6 DEF Core
<1> QED
  BY <1>3, <1>7, <1>8

(* The steps that only move on                                             *)
LEMMA MovesOnCore ==
    ASSUME Core, AllBound \/ Allocated \/ Optimized
    PROVE  Core'
<1>1. /\ UNCHANGED <<platform, demand, binding, claims, tileLoad, slice>>
      /\ cur' = cur /\ untried' = untried /\ chan' = chan
      /\ pc \in {"next", "port", "sliced"} /\ pc' \in {"next", "bound", "idle"}
  BY DEF AllBound, Allocated, Optimized, resources
<1>2. /\ TypeOK /\ Exact
  BY <1>1 DEF Core, Claimed
<1>3. /\ mode' \in {"bind", "move"} /\ remaining' \subseteq Actors
      /\ todo' \subseteq Channels \X {"in", "out", "mem", "src", "dst"}
  BY <1>2 DEF TypeOK, AllBound, Allocated, Optimized
<1>4. TypeOK'
  BY <1>1, <1>2, <1>3 DEF TypeOK, claims
<1>5. Loaded' /\ Running'
  BY <1>1, UnchangedLoads
<1>6. pc' \notin Claiming /\ pc # "state" /\ pc' # "state"
  BY <1>1 DEF Claiming, Phases
<1>7. Quiet
  <2>1. CASE pc = "port"
    <3>1. todo = {}
      BY <2>1 DEF AllBound, Allocated, Optimized
    <3> QED
      BY <2>1, <3>1 DEF Quiet, Out, In, Doing, Pending, Phases
  <2>2. CASE pc # "port"
    BY <1>1, <2>2, QuietOutside DEF Claiming, Phases
  <2> QED
    BY <2>1, <2>2
<1>8. Exact'
  BY <1>1, <1>2, <1>6, <1>7, KeptExact, QuietOutsideNext
<1>9. Claimed' /\ AtPort' /\ Resizing'
  BY <1>1, <1>6, <1>8 DEF Claimed, AtPort, Pending, Claiming, Resizing
<1>10. Progress'
  <2>1. binding' = binding /\ Bound' = Bound
    BY <1>1 DEF Bound
  <2>2. CASE AllBound /\ mode = "bind"
    <3>1. pc = "next" /\ remaining = {} /\ mode' = "move" /\ pc' = "next" /\ remaining' = Actors
      BY <2>2 DEF AllBound
    <3>2. \A a \in Actors : binding[a] # None
      BY <2>2, <3>1 DEF Core, Progress, Trying, Free
    <3> QED
      BY <2>1, <3>1, <3>2 DEF Progress, Free, Trying
  <2>3. CASE AllBound /\ mode # "bind"
    <3>1. pc = "next" /\ pc' = "bound"
      BY <2>3 DEF AllBound
    <3>2. \A a \in Actors : binding[a] # None
      BY <2>3, <3>1 DEF Core, Progress, Trying, Free
    <3> QED
      BY <2>1, <3>1, <3>2 DEF Progress, Free, Trying, Claiming, Phases, Bound
  <2>4. CASE Allocated
    <3>1. pc = "port" /\ pc' = "next" /\ remaining' = remaining /\ mode' = mode
      BY <2>4 DEF Allocated
    <3> QED
      BY <2>1, <3>1 DEF Core, Progress, Free, Trying, Claiming
  <2>5. CASE Optimized
    <3>1. pc = "sliced" /\ pc' = "idle"
      BY <2>5 DEF Optimized
    <3> QED
      BY <2>1, <3>1 DEF Core, Progress, Trying, Claiming, Phases
  <2> QED
    BY <2>2, <2>3, <2>4, <2>5
<1> QED
  BY <1>4, <1>5, <1>9, <1>10 DEF Core

LEMMA BindActorCore ==
    ASSUME Core, bindActor
    PROVE  Core'
<1>1. PICK t \in untried :
          /\ untried' = untried \ {t}
          /\ IF CanRun(t)
             THEN /\ procs' = [procs EXCEPT ![t] = @ \cup {cur}]
                  /\ binding' = [binding EXCEPT ![cur] = t]
                  /\ tileLoad' = [tileLoad EXCEPT ![t] = @ + platform.load[cur][t]]
                  /\ pc' = "state"
             ELSE UNCHANGED <<procs, binding, tileLoad, pc>>
  BY DEF bindActor
<1>2. /\ pc = "tile" /\ t \in Tiles /\ cur \in Actors /\ t # None
      /\ platform' = platform /\ demand' = demand /\ memActor' = memActor /\ memChannel' = memChannel
      /\ ni' = ni /\ conn' = conn /\ slice' = slice /\ mode' = mode /\ cur' = cur
      /\ remaining' = remaining /\ todo' = todo /\ chan' = chan
  BY Ends DEF bindActor, Core, TypeOK
<1>3. TypeOK /\ Exact /\ AtPort /\ Loaded /\ Running
  BY <1>2 DEF Core, Claimed
<1>4. binding[cur] = None /\ \A a \in Actors : binding[a] = None <=> a \in Free
  BY <1>2 DEF Core, Progress, Trying, Free
<1>5. pc \notin Claiming /\ Quiet
  BY <1>2, QuietOutside DEF Claiming, Phases
<1>6. CASE ~CanRun(t)
  <2>1. /\ UNCHANGED <<platform, demand, binding, claims, tileLoad, slice>> /\ pc' = "tile"
    BY <1>1, <1>2, <1>6 DEF claims
  <2>2. TypeOK'
    BY <1>1, <1>2, <1>3, <2>1 DEF TypeOK, claims
  <2>3. Loaded' /\ Running'
    BY <2>1, UnchangedLoads
  <2>4. pc' \notin Claiming
    BY <2>1 DEF Claiming, Phases
  <2>5. Exact'
    BY <1>2, <1>3, <1>5, <2>1, <2>4, KeptExact, QuietOutsideNext
  <2>6. Claimed' /\ AtPort' /\ Resizing'
    BY <2>1, <2>4, <2>5 DEF Claimed, AtPort, Pending, Claiming, Phases, Resizing
  <2>7. Progress'
    BY <1>2, <2>1 DEF Core, Progress, Free, Trying, Claiming
  <2> QED
    BY <2>2, <2>3, <2>6, <2>7 DEF Core
<1>7. CASE CanRun(t)
  <2>1. /\ procs' = [procs EXCEPT ![t] = @ \cup {cur}]
        /\ binding' = [binding EXCEPT ![cur] = t]
        /\ tileLoad' = [tileLoad EXCEPT ![t] = @ + platform.load[cur][t]]
        /\ pc' = "state"
    BY <1>1, <1>7
  <2>2. <<cur, t>> \in platform.runs /\ platform.wheel[t] > 0
    <3>1. platform.wheel[t] \in Nat /\ slice[t] \in Nat
      BY <1>2, <1>3, PlatformType DEF TypeOK
    <3> QED
      BY <1>7, <3>1 DEF CanRun
  <2>3. platform.load[cur][t] \in Nat
    BY <1>2, <1>3, PlatformType
  <2>4. TypeOK'
    <3>1. /\ procs' \in [Tiles -> SUBSET Actors] /\ binding' \in [Actors -> Tiles \cup {None}]
      BY <1>2, <1>3, <2>1 DEF TypeOK
    <3>2. tileLoad' \in [Tiles -> Nat]
      BY <1>2, <1>3, <2>1, <2>3 DEF TypeOK
    <3> QED
      BY <1>1, <1>2, <1>3, <2>1, <3>1, <3>2 DEF TypeOK
  <2>5. \A u \in Tiles : On(u)' = IF u = t THEN On(u) \cup {cur} ELSE On(u)
    <3>1. \A a \in Actors : binding'[a] = IF a = cur THEN t ELSE binding[a]
      BY <1>2, <1>3, <2>1 DEF TypeOK
    <3> SUFFICES ASSUME NEW u \in Tiles
                 PROVE  On(u)' = IF u = t THEN On(u) \cup {cur} ELSE On(u)
      OBVIOUS
    <3>2. On(u)' = {a \in Actors : binding'[a] = u}
      BY DEF On
    <3>3. binding[cur] # u
      BY <1>4, Ends
    <3>4. CASE u = t
      BY <1>2, <3>1, <3>2, <3>4 DEF On
    <3>5. CASE u # t
      BY <1>2, <3>1, <3>2, <3>3, <3>5 DEF On
    <3> QED
      BY <3>4, <3>5
  <2>6. \A u \in Tiles : cur \notin On(u) /\ On(u) \in SUBSET Actors
    BY <1>2, <1>4, Ends DEF On
  <2>7. Loaded'
    <3> SUFFICES ASSUME NEW u \in Tiles PROVE tileLoad'[u] = SumOf(Loads(u), On(u)')
      BY <1>2 DEF Loaded, Loads
    <3>1. tileLoad[u] = SumOf(Loads(u), On(u)) /\ tileLoad[u] \in Nat
      BY <1>3 DEF Loaded, TypeOK
    <3>2. CASE u = t
      <4>1. On(t) \cup {cur} \in SUBSET Actors
        BY <1>2, <2>6
      <4>2. Numbers(Loads(t), On(t) \cup {cur}) /\ IsFiniteSet(On(t))
        BY <1>2, <1>3, <2>6, <4>1, LoadNumbers DEF Numbers
      <4>3. SumOf(Loads(t), On(t) \cup {cur}) = Loads(t)[cur] + SumOf(Loads(t), On(t))
        BY <1>2, <2>6, <4>2, SumAdd
      <4>4. Loads(t)[cur] = platform.load[cur][t]
        BY <1>2 DEF Loads
      <4>5. tileLoad'[t] = tileLoad[t] + platform.load[cur][t]
        BY <1>2, <1>3, <2>1 DEF TypeOK
      <4> QED
        BY <1>2, <2>3, <2>5, <3>1, <3>2, <4>3, <4>4, <4>5
    <3>3. CASE u # t
      <4>1. tileLoad'[u] = tileLoad[u]
        BY <1>2, <1>3, <2>1, <3>3 DEF TypeOK
      <4> QED
        BY <2>5, <3>1, <3>3, <4>1
    <3> QED
      BY <3>2, <3>3
  <2>8. Running'
    BY <1>2, <1>3, <2>1, <2>2 DEF Running, TypeOK
  <2>9. Pending' = Ports(cur)
    BY <1>2, <2>1 DEF Pending, Ports
  <2>10. \A c \in Channels : ~Doing(c, Phases)' /\ ~Doing(c, {"srcMem"})'
    BY <2>1 DEF Doing, Phases
  <2>11. AtPort'
    <3>1. binding'[cur'] # None
      BY <1>2, <1>3, <2>1 DEF TypeOK
    <3>2. Pending' \subseteq Ports(cur)'
      BY <1>2, <2>9 DEF Ports
    <3> QED
      BY <2>1, <3>1, <3>2 DEF AtPort, Phases
  <2>12. \A c \in Channels :
           /\ c \in ConnectedTo(cur) => Waits(c)'
           /\ c \notin ConnectedTo(cur) => ~Out(c)' /\ ~In(c)'
    <3>1. \A c \in Channels : (Out(c)' <=> Src[c] = cur) /\ (In(c)' <=> Dst[c] = cur)
      BY <2>9 DEF Out, In, Ports
    <3> QED
      BY <3>1 DEF Waits, ConnectedTo
  <2>13. \A c \in Channels : c \notin ConnectedTo(cur) =>
            /\ binding'[Src[c]] = binding[Src[c]] /\ binding'[Dst[c]] = binding[Dst[c]]
    BY <1>2, <1>3, <2>1, Ends DEF ConnectedTo, TypeOK
  <2>14. \A c \in Channels : /\ ~Waits(c)
                             /\ \A u \in Tiles : BufferNow(u, c) = BufferClaims(u, c)
                             /\ \A u \in Tiles : InterfaceNow(u, c) = InterfaceClaims(u, c)
    BY <1>5, Calm DEF Quiet
  <2>15. \A c \in Channels : c \notin ConnectedTo(cur) =>
                             /\ ~Waits(c)'
                             /\ \A u \in Tiles : BufferNow(u, c)' = BufferClaims(u, c)'
                             /\ \A u \in Tiles : InterfaceNow(u, c)' = InterfaceClaims(u, c)'
    BY <2>10, <2>12, CalmNext
  <2>16. \A c \in Channels : c \in ConnectedTo(cur) =>
                             /\ ~isChannelBoundToTile(c) /\ ~isChannelBoundToConnection(c)
    BY <1>4 DEF ConnectedTo, isChannelBoundToTile, isChannelBoundToConnection
  <2>17. ExactActors'
    <3>1. \A u \in Tiles : procs[u] = On(u) /\ memActor[u] = On(u)
      BY <1>2, <1>3 DEF Exact, ExactActors
    <3>2. \A u \in Tiles : procs'[u] = On(u)' /\ memActor'[u] = On(u)' \ {cur}
      BY <1>2, <1>3, <2>1, <2>5, <2>6, <3>1 DEF TypeOK
    <3> QED
      BY <1>2, <2>1, <3>2 DEF ExactActors
  <2>18. ExactLists'
    <3> SUFFICES ASSUME NEW u \in Tiles, NEW c \in Channels
                 PROVE  memChannel'[u][c] = BufferNow(u, c)' /\ ni'[u][c] = InterfaceNow(u, c)'
      BY DEF ExactLists
    <3>1. /\ memChannel'[u][c] = BufferClaims(u, c) /\ ni'[u][c] = InterfaceClaims(u, c)
      BY <1>2, <1>3, <2>14 DEF Exact, ExactLists
    <3>2. CASE c \in ConnectedTo(cur)
      <4>1. BufferClaims(u, c) = <<>> /\ InterfaceClaims(u, c) = <<>>
        BY <2>16, <3>2 DEF BufferClaims, InterfaceClaims
      <4>2. BufferNow(u, c)' = <<>> /\ InterfaceNow(u, c)' = <<>>
        BY <2>12, <3>2 DEF BufferNow, InterfaceNow
      <4> QED
        BY <3>1, <4>1, <4>2
    <3>3. CASE c \notin ConnectedTo(cur)
      <4>1. BufferClaims(u, c)' = BufferClaims(u, c) /\ InterfaceClaims(u, c)' = InterfaceClaims(u, c)
        BY <1>2, <2>13, <3>3 DEF BufferClaims, InterfaceClaims, isChannelBoundToTile,
                                 isChannelBoundToConnection
      <4> QED
        BY <2>15, <3>1, <3>3, <4>1
    <3> QED
      BY <3>2, <3>3
  <2>19. ExactLinks'
    <3> SUFFICES ASSUME NEW u \in Tiles, NEW v \in Tiles
                 PROVE  conn'[u, v] = {c \in Between(u, v)' : ~Waits(c)'}
      BY DEF ExactLinks
    <3>1. conn'[u, v] = Between(u, v)
      <4>1. conn'[u, v] = {c \in Between(u, v) : ~Waits(c)}
        BY <1>2, <1>3, Zenon DEF Exact, ExactLinks
      <4>2. Between(u, v) \subseteq Channels
        BY DEF Between
      <4> QED
        BY <2>14, <4>1, <4>2
    <3>2. ASSUME NEW c \in Channels
          PROVE  c \in Between(u, v) <=> c \in Between(u, v)' /\ ~Waits(c)'
      <4>1. CASE c \in ConnectedTo(cur)
        <5>1. c \notin Between(u, v)
          BY <1>4, <4>1, Ends DEF Between, ConnectedTo
        <5> QED
          BY <2>12, <4>1, <5>1
      <4>2. CASE c \notin ConnectedTo(cur)
        BY <2>13, <2>15, <4>2 DEF Between
      <4> QED
        BY <4>1, <4>2
    <3>3. Between(u, v) \subseteq Channels /\ Between(u, v)' \subseteq Channels
      BY DEF Between
    <3> QED
      BY <3>1, <3>2, <3>3
  <2>20. Claimed' /\ Resizing'
    BY <2>1, <2>17, <2>18, <2>19 DEF Claimed, Exact, Resizing
  <2>21. Progress'
    <3>1. cur \notin remaining
      BY <1>2 DEF Core, Progress, Trying
    <3> QED
      BY <1>2, <1>3, <1>4, <2>1, <3>1 DEF Progress, Free, TypeOK, Trying
  <2> QED
    BY <2>4, <2>7, <2>8, <2>11, <2>20, <2>21 DEF Core
<1> QED
  BY <1>6, <1>7

-----------------------------------------------------------------------------
(* allocateResources: a claim that does not fit gives up the tile.         *)
LEMMA GiveUpCore ==
    ASSUME Core, pc \in Claiming, GiveUpTile, UNCHANGED <<mode, cur, remaining, untried>>
    PROVE  Core'
<1>1. /\ releaseResources(cur) /\ pc' = "tile" /\ todo' = {} /\ chan' = chan
      /\ mode' = mode /\ cur' = cur /\ remaining' = remaining /\ untried' = untried
  BY DEF GiveUpTile
<1>2. /\ TypeOK /\ Exact /\ AtPort /\ Loaded /\ Running /\ cur \in Actors /\ binding[cur] # None
      /\ Releasable
  BY ClaimedReleasable DEF Core, Claimed, Claiming, Phases, AtPort, TypeOK
<1>3. Released(cur)
  BY <1>1, <1>2, Release
<1>4. Releasable' /\ Running' /\ Loaded'
  BY <1>2, <1>3, ReleaseKeeps
<1>5. pc' \notin Claiming
  BY <1>1 DEF Claiming, Phases
<1>6. Exact'
  BY <1>2, <1>3, <1>5, ReleaseExact
<1>7. platform' = platform /\ demand' = demand /\ ReleasedTypes /\ binding' = [binding EXCEPT ![cur] = None]
  BY <1>3 DEF Released, ReleasedActor
<1>8. TypeOK'
  BY <1>1, <1>2, <1>7 DEF TypeOK, ReleasedTypes, Rates
<1>9. Claimed' /\ AtPort' /\ Resizing'
  BY <1>1, <1>5, <1>6 DEF Claimed, AtPort, Pending, Claiming, Phases, Resizing
<1>10. Progress'
  <2>1. \A a \in Actors : binding[a] = None <=> mode = "bind" /\ a \in remaining
    BY DEF Core, Progress, Trying, Claiming, Phases, Free
  <2>2. cur \notin remaining
    BY DEF Core, Progress, Trying, Claiming, Phases
  <2>3. \A a \in Actors : binding'[a] = IF a = cur THEN None ELSE binding[a]
    BY <1>2, <1>7 DEF TypeOK
  <2>4. \A a \in Actors : binding'[a] = None <=> a \in Free'
    BY <1>1, <2>1, <2>3 DEF Free
  <2> QED
    BY <1>1, <2>2, <2>4 DEF Progress
<1> QED
  BY <1>4, <1>8, <1>9, <1>10 DEF Core

(* The steps of a claim keep binding and load; what changes is the claim   *)
(* of one channel.                                                         *)
LEMMA ClaimStep ==
    ASSUME Core, pc \in Claiming, pc' \in Claiming \ {"state"},
           UNCHANGED <<platform, demand, binding, procs, tileLoad, slice, mode, cur, remaining, untried>>,
           todo' \subseteq Pending, TypeOK', ExactLists', ExactLinks',
           \A t \in Tiles : memActor'[t] = On(t),
           (pc \in Phases => /\ chan \in ConnectedTo(cur) /\ isChannelBoundToConnection(chan)
                             /\ ~Waits(chan))'
    PROVE  Core'
<1>1. /\ TypeOK /\ Exact /\ AtPort /\ binding[cur] # None
  BY DEF Core, Claimed, Claiming, Phases, AtPort
<1>2. Loaded' /\ Running' /\ \A t \in Tiles : On(t)' = On(t)
  BY UnchangedLoads
<1>3. ExactActors'
  BY <1>1, <1>2 DEF Exact, ExactActors
<1>4. Claimed' /\ Resizing'
  BY <1>3 DEF Claimed, Exact, Claiming, Phases, Resizing
<1>5. AtPort'
  <2>1. Pending' = todo'
    BY DEF Pending
  <2>2. todo' \subseteq Ports(cur) /\ Ports(cur)' = Ports(cur)
    BY <1>1 DEF AtPort, Ports
  <2> QED
    BY <1>1, <2>1, <2>2 DEF AtPort
<1>6. Progress'
  BY DEF Core, Progress, Free, Trying, Claiming, Phases
<1> QED
  BY <1>2, <1>4, <1>5, <1>6 DEF Core

LEMMA PortsOf ==
    ASSUME NEW a, NEW p \in Ports(a)
    PROVE  \E c \in ConnectedTo(a), w \in {"out", "in"} :
              p = <<c, w>> /\ (w = "out" => Src[c] = a) /\ (w = "in" => Dst[c] = a)
BY DEF Ports, ConnectedTo

LEMMA ClaimStateCore ==
    ASSUME Core, ClaimState
    PROVE  Core'
<1> DEFINE t == binding[cur]
<1>1. pc = "state" /\ UNCHANGED <<mode, cur, remaining, untried>>
  BY DEF ClaimState
<1>2. /\ TypeOK /\ Exact /\ AtPort /\ cur \in Actors /\ t \in Tiles
  BY <1>1 DEF Core, Claimed, Claiming, AtPort, TypeOK
<1>3. CASE GiveUpTile
  BY <1>1, <1>3, GiveUpCore DEF Claiming
<1>4. CASE /\ memActor' = [memActor EXCEPT ![t] = @ \cup {cur}]
           /\ todo' = Ports(cur)
           /\ pc' = "port"
           /\ UNCHANGED <<platform, demand, binding, procs, memChannel, ni, conn, tileLoad,
                          slice, chan>>
  <2>1. TypeOK'
    <3>1. Ports(cur) \subseteq Channels \X {"in", "out", "mem", "src", "dst"}
      BY DEF Ports
    <3>2. memActor' \in [Tiles -> SUBSET Actors]
      BY <1>2, <1>4 DEF TypeOK
    <3> QED
      BY <1>1, <1>2, <1>4, <3>1, <3>2 DEF TypeOK
  <2>2. Pending = Ports(cur) /\ Pending' = Ports(cur)
    BY <1>1, <1>4 DEF Pending, Claiming, Ports
  <2>3. \A c \in Channels : SamePoint(c)
    BY <1>1, <1>4, <2>2 DEF SamePoint, Out, In, Doing, Phases
  <2>4. \A c \in Channels : /\ Waits(c)' <=> Waits(c)
                            /\ \A u \in Tiles : BufferNow(u, c)' = BufferNow(u, c)
                            /\ \A u \in Tiles : InterfaceNow(u, c)' = InterfaceNow(u, c)
    BY <1>4, <2>3, SameNow
  <2>5. ExactLists'
    BY <1>2, <1>4, <2>4 DEF Exact, ExactLists
  <2>6. ExactLinks'
    <3> SUFFICES ASSUME NEW u \in Tiles, NEW v \in Tiles
                 PROVE  conn'[u, v] = {c \in Between(u, v)' : ~Waits(c)'}
      BY DEF ExactLinks
    <3>1. conn'[u, v] = {c \in Between(u, v) : ~Waits(c)}
      BY <1>2, <1>4, Zenon DEF Exact, ExactLinks
    <3>2. Between(u, v)' = Between(u, v) /\ Between(u, v) \subseteq Channels
      BY <1>4 DEF Between
    <3> QED
      BY <2>4, <3>1, <3>2
  <2>7. \A u \in Tiles : memActor'[u] = On(u)
    <3>1. \A u \in Tiles : memActor[u] = On(u) \ {cur}
      BY <1>1, <1>2 DEF Exact, ExactActors
    <3>2. cur \in On(t) /\ \A u \in Tiles : u # t => cur \notin On(u)
      BY <1>2 DEF On
    <3>3. \A u \in Tiles : memActor'[u] = IF u = t THEN memActor[u] \cup {cur} ELSE memActor[u]
      BY <1>2, <1>4 DEF TypeOK
    <3> HIDE DEF t
    <3> QED
      BY <1>2, <3>1, <3>2, <3>3
  <2>8. todo' \subseteq Pending
    BY <1>4, <2>2
  <2>9. pc \in Claiming /\ pc' \in Claiming \ {"state"} /\ pc' \notin Phases
    BY <1>1, <1>4 DEF Claiming, Phases
  <2> QED
    BY <1>1, <1>4, <2>1, <2>5, <2>6, <2>7, <2>8, <2>9, ClaimStep
<1> QED
  BY <1>3, <1>4 DEF ClaimState

LEMMA SameBetween ==
    ASSUME UNCHANGED binding
    PROVE  \A t, u : Between(t, u)' = Between(t, u) /\ Between(t, u) \subseteq Channels
BY DEF Between

(* Only the claims of c change.                                            *)
LEMMA OneChannel ==
    ASSUME Core, pc \in Claiming, UNCHANGED <<demand, binding>>, NEW c \in Channels,
           \A d \in Channels \ {c} : SamePoint(d),
           \A u \in Tiles, d \in Channels \ {c} : memChannel'[u][d] = memChannel[u][d],
           \A u \in Tiles, d \in Channels \ {c} : ni'[u][d] = ni[u][d],
           \A u \in Tiles : memChannel'[u][c] = BufferNow(u, c)',
           \A u \in Tiles : ni'[u][c] = InterfaceNow(u, c)',
           \A u, v \in Tiles : conn'[u, v] \subseteq Channels,
           \A u, v \in Tiles, d \in Channels \ {c} : d \in conn'[u, v] <=> d \in conn[u, v],
           \A u, v \in Tiles : c \in conn'[u, v] <=> c \in Between(u, v) /\ ~Waits(c)'
    PROVE  ExactLists' /\ ExactLinks'
<1>1. Exact
  BY DEF Core, Claimed, Claiming, Phases
<1>2. \A d \in Channels \ {c} : /\ Waits(d)' <=> Waits(d)
                                /\ \A u \in Tiles : BufferNow(u, d)' = BufferNow(u, d)
                                /\ \A u \in Tiles : InterfaceNow(u, d)' = InterfaceNow(u, d)
  BY SameNow
<1>3. ExactLists'
  <2> SUFFICES ASSUME NEW u \in Tiles, NEW d \in Channels
               PROVE  memChannel'[u][d] = BufferNow(u, d)' /\ ni'[u][d] = InterfaceNow(u, d)'
    BY DEF ExactLists
  <2>1. CASE d = c
    BY <2>1
  <2>2. CASE d # c
    <3>1. memChannel[u][d] = BufferNow(u, d) /\ ni[u][d] = InterfaceNow(u, d)
      BY <1>1 DEF Exact, ExactLists
    <3> QED
      BY <1>2, <2>2, <3>1
  <2> QED
    BY <2>1, <2>2
<1>4. ExactLinks'
  <2> SUFFICES ASSUME NEW u \in Tiles, NEW v \in Tiles
               PROVE  conn'[u, v] = {d \in Between(u, v)' : ~Waits(d)'}
    BY DEF ExactLinks
  <2>1. Between(u, v)' = Between(u, v) /\ Between(u, v) \subseteq Channels
    BY SameBetween
  <2>2. ASSUME NEW d \in Channels
        PROVE  d \in conn'[u, v] <=> d \in Between(u, v) /\ ~Waits(d)'
    <3>1. conn[u, v] = {e \in Between(u, v) : ~Waits(e)}
      BY <1>1, Zenon DEF Exact, ExactLinks
    <3>2. CASE d = c
      BY <3>2
    <3>3. CASE d # c
      <4>1. d \in conn'[u, v] <=> d \in conn[u, v]
        BY <3>3
      <4>2. Waits(d)' <=> Waits(d)
        BY <1>2, <3>3
      <4> QED
        BY <3>1, <4>1, <4>2
    <3> QED
      BY <3>2, <3>3
  <2>3. {d \in Between(u, v)' : ~Waits(d)'} = {d \in Between(u, v) : ~Waits(d)'}
    BY <2>1
  <2>4. conn'[u, v] \subseteq Channels
    OBVIOUS
  <2> QED
    BY <2>1, <2>2, <2>3, <2>4
<1> QED
  BY <1>3, <1>4

(* Another port of the channel is visited.                                 *)
LEMMA VisitPort ==
    ASSUME Core, pc = "port", pc' \in {"port", "srcMem"}, NEW p \in todo, todo' = todo \ {p},
           pc' = "srcMem" => chan' = p[1]
    PROVE  /\ p[1] \in ConnectedTo(cur) /\ p[1] \in Channels
           /\ \A d \in Channels \ {p[1]} : SamePoint(d)
           /\ Src[p[1]] # Dst[p[1]] => Waits(p[1]) /\ ~Waits(p[1])' /\ ~Half(p[1]) /\ ~Half(p[1])'
           /\ Src[p[1]] = Dst[p[1]] =>
                \/ Waits(p[1]) /\ ~Waits(p[1])' /\ Half(p[1])'
                \/ Half(p[1]) /\ ~Waits(p[1]) /\ ~Waits(p[1])' /\ ~Half(p[1])'
<1>1. Pending = todo /\ Pending' = todo' /\ p \in Ports(cur) /\ todo \subseteq Ports(cur)
  BY DEF Core, AtPort, Pending, Claiming, Phases
<1>2. PICK c \in ConnectedTo(cur), w \in {"out", "in"} :
         p = <<c, w>> /\ (w = "out" => Src[c] = cur) /\ (w = "in" => Dst[c] = cur)
  BY <1>1, PortsOf
<1>3. p[1] = c /\ c \in Channels
  BY <1>2 DEF ConnectedTo
<1>4. \A d \in Channels \ {c} : SamePoint(d)
  BY <1>1, <1>2, <1>3 DEF SamePoint, Out, In, Doing, Phases
<1>5. /\ Out(c) => Src[c] = cur
      /\ In(c) => Dst[c] = cur
  BY <1>1, <1>3 DEF Out, In, Ports
<1>6. /\ w = "out" => Out(c) /\ ~Out(c)' /\ (In(c)' <=> In(c))
      /\ w = "in" => In(c) /\ ~In(c)' /\ (Out(c)' <=> Out(c))
  BY <1>1, <1>2 DEF Out, In
<1>7. Src[c] # Dst[c] => Waits(c) /\ ~Waits(c)' /\ ~Half(c) /\ ~Half(c)'
  BY <1>2, <1>5, <1>6 DEF Waits, Half
<1>8. Src[c] = Dst[c] => \/ Waits(c) /\ ~Waits(c)' /\ Half(c)'
                         \/ Half(c) /\ ~Waits(c) /\ ~Waits(c)' /\ ~Half(c)'
  BY <1>2, <1>5, <1>6 DEF Waits, Half
<1> QED
  BY <1>2, <1>3, <1>4, <1>7, <1>8

LEMMA Appended ==
    ASSUME NEW n
    PROVE  Append(<<>>, n) = <<n>> /\ Append(<<n>>, n) = <<n, n>>
<1>1. Append(<<>>, n) = <<n>>
  OBVIOUS
<1>2. <<n, n>> \in Seq({n}) /\ Append(<<n>>, n) \in Seq({n})
  OBVIOUS
<1>3. /\ Len(<<n, n>>) = 2 /\ <<n, n>>[1] = n /\ <<n, n>>[2] = n
      /\ Len(Append(<<n>>, n)) = 2 /\ Append(<<n>>, n)[1] = n /\ Append(<<n>>, n)[2] = n
  OBVIOUS
<1>4. <<n, n>> = [i \in 1 .. 2 |-> n]
  BY <1>2, <1>3
<1>5. Append(<<n>>, n) = [i \in 1 .. 2 |-> n]
  <2>1. DOMAIN Append(<<n>>, n) = 1 .. 2
    BY <1>2, <1>3
  <2>2. \A i \in 1 .. 2 : Append(<<n>>, n)[i] = n
    BY <1>3
  <2>3. Append(<<n>>, n) = [i \in DOMAIN Append(<<n>>, n) |-> Append(<<n>>, n)[i]]
    BY <1>2
  <2> QED
    BY <2>1, <2>2, <2>3
<1> QED
  BY <1>1, <1>4, <1>5

LEMMA LocalPortCore ==
    ASSUME Core, pc = "port", NEW p \in todo, isChannelBoundToTile(p[1]),
           reserveMemory(binding[cur], p[1], demand.mem[p[1]]), todo' = todo \ {p},
           UNCHANGED <<platform, demand, binding, procs, memActor, ni, conn, tileLoad, slice, pc, chan,
                       mode, cur, remaining, untried>>
    PROVE  Core'
<1>1. PICK c \in Channels : c = p[1]
  BY VisitPort
<1> DEFINE t == binding[cur]
           v == demand.mem[c]
<1>2. /\ TypeOK /\ Exact /\ t \in Tiles /\ v \in Nat
  BY DEF Core, Claimed, Claiming, AtPort, TypeOK, Demand, Sizes
<1>3. /\ c \in ConnectedTo(cur)
      /\ \A d \in Channels \ {c} : SamePoint(d)
      /\ Src[c] # Dst[c] => Waits(c) /\ ~Waits(c)' /\ ~Half(c) /\ ~Half(c)'
      /\ Src[c] = Dst[c] => \/ Waits(c) /\ ~Waits(c)' /\ Half(c)'
                            \/ Half(c) /\ ~Waits(c) /\ ~Waits(c)' /\ ~Half(c)'
  BY <1>1, VisitPort
<1>4. binding[Src[c]] = t /\ binding[Dst[c]] = t
  BY <1>1, <1>3 DEF ConnectedTo, isChannelBoundToTile
<1>5. /\ isChannelBoundToTile(c) /\ isChannelBoundToTile(c)'
      /\ ~isChannelBoundToConnection(c) /\ ~isChannelBoundToConnection(c)'
  BY <1>1, <1>4 DEF isChannelBoundToTile, isChannelBoundToConnection
<1>6. /\ memChannel' \in [Tiles -> [Channels -> Seq(Nat)]]
      /\ \A u \in Tiles, d \in Channels :
            memChannel'[u][d] = IF u = t /\ d = c THEN Append(memChannel[t][c], v) ELSE memChannel[u][d]
  <2>1. memChannel \in [Tiles -> [Channels -> Seq(Nat)]]
    BY <1>2 DEF TypeOK
  <2>2. memChannel' = [memChannel EXCEPT ![t][c] = Append(@, v)]
    BY <1>1 DEF reserveMemory
  <2>3. Append(memChannel[t][c], v) \in Seq(Nat)
    BY <1>1, <1>2, <2>1
  <2> QED
    BY <1>1, <1>2, <2>1, <2>2, <2>3
<1>7. \A u \in Tiles : memChannel[u][c] = BufferNow(u, c) /\ ni[u][c] = InterfaceNow(u, c)
  BY <1>2 DEF Exact, ExactLists
<1>8. BufferNow(t, c) = IF Waits(c) THEN <<>> ELSE LocalNow(c)
  BY <1>4, <1>5 DEF BufferNow
<1>9. BufferNow(t, c)' = LocalNow(c)'
  BY <1>3, <1>4, <1>5 DEF BufferNow
<1>10. Append(BufferNow(t, c), v) = LocalNow(c)'
  <2>2. Append(<<>>, v) = <<v>> /\ Append(<<v>>, v) = <<v, v>>
    BY Appended
  <2>3. CASE Src[c] # Dst[c]
    BY <1>3, <1>8, <2>2, <2>3 DEF LocalNow, Copies
  <2>4. CASE Src[c] = Dst[c]
    BY <1>3, <1>8, <2>2, <2>4 DEF LocalNow, Copies
  <2> QED
    BY <2>3, <2>4
<1>11. \A u \in Tiles : memChannel'[u][c] = BufferNow(u, c)'
  <2> SUFFICES ASSUME NEW u \in Tiles PROVE memChannel'[u][c] = BufferNow(u, c)'
    OBVIOUS
  <2>1. CASE u = t
    BY <1>6, <1>7, <1>9, <1>10, <2>1
  <2>2. CASE u # t
    <3>1. BufferNow(u, c) = <<>> /\ BufferNow(u, c)' = <<>>
      BY <1>4, <1>5, <2>2 DEF BufferNow
    <3> QED
      BY <1>6, <1>7, <2>2, <3>1
  <2> QED
    BY <2>1, <2>2
<1>12. \A u \in Tiles : ni'[u][c] = InterfaceNow(u, c)'
  BY <1>5, <1>7 DEF InterfaceNow
<1>13. \A u, w \in Tiles : /\ conn'[u, w] = conn[u, w] /\ conn[u, w] \subseteq Channels
                           /\ c \notin Between(u, w) /\ c \notin conn[u, w]
  <2>1. \A u, w \in Tiles : c \notin Between(u, w) /\ Between(u, w) \subseteq Channels
    BY <1>4 DEF Between
  <2>2. \A u, w \in Tiles : conn[u, w] = {d \in Between(u, w) : ~Waits(d)}
    BY <1>2 DEF Exact, ExactLinks
  <2> QED
    BY <2>1, <2>2
<1>14. pc \in Claiming /\ pc' \in Claiming \ {"state"} /\ pc' \notin Phases /\ Pending = todo
  BY DEF Claiming, Phases, Pending
<1>15. ExactLists' /\ ExactLinks'
  <2>1. /\ \A u \in Tiles, d \in Channels \ {c} : memChannel'[u][d] = memChannel[u][d]
        /\ \A u \in Tiles, d \in Channels \ {c} : ni'[u][d] = ni[u][d]
    BY <1>6
  <2>2. /\ \A u, w \in Tiles : conn'[u, w] \subseteq Channels
        /\ \A u, w \in Tiles, d \in Channels \ {c} : d \in conn'[u, w] <=> d \in conn[u, w]
        /\ \A u, w \in Tiles : c \in conn'[u, w] <=> c \in Between(u, w) /\ ~Waits(c)'
    BY <1>13
  <2> QED
    BY <1>3, <1>11, <1>12, <1>14, <2>1, <2>2, OneChannel
<1>16. TypeOK'
  BY <1>2, <1>6 DEF TypeOK
<1>17. \A u \in Tiles : memActor'[u] = On(u)
  BY <1>2 DEF Exact, ExactActors
<1> QED
  BY <1>14, <1>15, <1>16, <1>17, ClaimStep

LEMMA ConnectionPortCore ==
    ASSUME Core, pc = "port", NEW p \in todo, isChannelBoundToConnection(p[1]),
           conn' = [conn EXCEPT ![<<binding[Src[p[1]]], binding[Dst[p[1]]]>>] = @ \cup {p[1]}],
           chan' = p[1], todo' = todo \ {p}, pc' = "srcMem",
           UNCHANGED <<platform, demand, binding, procs, memActor, memChannel, ni, tileLoad, slice,
                       mode, cur, remaining, untried>>
    PROVE  Core'
<1>1. PICK c \in Channels : c = p[1]
  BY VisitPort
<1> DEFINE x == binding[Src[c]]
           y == binding[Dst[c]]
<1>2. TypeOK /\ Exact
  BY DEF Core, Claimed, Claiming
<1>3. /\ Src[c] # Dst[c] /\ x # y /\ x # None /\ y # None
      /\ isChannelBoundToConnection(c) /\ isChannelBoundToConnection(c)'
      /\ ~isChannelBoundToTile(c) /\ ~isChannelBoundToTile(c)'
  BY <1>1 DEF isChannelBoundToConnection, isChannelBoundToTile
<1>4. x \in Tiles /\ y \in Tiles
  BY <1>2, <1>3, BindingAssumption DEF TypeOK
<1>5. /\ c \in ConnectedTo(cur) /\ Waits(c) /\ ~Waits(c)'
      /\ \A d \in Channels \ {c} : SamePoint(d)
  BY <1>1, <1>3, VisitPort
<1>6. \A u \in Tiles : memChannel[u][c] = BufferNow(u, c) /\ ni[u][c] = InterfaceNow(u, c)
  BY <1>2 DEF Exact, ExactLists
<1>7. \A u \in Tiles : BufferNow(u, c) = <<>> /\ InterfaceNow(u, c) = <<>>
  BY <1>5 DEF BufferNow, InterfaceNow
<1>8. \A u \in Tiles : BufferNow(u, c)' = <<>>
  <2>1. SourceNow(c)' = <<>> /\ TargetNow(c)' = <<>>
    BY <1>1 DEF SourceNow, TargetNow, Doing
  <2> QED
    BY <1>3, <2>1 DEF BufferNow
<1>9. \A u \in Tiles : InterfaceNow(u, c)' = <<>>
  <2>1. SendNow(c)' = <<>> /\ ReceiveNow(c)' = <<>>
    BY <1>1 DEF SendNow, ReceiveNow, Doing, Phases
  <2> QED
    BY <2>1 DEF InterfaceNow
<1>10. /\ conn' \in [Tiles \X Tiles -> SUBSET Channels]
       /\ \A u, v \in Tiles : conn'[u, v] = IF u = x /\ v = y THEN conn[u, v] \cup {c} ELSE conn[u, v]
  <2>1. conn' = [conn EXCEPT ![<<x, y>>] = @ \cup {c}]
    BY <1>1
  <2>2. conn \in [Tiles \X Tiles -> SUBSET Channels]
    BY <1>2 DEF TypeOK
  <2> HIDE DEF x, y
  <2>3. \A l \in Tiles \X Tiles : conn'[l] = IF l = <<x, y>> THEN conn[l] \cup {c} ELSE conn[l]
    BY <2>1, <2>2
  <2>4. conn' \in [Tiles \X Tiles -> SUBSET Channels]
    <3>1. ASSUME NEW l \in Tiles \X Tiles PROVE conn'[l] \in SUBSET Channels
      <4>1. conn[l] \subseteq Channels
        BY <2>2
      <4>2. conn'[l] = conn[l] \cup {c} \/ conn'[l] = conn[l]
        BY <2>3, Zenon
      <4> QED
        BY <4>1, <4>2
    <3>2. conn' = [l \in Tiles \X Tiles |-> conn'[l]]
      BY <2>1, <2>2
    <3> QED
      BY <3>1, <3>2
  <2>5. ASSUME NEW u \in Tiles, NEW v \in Tiles
        PROVE  conn'[u, v] = IF u = x /\ v = y THEN conn[u, v] \cup {c} ELSE conn[u, v]
    <3>1. <<u, v>> \in Tiles \X Tiles /\ (<<u, v>> = <<x, y>> <=> u = x /\ v = y)
      OBVIOUS
    <3> QED
      BY <2>3, <3>1
  <2> QED
    BY <2>4, <2>5
<1>11. \A u, v \in Tiles : /\ c \in Between(u, v) <=> u = x /\ v = y
                           /\ c \notin conn[u, v]
  <2>1. \A u, v \in Tiles : c \in Between(u, v) <=> u = x /\ v = y
    BY <1>3 DEF Between
  <2>2. \A u, v \in Tiles : conn[u, v] = {d \in Between(u, v) : ~Waits(d)}
    BY <1>2, Zenon DEF Exact, ExactLinks
  <2> QED
    BY <1>5, <2>1, <2>2
<1>12. /\ pc \in Claiming /\ pc' \in Claiming \ {"state"} /\ Pending = todo
  BY DEF Claiming, Phases, Pending
<1>13. ExactLists' /\ ExactLinks'
  <2>1. \A u \in Tiles : memChannel'[u][c] = BufferNow(u, c)' /\ ni'[u][c] = InterfaceNow(u, c)'
    BY <1>6, <1>7, <1>8, <1>9
  <2>2. /\ \A u, v \in Tiles : conn'[u, v] \subseteq Channels
        /\ \A u, v \in Tiles, d \in Channels \ {c} : d \in conn'[u, v] <=> d \in conn[u, v]
        /\ \A u, v \in Tiles : c \in conn'[u, v] <=> c \in Between(u, v) /\ ~Waits(c)'
    <3> HIDE DEF x, y
    <3>1. \A u, v \in Tiles : conn'[u, v] \subseteq Channels
      BY <1>10
    <3>2. ASSUME NEW u \in Tiles, NEW v \in Tiles, NEW d \in Channels \ {c}
          PROVE  d \in conn'[u, v] <=> d \in conn[u, v]
      <4>1. CASE u = x /\ v = y
        <5>1. conn'[u, v] = conn[u, v] \cup {c}
          BY <1>10, <4>1
        <5> QED
          BY <5>1
      <4>2. CASE ~(u = x /\ v = y)
        <5>1. conn'[u, v] = conn[u, v]
          BY <1>10, <4>2, Zenon
        <5> QED
          BY <5>1
      <4> QED
        BY <4>1, <4>2
    <3>3. ASSUME NEW u \in Tiles, NEW v \in Tiles
          PROVE  c \in conn'[u, v] <=> c \in Between(u, v) /\ ~Waits(c)'
      <4>1. CASE u = x /\ v = y
        <5>1. conn'[u, v] = conn[u, v] \cup {c}
          BY <1>10, <4>1
        <5>2. c \in Between(u, v)
          BY <1>11, <4>1
        <5> QED
          BY <1>5, <5>1, <5>2
      <4>2. CASE ~(u = x /\ v = y)
        <5>1. conn'[u, v] = conn[u, v]
          BY <1>10, <4>2, Zenon
        <5>2. c \notin Between(u, v) /\ c \notin conn[u, v]
          BY <1>11, <4>2
        <5> QED
          BY <5>1, <5>2
      <4> QED
        BY <4>1, <4>2
    <3> QED
      BY <3>1, <3>2, <3>3
  <2> QED
    BY <1>5, <1>12, <2>1, <2>2, OneChannel
<1>14. TypeOK'
  BY <1>1, <1>2, <1>10 DEF TypeOK
<1>15. \A u \in Tiles : memActor'[u] = On(u)
  BY <1>2 DEF Exact, ExactActors
<1>16. chan' = c /\ c \in ConnectedTo(cur)' /\ todo' \subseteq Pending
  BY <1>1, <1>5, <1>12 DEF ConnectedTo
<1> QED
  BY <1>3, <1>5, <1>12, <1>13, <1>14, <1>15, <1>16, ClaimStep

LEMMA UnboundPortCore ==
    ASSUME Core, pc = "port", NEW p \in todo, ~isChannelBoundToTile(p[1]),
           ~isChannelBoundToConnection(p[1]), todo' = todo \ {p},
           UNCHANGED <<platform, demand, resources, pc, chan, mode, cur, remaining, untried>>
    PROVE  Core'
<1>1. PICK c \in Channels : c = p[1]
  BY VisitPort
<1>2. /\ TypeOK /\ Exact /\ binding' = binding /\ procs' = procs /\ memActor' = memActor
      /\ memChannel' = memChannel /\ ni' = ni /\ conn' = conn /\ tileLoad' = tileLoad /\ slice' = slice
  BY DEF Core, Claimed, Claiming, resources, claims
<1>3. /\ ~isChannelBoundToTile(c) /\ ~isChannelBoundToTile(c)'
      /\ ~isChannelBoundToConnection(c) /\ ~isChannelBoundToConnection(c)'
  BY <1>1, <1>2 DEF isChannelBoundToTile, isChannelBoundToConnection
<1>4. \A d \in Channels \ {c} : SamePoint(d)
  BY <1>1, VisitPort
<1>5. /\ \A u \in Tiles : memChannel[u][c] = BufferNow(u, c) /\ ni[u][c] = InterfaceNow(u, c)
      /\ \A u, v \in Tiles : conn[u, v] = {d \in Between(u, v) : ~Waits(d)}
  BY <1>2, Zenon DEF Exact, ExactLists, ExactLinks
<1>6. \A u \in Tiles : /\ BufferNow(u, c) = <<>> /\ BufferNow(u, c)' = <<>>
                       /\ InterfaceNow(u, c) = <<>> /\ InterfaceNow(u, c)' = <<>>
  BY <1>3 DEF BufferNow, InterfaceNow
<1>7. \A u, v \in Tiles : c \notin Between(u, v) /\ Between(u, v) \subseteq Channels
  BY <1>3, BindingAssumption DEF Between, isChannelBoundToConnection
<1>8. pc \in Claiming /\ pc' \in Claiming \ {"state"} /\ pc' \notin Phases /\ Pending = todo
  BY <1>2 DEF Claiming, Phases, Pending
<1>9. ExactLists' /\ ExactLinks'
  <2>1. \A u, v \in Tiles : /\ conn'[u, v] \subseteq Channels
                            /\ \A d \in Channels \ {c} : d \in conn'[u, v] <=> d \in conn[u, v]
                            /\ c \in conn'[u, v] <=> c \in Between(u, v) /\ ~Waits(c)'
    <3> SUFFICES ASSUME NEW u \in Tiles, NEW v \in Tiles
                 PROVE  /\ conn'[u, v] \subseteq Channels /\ conn'[u, v] = conn[u, v]
                        /\ c \notin conn'[u, v] /\ c \notin Between(u, v)
      OBVIOUS
    <3>1. conn'[u, v] = conn[u, v] /\ conn[u, v] = {d \in Between(u, v) : ~Waits(d)}
      BY <1>2, <1>5, Zenon
    <3> QED
      BY <1>7, <3>1, Zenon
  <2>2. \A u \in Tiles : memChannel'[u][c] = BufferNow(u, c)' /\ ni'[u][c] = InterfaceNow(u, c)'
    BY <1>2, <1>5, <1>6
  <2> QED
    BY <1>2, <1>4, <1>8, <2>1, <2>2, OneChannel
<1>10. TypeOK'
  BY <1>2 DEF TypeOK
<1>11. \A u \in Tiles : memActor'[u] = On(u)
  BY <1>2 DEF Exact, ExactActors
<1> QED
  BY <1>2, <1>8, <1>9, <1>10, <1>11, ClaimStep

LEMMA ClaimPortCore ==
    ASSUME Core, ClaimPort
    PROVE  Core'
<1>1. pc = "port" /\ UNCHANGED <<mode, cur, remaining, untried>>
  BY DEF ClaimPort
<1>2. PICK p \in todo :
        \/ /\ isChannelBoundToTile(p[1])
           /\ reserveMemory(binding[cur], p[1], demand.mem[p[1]])
           /\ todo' = todo \ {p}
           /\ UNCHANGED <<platform, demand, binding, procs, memActor, ni, conn, tileLoad,
                          slice, pc, chan>>
        \/ GiveUpTile
        \/ /\ isChannelBoundToConnection(p[1])
           /\ conn' = [conn EXCEPT ![<<binding[Src[p[1]]], binding[Dst[p[1]]]>>] = @ \cup {p[1]}]
           /\ chan' = p[1]
           /\ todo' = todo \ {p}
           /\ pc' = "srcMem"
           /\ UNCHANGED <<platform, demand, binding, procs, memActor, memChannel, ni,
                          tileLoad, slice>>
        \/ /\ ~isChannelBoundToTile(p[1]) /\ ~isChannelBoundToConnection(p[1])
           /\ todo' = todo \ {p}
           /\ UNCHANGED <<platform, demand, resources, pc, chan>>
  BY Zenon DEF ClaimPort
<1>3. pc \in Claiming
  BY <1>1 DEF Claiming
<1> QED
  BY <1>1, <1>2, <1>3, LocalPortCore, ConnectionPortCore, UnboundPortCore, GiveUpCore

(* A connection is claimed in phases, its channel alone.                   *)
LEMMA PhaseFacts ==
    ASSUME Core, pc \in Phases, pc' \in Claiming \ {"state"},
           UNCHANGED <<demand, binding, todo, chan, cur>>
    PROVE  /\ TypeOK /\ Exact /\ chan \in Channels /\ chan \in ConnectedTo(cur)
           /\ isChannelBoundToConnection(chan) /\ isChannelBoundToConnection(chan)'
           /\ ~isChannelBoundToTile(chan) /\ ~isChannelBoundToTile(chan)'
           /\ ~Waits(chan) /\ ~Waits(chan)' /\ Pending' = Pending /\ Pending = todo
           /\ binding[Src[chan]] \in Tiles /\ binding[Dst[chan]] \in Tiles
           /\ binding[Src[chan]] # binding[Dst[chan]]
           /\ \A d \in Channels \ {chan} : SamePoint(d)
<1>1. /\ TypeOK /\ Exact /\ AtPort
  BY DEF Core, Claimed, Phases
<1>2. /\ chan \in ConnectedTo(cur) /\ isChannelBoundToConnection(chan) /\ ~Waits(chan)
  BY <1>1 DEF AtPort
<1>3. chan \in Channels
  BY <1>2 DEF ConnectedTo
<1>4. Pending' = Pending /\ Pending = todo
  BY DEF Pending, Claiming, Phases
<1>5. /\ isChannelBoundToConnection(chan)' /\ binding[Src[chan]] # None /\ binding[Dst[chan]] # None
      /\ ~isChannelBoundToTile(chan) /\ ~isChannelBoundToTile(chan)'
      /\ binding[Src[chan]] # binding[Dst[chan]]
  BY <1>2 DEF isChannelBoundToConnection, isChannelBoundToTile
<1>6. binding[Src[chan]] \in Tiles /\ binding[Dst[chan]] \in Tiles
  BY <1>1, <1>3, <1>5, BindingAssumption DEF TypeOK
<1>7. \A d \in Channels : (Out(d)' <=> Out(d)) /\ (In(d)' <=> In(d))
  BY <1>4 DEF Out, In
<1>8. ~Waits(chan)'
  BY <1>2, <1>3, <1>7 DEF Waits
<1>9. \A d \in Channels \ {chan} : SamePoint(d)
  BY <1>7 DEF SamePoint, Doing
<1> QED
  BY <1>1, <1>2, <1>3, <1>4, <1>5, <1>6, <1>8, <1>9

LEMMA PhaseCore ==
    ASSUME Core, pc \in Phases, pc' \in Claiming \ {"state"},
           UNCHANGED <<platform, demand, binding, procs, memActor, conn, tileLoad, slice, todo, chan,
                       mode, cur, remaining, untried>>,
           TypeOK',
           \A u \in Tiles, d \in Channels \ {chan} : memChannel'[u][d] = memChannel[u][d],
           \A u \in Tiles, d \in Channels \ {chan} : ni'[u][d] = ni[u][d],
           \A u \in Tiles : memChannel'[u][chan] = BufferNow(u, chan)',
           \A u \in Tiles : ni'[u][chan] = InterfaceNow(u, chan)'
    PROVE  Core'
<1>1. /\ TypeOK /\ Exact /\ chan \in Channels /\ chan \in ConnectedTo(cur)
      /\ isChannelBoundToConnection(chan)' /\ ~Waits(chan) /\ ~Waits(chan)' /\ Pending = todo
      /\ \A d \in Channels \ {chan} : SamePoint(d)
  BY PhaseFacts
<1>2. PICK c \in Channels : c = chan
  BY <1>1
<1>3. \A u, v \in Tiles : conn[u, v] = {d \in Between(u, v) : ~Waits(d)} /\ Between(u, v) \subseteq Channels
  BY <1>1, Zenon DEF Exact, ExactLinks, Between
<1>4. \A u, v \in Tiles : /\ conn'[u, v] \subseteq Channels
                          /\ \A d \in Channels \ {c} : d \in conn'[u, v] <=> d \in conn[u, v]
                          /\ c \in conn'[u, v] <=> c \in Between(u, v) /\ ~Waits(c)'
  <2> SUFFICES ASSUME NEW u \in Tiles, NEW v \in Tiles
               PROVE  /\ conn'[u, v] \subseteq Channels
                      /\ \A d \in Channels \ {c} : d \in conn'[u, v] <=> d \in conn[u, v]
                      /\ c \in conn'[u, v] <=> c \in Between(u, v) /\ ~Waits(c)'
    OBVIOUS
  <2>1. conn'[u, v] = conn[u, v]
    OBVIOUS
  <2>2. conn[u, v] = {d \in Between(u, v) : ~Waits(d)} /\ Between(u, v) \subseteq Channels
    BY <1>3
  <2>3. ~Waits(c) /\ ~Waits(c)'
    BY <1>1, <1>2
  <2> QED
    BY <2>1, <2>2, <2>3
<1>5. pc \in Claiming
  BY DEF Claiming
<1>6. ExactLists' /\ ExactLinks'
  BY <1>1, <1>2, <1>4, <1>5, OneChannel
<1>7. \A u \in Tiles : memActor'[u] = On(u)
  BY <1>1 DEF Exact, ExactActors, Phases
<1>8. chan' \in ConnectedTo(cur)'
  BY <1>1 DEF ConnectedTo
<1> QED
  BY <1>1, <1>5, <1>6, <1>7, <1>8, ClaimStep

LEMMA BufferPhase ==
    ASSUME Core, pc \in Phases, pc' \in Claiming \ {"state"}, NEW t \in Tiles, NEW n \in Nat,
           reserveMemory(t, chan, n),
           UNCHANGED <<platform, demand, binding, procs, memActor, ni, conn, tileLoad, slice, todo, chan,
                       mode, cur, remaining, untried>>,
           BufferNow(t, chan) = <<>>, BufferNow(t, chan)' = <<n>>,
           \A u \in Tiles \ {t} : BufferNow(u, chan)' = BufferNow(u, chan),
           \A u \in Tiles : InterfaceNow(u, chan)' = InterfaceNow(u, chan)
    PROVE  Core'
<1>1. TypeOK /\ Exact /\ chan \in Channels
  BY PhaseFacts
<1>2. /\ memChannel' \in [Tiles -> [Channels -> Seq(Nat)]]
      /\ \A u \in Tiles, d \in Channels :
            memChannel'[u][d] = IF u = t /\ d = chan THEN Append(memChannel[t][chan], n)
                                                     ELSE memChannel[u][d]
  BY <1>1 DEF TypeOK, reserveMemory
<1>3. \A u \in Tiles : memChannel[u][chan] = BufferNow(u, chan) /\ ni[u][chan] = InterfaceNow(u, chan)
  BY <1>1 DEF Exact, ExactLists
<1>4. Append(<<>>, n) = <<n>>
  BY Appended
<1>5. \A u \in Tiles : memChannel'[u][chan] = BufferNow(u, chan)'
  <2> SUFFICES ASSUME NEW u \in Tiles PROVE memChannel'[u][chan] = BufferNow(u, chan)'
    OBVIOUS
  <2>1. CASE u = t
    <3>1. memChannel'[t][chan] = Append(memChannel[t][chan], n)
      BY <1>1, <1>2
    <3> QED
      BY <1>3, <1>4, <2>1, <3>1
  <2>2. CASE u # t
    BY <1>1, <1>2, <1>3, <2>2
  <2> QED
    BY <2>1, <2>2
<1>6. TypeOK'
  BY <1>1, <1>2 DEF TypeOK, Phases, Claiming
<1>7. /\ \A u \in Tiles, d \in Channels \ {chan} : memChannel'[u][d] = memChannel[u][d]
      /\ \A u \in Tiles, d \in Channels \ {chan} : ni'[u][d] = ni[u][d]
      /\ \A u \in Tiles : ni'[u][chan] = InterfaceNow(u, chan)'
  BY <1>2, <1>3
<1> QED
  BY <1>5, <1>6, <1>7, PhaseCore

LEMMA InterfacePhase ==
    ASSUME Core, pc \in Phases, pc' \in Claiming \ {"state"}, NEW t \in Tiles, NEW r \in Rates,
           ni' = [ni EXCEPT ![t][chan] = Append(@, r)],
           UNCHANGED <<platform, demand, binding, procs, memActor, memChannel, conn, tileLoad, slice,
                       todo, chan, mode, cur, remaining, untried>>,
           InterfaceNow(t, chan) = <<>>, InterfaceNow(t, chan)' = <<r>>,
           \A u \in Tiles \ {t} : InterfaceNow(u, chan)' = InterfaceNow(u, chan),
           \A u \in Tiles : BufferNow(u, chan)' = BufferNow(u, chan)
    PROVE  Core'
<1>1. TypeOK /\ Exact /\ chan \in Channels
  BY PhaseFacts
<1>2. /\ ni' \in [Tiles -> [Channels -> Seq(Rates)]]
      /\ \A u \in Tiles, d \in Channels :
            ni'[u][d] = IF u = t /\ d = chan THEN Append(ni[t][chan], r) ELSE ni[u][d]
  <2>1. ni \in [Tiles -> [Channels -> Seq(Rates)]]
    BY <1>1 DEF TypeOK, Rates
  <2> QED
    BY <1>1, <2>1
<1>3. \A u \in Tiles : memChannel[u][chan] = BufferNow(u, chan) /\ ni[u][chan] = InterfaceNow(u, chan)
  BY <1>1 DEF Exact, ExactLists
<1>4. Append(<<>>, r) = <<r>>
  BY Appended
<1>5. \A u \in Tiles : ni'[u][chan] = InterfaceNow(u, chan)'
  <2> SUFFICES ASSUME NEW u \in Tiles PROVE ni'[u][chan] = InterfaceNow(u, chan)'
    OBVIOUS
  <2>1. CASE u = t
    <3>1. ni'[t][chan] = Append(ni[t][chan], r)
      BY <1>1, <1>2
    <3> QED
      BY <1>3, <1>4, <2>1, <3>1
  <2>2. CASE u # t
    BY <1>1, <1>2, <1>3, <2>2
  <2> QED
    BY <2>1, <2>2
<1>6. TypeOK'
  BY <1>1, <1>2 DEF TypeOK, Phases, Claiming, Rates
<1>7. /\ \A u \in Tiles, d \in Channels \ {chan} : memChannel'[u][d] = memChannel[u][d]
      /\ \A u \in Tiles, d \in Channels \ {chan} : ni'[u][d] = ni[u][d]
      /\ \A u \in Tiles : memChannel'[u][chan] = BufferNow(u, chan)'
  BY <1>2, <1>3
<1> QED
  BY <1>5, <1>6, <1>7, PhaseCore

LEMMA ClaimConnectionCore ==
    ASSUME Core, allocateConnectionResources
    PROVE  Core'
<1> DEFINE x == binding[Src[chan]]
           y == binding[Dst[chan]]
           Same == UNCHANGED <<platform, demand, binding, procs, memActor, conn, tileLoad, slice, todo,
                               chan, mode, cur, remaining, untried>>
<1>1. UNCHANGED <<mode, cur, remaining, untried>> /\ pc \in Phases
  BY DEF allocateConnectionResources, ClaimBuffer, ClaimInterface, Phases
<1>2. pc \in Claiming /\ chan \in Channels
  BY <1>1 DEF Claiming, Core, AtPort, ConnectedTo
<1>3. /\ demand.src[chan] \in Nat /\ demand.dst[chan] \in Nat /\ demand.bw[chan] \in Nat
  BY <1>2 DEF Core, TypeOK, Demand, Sizes
<1>4. CASE GiveUpTile
  BY <1>1, <1>2, <1>4, GiveUpCore
<1>5. CASE /\ pc = "srcMem" /\ pc' = "dstMem" /\ reserveMemory(x, chan, demand.src[chan])
           /\ ni' = ni /\ Same
  <2>1. pc' \in Claiming \ {"state"}
    BY <1>5 DEF Claiming, Phases
  <2>2. /\ isChannelBoundToConnection(chan) /\ isChannelBoundToConnection(chan)'
        /\ ~isChannelBoundToTile(chan) /\ ~isChannelBoundToTile(chan)'
        /\ ~Waits(chan) /\ ~Waits(chan)' /\ x \in Tiles /\ y \in Tiles /\ x # y
    BY <1>1, <1>5, <2>1, PhaseFacts
  <2>3. /\ SourceNow(chan) = <<>> /\ SourceNow(chan)' = <<demand.src[chan]>>
        /\ TargetNow(chan) = <<>> /\ TargetNow(chan)' = <<>>
        /\ SendNow(chan) = <<>> /\ SendNow(chan)' = <<>>
        /\ ReceiveNow(chan) = <<>> /\ ReceiveNow(chan)' = <<>>
    BY <1>5 DEF SourceNow, TargetNow, SendNow, ReceiveNow, Doing, Phases
  <2>4. /\ BufferNow(x, chan) = <<>> /\ BufferNow(x, chan)' = <<demand.src[chan]>>
        /\ \A u \in Tiles \ {x} : BufferNow(u, chan)' = BufferNow(u, chan)
    BY <1>5, <2>2, <2>3 DEF BufferNow
  <2>5. \A u \in Tiles : InterfaceNow(u, chan)' = InterfaceNow(u, chan)
    BY <1>5, <2>2, <2>3 DEF InterfaceNow
  <2> QED
    BY <1>1, <1>3, <1>5, <2>1, <2>2, <2>4, <2>5, BufferPhase
<1>6. CASE /\ pc = "dstMem" /\ pc' = "srcNI" /\ reserveMemory(y, chan, demand.dst[chan])
           /\ ni' = ni /\ Same
  <2>1. pc' \in Claiming \ {"state"}
    BY <1>6 DEF Claiming, Phases
  <2>2. /\ isChannelBoundToConnection(chan) /\ isChannelBoundToConnection(chan)'
        /\ ~isChannelBoundToTile(chan) /\ ~isChannelBoundToTile(chan)'
        /\ ~Waits(chan) /\ ~Waits(chan)' /\ x \in Tiles /\ y \in Tiles /\ x # y
    BY <1>1, <1>6, <2>1, PhaseFacts
  <2>3. /\ SourceNow(chan)' = SourceNow(chan)
        /\ TargetNow(chan) = <<>> /\ TargetNow(chan)' = <<demand.dst[chan]>>
        /\ SendNow(chan) = <<>> /\ SendNow(chan)' = <<>>
        /\ ReceiveNow(chan) = <<>> /\ ReceiveNow(chan)' = <<>>
    BY <1>6 DEF SourceNow, TargetNow, SendNow, ReceiveNow, Doing, Phases
  <2>4. /\ BufferNow(y, chan) = <<>> /\ BufferNow(y, chan)' = <<demand.dst[chan]>>
        /\ \A u \in Tiles \ {y} : BufferNow(u, chan)' = BufferNow(u, chan)
    BY <1>6, <2>2, <2>3 DEF BufferNow
  <2>5. \A u \in Tiles : InterfaceNow(u, chan)' = InterfaceNow(u, chan)
    BY <1>6, <2>2, <2>3 DEF InterfaceNow
  <2> QED
    BY <1>1, <1>3, <1>6, <2>1, <2>2, <2>4, <2>5, BufferPhase
<1>7. CASE /\ pc = "srcNI" /\ pc' = "dstNI"
           /\ ni' = [ni EXCEPT ![x][chan] = Append(@, [in |-> 0, out |-> demand.bw[chan]])]
           /\ memChannel' = memChannel /\ Same
  <2>1. pc' \in Claiming \ {"state"}
    BY <1>7 DEF Claiming, Phases
  <2>2. /\ isChannelBoundToConnection(chan) /\ isChannelBoundToConnection(chan)'
        /\ ~isChannelBoundToTile(chan) /\ ~isChannelBoundToTile(chan)'
        /\ ~Waits(chan) /\ ~Waits(chan)' /\ x \in Tiles /\ y \in Tiles /\ x # y
    BY <1>1, <1>7, <2>1, PhaseFacts
  <2>3. SourceNow(chan)' = SourceNow(chan) /\ TargetNow(chan)' = TargetNow(chan)
    BY <1>7 DEF SourceNow, TargetNow, Doing, Phases
  <2>4. /\ SendNow(chan) = <<>> /\ SendNow(chan)' = <<[in |-> 0, out |-> demand.bw[chan]]>>
        /\ ReceiveNow(chan) = <<>> /\ ReceiveNow(chan)' = <<>>
    BY <1>7 DEF SendNow, ReceiveNow, Doing, Phases
  <2>5. \A u \in Tiles : BufferNow(u, chan)' = BufferNow(u, chan)
    BY <1>7, <2>2, <2>3 DEF BufferNow
  <2>6. /\ InterfaceNow(x, chan) = <<>>
        /\ InterfaceNow(x, chan)' = <<[in |-> 0, out |-> demand.bw[chan]]>>
        /\ \A u \in Tiles \ {x} : InterfaceNow(u, chan)' = InterfaceNow(u, chan)
    BY <1>7, <2>2, <2>4 DEF InterfaceNow
  <2>7. [in |-> 0, out |-> demand.bw[chan]] \in Rates
    BY <1>3 DEF Rates
  <2> QED
    BY <1>1, <1>7, <2>1, <2>2, <2>5, <2>6, <2>7, InterfacePhase
<1>8. CASE /\ pc = "dstNI" /\ pc' = "port"
           /\ ni' = [ni EXCEPT ![y][chan] = Append(@, [in |-> demand.bw[chan], out |-> 0])]
           /\ memChannel' = memChannel /\ Same
  <2>1. pc' \in Claiming \ {"state"}
    BY <1>8 DEF Claiming, Phases
  <2>2. /\ isChannelBoundToConnection(chan) /\ isChannelBoundToConnection(chan)'
        /\ ~isChannelBoundToTile(chan) /\ ~isChannelBoundToTile(chan)'
        /\ ~Waits(chan) /\ ~Waits(chan)' /\ x \in Tiles /\ y \in Tiles /\ x # y
    BY <1>1, <1>8, <2>1, PhaseFacts
  <2>3. SourceNow(chan)' = SourceNow(chan) /\ TargetNow(chan)' = TargetNow(chan)
    BY <1>8 DEF SourceNow, TargetNow, Doing, Phases
  <2>4. /\ SendNow(chan)' = SendNow(chan)
        /\ ReceiveNow(chan) = <<>> /\ ReceiveNow(chan)' = <<[in |-> demand.bw[chan], out |-> 0]>>
    BY <1>8 DEF SendNow, ReceiveNow, Doing, Phases
  <2>5. \A u \in Tiles : BufferNow(u, chan)' = BufferNow(u, chan)
    BY <1>8, <2>2, <2>3 DEF BufferNow
  <2>6. /\ InterfaceNow(y, chan) = <<>>
        /\ InterfaceNow(y, chan)' = <<[in |-> demand.bw[chan], out |-> 0]>>
        /\ \A u \in Tiles \ {y} : InterfaceNow(u, chan)' = InterfaceNow(u, chan)
    BY <1>8, <2>2, <2>4 DEF InterfaceNow
  <2>7. [in |-> demand.bw[chan], out |-> 0] \in Rates
    BY <1>3 DEF Rates
  <2> QED
    BY <1>1, <1>8, <2>1, <2>2, <2>5, <2>6, <2>7, InterfacePhase
<1>9. CASE ClaimBuffer("srcMem", "dstMem", x, demand.src[chan])
  BY <1>1, <1>4, <1>5, <1>9 DEF ClaimBuffer
<1>10. CASE ClaimBuffer("dstMem", "srcNI", y, demand.dst[chan])
  BY <1>1, <1>4, <1>6, <1>10 DEF ClaimBuffer
<1>11. CASE ClaimInterface("srcNI", "dstNI", x, 0, demand.bw[chan])
  BY <1>1, <1>4, <1>7, <1>11 DEF ClaimInterface
<1>12. CASE ClaimInterface("dstNI", "port", y, demand.bw[chan], 0)
  BY <1>1, <1>4, <1>8, <1>12 DEF ClaimInterface
<1> QED
  BY <1>9, <1>10, <1>11, <1>12 DEF allocateConnectionResources

-----------------------------------------------------------------------------
(* The buffer of kind f that c has on t                                    *)
BufferAt(c, f, t) ==
    /\ t = binding[IF f = "dst" THEN Dst[c] ELSE Src[c]]
    /\ f = "mem" => isChannelBoundToTile(c) /\ Src[c] # Dst[c]
    /\ f # "mem" => isChannelBoundToConnection(c)

Resizes(c, f, n) == demand' = [demand EXCEPT ![f] = [@ EXCEPT ![c] = n]]

(* A buffer is resized on the tile where it is, its only claim there.      *)
LEMMA Resized ==
    ASSUME Core, pc = "sliced", NEW b \in todo
    PROVE  \E c \in Channels, f \in {"mem", "src", "dst"}, t \in Tiles :
             b = <<c, f>> /\ BufferAt(c, f, t) /\ memChannel[t][c] = <<demand[f][c]>>
<1>1. TypeOK /\ Exact /\ todo \subseteq Buffers
  BY DEF Core, Claimed, Resizing
<1>2. PICK c \in Channels, f \in {"mem", "src", "dst"} :
        /\ b = <<c, f>>
        /\ f = "mem" => isChannelBoundToTile(c) /\ Src[c] # Dst[c]
        /\ f # "mem" => isChannelBoundToConnection(c)
  BY <1>1 DEF Buffers
<1> DEFINE t == binding[IF f = "dst" THEN Dst[c] ELSE Src[c]]
<1>3. t \in Tiles
  <2>1. binding[Src[c]] # None /\ binding[Dst[c]] # None
    BY <1>2 DEF isChannelBoundToTile, isChannelBoundToConnection
  <2> QED
    BY <1>1, <2>1, BindingAssumption DEF TypeOK
<1>4. Quiet
  BY QuietOutside DEF Claiming, Phases
<1>5. memChannel[t][c] = BufferClaims(t, c)
  BY <1>1, <1>3, <1>4, Calm DEF Exact, ExactLists, Quiet
<1>6. BufferClaims(t, c) = <<demand[f][c]>>
  <2>1. CASE f = "mem"
    BY <1>2, <2>1 DEF BufferClaims, Copies
  <2>2. CASE f = "src"
    BY <1>2, <2>2 DEF BufferClaims, isChannelBoundToConnection, isChannelBoundToTile
  <2>3. CASE f = "dst"
    BY <1>2, <2>3 DEF BufferClaims, isChannelBoundToConnection, isChannelBoundToTile
  <2> QED
    BY <2>1, <2>2, <2>3
<1>7. BufferAt(c, f, t)
  BY <1>2 DEF BufferAt
<1> QED
  BY <1>2, <1>3, <1>5, <1>6, <1>7

LEMMA ResizedDemand ==
    ASSUME demand \in Demand, NEW c \in Channels, NEW f \in {"mem", "src", "dst"}, NEW n \in Nat,
           Resizes(c, f, n)
    PROVE  /\ demand' \in Demand /\ demand'.bw = demand.bw
           /\ \A d \in Channels : /\ demand'.mem[d] = IF f = "mem" /\ d = c THEN n ELSE demand.mem[d]
                                  /\ demand'.src[d] = IF f = "src" /\ d = c THEN n ELSE demand.src[d]
                                  /\ demand'.dst[d] = IF f = "dst" /\ d = c THEN n ELSE demand.dst[d]
<1>1. /\ demand.mem \in Sizes /\ demand.src \in Sizes /\ demand.dst \in Sizes /\ demand.bw \in Sizes
      /\ demand = [mem |-> demand.mem, src |-> demand.src, dst |-> demand.dst, bw |-> demand.bw]
  BY DEF Demand
<1>2. \A s \in Sizes : /\ [s EXCEPT ![c] = n] \in Sizes
                       /\ \A d \in Channels : [s EXCEPT ![c] = n][d] = IF d = c THEN n ELSE s[d]
  BY DEF Sizes
<1>3. CASE f = "mem"
  <2>1. demand' = [mem |-> [demand.mem EXCEPT ![c] = n], src |-> demand.src, dst |-> demand.dst,
                   bw |-> demand.bw]
    BY <1>1, <1>3 DEF Resizes
  <2> QED
    BY <1>1, <1>2, <1>3, <2>1 DEF Demand
<1>4. CASE f = "src"
  <2>1. demand' = [mem |-> demand.mem, src |-> [demand.src EXCEPT ![c] = n], dst |-> demand.dst,
                   bw |-> demand.bw]
    BY <1>1, <1>4 DEF Resizes
  <2> QED
    BY <1>1, <1>2, <1>4, <2>1 DEF Demand
<1>5. CASE f = "dst"
  <2>1. demand' = [mem |-> demand.mem, src |-> demand.src, dst |-> [demand.dst EXCEPT ![c] = n],
                   bw |-> demand.bw]
    BY <1>1, <1>5 DEF Resizes
  <2> QED
    BY <1>1, <1>2, <1>5, <2>1 DEF Demand
<1> QED
  BY <1>3, <1>4, <1>5

LEMMA ResizeStep ==
    ASSUME Core, updateStorageSpaceAllocation
    PROVE  \E c \in Channels, f \in {"mem", "src", "dst"}, t \in Tiles, n \in Nat :
             /\ <<c, f>> \in todo /\ todo' = todo \ {<<c, f>>}
             /\ BufferAt(c, f, t) /\ memChannel[t][c] = <<demand[f][c]>>
             /\ Resizes(c, f, n)
             /\ \/ /\ availableMemorySize(t) + demand[f][c] >= n
                   /\ memChannel' = [memChannel EXCEPT ![t][c] = <<n>>] /\ pc' = pc
                \/ memChannel' = [memChannel EXCEPT ![t][c] = <<>>] /\ pc' = "exception"
<1>1. pc = "sliced"
  BY DEF updateStorageSpaceAllocation
<1>2. PICK b \in todo, n \in NewSizes :
        LET c == b[1]
            t == binding[IF b[2] = "dst" THEN Dst[c] ELSE Src[c]]
            others == Tail(memChannel[t][c])
        IN  /\ demand' = [demand EXCEPT ![b[2]] = [@ EXCEPT ![c] = n]]
            /\ todo' = todo \ {b}
            /\ \/ /\ availableMemorySize(t) + Head(memChannel[t][c]) >= n
                  /\ memChannel' = [memChannel EXCEPT ![t][c] = Append(others, n)]
                  /\ pc' = pc
               \/ /\ availableMemorySize(t) + Head(memChannel[t][c]) < n
                  /\ memChannel' = [memChannel EXCEPT ![t][c] = others]
                  /\ pc' = "exception"
  BY Zenon DEF updateStorageSpaceAllocation
<1>3. PICK c \in Channels, f \in {"mem", "src", "dst"}, t \in Tiles :
        b = <<c, f>> /\ BufferAt(c, f, t) /\ memChannel[t][c] = <<demand[f][c]>>
  BY <1>1, Resized
<1>4. n \in Nat
  BY BindingAssumption
<1>5. b[1] = c /\ b[2] = f
  BY <1>3
<1>6. /\ Resizes(c, f, n) /\ todo' = todo \ {<<c, f>>}
      /\ \/ /\ availableMemorySize(t) + Head(memChannel[t][c]) >= n
            /\ memChannel' = [memChannel EXCEPT ![t][c] = Append(Tail(memChannel[t][c]), n)]
            /\ pc' = pc
         \/ memChannel' = [memChannel EXCEPT ![t][c] = Tail(memChannel[t][c])] /\ pc' = "exception"
  BY <1>2, <1>3, <1>5, Zenon DEF Resizes, BufferAt
<1>7. ASSUME NEW v PROVE Head(<<v>>) = v /\ Tail(<<v>>) = <<>> /\ Append(<<>>, n) = <<n>>
  OBVIOUS
<1>8. /\ Head(memChannel[t][c]) = demand[f][c] /\ Tail(memChannel[t][c]) = <<>>
      /\ Append(Tail(memChannel[t][c]), n) = <<n>>
  BY <1>3, <1>7
<1>9. \/ /\ availableMemorySize(t) + demand[f][c] >= n
         /\ memChannel' = [memChannel EXCEPT ![t][c] = <<n>>] /\ pc' = pc
      \/ memChannel' = [memChannel EXCEPT ![t][c] = <<>>] /\ pc' = "exception"
  BY <1>6, <1>8, Zenon
<1>10. <<c, f>> \in todo
  BY <1>3
<1> WITNESS c \in Channels, f \in {"mem", "src", "dst"}, t \in Tiles, n \in Nat
<1> QED
  BY <1>3, <1>6, <1>9, <1>10

(* The claims of the resized channel follow its new demand.                *)
LEMMA ResizedClaims ==
    ASSUME TypeOK, UNCHANGED <<binding, ni>>,
           NEW c \in Channels, NEW f \in {"mem", "src", "dst"}, NEW t \in Tiles, NEW n \in Nat,
           BufferAt(c, f, t), Resizes(c, f, n)
    PROVE  /\ \A u \in Tiles, d \in Channels :
                BufferClaims(u, d)' = IF u = t /\ d = c THEN <<n>> ELSE BufferClaims(u, d)
           /\ \A u \in Tiles, d \in Channels : InterfaceClaims(u, d)' = InterfaceClaims(u, d)
<1>1. demand \in Demand
  BY DEF TypeOK
<1>2. /\ demand' \in Demand /\ demand'.bw = demand.bw
      /\ \A d \in Channels : /\ demand'.mem[d] = IF f = "mem" /\ d = c THEN n ELSE demand.mem[d]
                             /\ demand'.src[d] = IF f = "src" /\ d = c THEN n ELSE demand.src[d]
                             /\ demand'.dst[d] = IF f = "dst" /\ d = c THEN n ELSE demand.dst[d]
  BY <1>1, ResizedDemand
<1>3. \A d \in Channels : /\ isChannelBoundToTile(d)' <=> isChannelBoundToTile(d)
                          /\ isChannelBoundToConnection(d)' <=> isChannelBoundToConnection(d)
  BY DEF isChannelBoundToTile, isChannelBoundToConnection
<1>4. \A u \in Tiles, d \in Channels : InterfaceClaims(u, d)' = InterfaceClaims(u, d)
  BY <1>2, <1>3 DEF InterfaceClaims
<1>5. ASSUME NEW u \in Tiles, NEW d \in Channels
      PROVE  BufferClaims(u, d)' = IF u = t /\ d = c THEN <<n>> ELSE BufferClaims(u, d)
  <2>1. CASE d # c
    <3>1. demand'.mem[d] = demand.mem[d] /\ demand'.src[d] = demand.src[d] /\ demand'.dst[d] = demand.dst[d]
      BY <1>2, <2>1
    <3>2. BufferClaims(u, d)' = BufferClaims(u, d)
      BY <1>3, <3>1 DEF BufferClaims, Copies
    <3> QED
      BY <2>1, <3>2
  <2>2. CASE d = c /\ f = "mem"
    <3>1. /\ isChannelBoundToTile(c)' /\ ~isChannelBoundToConnection(c)' /\ t = binding[Src[c]]
          /\ isChannelBoundToTile(c) /\ ~isChannelBoundToConnection(c) /\ Src[c] # Dst[c]
      BY <1>3, <2>2 DEF BufferAt, isChannelBoundToTile, isChannelBoundToConnection
    <3>2. demand'.mem[c] = n
      BY <1>2, <2>2
    <3> QED
      BY <2>2, <3>1, <3>2 DEF BufferClaims, Copies
  <2>3. CASE d = c /\ f # "mem"
    <3>1. /\ ~isChannelBoundToTile(c)' /\ isChannelBoundToConnection(c)'
          /\ ~isChannelBoundToTile(c) /\ isChannelBoundToConnection(c)
          /\ binding[Src[c]] # binding[Dst[c]]
      BY <1>3, <2>3 DEF BufferAt, isChannelBoundToTile, isChannelBoundToConnection
    <3>2. CASE f = "src"
      <4>1. demand'.src[c] = n /\ demand'.dst[c] = demand.dst[c] /\ t = binding[Src[c]]
        BY <1>2, <3>2 DEF BufferAt
      <4> QED
        BY <2>3, <3>1, <4>1 DEF BufferClaims
    <3>3. CASE f = "dst"
      <4>1. demand'.dst[c] = n /\ demand'.src[c] = demand.src[c] /\ t = binding[Dst[c]]
        BY <1>2, <3>3 DEF BufferAt
      <4> QED
        BY <2>3, <3>1, <4>1 DEF BufferClaims
    <3> QED
      BY <2>3, <3>2, <3>3
  <2> QED
    BY <2>1, <2>2, <2>3
<1> QED
  BY <1>4, <1>5

LEMMA ResizeCore ==
    ASSUME Core, updateStorageSpaceAllocation
    PROVE  Core'
<1>1. /\ pc = "sliced"
      /\ UNCHANGED <<platform, binding, procs, memActor, ni, conn, tileLoad, slice,
                     mode, cur, remaining, untried, chan>>
  BY DEF updateStorageSpaceAllocation
<1>2. PICK c \in Channels, f \in {"mem", "src", "dst"}, t \in Tiles, n \in Nat :
        /\ <<c, f>> \in todo /\ todo' = todo \ {<<c, f>>}
        /\ BufferAt(c, f, t) /\ memChannel[t][c] = <<demand[f][c]>>
        /\ Resizes(c, f, n)
        /\ \/ /\ availableMemorySize(t) + demand[f][c] >= n
              /\ memChannel' = [memChannel EXCEPT ![t][c] = <<n>>] /\ pc' = pc
           \/ memChannel' = [memChannel EXCEPT ![t][c] = <<>>] /\ pc' = "exception"
  BY ResizeStep, Zenon
<1>3. TypeOK /\ Exact /\ todo \subseteq Buffers
  BY <1>1 DEF Core, Claimed, Resizing
<1>4. demand' \in Demand
  BY <1>2, <1>3, ResizedDemand DEF TypeOK
<1>5. memChannel' \in [Tiles -> [Channels -> Seq(Nat)]]
  <2>1. <<>> \in Seq(Nat) /\ <<n>> \in Seq(Nat)
    OBVIOUS
  <2>2. memChannel \in [Tiles -> [Channels -> Seq(Nat)]]
    BY <1>3 DEF TypeOK
  <2>3. PICK s \in Seq(Nat) : memChannel' = [memChannel EXCEPT ![t][c] = s]
    BY <1>2, <2>1, Zenon
  <2> QED
    BY <2>2, <2>3
<1>6. TypeOK'
  BY <1>1, <1>2, <1>3, <1>4, <1>5 DEF TypeOK
<1>7. pc' \in {"sliced", "exception"} /\ pc' \notin Claiming /\ pc \notin Claiming
  BY <1>1, <1>2 DEF Claiming, Phases
<1>8. Loaded' /\ Running'
  BY <1>1, UnchangedLoads DEF Core
<1>9. AtPort' /\ Progress' /\ Resizing'
  <2>1. AtPort'
    BY <1>7 DEF AtPort, Pending, Claiming, Phases
  <2>2. Progress'
    BY <1>1, <1>7 DEF Core, Progress, Trying, Claiming, Phases, Bound
  <2>3. Buffers' = Buffers
    BY <1>1 DEF Buffers, isChannelBoundToTile, isChannelBoundToConnection
  <2>4. Resizing'
    BY <1>2, <1>3, <2>3 DEF Resizing
  <2> QED
    BY <2>1, <2>2, <2>4
<1>10. CASE pc' = "exception"
  BY <1>6, <1>8, <1>9, <1>10 DEF Core, Claimed
<1>11. CASE pc' = "sliced"
  <2>1. memChannel' = [memChannel EXCEPT ![t][c] = <<n>>]
    BY <1>1, <1>2, <1>11
  <2>2. Quiet /\ Quiet'
    BY <1>7, QuietOutside, QuietOutsideNext
  <2>3. /\ \A u \in Tiles, d \in Channels :
             BufferClaims(u, d)' = IF u = t /\ d = c THEN <<n>> ELSE BufferClaims(u, d)
        /\ \A u \in Tiles, d \in Channels : InterfaceClaims(u, d)' = InterfaceClaims(u, d)
    <3>1. TypeOK /\ UNCHANGED <<binding, ni>>
      BY <1>1, <1>3
    <3> QED
      BY <1>2, <3>1, ResizedClaims, Zenon
  <2>4. \A d \in Channels : /\ ~Waits(d)
                            /\ \A u \in Tiles : BufferNow(u, d) = BufferClaims(u, d)
                            /\ \A u \in Tiles : InterfaceNow(u, d) = InterfaceClaims(u, d)
    BY <2>2, Calm DEF Quiet
  <2>5. \A d \in Channels : /\ ~Waits(d)'
                            /\ \A u \in Tiles : BufferNow(u, d)' = BufferClaims(u, d)'
                            /\ \A u \in Tiles : InterfaceNow(u, d)' = InterfaceClaims(u, d)'
    BY <2>2, CalmNext DEF Quiet
  <2>6. ExactActors'
    BY <1>1, <1>3, <1>11 DEF Exact, ExactActors, On
  <2>7. ExactLists'
    <3> SUFFICES ASSUME NEW u \in Tiles, NEW d \in Channels
                 PROVE  memChannel'[u][d] = BufferNow(u, d)' /\ ni'[u][d] = InterfaceNow(u, d)'
      BY DEF ExactLists
    <3>1. memChannel[u][d] = BufferClaims(u, d) /\ ni[u][d] = InterfaceClaims(u, d)
      BY <1>3, <2>4 DEF Exact, ExactLists
    <3>2. memChannel'[u][d] = IF u = t /\ d = c THEN <<n>> ELSE memChannel[u][d]
      BY <1>3, <2>1 DEF TypeOK
    <3>3. BufferNow(u, d)' = IF u = t /\ d = c THEN <<n>> ELSE BufferClaims(u, d)
      BY <2>3, <2>5
    <3>4. InterfaceNow(u, d)' = InterfaceClaims(u, d) /\ ni' = ni
      BY <1>1, <2>3, <2>5
    <3>5. memChannel'[u][d] = BufferNow(u, d)'
      BY <3>1, <3>2, <3>3
    <3>6. ni'[u][d] = InterfaceNow(u, d)'
      BY <3>1, <3>4
    <3> QED
      BY <3>5, <3>6
  <2>8. ExactLinks'
    <3> SUFFICES ASSUME NEW u \in Tiles, NEW v \in Tiles
                 PROVE  conn'[u, v] = {d \in Between(u, v)' : ~Waits(d)'}
      BY DEF ExactLinks
    <3>1. conn'[u, v] = {d \in Between(u, v) : ~Waits(d)}
      BY <1>1, <1>3, Zenon DEF Exact, ExactLinks
    <3>2. Between(u, v)' = Between(u, v) /\ Between(u, v) \subseteq Channels
      BY <1>1 DEF Between
    <3> QED
      BY <2>4, <2>5, <3>1, <3>2
  <2>9. Claimed'
    BY <1>11, <2>6, <2>7, <2>8 DEF Claimed, Exact
  <2> QED
    BY <1>6, <1>8, <1>9, <2>9 DEF Core
<1> QED
  BY <1>7, <1>10, <1>11

-----------------------------------------------------------------------------
(* The search for time slices                                              *)
Slices == [Tiles -> Nat]

Proper(s) == \A t \in Tiles : IF tileLoad[t] # 0 THEN s[t] \in 1 .. platform.wheel[t] ELSE s[t] = 0
Met(s) == s \in Slices /\ Proper(s) /\ s \in DOMAIN measured /\ measured[s] # "below"

(* The lower bounds of the search: found too small, or a share of slices   *)
(* that were not.                                                          *)
Lower(s) ==
    /\ s \in Slices
    /\ \/ s \in DOMAIN measured /\ measured[s] = "below"
       \/ \E m \in DOMAIN measured : measured[m] # "below" /\ s = TS!Share(m)

Hopeless ==
    /\ slice \in DOMAIN measured /\ measured[slice] = "below"
    /\ \A t \in Tiles : tileLoad[t] # 0 => slice[t] = platform.wheel[t]

Bounded == Met(high) /\ Lower(low) /\ \A t \in Tiles : low[t] <= high[t]
Middle(t) == IF TS!Resizable(t) THEN low[t] + (high[t] - low[t] + 1) \div 2 ELSE high[t]
Tight == Met(slice) /\ Lower(low) /\ \A t \in Tiles : slice[t] - low[t] \in {0, 1}

SearchTypes ==
    /\ platform.wheel \in Slices /\ tileLoad \in Slices /\ slice \in Slices
    /\ parts \in 2 .. 2 * Finest + 2 /\ saved \in Slices \cup {None}
    /\ stage \in {"reserve", "minimize", "bounds", "resize", "optimize", "check", "failed", "met"}

Local == /\ parts = 2 /\ saved = None /\ low = None /\ high = None
         /\ measured = <<>> /\ stage = "reserve" /\ success = FALSE

Minimized == /\ stage # "reserve" => Proper(slice)
             /\ saved = None => parts = 2
             /\ saved # None => Met(saved)

Staged ==
    /\ stage = "bounds" => success = TRUE /\ Met(slice)
    /\ stage \in {"resize", "optimize"} => success = TRUE /\ Bounded
    /\ stage = "optimize" => \A t \in Tiles : slice[t] = Middle(t)
    /\ stage \in {"check", "met"} /\ success = TRUE => Tight
    /\ stage \in {"check", "failed"} /\ success = FALSE => Hopeless
    /\ stage \in {"check", "failed", "met"} => success \in BOOLEAN
    /\ stage = "met" => success = TRUE
    /\ stage = "failed" => success = FALSE

Searching ==
    /\ pc # "bound" => stage = "reserve"
    /\ stage = "reserve" => Local
    /\ SearchTypes /\ Minimized /\ Staged

(* An answer is kept: what was found before is found again.                *)
LEMMA Remembered ==
    ASSUME NEW answer, TS!analyzeThroughput(answer), UNCHANGED <<platform, tileLoad>>
    PROVE  /\ \A s : Met(s) => Met(s)'
           /\ \A s : Lower(s) => Lower(s)'
           /\ \A s : Proper(s) => Proper(s)'
           /\ slice \in DOMAIN measured' /\ measured'[slice] = answer
           /\ slice \in DOMAIN measured => measured[slice] = answer
<1>1. DOMAIN measured' = DOMAIN measured \cup {slice}
  BY DEF TS!analyzeThroughput
<1>2. measured'[slice] = answer
  BY DEF TS!analyzeThroughput
<1>3. ASSUME NEW s \in DOMAIN measured PROVE measured'[s] = measured[s]
  BY DEF TS!analyzeThroughput
<1>4. slice \in DOMAIN measured => measured[slice] = answer
  BY DEF TS!analyzeThroughput
<1>5. \A s : Proper(s) => Proper(s)'
  BY DEF Proper
<1>6. \A s : Met(s) => Met(s)'
  BY <1>1, <1>3, <1>5 DEF Met
<1>7. \A s : TS!Share(s)' = TS!Share(s)
  BY DEF TS!Share, TS!MaxLoad
<1>8. \A s : Lower(s) => Lower(s)'
  BY <1>1, <1>3, <1>7 DEF Lower
<1> QED
  BY <1>1, <1>2, <1>4, <1>5, <1>6, <1>8

(* A tile is loaded when it is in use, and then it has a wheel; when all   *)
(* actors are bound some tile is loaded.                                   *)
LEMMA LoadedTiles ==
    ASSUME Core, NEW t \in Tiles
    PROVE  tileLoad[t] # 0 <=> On(t) # {}
<1>1. TypeOK /\ tileLoad[t] = SumOf(Loads(t), On(t)) /\ On(t) \in SUBSET Actors
  BY DEF Core, Loaded, On
<1>2. CASE On(t) = {}
  BY <1>1, <1>2, SumEmpty
<1>3. CASE On(t) # {}
  <2>1. PICK a \in On(t) : TRUE
    BY <1>3
  <2>2. a \in Actors /\ binding[a] = t /\ binding[a] # None
    BY <2>1, Ends DEF On
  <2>3. PICK w \in Nat \ {0} : w = Loads(t)[a]
    <3>1. platform.load[a][t] \in Nat
      BY <1>1, <2>2, PlatformType
    <3>2. platform.load[a][t] > 0
      BY <1>1, <2>2, TileAllocationAssumption DEF Core, TypeOK, Running
    <3> QED
      BY <2>2, <3>1, <3>2 DEF Loads
  <2>4. PICK r \in Nat : r = SumOf(Loads(t), On(t) \ {a})
    <3>1. On(t) \ {a} \in SUBSET Actors
      BY <1>1
    <3> QED
      BY <1>1, <3>1, LoadNumbers
  <2>5. SumOf(Loads(t), On(t)) = Loads(t)[a] + SumOf(Loads(t), On(t) \ {a})
    BY <1>1, <2>1, LoadNumbers, SumElement
  <2>6. tileLoad[t] = w + r
    BY <1>1, <2>3, <2>4, <2>5
  <2> QED
    BY <1>3, <2>6
<1> QED
  BY <1>2, <1>3

LEMMA LoadedWheels ==
    ASSUME Core
    PROVE  \A t \in Tiles : tileLoad[t] # 0 => platform.wheel[t] \in Nat \ {0}
<1> SUFFICES ASSUME NEW t \in Tiles, tileLoad[t] # 0 PROVE platform.wheel[t] \in Nat \ {0}
  OBVIOUS
<1>1. On(t) # {}
  BY LoadedTiles
<1>2. PICK a \in Actors : binding[a] = t
  BY <1>1 DEF On
<1>3. platform.wheel[t] > 0
  BY <1>2, BindingAssumption DEF Core, Running
<1> QED
  BY <1>3, PlatformType DEF Core

LEMMA SomeLoad ==
    ASSUME Core, pc = "bound"
    PROVE  /\ TS!MaxLoad \in Nat \ {0}
           /\ \A t \in Tiles : tileLoad[t] <= TS!MaxLoad
<1>1. TypeOK /\ Bound = Actors
  BY DEF Core, Progress
<1>2. PICK a \in Actors : binding[a] # None
  BY <1>1, BindingAssumption DEF Bound
<1>3. binding[a] \in Tiles /\ <<a, binding[a]>> \in platform.runs
  BY <1>1, <1>2 DEF TypeOK, Core, Running
<1>4. PICK u \in Tiles : u = binding[a]
  BY <1>3
<1>5. a \in On(u)
  BY <1>4 DEF On
<1>6. tileLoad[u] # 0
  BY <1>5, LoadedTiles
<1>7. tileLoad \in [Tiles -> Nat] /\ Numbers(tileLoad, Tiles)
  BY <1>1, BindingAssumption DEF TypeOK, Numbers
<1>8. PICK m : m = MostOf(tileLoad, Tiles)
  OBVIOUS
<1>9. m \in Nat /\ (\A t \in Tiles : tileLoad[t] <= m) /\ (m = 0 \/ \E t \in Tiles : m = tileLoad[t])
  BY <1>7, <1>8, MostBounds
<1>10. tileLoad[u] <= m /\ m # 0
  BY <1>6, <1>7, <1>9
<1>11. m \in {tileLoad[t] : t \in Tiles} /\ \A t \in Tiles : tileLoad[t] <= m
  BY <1>9, <1>10
<1>12. TS!MaxLoad = CHOOSE k \in {tileLoad[t] : t \in Tiles} : \A t \in Tiles : tileLoad[t] <= k
  BY DEF TS!MaxLoad
<1>13. /\ TS!MaxLoad \in {tileLoad[t] : t \in Tiles}
       /\ \A t \in Tiles : tileLoad[t] <= TS!MaxLoad
  BY <1>11, <1>12
<1>14. TS!MaxLoad \in Nat /\ tileLoad[u] <= TS!MaxLoad
  BY <1>7, <1>13
<1> QED
  BY <1>6, <1>7, <1>13, <1>14

(* The steps up and down, the share and the middle                         *)
LEMMA UpStep ==
    ASSUME NEW a \in Nat, NEW p \in Nat \ {0, 1}
    PROVE  /\ (a + p - 1) \div p \in 0 .. a
           /\ p = 2 /\ (a + p - 1) \div p = 0 => a = 0
OBVIOUS

LEMMA ShareBounds ==
    ASSUME NEW s \in Nat, NEW l \in Nat, NEW m \in Nat \ {0}, l <= m
    PROVE  (s * l) \div m \in 0 .. s
<1>1. s * l <= s * m
  OBVIOUS
<1>2. s * l \in Nat /\ s * m \in Nat
  OBVIOUS
<1>3. PICK q \in Nat : q = (s * l) \div m
  BY <1>2
<1>4. q <= s
  BY <1>1, <1>2, <1>3
<1> QED
  BY <1>3, <1>4


LEMMA ReserveSearching ==
    ASSUME Core, Searching, pc = "bound", UNCHANGED <<platform, tileLoad, pc>>, TS!reserveTimeSlices
    PROVE  Searching'
<1>1. /\ stage = "reserve" /\ stage' = "minimize"
      /\ slice' = [t \in Tiles |-> IF t \notin TS!Used THEN 0
                                   ELSE IF platform.wheel[t] \div 2 < 1 THEN 1 ELSE platform.wheel[t] \div 2]
      /\ parts' = parts /\ saved' = saved /\ low' = low /\ high' = high /\ measured' = measured
      /\ success' = success
  BY DEF TS!reserveTimeSlices
<1>2. Local
  BY <1>1 DEF Searching
<1>3. \A t \in Tiles : t \in TS!Used <=> tileLoad[t] # 0
  BY DEF TS!Used
<1>4. ASSUME NEW t \in Tiles
      PROVE  /\ slice'[t] \in Nat
             /\ IF tileLoad[t] # 0 THEN slice'[t] \in 1 .. platform.wheel[t] ELSE slice'[t] = 0
  <2>1. CASE tileLoad[t] # 0
    <3>1. platform.wheel[t] \in Nat \ {0}
      BY <2>1, LoadedWheels
    <3>2. slice'[t] = IF platform.wheel[t] \div 2 < 1 THEN 1 ELSE platform.wheel[t] \div 2
      BY <1>1, <1>3, <2>1
    <3> QED
      BY <2>1, <3>1, <3>2
  <2>2. CASE tileLoad[t] = 0
    BY <1>1, <1>3, <2>2
  <2> QED
    BY <2>1, <2>2
<1>5. slice' \in Slices /\ Proper(slice)'
  <2>1. slice' \in Slices
    BY <1>1, <1>4 DEF Slices
  <2> QED
    BY <1>4, <2>1 DEF Proper
<1>6. SearchTypes'
  BY <1>1, <1>5 DEF Searching, SearchTypes
<1>7. Minimized'
  BY <1>1, <1>2, <1>5 DEF Minimized, Local
<1> QED
  BY <1>1, <1>6, <1>7 DEF Searching, Staged

(* Either the slices meet the constraint or the ones kept do.              *)
LEMMA KeepSearching ==
    ASSUME Core, Searching, UNCHANGED <<platform, tileLoad, pc>>, pc = "bound", stage # "reserve",
           NEW s, TS!Keep(s), Met(s)', (saved # None => Met(saved)')
    PROVE  Searching'
<1>1. slice' = s /\ stage' = "bounds" /\ success' = TRUE /\ parts' = parts /\ saved' = saved
  BY DEF TS!Keep
<1>2. Met(slice)'
  BY <1>1 DEF Met, Proper
<1>3. Proper(slice)' /\ slice' \in Slices
  BY <1>2 DEF Met
<1>4. SearchTypes'
  BY <1>1, <1>3 DEF Searching, SearchTypes
<1>5. Minimized'
  <2>1. saved' # None => Met(saved)'
    BY <1>1
  <2>2. saved' = None => parts' = 2
    BY <1>1 DEF Searching, Minimized
  <2> QED
    BY <1>3, <2>1, <2>2 DEF Minimized
<1>6. Staged'
  BY <1>1, <1>2 DEF Staged
<1> QED
  BY <1>1, <1>4, <1>5, <1>6 DEF Searching

LEMMA MinimizeSearching ==
    ASSUME Core, Searching, pc = "bound", UNCHANGED <<platform, tileLoad, pc>>, TS!minimizeTimeSlices
    PROVE  Searching'
<1>1. stage = "minimize" /\ low' = low /\ high' = high
  BY DEF TS!minimizeTimeSlices
<1>2. SearchTypes /\ Minimized /\ Proper(slice)
  BY <1>1 DEF Searching, Minimized
<1>3. PICK answer \in TS!Answers :
        /\ TS!analyzeThroughput(answer)
        /\ \/ parts > Finest /\ answer # "below" /\ TS!Keep(slice)
           \/ parts > Finest /\ answer = "below" /\ TS!Fail
           \/ parts <= Finest /\ answer = "near" /\ TS!Keep(slice)
           \/ parts <= Finest /\ answer = "below" /\ TS!Increased = slice /\ TS!Fail
           \/ /\ parts <= Finest /\ answer = "below" /\ TS!Increased # slice
              /\ slice' = TS!Increased
              /\ UNCHANGED <<parts, saved, stage, success>>
           \/ parts <= Finest /\ answer = "above" /\ TS!Keep(slice)
           \/ /\ parts <= Finest /\ answer = "above" /\ TS!Decreased # slice
              /\ saved' = slice
              /\ slice' = TS!Decreased
              /\ parts' = 2 * parts
              /\ UNCHANGED <<stage, success>>
  BY DEF TS!minimizeTimeSlices
<1>4. /\ \A s : Met(s) => Met(s)'
      /\ \A s : Proper(s) => Proper(s)'
      /\ slice \in DOMAIN measured' /\ measured'[slice] = answer
  BY <1>3, Remembered
<1>5. saved' = saved /\ saved # None => Met(saved)'
  <2>1. PICK s : s = saved
    OBVIOUS
  <2>2. saved # None => Met(s)'
    BY <1>2, <1>4, <2>1 DEF Minimized
  <2> QED
    BY <2>1, <2>2 DEF Met, Proper
<1>6. slice \in Slices /\ parts \in 2 .. 2 * Finest + 2 /\ Finest \in Nat \ {0, 1}
  BY <1>2, TileAllocationAssumption DEF SearchTypes
<1>7. ASSUME NEW t \in Tiles
      PROVE  /\ slice[t] \in Nat /\ platform.wheel[t] \in Nat
             /\ t \in TS!Used <=> tileLoad[t] # 0
             /\ tileLoad[t] # 0 => slice[t] \in 1 .. platform.wheel[t]
             /\ tileLoad[t] = 0 => slice[t] = 0
  BY <1>2 DEF SearchTypes, Slices, Proper, TS!Used
<1>8. Met(slice)' \/ answer = "below" \/ slice' # slice
  BY <1>2, <1>4, <1>6 DEF Met, Proper
<1>9. CASE TS!Keep(slice) /\ answer # "below"
  <2>1. PICK s : s = slice
    OBVIOUS
  <2>2. TS!Keep(s) /\ saved' = saved /\ slice' = slice
    BY <1>9, <2>1 DEF TS!Keep
  <2>3. Met(s)'
    BY <1>8, <1>9, <2>1, <2>2 DEF Met, Proper
  <2> QED
    BY <1>1, <1>5, <2>2, <2>3, KeepSearching
<1>10. CASE TS!Fail /\ saved # None
  <2>1. PICK s : s = saved
    OBVIOUS
  <2>2. TS!Keep(s) /\ saved' = saved
    BY <1>10, <2>1 DEF TS!Fail, TS!Keep
  <2>3. Met(s)'
    BY <1>2, <1>4, <1>10, <2>1 DEF Minimized
  <2> QED
    BY <1>1, <1>5, <1>10, <2>2, <2>3, KeepSearching
<1>11. CASE TS!Fail /\ saved = None /\ answer = "below" /\ TS!Increased = slice
  <2>1. /\ stage' = "check" /\ success' = FALSE /\ slice' = slice /\ parts' = parts /\ saved' = None
        /\ parts = 2
    BY <1>2, <1>11 DEF TS!Fail, Minimized
  <2>2. ASSUME NEW t \in Tiles, tileLoad[t] # 0 PROVE slice[t] = platform.wheel[t]
    <3>1. slice[t] + TS!StepUp(t) = slice[t]
      <4>1. TS!Increased[t] = slice[t] + TS!StepUp(t)
        BY <1>7, <2>2 DEF TS!Increased
      <4> QED
        BY <1>11, <4>1
    <3>2. PICK a \in Nat : a = platform.wheel[t] - slice[t]
      BY <1>7, <2>2
    <3>3. TS!StepUp(t) = (a + parts - 1) \div parts
      BY <3>2 DEF TS!StepUp, TS!available
    <3>4. parts \in Nat \ {0, 1} /\ (a + parts - 1) \div parts \in 0 .. a
      BY <1>6, <2>1, UpStep
    <3>5. (a + parts - 1) \div parts = 0
      BY <1>7, <3>1, <3>3, <3>4
    <3>6. a = 0
      BY <2>1, <3>4, <3>5, UpStep
    <3> QED
      BY <1>7, <2>2, <3>2, <3>6
  <2>3. Hopeless'
    BY <1>4, <1>11, <2>1, <2>2 DEF Hopeless
  <2>4. SearchTypes' /\ Minimized'
    BY <1>2, <1>4, <2>1 DEF SearchTypes, Minimized, Proper
  <2> QED
    BY <1>1, <2>1, <2>3, <2>4 DEF Searching, Staged
<1>12. CASE /\ slice' = TS!Increased
            /\ UNCHANGED <<parts, saved, stage, success>>
  <2>1. ASSUME NEW t \in Tiles
        PROVE  /\ slice'[t] \in Nat
               /\ IF tileLoad[t] # 0 THEN slice'[t] \in 1 .. platform.wheel[t] ELSE slice'[t] = 0
    <3>1. slice'[t] = IF tileLoad[t] # 0 THEN slice[t] + TS!StepUp(t) ELSE slice[t]
      BY <1>7, <1>12 DEF TS!Increased
    <3>2. CASE tileLoad[t] = 0
      BY <1>7, <3>1, <3>2
    <3>3. CASE tileLoad[t] # 0
      <4>1. PICK a \in Nat : a = platform.wheel[t] - slice[t]
        BY <1>7, <3>3
      <4>2. TS!StepUp(t) = (a + parts - 1) \div parts
        BY <4>1 DEF TS!StepUp, TS!available
      <4>3. parts \in Nat \ {0, 1}
        BY <1>6
      <4>4. TS!StepUp(t) \in 0 .. a
        BY <4>2, <4>3, UpStep
      <4>5. slice'[t] = slice[t] + TS!StepUp(t)
        BY <3>1, <3>3
      <4> QED
        BY <1>7, <3>3, <4>1, <4>4, <4>5
    <3> QED
      BY <3>2, <3>3
  <2>2. slice' \in Slices
    BY <1>12, <2>1 DEF TS!Increased, Slices
  <2>3. Proper(slice)'
    BY <2>1 DEF Proper
  <2>4. SearchTypes' /\ Minimized'
    BY <1>2, <1>5, <1>12, <2>2, <2>3 DEF SearchTypes, Minimized
  <2> QED
    BY <1>1, <1>12, <2>4 DEF Searching, Staged
<1>13. CASE /\ parts <= Finest /\ answer = "above"
            /\ saved' = slice
            /\ slice' = TS!Decreased
            /\ parts' = 2 * parts
            /\ UNCHANGED <<stage, success>>
  <2>1. ASSUME NEW t \in Tiles
        PROVE  /\ slice'[t] \in Nat
               /\ IF tileLoad[t] # 0 THEN slice'[t] \in 1 .. platform.wheel[t] ELSE slice'[t] = 0
    <3> DEFINE step == IF TS!Step(t) >= slice[t] THEN 1 ELSE TS!Step(t)
    <3>1. slice'[t] = IF tileLoad[t] # 0 /\ slice[t] > step THEN slice[t] - step ELSE slice[t]
      BY <1>7, <1>13 DEF TS!Decreased
    <3>2. CASE tileLoad[t] = 0
      BY <1>7, <3>1, <3>2
    <3>3. CASE tileLoad[t] # 0
      <4>1. PICK a \in Nat : a = platform.wheel[t] - slice[t]
        BY <1>7, <3>3
      <4>2. TS!Step(t) = a \div parts
        BY <4>1 DEF TS!Step, TS!available
      <4>3. a \div parts \in Nat
        BY <1>6
      <4>4. step \in Nat
        BY <4>2, <4>3
      <4> HIDE DEF step
      <4> QED
        BY <1>7, <3>1, <3>3, <4>4
    <3> QED
      BY <3>2, <3>3
  <2>2. slice' \in Slices
    BY <1>13, <2>1 DEF TS!Decreased, Slices
  <2>3. Proper(slice)'
    BY <2>1 DEF Proper
  <2>4. Met(saved)' /\ saved' \in Slices /\ saved' # None
    BY <1>2, <1>4, <1>6, <1>13, TileAllocationAssumption DEF Met, Proper, Slices
  <2>5. parts' \in 2 .. 2 * Finest + 2
    BY <1>6, <1>13
  <2>6. SearchTypes' /\ Minimized'
    BY <1>2, <1>13, <2>2, <2>3, <2>4, <2>5 DEF SearchTypes, Minimized
  <2> QED
    BY <1>1, <1>13, <2>6 DEF Searching, Staged
<1>14. parts > Finest => saved # None
  BY <1>2, <1>6 DEF Minimized
<1> QED
  BY <1>3, <1>9, <1>10, <1>11, <1>12, <1>13, <1>14

LEMMA BoundsSearching ==
    ASSUME Core, Searching, pc = "bound", UNCHANGED <<platform, tileLoad, pc>>, TS!setBounds
    PROVE  Searching'
<1>1. /\ stage = "bounds" /\ stage' = "resize" /\ high' = slice /\ low' = TS!Share(slice)
      /\ slice' = slice /\ parts' = parts /\ saved' = saved /\ measured' = measured /\ success' = success
  BY DEF TS!setBounds
<1>2. SearchTypes /\ Minimized /\ success = TRUE /\ Met(slice) /\ Proper(slice)
  BY <1>1 DEF Searching, Staged, Met
<1>3. ASSUME NEW t \in Tiles
      PROVE  low'[t] \in Nat /\ low'[t] <= slice[t]
  <2>1. slice[t] \in Nat /\ tileLoad[t] \in Nat
    BY <1>2 DEF SearchTypes, Slices
  <2>2. low'[t] = (slice[t] * tileLoad[t]) \div TS!MaxLoad
    BY <1>1 DEF TS!Share
  <2>3. PICK m \in Nat \ {0} : m = TS!MaxLoad /\ tileLoad[t] <= m
    BY SomeLoad
  <2>4. (slice[t] * tileLoad[t]) \div m \in 0 .. slice[t]
    BY <2>1, <2>3, ShareBounds
  <2> QED
    BY <2>1, <2>2, <2>3, <2>4
<1>4. low' \in Slices
  BY <1>1, <1>3 DEF TS!Share, Slices
<1>5. Met(high)'
  BY <1>1, <1>2 DEF Met, Proper
<1>6. Lower(low)'
  <2>1. TS!Share(slice)' = TS!Share(slice)
    BY <1>1 DEF TS!Share, TS!MaxLoad
  <2>2. slice \in DOMAIN measured' /\ measured'[slice] # "below" /\ low' = TS!Share(slice)'
    BY <1>1, <1>2, <2>1 DEF Met
  <2>3. PICK s : s = slice
    OBVIOUS
  <2>4. s \in DOMAIN measured' /\ measured'[s] # "below" /\ low' = TS!Share(s)'
    BY <1>1, <2>2, <2>3
  <2> QED
    BY <1>4, <2>4 DEF Lower
<1>7. Bounded'
  BY <1>1, <1>3, <1>5, <1>6 DEF Bounded
<1>8. SearchTypes' /\ Minimized'
  <2>1. Proper(slice)'
    BY <1>1, <1>2 DEF Proper
  <2>2. saved # None => Met(saved)'
    BY <1>1, <1>2 DEF Minimized, Met, Proper
  <2> QED
    BY <1>1, <1>2, <2>1, <2>2 DEF SearchTypes, Minimized
<1> QED
  BY <1>1, <1>2, <1>7, <1>8 DEF Searching, Staged

(* The middle lies above the lower bound, and has a slot where the upper   *)
(* bound has one.                                                          *)
LEMMA MiddleProper ==
    ASSUME SearchTypes, Bounded
    PROVE  \A t \in Tiles :
             /\ low[t] \in Nat /\ high[t] \in Nat /\ Middle(t) \in low[t] .. high[t]
             /\ TS!Resizable(t) => Middle(t) > low[t]
             /\ IF tileLoad[t] # 0 THEN Middle(t) \in 1 .. platform.wheel[t] ELSE Middle(t) = 0
<1> SUFFICES ASSUME NEW t \in Tiles
             PROVE  /\ low[t] \in Nat /\ high[t] \in Nat /\ Middle(t) \in low[t] .. high[t]
                    /\ TS!Resizable(t) => Middle(t) > low[t]
                    /\ IF tileLoad[t] # 0 THEN Middle(t) \in 1 .. platform.wheel[t] ELSE Middle(t) = 0
  OBVIOUS
<1>1. PICK l \in Nat : l = low[t]
  BY DEF Bounded, Lower, Slices
<1>2. PICK h \in Nat : h = high[t]
  BY DEF Bounded, Met, Slices
<1>3. PICK w \in Nat : w = platform.wheel[t]
  BY DEF SearchTypes, Slices
<1>4. l <= h /\ (tileLoad[t] # 0 => h \in 1 .. w) /\ (tileLoad[t] = 0 => h = 0)
  BY <1>1, <1>2, <1>3 DEF Bounded, Met, Proper
<1>5. TS!Resizable(t) <=> l + 1 < h
  BY <1>1, <1>2 DEF TS!Resizable
<1>6. Middle(t) = IF l + 1 < h THEN l + (h - l + 1) \div 2 ELSE h
  BY <1>1, <1>2, <1>5 DEF Middle
<1>7. CASE l + 1 < h
  <2>1. Middle(t) = l + (h - l + 1) \div 2
    BY <1>6, <1>7
  <2>2. l + (h - l + 1) \div 2 \in (l + 1) .. h
    BY <1>7
  <2> QED
    BY <1>1, <1>2, <1>3, <1>4, <2>1, <2>2
<1>8. CASE ~(l + 1 < h)
  <2>1. Middle(t) = h
    BY <1>6, <1>8
  <2> QED
    BY <1>1, <1>2, <1>3, <1>4, <1>5, <1>8, <2>1
<1> QED
  BY <1>7, <1>8

LEMMA ResizeSearching ==
    ASSUME Core, Searching, pc = "bound", UNCHANGED <<platform, tileLoad, pc>>, TS!resize
    PROVE  Searching'
<1>1. /\ stage = "resize" /\ stage' = "optimize"
      /\ slice' = [t \in Tiles |-> Middle(t)]
      /\ parts' = parts /\ saved' = saved /\ measured' = measured /\ success' = success
      /\ low' = low /\ high' = high
  BY DEF TS!resize, Middle
<1>2. SearchTypes /\ Minimized /\ success = TRUE /\ Bounded
  BY <1>1 DEF Searching, Staged
<1>3. \A t \in Tiles :
        /\ low[t] \in Nat /\ high[t] \in Nat /\ Middle(t) \in low[t] .. high[t]
        /\ IF tileLoad[t] # 0 THEN Middle(t) \in 1 .. platform.wheel[t] ELSE Middle(t) = 0
  BY <1>2, MiddleProper
<1>4. slice' \in Slices
  BY <1>1, <1>3 DEF Slices
<1>5. Proper(slice)'
  BY <1>1, <1>3, Zenon DEF Proper
<1>6. \A t \in Tiles : slice'[t] = Middle(t)'
  BY <1>1 DEF Middle, TS!Resizable
<1>7. Bounded'
  <2>1. Met(high)'
    BY <1>1, <1>2 DEF Bounded, Met, Proper
  <2>2. \A s : TS!Share(s)' = TS!Share(s)
    BY DEF TS!Share, TS!MaxLoad
  <2>3. Lower(low)
    BY <1>2 DEF Bounded
  <2>4. Lower(low)'
    BY <1>1, <2>2, <2>3 DEF Lower
  <2> QED
    BY <1>1, <1>2, <2>1, <2>4 DEF Bounded
<1>8. SearchTypes' /\ Minimized'
  <2>2. saved # None => Met(saved)'
    BY <1>1, <1>2 DEF Minimized, Met, Proper
  <2> QED
    BY <1>1, <1>2, <1>4, <1>5, <2>2 DEF SearchTypes, Minimized
<1> QED
  BY <1>1, <1>2, <1>6, <1>7, <1>8 DEF Searching, Staged

LEMMA OptimizeSearching ==
    ASSUME Core, Searching, pc = "bound", UNCHANGED <<platform, tileLoad, pc>>, TS!optimizeTimeSlices
    PROVE  Searching'
<1>1. /\ stage = "optimize" /\ slice' = slice /\ parts' = parts /\ saved' = saved /\ success' = success
  BY DEF TS!optimizeTimeSlices
<1>2. PICK answer \in TS!Answers :
        /\ TS!analyzeThroughput(answer)
        /\ IF \E t \in Tiles : TS!Resizable(t)
           THEN TS!Narrow(answer # "below") /\ stage' = "resize"
           ELSE stage' = "check" /\ UNCHANGED <<low, high>>
  BY DEF TS!optimizeTimeSlices
<1>3. /\ SearchTypes /\ Minimized /\ success = TRUE /\ Bounded
      /\ \A t \in Tiles : slice[t] = Middle(t)
  BY <1>1 DEF Searching, Staged
<1>4. /\ \A s : Met(s) => Met(s)'
      /\ \A s : Lower(s) => Lower(s)'
      /\ \A s : Proper(s) => Proper(s)'
      /\ slice \in DOMAIN measured' /\ measured'[slice] = answer
  BY <1>2, Remembered
<1>5. PICK l, h, s, v : l = low /\ h = high /\ s = slice /\ v = saved
  OBVIOUS
<1>6. Proper(s) /\ s \in Slices
  BY <1>1, <1>3, <1>5 DEF Searching, Minimized, SearchTypes
<1>7. Met(h)' /\ Lower(l)' /\ Proper(s)' /\ (v # None => Met(v)')
  BY <1>3, <1>4, <1>5, <1>6 DEF Bounded, Minimized
<1>8. SearchTypes' /\ Minimized'
  <2>1. Proper(slice)'
    BY <1>1, <1>5, <1>7 DEF Proper
  <2>2. saved # None => Met(saved)'
    BY <1>1, <1>5, <1>7 DEF Met, Proper
  <2>3. stage' \in {"resize", "check"}
    BY <1>2
  <2> QED
    BY <1>1, <1>3, <2>1, <2>2, <2>3 DEF SearchTypes, Minimized
<1>9. \A t \in Tiles :
        /\ low[t] \in Nat /\ high[t] \in Nat /\ slice[t] \in low[t] .. high[t]
        /\ TS!Resizable(t) => slice[t] > low[t]
  BY <1>3, MiddleProper
<1>10. CASE /\ answer # "below" /\ high' = slice /\ low' = low /\ stage' = "resize"
  <2>1. Met(s)'
    BY <1>4, <1>5, <1>6, <1>7, <1>10 DEF Met
  <2>2. Met(high)' /\ Lower(low)'
    BY <1>5, <1>7, <1>10, <2>1 DEF Met, Proper, Lower
  <2>3. Bounded'
    BY <1>9, <1>10, <2>2 DEF Bounded
  <2> QED
    BY <1>1, <1>3, <1>8, <1>10, <2>3 DEF Searching, Staged
<1>11. CASE /\ answer = "below" /\ low' = slice /\ high' = high /\ stage' = "resize"
  <2>1. Lower(s)'
    BY <1>4, <1>5, <1>6, <1>11 DEF Lower
  <2>2. Met(high)' /\ Lower(low)'
    <3>1. Met(high)'
      BY <1>5, <1>7, <1>11 DEF Met, Proper
    <3>2. Lower(low)'
      BY <1>5, <1>11, <2>1 DEF Lower
    <3> QED
      BY <3>1, <3>2
  <2>3. Bounded'
    BY <1>9, <1>11, <2>2 DEF Bounded
  <2> QED
    BY <1>1, <1>3, <1>8, <1>11, <2>3 DEF Searching, Staged
<1>12. CASE /\ ~ \E t \in Tiles : TS!Resizable(t)
            /\ stage' = "check" /\ UNCHANGED <<low, high>>
  <2>1. \A t \in Tiles : slice[t] = high[t] /\ ~(low[t] + 1 < high[t])
    BY <1>3, <1>12 DEF Middle, TS!Resizable
  <2>2. slice = high
    <3>1. slice \in Slices /\ high \in Slices
      BY <1>3 DEF SearchTypes, Bounded, Met
    <3> QED
      BY <2>1, <3>1 DEF Slices
  <2>3. Met(slice)' /\ Lower(low)'
    <3>1. Met(slice)'
      BY <1>1, <1>5, <1>7, <2>2 DEF Met, Proper
    <3>2. Lower(low)'
      BY <1>5, <1>7, <1>12 DEF Lower
    <3> QED
      BY <3>1, <3>2
  <2>4. \A t \in Tiles : slice'[t] - low'[t] \in {0, 1}
    BY <1>1, <1>9, <1>12, <2>1
  <2>5. Tight'
    BY <2>3, <2>4 DEF Tight
  <2> QED
    BY <1>1, <1>3, <1>8, <1>12, <2>5 DEF Searching, Staged
<1> QED
  BY <1>2, <1>10, <1>11, <1>12 DEF TS!Narrow

LEMMA CheckSearching ==
    ASSUME Core, Searching, pc = "bound", UNCHANGED <<platform, tileLoad, pc>>, TS!checkConstraint
    PROVE  Searching'
<1>1. /\ stage = "check" /\ slice' = slice /\ parts' = parts /\ saved' = saved /\ success' = success
      /\ low' = low /\ high' = high
  BY DEF TS!checkConstraint
<1>2. PICK answer \in TS!Answers :
        /\ TS!analyzeThroughput(answer)
        /\ stage' = IF answer = "below" THEN "failed" ELSE "met"
  BY DEF TS!checkConstraint
<1>3. SearchTypes /\ Minimized /\ success \in BOOLEAN /\ Proper(slice)
  BY <1>1 DEF Searching, Staged, Minimized
<1>4. /\ \A s : Met(s) => Met(s)'
      /\ \A s : Lower(s) => Lower(s)'
      /\ \A s : Proper(s) => Proper(s)'
      /\ slice \in DOMAIN measured' /\ measured'[slice] = answer
      /\ slice \in DOMAIN measured => measured[slice] = answer
  BY <1>2, Remembered
<1>5. PICK l, s, v : l = low /\ s = slice /\ v = saved
  OBVIOUS
<1>6. Proper(s)' /\ (v # None => Met(v)')
  BY <1>3, <1>4, <1>5 DEF Minimized
<1>7. SearchTypes' /\ Minimized'
  <2>1. Proper(slice)'
    BY <1>1, <1>5, <1>6 DEF Proper
  <2>2. saved # None => Met(saved)'
    BY <1>1, <1>5, <1>6 DEF Met, Proper
  <2>3. stage' \in {"failed", "met"}
    BY <1>2
  <2> QED
    BY <1>1, <1>3, <2>1, <2>2, <2>3 DEF SearchTypes, Minimized
<1>8. CASE success = TRUE
  <2>1. Tight
    BY <1>1, <1>8 DEF Searching, Staged
  <2>2. stage' = "met"
    BY <1>2, <1>4, <2>1 DEF Tight, Met
  <2>3. Met(s)' /\ Lower(l)'
    BY <1>4, <1>5, <2>1 DEF Tight
  <2>4. Met(slice)'
    BY <1>1, <1>5, <2>3 DEF Met, Proper
  <2>5. Lower(low)'
    BY <1>1, <1>5, <2>3 DEF Lower
  <2>6. Tight'
    BY <1>1, <2>1, <2>4, <2>5 DEF Tight
  <2> QED
    BY <1>1, <1>7, <1>8, <2>2, <2>6 DEF Searching, Staged
<1>9. CASE success = FALSE
  <2>1. Hopeless
    BY <1>1, <1>9 DEF Searching, Staged
  <2>2. answer = "below" /\ stage' = "failed"
    BY <1>2, <1>4, <2>1 DEF Hopeless
  <2>3. Hopeless'
    BY <1>1, <1>4, <2>1, <2>2 DEF Hopeless
  <2> QED
    BY <1>1, <1>7, <1>9, <2>2, <2>3 DEF Searching, Staged
<1> QED
  BY <1>3, <1>8, <1>9

LEMMA SearchStepSearching ==
    ASSUME Core, Searching, SearchStep
    PROVE  Searching'
<1>1. pc = "bound" /\ UNCHANGED <<platform, tileLoad, pc>> /\ TS!Next
  BY DEF SearchStep, control
<1> QED
  BY <1>1, ReserveSearching, MinimizeSearching, BoundsSearching, ResizeSearching, OptimizeSearching,
     CheckSearching DEF TS!Next

(* The rest of an attempt leaves what the search uses as it is.            *)
LEMMA OutsideSearching ==
    ASSUME Searching, UNCHANGED search, pc # "bound" \/ UNCHANGED <<platform, tileLoad, slice, pc>>,
           TypeOK'
    PROVE  Searching'
<1>1. CASE pc # "bound"
  <2>1. stage = "reserve" /\ Local
    BY <1>1 DEF Searching
  <2>2. stage' = "reserve" /\ Local'
    BY <2>1 DEF search, Local
  <2>3. SearchTypes'
    <3>1. platform' \in Platform
      BY BindingAssumption DEF TypeOK
    <3>2. platform'.wheel \in Slices /\ tileLoad' \in Slices /\ slice' \in Slices
      BY <3>1 DEF TypeOK, Slices, Platform, Amounts
    <3> QED
      BY <2>2, <3>2, TileAllocationAssumption DEF SearchTypes, Local
  <2>4. Minimized' /\ Staged'
    BY <2>2 DEF Minimized, Staged, Local
  <2> QED
    BY <2>2, <2>3, <2>4 DEF Searching
<1>2. CASE pc = "bound" /\ UNCHANGED <<platform, tileLoad, slice, pc>>
  <2>1. \A s : TS!Share(s)' = TS!Share(s)
    BY <1>2 DEF TS!Share, TS!MaxLoad
  <2>2. UNCHANGED <<platform, tileLoad, slice, pc, parts, saved, low, high, measured, stage, success>>
    BY <1>2 DEF search
  <2>3. SearchTypes' /\ Minimized' /\ Local' = Local
    BY <2>2 DEF Searching, SearchTypes, Minimized, Met, Proper, Local
  <2>4. Met(slice)' = Met(slice) /\ Met(high)' = Met(high) /\ Hopeless' = Hopeless
    BY <2>2 DEF Met, Proper, Hopeless
  <2>5. Lower(low)' = Lower(low)
    BY <2>1, <2>2 DEF Lower
  <2>6. Bounded' = Bounded /\ Tight' = Tight /\ \A t \in Tiles : Middle(t)' = Middle(t)
    BY <2>2, <2>4, <2>5 DEF Bounded, Tight, Middle, TS!Resizable
  <2>7. Staged'
    BY <2>2, <2>4, <2>6 DEF Searching, Staged
  <2> QED
    BY <2>2, <2>3, <2>7 DEF Searching
<1> QED
  BY <1>1, <1>2

-----------------------------------------------------------------------------
(* The search leaves the claims of the binding as they are.                *)
LEMMA SearchStepCore ==
    ASSUME Core, Searching, SearchStep
    PROVE  Core'
<1>1. /\ pc = "bound" /\ platform' = platform /\ demand' = demand /\ binding' = binding
      /\ procs' = procs /\ memActor' = memActor /\ memChannel' = memChannel /\ ni' = ni /\ conn' = conn
      /\ tileLoad' = tileLoad /\ pc' = pc /\ mode' = mode /\ cur' = cur /\ remaining' = remaining
      /\ untried' = untried /\ todo' = todo /\ chan' = chan
  BY DEF SearchStep, claims, control
<1>2. slice' \in [Tiles -> Nat]
  BY SearchStepSearching DEF Searching, SearchTypes, Slices
<1>3. TypeOK'
  BY <1>1, <1>2 DEF Core, TypeOK
<1>4. Loaded' /\ Running'
  BY <1>1, UnchangedLoads
<1>5. pc \notin Claiming /\ pc' \notin Claiming
  BY <1>1 DEF Claiming, Phases
<1>6. Exact'
  <2>1. Exact /\ UNCHANGED <<demand, binding, claims>>
    BY <1>1 DEF Core, Claimed, claims
  <2> QED
    BY <1>1, <1>5, <2>1, QuietOutside, QuietOutsideNext, KeptExact
<1>7. Claimed' /\ AtPort' /\ Resizing'
  BY <1>1, <1>5, <1>6 DEF Claimed, AtPort, Pending, Claiming, Resizing
<1>8. Progress'
  BY <1>1 DEF Core, Progress, Trying, Claiming, Phases, Bound
<1> QED
  BY <1>3, <1>4, <1>7, <1>8 DEF Core

LEMMA ExactReleasableAlways == TypeOK /\ Exact => Releasable
BY ExactReleasable

LEMMA SearchEndsCore ==
    ASSUME Core, SearchEnds
    PROVE  Core'
<1>1. /\ pc = "bound" /\ platform' = platform /\ demand' = demand /\ binding' = binding
      /\ procs' = procs /\ memActor' = memActor /\ memChannel' = memChannel /\ ni' = ni /\ conn' = conn
      /\ tileLoad' = tileLoad /\ slice' = slice /\ mode' = mode /\ cur' = cur /\ remaining' = remaining
      /\ untried' = untried /\ chan' = chan
      /\ \/ pc' = "sliced" /\ todo' = Buffers
         \/ pc' = "undo" /\ todo' = todo
  BY DEF SearchEnds, resources, claims
<1>2. TypeOK'
  <2>1. Buffers \subseteq Channels \X {"in", "out", "mem", "src", "dst"}
    BY DEF Buffers
  <2> QED
    BY <1>1, <2>1 DEF Core, TypeOK
<1>3. Loaded' /\ Running'
  BY <1>1, UnchangedLoads
<1>4. pc \notin Claiming /\ pc' \notin Claiming
  BY <1>1 DEF Claiming, Phases
<1>5. Exact'
  <2>1. Exact /\ UNCHANGED <<demand, binding, claims>>
    BY <1>1 DEF Core, Claimed, claims
  <2>2. pc # "state" /\ pc' # "state"
    BY <1>1
  <2> QED
    BY <1>4, <2>1, <2>2, QuietOutside, QuietOutsideNext, KeptExact
<1>6. Releasable'
  <2>1. (TypeOK /\ Exact => Releasable)'
    BY ExactReleasableAlways, PTL
  <2> QED
    BY <1>2, <1>5, <2>1
<1>7. Claimed' /\ AtPort'
  BY <1>4, <1>5, <1>6 DEF Claimed, AtPort, Pending, Claiming
<1>8. Resizing'
  <2>1. Buffers' = Buffers
    BY <1>1 DEF Buffers, isChannelBoundToTile, isChannelBoundToConnection
  <2> QED
    BY <1>1, <2>1 DEF Resizing
<1>9. Progress'
  BY <1>1 DEF Core, Progress, Trying, Claiming, Phases, Bound
<1> QED
  BY <1>2, <1>3, <1>7, <1>8, <1>9 DEF Core

LEMMA InitCore ==
    ASSUME AllocationInit
    PROVE  Core /\ Searching
<1>1. /\ platform \in Platforms /\ demand \in Demands
      /\ binding = [a \in Actors |-> None]
      /\ procs = [t \in Tiles |-> {}] /\ memActor = [t \in Tiles |-> {}]
      /\ memChannel = [t \in Tiles |-> [c \in Channels |-> <<>>]]
      /\ ni = [t \in Tiles |-> [c \in Channels |-> <<>>]]
      /\ conn = [l \in Tiles \X Tiles |-> {}]
      /\ tileLoad = [t \in Tiles |-> 0] /\ slice = [t \in Tiles |-> 0]
      /\ pc = "idle" /\ mode = "bind" /\ remaining = {} /\ untried = {} /\ todo = {}
  BY DEF AllocationInit, Init
<1>2. cur \in Actors
  <2>1. cur = CHOOSE a \in Actors : TRUE
    BY DEF AllocationInit, Init
  <2> QED
    BY <2>1, BindingAssumption
<1>3. chan \in Channels \/ Channels = {}
  <2>1. chan = CHOOSE c \in Channels : TRUE
    BY DEF AllocationInit, Init
  <2> QED
    BY <2>1
<1>4. <<>> \in Seq(Nat) /\ <<>> \in Seq([in : Nat, out : Nat])
  OBVIOUS
<1>5. TypeOK
  BY <1>1, <1>2, <1>3, <1>4, BindingAssumption DEF TypeOK
<1>6. pc \notin Claiming /\ pc \notin Trying
  BY <1>1 DEF Claiming, Trying, Phases
<1>7. \A a \in Actors : binding[a] = None
  BY <1>1
<1>8. \A t \in Tiles : On(t) = {}
  BY <1>7, Ends DEF On
<1>9. Loaded /\ Running
  BY <1>1, <1>7, <1>8, SumEmpty DEF Loaded, Running
<1>10. \A c \in Channels : ~isChannelBoundToTile(c) /\ ~isChannelBoundToConnection(c)
  BY <1>7, Ends DEF isChannelBoundToTile, isChannelBoundToConnection
<1>11. Exact
  <2>1. ExactActors
    BY <1>1, <1>8 DEF ExactActors
  <2>2. ExactLists
    BY <1>1, <1>10 DEF ExactLists, BufferNow, InterfaceNow
  <2>3. \A t, u \in Tiles : conn[t, u] = {} /\ Between(t, u) = {}
    BY <1>1, <1>7, Ends DEF Between
  <2>4. ExactLinks
    BY <2>3 DEF ExactLinks
  <2> QED
    BY <2>1, <2>2, <2>4 DEF Exact
<1>12. Claimed /\ AtPort /\ Resizing
  BY <1>1, <1>6, <1>11 DEF Claimed, AtPort, Pending, Claiming, Resizing
<1>13. Progress
  BY <1>1, <1>6, <1>7 DEF Progress, Bound
<1>14. Local
  BY DEF AllocationInit, TS!Init, Local
<1>15. SearchTypes
  <2>1. platform.wheel \in Slices /\ tileLoad \in Slices /\ slice \in Slices
    BY <1>5, PlatformType DEF TypeOK, Slices
  <2> QED
    BY <1>14, <2>1, TileAllocationAssumption DEF SearchTypes, Local
<1>16. Searching
  BY <1>14, <1>15 DEF Searching, Local, Minimized, Staged
<1> QED
  BY <1>5, <1>9, <1>12, <1>13, <1>16 DEF Core

LEMMA AttemptCore ==
    ASSUME Core, NewAttempt \/ Attempt
    PROVE  Core'
BY OutsideCore, ReleaseNextCore, NextActorCore, MovesOnCore, BindActorCore, ClaimStateCore,
   ClaimPortCore, ClaimConnectionCore, ResizeCore DEF Attempt

(* The search has a state of its own: an attempt does not touch it.        *)
LEMMA AttemptOutside ==
    ASSUME NewAttempt \/ Attempt
    PROVE  pc # "bound"
BY DEF NewAttempt, Attempt, ReleaseNext, Undone, StartBinding, NextActor, AllBound, bindActor,
       BindingFails, ClaimState, ClaimPort, allocateConnectionResources, ClaimBuffer, ClaimInterface,
       Allocated, updateStorageSpaceAllocation, Optimized

LEMMA SearchEndsSearching ==
    ASSUME Core, Searching, SearchEnds
    PROVE  Searching'
<1>1. Local' /\ TypeOK'
  BY SearchEndsCore DEF SearchEnds, Local, Core
<1>2. SearchTypes'
  <2>1. platform' \in Platform
    BY <1>1, BindingAssumption DEF TypeOK
  <2>2. platform'.wheel \in Slices /\ tileLoad' \in Slices /\ slice' \in Slices
    BY <1>1, <2>1 DEF TypeOK, Slices, Platform, Amounts
  <2> QED
    BY <1>1, <2>2, TileAllocationAssumption DEF SearchTypes, Local
<1> QED
  BY <1>1, <1>2 DEF Searching, Minimized, Staged, Local

LEMMA StepCore ==
    ASSUME Core, Searching, [AllocationNext]_allVars
    PROVE  Core' /\ Searching'
<1>1. CASE BindingStep(NewAttempt) \/ BindingStep(Attempt)
  <2>1. (NewAttempt \/ Attempt) /\ UNCHANGED search
    BY <1>1 DEF BindingStep
  <2>2. Core' /\ pc # "bound"
    BY <2>1, AttemptCore, AttemptOutside
  <2>3. TypeOK'
    BY <2>2 DEF Core
  <2> QED
    BY <2>1, <2>2, <2>3, OutsideSearching
<1>2. CASE SearchStep
  BY <1>2, SearchStepCore, SearchStepSearching
<1>3. CASE SearchEnds
  BY <1>3, SearchEndsCore, SearchEndsSearching
<1>4. CASE UNCHANGED allVars
  <2>1. /\ UNCHANGED <<platform, demand, binding, procs, memActor, memChannel, ni, conn, tileLoad,
                       slice>>
        /\ UNCHANGED <<pc, mode, cur, remaining, untried, todo, chan>>
        /\ UNCHANGED search
    BY <1>4 DEF allVars, vars, resources, claims, control
  <2>2. TypeOK' /\ Running' /\ Loaded'
    BY <2>1, UnchangedLoads DEF Core, TypeOK
  <2>3. Searching'
    BY <2>1, <2>2, OutsideSearching
  <2>4. Pending' = Pending /\ \A c : (Out(c)' <=> Out(c)) /\ (In(c)' <=> In(c)) /\ (Waits(c)' <=> Waits(c))
    BY <2>1 DEF Pending, Out, In, Waits, Ports
  <2>5. \A c \in Channels : SamePoint(c)
    BY <2>1, <2>4 DEF SamePoint, Doing
  <2>6. \A t \in Tiles, c \in Channels : /\ BufferNow(t, c)' = BufferNow(t, c)
                                         /\ InterfaceNow(t, c)' = InterfaceNow(t, c)
    BY <2>1, <2>5, SameNow
  <2>7. \A t, u \in Tiles : Between(t, u)' = Between(t, u) /\ Between(t, u) \subseteq Channels
    BY <2>1 DEF Between
  <2>8. \A t \in Tiles : On(t)' = On(t)
    BY <2>1 DEF On
  <2>9. Claimed'
    <3>1. Exact => Exact'
      <4>1. ExactActors => ExactActors'
        BY <2>1, <2>8 DEF ExactActors
      <4>2. ExactLists => ExactLists'
        BY <2>1, <2>6 DEF ExactLists
      <4>3. ASSUME ExactLinks PROVE ExactLinks'
        <5> SUFFICES ASSUME NEW t \in Tiles, NEW u \in Tiles
                     PROVE  conn'[t, u] = {c \in Between(t, u)' : ~Waits(c)'}
          BY DEF ExactLinks
        <5>1. conn[t, u] = {c \in Between(t, u) : ~Waits(c)}
          BY <4>3, Zenon DEF ExactLinks
        <5> QED
          BY <2>1, <2>4, <2>7, <5>1
      <4> QED
        BY <4>1, <4>2, <4>3 DEF Exact
    <3>2. Releasable => Releasable'
      <4>1. ReleasableActors => ReleasableActors'
        BY <2>1, <2>8 DEF ReleasableActors
      <4>2. \A c \in Channels, t \in Tiles : HasBuffer(c, t)' = HasBuffer(c, t) /\ HasInterface(c, t)' = HasInterface(c, t)
        BY <2>1 DEF HasBuffer, HasInterface, isChannelBoundToTile, isChannelBoundToConnection
      <4>3. ReleasableLists => ReleasableLists'
        BY <2>1, <4>2 DEF ReleasableLists
      <4>4. ReleasableLinks => ReleasableLinks'
        BY <2>1, <2>7 DEF ReleasableLinks
      <4> QED
        BY <4>1, <4>3, <4>4 DEF Releasable
    <3> QED
      BY <2>1, <3>1, <3>2 DEF Core, Claimed
  <2>10. AtPort' /\ Progress' /\ Resizing'
    <3>1. AtPort'
      BY <2>1, <2>4 DEF Core, AtPort, Ports, ConnectedTo, isChannelBoundToConnection
    <3>2. Progress'
      BY <2>1 DEF Core, Progress, Free, Bound
    <3>3. Resizing'
      BY <2>1 DEF Core, Resizing, Buffers, isChannelBoundToTile, isChannelBoundToConnection
    <3> QED
      BY <3>1, <3>2, <3>3
  <2> QED
    BY <2>2, <2>3, <2>9, <2>10 DEF Core
<1> QED
  BY <1>1, <1>2, <1>3, <1>4 DEF AllocationNext, AllocationAttempt

(* Before and after every step: the claims of the attempt are exact up to  *)
(* where it is, and the search has kept slices that met the constraint.    *)
THEOREM AttemptInvariant == AllocationSpec => [](Core /\ Searching)
<1>1. AllocationInit => Core /\ Searching
  BY InitCore
<1>2. Core /\ Searching /\ [AllocationNext]_allVars => (Core /\ Searching)'
  BY StepCore
<1> QED
  BY <1>1, <1>2, PTL DEF AllocationSpec

-----------------------------------------------------------------------------
(* No claim exceeds what there is.                                         *)
LEMMA SameCapacity ==
    ASSUME TypeOK, TypeOK', WithinCapacity, UNCHANGED <<platform, memActor, memChannel, ni>>
    PROVE  WithinCapacity'
BY Capacity, CapacityNext

LEMMA LessCapacity ==
    ASSUME TypeOK, TypeOK', WithinCapacity, platform' = platform,
           \A t \in Tiles : memActor'[t] \subseteq memActor[t],
           \A t \in Tiles, c \in Channels : memChannel'[t][c] \in {memChannel[t][c], <<>>},
           \A t \in Tiles, c \in Channels : ni'[t][c] \in {ni[t][c], <<>>}
    PROVE  WithinCapacity'
<1> SUFFICES ASSUME NEW t \in Tiles
             PROVE  /\ FitsMemory(platform', t, memActor'[t], memChannel'[t])
                    /\ FitsRates(platform', t, ni'[t])
  BY CapacityNext
<1>1. /\ platform \in Platform /\ memActor[t] \in SUBSET Actors /\ memActor'[t] \in SUBSET memActor[t]
      /\ memChannel[t] \in [Channels -> Seq(Nat)] /\ memChannel'[t] \in [Channels -> Seq(Nat)]
      /\ ni[t] \in [Channels -> Seq(Rates)] /\ ni'[t] \in [Channels -> Seq(Rates)]
  BY BindingAssumption DEF TypeOK, Rates
<1>2. FitsMemory(platform, t, memActor[t], memChannel[t]) /\ FitsRates(platform, t, ni[t])
  BY Capacity
<1>3. PICK p \in Platform, A \in SUBSET Actors, B \in SUBSET memActor[t] :
         p = platform /\ A = memActor[t] /\ B = memActor'[t]
  BY <1>1
<1>4. PICK m \in [Channels -> Seq(Nat)], k \in [Channels -> Seq(Nat)] :
         m = memChannel[t] /\ k = memChannel'[t]
  BY <1>1
<1>5. PICK n \in [Channels -> Seq(Rates)], l \in [Channels -> Seq(Rates)] : n = ni[t] /\ l = ni'[t]
  BY <1>1
<1>6. FitsMemory(p, t, B, k)
  <2>1. B \in SUBSET A /\ \A c \in Channels : k[c] = m[c] \/ k[c] = <<>>
    BY <1>3, <1>4
  <2>2. FitsMemory(p, t, A, m)
    BY <1>2, <1>3, <1>4
  <2> QED
    BY <2>1, <2>2, ShrinkFits
<1>7. FitsRates(p, t, l)
  <2>1. \A c \in Channels : l[c] = n[c] \/ l[c] = <<>>
    BY <1>5
  <2>2. FitsRates(p, t, n)
    BY <1>2, <1>3, <1>5
  <2> QED
    BY <2>1, <2>2, ShrinkFitsRates
<1> QED
  BY <1>3, <1>4, <1>5, <1>6, <1>7

LEMMA ReleasedCapacity ==
    ASSUME TypeOK, TypeOK', WithinCapacity, NEW a \in Actors, Released(a)
    PROVE  WithinCapacity'
<1>1. platform' = platform /\ \A t \in Tiles : memActor'[t] \subseteq memActor[t]
  BY DEF Released, ReleasedActor
<1>2. \A t \in Tiles, c \in Channels : memChannel'[t][c] \in {memChannel[t][c], <<>>}
  BY DEF Released, ReleasedLists
<1>3. \A t \in Tiles, c \in Channels : ni'[t][c] \in {ni[t][c], <<>>}
  BY DEF Released, ReleasedLists
<1> QED
  BY <1>1, <1>2, <1>3, LessCapacity

(* On one tile more is claimed.                                            *)
LEMMA TileCapacity ==
    ASSUME TypeOK, TypeOK', WithinCapacity, platform' = platform, NEW t \in Tiles,
           \A u \in Tiles \ {t} : /\ memActor'[u] = memActor[u] /\ memChannel'[u] = memChannel[u]
                                  /\ ni'[u] = ni[u],
           FitsMemory(platform, t, memActor'[t], memChannel'[t]), FitsRates(platform, t, ni'[t])
    PROVE  WithinCapacity'
<1>1. \A u \in Tiles : /\ FitsMemory(platform, u, memActor[u], memChannel[u])
                       /\ FitsRates(platform, u, ni[u])
  BY Capacity
<1>2. ASSUME NEW u \in Tiles
      PROVE  FitsMemory(platform', u, memActor'[u], memChannel'[u]) /\ FitsRates(platform', u, ni'[u])
  <2>1. CASE u = t
    BY <2>1
  <2>2. CASE u # t
    BY <1>1, <2>2
  <2> QED
    BY <2>1, <2>2
<1> QED
  BY <1>2, CapacityNext

LEMMA ListCapacity ==
    ASSUME TypeOK, TypeOK', WithinCapacity, NEW t \in Tiles, NEW c \in Channels, NEW s \in Seq(Nat),
           memChannel' = [memChannel EXCEPT ![t][c] = s], UNCHANGED <<platform, memActor, ni>>,
           NEW o \in Nat, NEW n \in Nat, Total(memChannel[t][c]) = o, Total(s) <= n,
           availableMemorySize(t) + o >= n
    PROVE  WithinCapacity'
<1>1. /\ FitsMemory(platform, t, memActor[t], memChannel[t]) /\ FitsRates(platform, t, ni[t])
      /\ memChannel[t] \in [Channels -> Seq(Nat)] /\ memChannel'[t] \in [Channels -> Seq(Nat)]
      /\ platform.memory[t] \in Nat
  BY Capacity, PlatformType DEF TypeOK
<1>2. PICK x \in Nat : x = MostOf(platform.state, memActor[t])
  BY Use
<1>3. PICK y \in Nat : y = Total(Sized(memChannel[t]))
  BY <1>1, SizedType
<1>4. PICK z \in Nat : z = Total(Sized(memChannel'[t]))
  BY <1>1, SizedType
<1>5. PICK v \in Nat : v = Total(s)
  BY ListTotal
<1>6. z + o = y + v
  <2>1. memChannel'[t][c] = s /\ \A d \in Channels \ {c} : memChannel'[t][d] = memChannel[t][d]
    BY <1>1 DEF TypeOK
  <2>2. PICK m \in [Channels -> Seq(Nat)], k \in [Channels -> Seq(Nat)] :
           m = memChannel[t] /\ k = memChannel'[t]
    BY <1>1
  <2>3. Total(Sized(k)) + Total(m[c]) = Total(Sized(m)) + Total(k[c])
    <3>1. \A d \in Channels \ {c} : k[d] = m[d]
      BY <2>1, <2>2
    <3> QED
      BY <3>1, SizedChange, Zenon
  <2>4. Total(k[c]) = v /\ Total(m[c]) = o /\ Total(Sized(k)) = z /\ Total(Sized(m)) = y
    BY <1>3, <1>4, <1>5, <2>1, <2>2
  <2> QED
    BY <2>3, <2>4
<1>7. availableMemorySize(t) = platform.memory[t] - (x + y)
  BY <1>2, <1>3, Use DEF availableMemorySize
<1>8. x + z <= platform.memory[t]
  BY <1>1, <1>5, <1>6, <1>7
<1>9. FitsMemory(platform, t, memActor'[t], memChannel'[t])
  BY <1>2, <1>4, <1>8 DEF FitsMemory
<1>10. \A u \in Tiles \ {t} : memChannel'[u] = memChannel[u]
  BY DEF TypeOK
<1>11. memActor' = memActor /\ ni' = ni /\ platform' = platform
  OBVIOUS
<1> QED
  BY <1>1, <1>9, <1>10, <1>11, TileCapacity

LEMMA AppendCapacity ==
    ASSUME TypeOK, TypeOK', WithinCapacity, NEW t \in Tiles, NEW c \in Channels, NEW n \in Nat,
           reserveMemory(t, c, n), availableMemorySize(t) >= n, UNCHANGED <<platform, memActor, ni>>
    PROVE  WithinCapacity'
<1>1. memChannel' = [memChannel EXCEPT ![t][c] = Append(memChannel[t][c], n)]
  BY DEF reserveMemory
<1>2. memChannel[t][c] \in Seq(Nat)
  BY DEF TypeOK
<1>3. PICK o \in Nat : o = Total(memChannel[t][c])
  BY <1>2, ListTotal
<1>4. PICK s \in Seq(Nat) : s = Append(memChannel[t][c], n) /\ Total(s) = o + n
  BY <1>2, <1>3, TotalAppend
<1>5. o + n \in Nat /\ availableMemorySize(t) + o >= o + n /\ Total(s) <= o + n
  <2>1. availableMemorySize(t) \in Int
    <3>1. platform.memory[t] \in Nat /\ usedMemory(t) \in Nat
      BY Use, PlatformType
    <3> QED
      BY <3>1 DEF availableMemorySize
  <2> QED
    BY <1>4, <2>1
<1>6. memChannel' = [memChannel EXCEPT ![t][c] = s]
  BY <1>1, <1>4
<1> QED
  BY <1>3, <1>5, <1>6, ListCapacity

LEMMA AsList ==
    ASSUME NEW n \in Nat, NEW v \in [1 .. n -> Nat]
    PROVE  v \in Seq(Nat) /\ Len(v) = n
OBVIOUS

LEMMA RateAppend ==
    ASSUME NEW s \in Seq(Rates), NEW r \in Rates, NEW f \in {"in", "out"}
    PROVE  /\ Append(s, r) \in Seq(Rates) /\ Len(Append(s, r)) = Len(s) + 1
           /\ r[f] \in Nat /\ Total(Values(Append(s, r), f)) = Total(Values(s, f)) + r[f]
<1>1. PICK n \in Nat : n = Len(s)
  OBVIOUS
<1>2. PICK w \in Seq(Rates) : w = Append(s, r)
  <2>1. Append(s, r) \in Seq(Rates)
    OBVIOUS
  <2> QED
    BY <2>1
<1>3. /\ Len(w) = n + 1 /\ DOMAIN w = 1 .. (n + 1) /\ DOMAIN s = 1 .. n
      /\ w[n + 1] = r /\ \A i \in 1 .. n : w[i] = s[i]
  BY <1>1, <1>2
<1>4. r[f] \in Nat /\ \A i \in 1 .. n : s[i][f] \in Nat
  <2>1. \A q \in Rates : q[f] \in Nat
    BY DEF Rates
  <2>2. \A i \in 1 .. n : s[i] \in Rates
    BY <1>1
  <2> QED
    BY <2>1, <2>2
<1>5. PICK v : v = Values(s, f)
  OBVIOUS
<1>6. v = [i \in 1 .. n |-> s[i][f]] /\ v \in [1 .. n -> Nat]
  BY <1>3, <1>4, <1>5 DEF Values
<1>7. v \in Seq(Nat) /\ Len(v) = n
  BY <1>6, AsList, Zenon
<1>8. PICK x : x = Append(v, r[f])
  OBVIOUS
<1>9. /\ x \in Seq(Nat) /\ Len(x) = n + 1 /\ DOMAIN x = 1 .. (n + 1)
      /\ x[n + 1] = r[f] /\ \A i \in 1 .. n : x[i] = v[i]
  BY <1>4, <1>7, <1>8
<1>10. \A i \in 1 .. (n + 1) : x[i] = w[i][f]
  <2>1. ASSUME NEW i \in 1 .. (n + 1) PROVE x[i] = w[i][f]
    <3>1. CASE i = n + 1
      BY <1>3, <1>9, <3>1
    <3>2. CASE i # n + 1
      <4>1. i \in 1 .. n
        BY <3>2
      <4>2. x[i] = v[i] /\ w[i] = s[i]
        BY <1>3, <1>9, <4>1
      <4>3. v[i] = s[i][f]
        BY <1>6, <4>1
      <4> QED
        BY <4>2, <4>3
    <3> QED
      BY <3>1, <3>2
  <2> QED
    BY <2>1
<1>11. x = [i \in 1 .. (n + 1) |-> w[i][f]]
  BY <1>9, <1>10
<1>12. Values(w, f) = x
  BY <1>3, <1>11 DEF Values
<1>13. Total(x) = Total(v) + r[f]
  BY <1>4, <1>7, <1>8, TotalAppend
<1> QED
  BY <1>1, <1>2, <1>3, <1>4, <1>5, <1>12, <1>13

LEMMA Room ==
    ASSUME NEW y \in Nat, NEW l \in Nat, NEW x \in Nat, NEW n \in Nat, NEW p \in Nat,
           y + l = x + (l + n), p - x >= n
    PROVE  y <= p
OBVIOUS

LEMMA RoomForOne ==
    ASSUME NEW y \in Nat, NEW l \in Nat, NEW x \in Nat, NEW p \in Nat,
           y + l = x + (l + 1), x < p
    PROVE  y <= p
OBVIOUS

LEMMA InterfaceCapacity ==
    ASSUME TypeOK, TypeOK', WithinCapacity, NEW t \in Tiles, NEW c \in Channels,
           NEW ri \in Nat, NEW ro \in Nat, ConnectionFits(t, ri, ro),
           ni' = [ni EXCEPT ![t][c] = Append(@, [in |-> ri, out |-> ro])],
           UNCHANGED <<platform, memActor, memChannel>>
    PROVE  WithinCapacity'
<1>1. PICK r \in Rates : r = [in |-> ri, out |-> ro] /\ r["in"] = ri /\ r["out"] = ro
  BY DEF Rates
<1>2. /\ FitsMemory(platform, t, memActor[t], memChannel[t]) /\ FitsRates(platform, t, ni[t])
      /\ ni \in [Tiles -> [Channels -> Seq(Rates)]] /\ ni' \in [Tiles -> [Channels -> Seq(Rates)]]
  BY Capacity DEF TypeOK, Rates
<1>3. /\ ni'[t][c] = Append(ni[t][c], r) /\ \A d \in Channels \ {c} : ni'[t][d] = ni[t][d]
      /\ \A u \in Tiles \ {t} : ni'[u] = ni[u]
  BY <1>1, <1>2
<1>4. PICK m \in [Channels -> Seq(Rates)], k \in [Channels -> Seq(Rates)] : m = ni[t] /\ k = ni'[t]
  BY <1>2
<1>5. PICK s \in Seq(Rates) : s = m[c]
  OBVIOUS
<1>6. k[c] = Append(s, r) /\ \A d \in Channels \ {c} : k[d] = m[d]
  BY <1>3, <1>4, <1>5
<1>7. PICK l \in Nat, vi \in Nat, vo \in Nat :
         l = Len(s) /\ vi = Total(Values(s, "in")) /\ vo = Total(Values(s, "out"))
  <2>1. Len(s) \in Nat /\ Total(Values(s, "in")) \in Nat /\ Total(Values(s, "out")) \in Nat
    BY RateTotal
  <2> QED
    BY <2>1
<1>8. /\ Len(k[c]) = l + 1 /\ Total(Values(k[c], "in")) = vi + ri
      /\ Total(Values(k[c], "out")) = vo + ro
  BY <1>1, <1>6, <1>7, RateAppend
<1>9. PICK x \in Nat, y \in Nat : x = Total(Counted(m)) /\ y = Total(Counted(k))
  BY CountedType
<1>10. PICK xi \in Nat, yi \in Nat : xi = Total(Valued(m, "in")) /\ yi = Total(Valued(k, "in"))
  BY ValuedType
<1>11. PICK xo \in Nat, yo \in Nat : xo = Total(Valued(m, "out")) /\ yo = Total(Valued(k, "out"))
  BY ValuedType
<1>12. y + l = x + (l + 1) /\ yi + vi = xi + (vi + ri) /\ yo + vo = xo + (vo + ro)
  <2>1. Total(Counted(k)) + Len(m[c]) = Total(Counted(m)) + Len(k[c])
    BY <1>6, RatesChange
  <2>2. Total(Valued(k, "in")) + Total(Values(m[c], "in")) = Total(Valued(m, "in")) + Total(Values(k[c], "in"))
    BY <1>6, RatesChange
  <2>3. Total(Valued(k, "out")) + Total(Values(m[c], "out")) = Total(Valued(m, "out")) + Total(Values(k[c], "out"))
    BY <1>6, RatesChange
  <2> QED
    BY <1>5, <1>7, <1>8, <1>9, <1>10, <1>11, <2>1, <2>2, <2>3
<1>13. PICK p \in Nat, pi \in Nat, po \in Nat :
          p = platform.conns[t] /\ pi = platform.inBw[t] /\ po = platform.outBw[t]
  BY PlatformType
<1>14. y <= p /\ yi <= pi /\ yo <= po
  <2>1. usedConns(t) = x /\ usedBw(t, "in") = xi /\ usedBw(t, "out") = xo
    BY <1>4, <1>9, <1>10, <1>11, Use
  <2>2. /\ usedConns(t) < platform.conns[t]
        /\ platform.inBw[t] - usedBw(t, "in") >= ri
        /\ platform.outBw[t] - usedBw(t, "out") >= ro
    BY Zenon DEF ConnectionFits
  <2>3. x < p
    BY <1>13, <2>1, <2>2
  <2>4. pi - xi >= ri /\ po - xo >= ro
    BY <1>13, <2>1, <2>2
  <2>5. y <= p
    BY <1>12, <2>3, RoomForOne, Zenon
  <2>6. yi <= pi
    BY <1>12, <2>4, Room, Zenon
  <2>7. yo <= po
    BY <1>12, <2>4, Room, Zenon
  <2> QED
    BY <2>5, <2>6, <2>7
<1>15. FitsRates(platform, t, ni'[t])
  BY <1>4, <1>9, <1>10, <1>11, <1>13, <1>14 DEF FitsRates
<1>16. /\ memActor' = memActor /\ memChannel' = memChannel /\ platform' = platform
       /\ FitsMemory(platform, t, memActor'[t], memChannel'[t])
  BY <1>2
<1> QED
  BY <1>3, <1>15, <1>16, TileCapacity

LEMMA StateCapacity ==
    ASSUME TypeOK, TypeOK', WithinCapacity, NEW t \in Tiles, StateFits(t),
           memActor' = [memActor EXCEPT ![t] = @ \cup {cur}], UNCHANGED <<platform, memChannel, ni>>
    PROVE  WithinCapacity'
<1>1. /\ FitsMemory(platform, t, memActor[t], memChannel[t]) /\ FitsRates(platform, t, ni[t])
      /\ platform \in Platform /\ cur \in Actors /\ platform.memory[t] \in Nat
      /\ memChannel[t] \in [Channels -> Seq(Nat)]
  BY Capacity, PlatformType, BindingAssumption DEF TypeOK
<1>2. PICK A \in SUBSET Actors : A = memActor[t]
  BY DEF TypeOK
<1>3. memActor'[t] = A \cup {cur} /\ \A u \in Tiles \ {t} : memActor'[u] = memActor[u]
  BY <1>2 DEF TypeOK
<1>4. PICK x \in Nat : x = MostOf(platform.state, A)
  BY <1>1, StateNumbers
<1>5. A \cup {cur} \in SUBSET Actors
  BY <1>1
<1>6. PICK y \in Nat : y = MostOf(platform.state, A \cup {cur})
  BY <1>1, <1>5, StateNumbers
<1>7. PICK m \in Nat : m = Total(Sized(memChannel[t]))
  BY <1>1, SizedType
<1>8. PICK s \in Nat : s = platform.state[cur]
  BY <1>1, PlatformType
<1>9. y = x \/ y = s \/ y <= x
  BY <1>1, <1>4, <1>6, <1>8, MostAdds
<1>10. x + m <= platform.memory[t]
  BY <1>1, <1>2, <1>4, <1>7 DEF FitsMemory
<1>11. x < s => platform.memory[t] - (x + m) >= s - x
  <2>1. stateMemory(t) = x /\ usedMemory(t) = x + m
    BY <1>2, <1>4, <1>7, Use
  <2> QED
    BY <1>8, <2>1 DEF StateFits, availableMemorySize
<1>12. y + m <= platform.memory[t]
  BY <1>1, <1>9, <1>10, <1>11
<1>13. FitsMemory(platform, t, memActor'[t], memChannel'[t])
  BY <1>3, <1>6, <1>7, <1>12 DEF FitsMemory
<1> QED
  BY <1>1, <1>3, <1>13, TileCapacity

LEMMA ReleaseCapacity ==
    ASSUME Core, TypeOK', WithinCapacity, pc # "exception", NEW a \in Actors, binding[a] # None,
           releaseResources(a)
    PROVE  WithinCapacity'
<1>1. TypeOK /\ Releasable /\ Loaded
  BY ClaimedReleasable DEF Core, Claimed
<1>2. Released(a)
  BY <1>1, Release
<1> QED
  BY <1>1, <1>2, ReleasedCapacity

LEMMA GiveUpCapacity ==
    ASSUME Core, TypeOK', WithinCapacity, pc \in Claiming, GiveUpTile
    PROVE  WithinCapacity'
<1>1. releaseResources(cur)
  BY DEF GiveUpTile
<1>2. cur \in Actors /\ binding[cur] # None /\ pc # "exception"
  BY DEF Core, AtPort, TypeOK, Claiming, Phases
<1> QED
  BY <1>1, <1>2, ReleaseCapacity

LEMMA ClaimPortCapacity ==
    ASSUME Core, TypeOK', WithinCapacity, ClaimPort
    PROVE  WithinCapacity'
<1>1. pc = "port" /\ pc \in Claiming
  BY DEF ClaimPort, Claiming
<1>2. PICK p \in todo :
        \/ /\ isChannelBoundToTile(p[1])
           /\ availableMemorySize(binding[cur]) >= demand.mem[p[1]]
           /\ reserveMemory(binding[cur], p[1], demand.mem[p[1]])
           /\ UNCHANGED <<platform, memActor, ni>>
        \/ GiveUpTile
        \/ UNCHANGED <<platform, memActor, memChannel, ni>>
  BY Zenon DEF ClaimPort, resources, claims
<1>3. TypeOK
  BY DEF Core
<1>4. CASE /\ isChannelBoundToTile(p[1])
           /\ availableMemorySize(binding[cur]) >= demand.mem[p[1]]
           /\ reserveMemory(binding[cur], p[1], demand.mem[p[1]])
           /\ UNCHANGED <<platform, memActor, ni>>
  <2>1. p[1] \in Channels
    <3>1. p \in Ports(cur)
      BY <1>1 DEF Core, AtPort, Pending
    <3> QED
      BY <3>1, PortsOf DEF ConnectedTo
  <2>2. binding[cur] \in Tiles /\ demand.mem[p[1]] \in Nat
    BY <1>1, <2>1 DEF Core, AtPort, TypeOK, Demand, Sizes
  <2>3. PICK t \in Tiles, c \in Channels, n \in Nat : t = binding[cur] /\ c = p[1] /\ n = demand.mem[p[1]]
    BY <2>1, <2>2
  <2> QED
    BY <1>3, <1>4, <2>3, AppendCapacity
<1>5. CASE UNCHANGED <<platform, memActor, memChannel, ni>>
  BY <1>3, <1>5, SameCapacity
<1> QED
  BY <1>1, <1>2, <1>4, <1>5, GiveUpCapacity

LEMMA ClaimConnectionCapacity ==
    ASSUME Core, TypeOK', WithinCapacity, allocateConnectionResources
    PROVE  WithinCapacity'
<1>1. pc \in Phases /\ pc \in Claiming
  BY DEF allocateConnectionResources, ClaimBuffer, ClaimInterface, Phases, Claiming
<1>2. TypeOK /\ chan \in Channels /\ isChannelBoundToConnection(chan)
  BY <1>1 DEF Core, AtPort, ConnectedTo
<1>3. /\ binding[Src[chan]] \in Tiles /\ binding[Dst[chan]] \in Tiles
      /\ demand.src[chan] \in Nat /\ demand.dst[chan] \in Nat /\ demand.bw[chan] \in Nat
  BY <1>2, Ends DEF TypeOK, Demand, Sizes, isChannelBoundToConnection
<1>4. ASSUME NEW t \in Tiles, NEW n \in Nat, availableMemorySize(t) >= n, reserveMemory(t, chan, n),
             UNCHANGED <<platform, memActor, ni>>
      PROVE  WithinCapacity'
  <2>1. PICK c \in Channels : c = chan
    BY <1>2
  <2> QED
    BY <1>2, <1>4, <2>1, AppendCapacity
<1>5. ASSUME NEW t \in Tiles, NEW ri \in Nat, NEW ro \in Nat, ConnectionFits(t, ri, ro),
             ni' = [ni EXCEPT ![t][chan] = Append(@, [in |-> ri, out |-> ro])],
             UNCHANGED <<platform, memActor, memChannel>>
      PROVE  WithinCapacity'
  <2>1. PICK c \in Channels : c = chan
    BY <1>2
  <2>2. ni' = [ni EXCEPT ![t][c] = Append(@, [in |-> ri, out |-> ro])]
    BY <1>5, <2>1
  <2> QED
    BY <1>2, <1>5, <2>2, InterfaceCapacity
<1>6. ASSUME NEW here, NEW next, NEW t \in Tiles, NEW n \in Nat, ClaimBuffer(here, next, t, n)
      PROVE  WithinCapacity'
  <2>1. \/ /\ availableMemorySize(t) >= n /\ reserveMemory(t, chan, n)
           /\ UNCHANGED <<platform, memActor, ni>>
        \/ GiveUpTile
    BY <1>6 DEF ClaimBuffer
  <2> QED
    BY <1>1, <1>4, <2>1, GiveUpCapacity
<1>7. ASSUME NEW here, NEW next, NEW t \in Tiles, NEW ri \in Nat, NEW ro \in Nat,
             ClaimInterface(here, next, t, ri, ro)
      PROVE  WithinCapacity'
  <2>1. \/ /\ ConnectionFits(t, ri, ro)
           /\ ni' = [ni EXCEPT ![t][chan] = Append(@, [in |-> ri, out |-> ro])]
           /\ UNCHANGED <<platform, memActor, memChannel>>
        \/ GiveUpTile
    BY <1>7, Zenon DEF ClaimInterface
  <2> QED
    BY <1>1, <1>5, <2>1, GiveUpCapacity
<1>8. PICK t \in Tiles, u \in Tiles, s \in Nat, d \in Nat, b \in Nat :
         /\ t = binding[Src[chan]] /\ u = binding[Dst[chan]]
         /\ s = demand.src[chan] /\ d = demand.dst[chan] /\ b = demand.bw[chan]
  BY <1>3
<1>9. \/ ClaimBuffer("srcMem", "dstMem", t, s) \/ ClaimBuffer("dstMem", "srcNI", u, d)
      \/ ClaimInterface("srcNI", "dstNI", t, 0, b) \/ ClaimInterface("dstNI", "port", u, b, 0)
  BY <1>8 DEF allocateConnectionResources
<1> QED
  BY <1>6, <1>7, <1>9

LEMMA ResizeCapacity ==
    ASSUME Core, TypeOK', WithinCapacity, updateStorageSpaceAllocation
    PROVE  WithinCapacity'
<1>1. UNCHANGED <<platform, memActor, ni>> /\ TypeOK
  BY DEF updateStorageSpaceAllocation, Core
<1>2. PICK c \in Channels, f \in {"mem", "src", "dst"}, t \in Tiles, n \in Nat :
        /\ <<c, f>> \in todo /\ todo' = todo \ {<<c, f>>}
        /\ BufferAt(c, f, t) /\ memChannel[t][c] = <<demand[f][c]>>
        /\ Resizes(c, f, n)
        /\ \/ /\ availableMemorySize(t) + demand[f][c] >= n
              /\ memChannel' = [memChannel EXCEPT ![t][c] = <<n>>] /\ pc' = pc
           \/ memChannel' = [memChannel EXCEPT ![t][c] = <<>>] /\ pc' = "exception"
  BY ResizeStep
<1>3. PICK o \in Nat : o = demand[f][c]
  BY <1>1 DEF TypeOK, Demand, Sizes
<1>4. CASE availableMemorySize(t) + demand[f][c] >= n /\ memChannel' = [memChannel EXCEPT ![t][c] = <<n>>]
  <2>1. PICK s \in Seq(Nat) : s = <<n>>
    <3>1. <<n>> \in Seq(Nat)
      OBVIOUS
    <3> QED
      BY <3>1
  <2>2. Total(s) = n /\ Total(memChannel[t][c]) = o
    BY <1>2, <1>3, <2>1, TotalList
  <2>3. n <= n
    OBVIOUS
  <2> QED
    BY <1>1, <1>3, <1>4, <2>1, <2>2, <2>3, ListCapacity
<1>5. CASE memChannel' = [memChannel EXCEPT ![t][c] = <<>>]
  <2>1. \A u \in Tiles, d \in Channels : memChannel'[u][d] \in {memChannel[u][d], <<>>}
    BY <1>1, <1>5 DEF TypeOK
  <2> QED
    BY <1>1, <2>1, LessCapacity
<1> QED
  BY <1>2, <1>4, <1>5

LEMMA StepCapacity ==
    ASSUME Core, Searching, WithinCapacity, [AllocationNext]_allVars
    PROVE  WithinCapacity'
<1>1. TypeOK /\ TypeOK'
  BY StepCore DEF Core
<1>2. CASE ReleaseNext
  <2>1. PICK a \in Bound : releaseResources(a)
    BY <1>2 DEF ReleaseNext
  <2>2. a \in Actors /\ binding[a] # None /\ pc # "exception"
    BY <1>2, <2>1 DEF Bound, ReleaseNext
  <2> QED
    BY <1>1, <2>1, <2>2, ReleaseCapacity
<1>3. CASE NextActor
  <2>1. PICK a \in remaining : IF mode = "move" THEN releaseResources(a)
                                                ELSE UNCHANGED <<platform, demand, resources>>
    BY <1>3 DEF NextActor
  <2>2. pc = "next" /\ a \in Actors
    BY <1>1, <1>3 DEF NextActor, TypeOK
  <2>3. CASE mode = "move"
    <3>1. binding[a] # None
      BY <2>2, <2>3 DEF Core, Progress, Trying, Free
    <3> QED
      BY <1>1, <2>1, <2>2, <2>3, <3>1, ReleaseCapacity
  <2>4. CASE mode # "move"
    BY <1>1, <2>1, <2>4, SameCapacity DEF resources, claims
  <2> QED
    BY <2>3, <2>4
<1>4. CASE ClaimState
  <2>1. pc = "state" /\ pc \in Claiming
    BY <1>4 DEF ClaimState, Claiming
  <2>2. binding[cur] \in Tiles
    BY <2>1 DEF Core, AtPort, TypeOK
  <2>3. PICK t \in Tiles : t = binding[cur]
    BY <2>2
  <2>4. \/ /\ StateFits(t) /\ memActor' = [memActor EXCEPT ![t] = @ \cup {cur}]
           /\ UNCHANGED <<platform, memChannel, ni>>
        \/ GiveUpTile
    BY <1>4, <2>3 DEF ClaimState
  <2> QED
    BY <1>1, <2>1, <2>4, GiveUpCapacity, StateCapacity
<1>5. CASE \/ NewAttempt \/ Undone \/ StartBinding \/ AllBound \/ bindActor \/ BindingFails
           \/ Allocated \/ Optimized \/ SearchStep \/ SearchEnds
  <2>1. UNCHANGED <<platform, memActor, memChannel, ni>>
    BY <1>5 DEF NewAttempt, Undone, StartBinding, AllBound, bindActor, BindingFails, Allocated,
                Optimized, SearchStep, SearchEnds, resources, claims
  <2> QED
    BY <1>1, <2>1, SameCapacity
<1>6. CASE UNCHANGED allVars
  BY <1>1, <1>6, SameCapacity DEF allVars, vars, resources, claims
<1> QED
  BY <1>1, <1>2, <1>3, <1>4, <1>5, <1>6, ClaimPortCapacity, ClaimConnectionCapacity, ResizeCapacity
     DEF AllocationNext, AllocationAttempt, BindingStep, Attempt

LEMMA InitCapacity ==
    ASSUME AllocationInit
    PROVE  WithinCapacity
<1>1. /\ memActor = [t \in Tiles |-> {}]
      /\ memChannel = [t \in Tiles |-> [c \in Channels |-> <<>>]]
      /\ ni = [t \in Tiles |-> [c \in Channels |-> <<>>]]
  BY DEF AllocationInit, Init
<1>2. TypeOK
  BY InitCore DEF Core
<1> SUFFICES ASSUME NEW t \in Tiles
             PROVE  /\ FitsMemory(platform, t, memActor[t], memChannel[t])
                    /\ FitsRates(platform, t, ni[t])
  BY <1>2, Capacity
<1>3. PICK m \in [Channels -> Seq(Nat)] : m = memChannel[t] /\ \A c \in Channels : m[c] = <<>>
  BY <1>1, <1>2 DEF TypeOK
<1>4. PICK n \in [Channels -> Seq(Rates)] : n = ni[t] /\ \A c \in Channels : n[c] = <<>>
  BY <1>1, <1>2 DEF TypeOK, Rates
<1>5. Total(Sized(m)) = 0
  <2>1. Sized(m) \in [Channels -> Nat] /\ \A c \in Channels : Sized(m)[c] = 0
    BY <1>3, SizedType, TotalEmpty DEF Sized
  <2> QED
    BY <2>1, TotalZero, BindingAssumption
<1>6. Total(Counted(n)) = 0
  <2>1. Counted(n) \in [Channels -> Nat] /\ \A c \in Channels : Counted(n)[c] = 0
    BY <1>4, CountedType DEF Counted
  <2> QED
    BY <2>1, TotalZero, BindingAssumption
<1>7. ASSUME NEW f \in {"in", "out"} PROVE Total(Valued(n, f)) = 0
  <2>1. Valued(n, f) \in [Channels -> Nat] /\ \A c \in Channels : Valued(n, f)[c] = 0
    BY <1>4, ValuedType, RateList DEF Valued
  <2> QED
    BY <2>1, TotalZero, BindingAssumption
<1>8. MostOf(platform.state, memActor[t]) = 0
  <2>1. memActor[t] = {} /\ platform \in Platform
    BY <1>1, <1>2, BindingAssumption DEF TypeOK
  <2>2. \/ MostOf(platform.state, {}) = 0
        \/ \E a \in {} : MostOf(platform.state, {}) = platform.state[a]
    BY <2>1, StateNumbers
  <2> QED
    BY <2>1, <2>2
<1>9. /\ platform.memory[t] \in Nat /\ platform.conns[t] \in Nat /\ platform.inBw[t] \in Nat
      /\ platform.outBw[t] \in Nat
  BY <1>2, PlatformType
<1>10. FitsMemory(platform, t, memActor[t], memChannel[t])
  BY <1>3, <1>5, <1>8, <1>9 DEF FitsMemory
<1>11. FitsRates(platform, t, ni[t])
  BY <1>4, <1>6, <1>7, <1>9 DEF FitsRates
<1> QED
  BY <1>10, <1>11

-----------------------------------------------------------------------------
(* Slices on the tiles in use, when they have been found.                  *)
Sliced ==
    /\ pc \in Trying => \A t \in Tiles : slice[t] = 0
    /\ pc \in {"idle", "sliced"} => \A t \in Tiles : slice[t] # 0 <=> On(t) # {}
    /\ pc \in {"release", "undo"} => \A t \in Tiles : slice[t] # 0 => On(t) # {}

LEMMA ReleasedSliced ==
    ASSUME NEW a \in Actors, Released(a), TypeOK, binding[a] # None
    PROVE  /\ \A t \in Tiles : slice[t] = 0 => slice'[t] = 0
           /\ \A t \in Tiles : (slice[t] # 0 => On(t) # {}) => (slice'[t] # 0 => On(t)' # {})
<1>1. /\ \A t \in Tiles : slice'[t] = IF t = binding[a] THEN 0 ELSE slice[t]
      /\ \A t \in Tiles : On(t)' = On(t) \ {a}
  BY DEF Released, ReleasedActor, ReleasedLoads
<1>2. \A t \in Tiles \ {binding[a]} : On(t)' = On(t)
  BY <1>1 DEF On
<1> QED
  BY <1>1, <1>2

(* Where the slices stay and the actors stay on their tiles.               *)
LEMMA KeptSliced ==
    ASSUME Sliced, UNCHANGED <<binding, slice>>,
           \/ pc' \in Trying /\ pc \in Trying
           \/ pc' \in {"idle", "sliced"} /\ pc \in {"idle", "sliced"}
           \/ pc' \in {"release", "undo"} /\ pc \in {"release", "undo", "idle"} \cup Trying
           \/ pc' \in {"bound", "exception"}
    PROVE  Sliced'
<1>1. \A t \in Tiles : On(t)' = On(t) /\ slice'[t] = slice[t]
  BY DEF On
<1>2. \A x \in Trying : x \notin {"idle", "sliced", "release", "undo", "bound", "exception"}
  BY DEF Trying, Claiming, Phases
<1>3. CASE pc' \in Trying
  BY <1>1, <1>2, <1>3 DEF Sliced
<1>4. CASE pc' \in {"idle", "sliced"}
  BY <1>1, <1>2, <1>4 DEF Sliced
<1>5. CASE pc' \in {"release", "undo"}
  BY <1>1, <1>2, <1>5 DEF Sliced
<1>6. CASE pc' \in {"bound", "exception"}
  BY <1>2, <1>6 DEF Sliced
<1> QED
  BY <1>3, <1>4, <1>5, <1>6

LEMMA GiveUpSliced ==
    ASSUME Core, Sliced, pc \in Claiming, GiveUpTile
    PROVE  Sliced'
<1>1. releaseResources(cur) /\ pc' = "tile"
  BY DEF GiveUpTile
<1>2. cur \in Actors /\ binding[cur] # None /\ pc # "exception" /\ TypeOK /\ Loaded
  BY DEF Core, AtPort, TypeOK, Claiming, Phases
<1>3. Released(cur)
  BY <1>1, <1>2, ClaimedReleasable, Release DEF Core
<1>4. pc \in Trying
  BY DEF Trying
<1>5. \A t \in Tiles : slice'[t] = 0
  BY <1>2, <1>3, <1>4, ReleasedSliced DEF Sliced
<1> QED
  BY <1>1, <1>5 DEF Sliced, Trying, Claiming, Phases

LEMMA StepSliced ==
    ASSUME Core, Searching, Sliced, [AllocationNext]_allVars
    PROVE  Sliced'
<1>1. TypeOK /\ Loaded
  BY DEF Core
<1>2. CASE ReleaseNext
  <2>1. PICK a \in Bound : releaseResources(a)
    BY <1>2 DEF ReleaseNext
  <2>2. a \in Actors /\ binding[a] # None /\ pc \in {"release", "undo"} /\ pc' = pc
    BY <1>2, <2>1 DEF Bound, ReleaseNext, control
  <2>3. Released(a)
    BY <1>1, <2>1, <2>2, ClaimedReleasable, Release DEF Core
  <2>4. \A t \in Tiles : slice'[t] # 0 => On(t)' # {}
    BY <1>1, <2>2, <2>3, ReleasedSliced DEF Sliced
  <2> QED
    BY <2>2, <2>4 DEF Sliced, Trying, Claiming, Phases
<1>3. CASE NextActor
  <2>1. PICK a \in remaining : IF mode = "move" THEN releaseResources(a)
                                                ELSE UNCHANGED <<platform, demand, resources>>
    BY <1>3 DEF NextActor
  <2>2. pc = "next" /\ pc' = "tile" /\ a \in Actors
    BY <1>1, <1>3 DEF NextActor, TypeOK
  <2>3. pc \in Trying /\ pc' \in Trying
    BY <2>2 DEF Trying
  <2>4. CASE mode = "move"
    <3>1. binding[a] # None
      BY <2>2, <2>3, <2>4 DEF Core, Progress, Free
    <3>2. Released(a)
      BY <1>1, <2>1, <2>2, <2>4, <3>1, ClaimedReleasable, Release DEF Core
    <3>3. \A t \in Tiles : slice'[t] = 0
      BY <1>1, <2>2, <2>3, <3>1, <3>2, ReleasedSliced DEF Sliced
    <3> QED
      BY <2>2, <3>3 DEF Sliced
  <2>5. CASE mode # "move"
    BY <2>1, <2>3, <2>5, KeptSliced DEF resources
  <2> QED
    BY <2>4, <2>5
<1>4. CASE Undone \/ StartBinding
  <2>1. /\ UNCHANGED <<binding, slice>> /\ pc \in {"release", "undo"} /\ Bound = {}
        /\ pc' \in {"idle", "next"}
    BY <1>4 DEF Undone, StartBinding, resources
  <2>2. \A t \in Tiles : On(t) = {} /\ On(t)' = {}
    BY <2>1, Ends DEF On, Bound
  <2>3. \A t \in Tiles : slice'[t] = 0
    BY <1>1, <2>1, <2>2 DEF Sliced
  <2> QED
    BY <2>1, <2>2, <2>3 DEF Sliced
<1>5. CASE bindActor
  <2>1. pc = "tile" /\ pc' \in {"tile", "state"} /\ slice' = slice
    BY <1>5 DEF bindActor
  <2>2. pc \in Trying
    BY <2>1 DEF Trying
  <2>3. \A t \in Tiles : slice'[t] = 0
    BY <2>1, <2>2 DEF Sliced
  <2> QED
    BY <2>1, <2>3 DEF Sliced
<1>6. CASE \/ NewAttempt \/ AllBound \/ BindingFails \/ Allocated \/ updateStorageSpaceAllocation
           \/ Optimized
  <2>1. /\ UNCHANGED <<binding, slice>>
        /\ \/ pc = "next" /\ pc' \in {"next", "bound"}
           \/ pc = "port" /\ pc' = "next"
           \/ pc = "idle" /\ pc' = "release"
           \/ pc = "tile" /\ pc' = "undo"
           \/ pc = "sliced" /\ pc' \in {"sliced", "exception", "idle"}
    BY <1>6 DEF NewAttempt, AllBound, BindingFails, Allocated, updateStorageSpaceAllocation,
                Optimized, resources
  <2> QED
    BY <2>1, KeptSliced DEF Trying, Claiming, Phases
<1>7. CASE ClaimState \/ ClaimPort \/ allocateConnectionResources
  <2>1. /\ pc \in Claiming
        /\ GiveUpTile \/ (UNCHANGED <<binding, slice>> /\ pc' \in Claiming)
    BY <1>7 DEF ClaimState, ClaimPort, allocateConnectionResources, ClaimBuffer, ClaimInterface,
                Claiming, Phases, resources
  <2> QED
    BY <2>1, GiveUpSliced, KeptSliced DEF Trying
<1>8. CASE SearchStep
  BY <1>8 DEF SearchStep, control, Sliced, Trying, Claiming, Phases
<1>9. CASE SearchEnds
  <2>1. /\ pc = "bound" /\ pc' \in {"sliced", "undo"} /\ slice' = slice /\ binding' = binding
        /\ stage \in {"met", "failed"}
    BY <1>9 DEF SearchEnds, resources
  <2>2. Proper(slice)
    BY <2>1 DEF Searching, Minimized
  <2>3. \A t \in Tiles : slice[t] # 0 <=> On(t) # {}
    <3> SUFFICES ASSUME NEW t \in Tiles PROVE slice[t] # 0 <=> On(t) # {}
      OBVIOUS
    <3>1. IF tileLoad[t] # 0 THEN slice[t] \in 1 .. platform.wheel[t] ELSE slice[t] = 0
      BY <2>2 DEF Proper
    <3>2. slice[t] # 0 <=> tileLoad[t] # 0
      BY <1>1, <3>1, PlatformType
    <3> QED
      BY <3>2, LoadedTiles
  <2>4. \A t \in Tiles : On(t)' = On(t)
    BY <2>1 DEF On
  <2> QED
    BY <2>1, <2>3, <2>4 DEF Sliced, Trying, Claiming, Phases
<1>10. CASE UNCHANGED allVars
  BY <1>10 DEF allVars, vars, resources, control, Sliced, On
<1> QED
  BY <1>2, <1>3, <1>4, <1>5, <1>6, <1>7, <1>8, <1>9, <1>10
     DEF AllocationNext, AllocationAttempt, BindingStep, Attempt

-----------------------------------------------------------------------------
(* A move finds a tile: the one that the actor comes from has room for it, *)
(* until it has taken it back.                                             *)
BoundBuffer(b, t, c) ==
    IF b[Src[c]] = None \/ b[Dst[c]] = None THEN <<>>
    ELSE IF b[Src[c]] = b[Dst[c]]
         THEN IF t = b[Src[c]] THEN Copies(c, demand.mem[c]) ELSE <<>>
    ELSE IF t = b[Src[c]] THEN <<demand.src[c]>>
    ELSE IF t = b[Dst[c]] THEN <<demand.dst[c]>>
    ELSE <<>>

BoundInterface(b, t, c) ==
    IF b[Src[c]] = None \/ b[Dst[c]] = None \/ b[Src[c]] = b[Dst[c]] THEN <<>>
    ELSE IF t = b[Src[c]] THEN <<[in |-> 0, out |-> demand.bw[c]]>>
    ELSE IF t = b[Dst[c]] THEN <<[in |-> demand.bw[c], out |-> 0]>>
    ELSE <<>>

(* All that the actors and channels of binding b claim                     *)
Fits(b) ==
    \A t \in Tiles :
        /\ FitsMemory(platform, t, {a \in Actors : b[a] = t}, [c \in Channels |-> BoundBuffer(b, t, c)])
        /\ FitsRates(platform, t, [c \in Channels |-> BoundInterface(b, t, c)])

Home(h) ==
    /\ h \in Tiles /\ <<cur, h>> \in platform.runs /\ platform.wheel[h] > 0
    /\ Fits([binding EXCEPT ![cur] = h])

HasHome ==
    mode = "move" /\ pc \in {"tile"} \cup Claiming =>
        \E h \in Tiles : Home(h) /\ (h \in untried \/ (pc # "tile" /\ binding[cur] = h))

LEMMA ClaimsAreBound ==
    ASSUME NEW t, NEW c \in Channels
    PROVE  BufferClaims(t, c) = BoundBuffer(binding, t, c) /\ InterfaceClaims(t, c) = BoundInterface(binding, t, c)
BY DEF BufferClaims, InterfaceClaims, BoundBuffer, BoundInterface, isChannelBoundToTile,
       isChannelBoundToConnection

LEMMA FitsBound ==
    ASSUME TypeOK
    PROVE  Fits(binding) <=>
             \A t \in Tiles : /\ FitsMemory(platform, t, On(t), [c \in Channels |-> BufferClaims(t, c)])
                              /\ FitsRates(platform, t, [c \in Channels |-> InterfaceClaims(t, c)])
<1>1. ASSUME NEW t \in Tiles
      PROVE  /\ [c \in Channels |-> BufferClaims(t, c)] = [c \in Channels |-> BoundBuffer(binding, t, c)]
             /\ [c \in Channels |-> InterfaceClaims(t, c)] = [c \in Channels |-> BoundInterface(binding, t, c)]
  BY ClaimsAreBound
<1> QED
  BY <1>1 DEF Fits, On

(* When an attempt is between two actors what is claimed is all there is   *)
(* to claim.                                                               *)
LEMMA SettledFits ==
    ASSUME Core, WithinCapacity, pc = "next"
    PROVE  Fits(binding)
<1>1. TypeOK /\ Exact /\ pc \notin Claiming
  BY DEF Core, Claimed, Claiming, Phases
<1>2. ASSUME NEW t \in Tiles
      PROVE  /\ FitsMemory(platform, t, On(t), [c \in Channels |-> BufferClaims(t, c)])
             /\ FitsRates(platform, t, [c \in Channels |-> InterfaceClaims(t, c)])
  <2>1. \A c \in Channels : memChannel[t][c] = BufferClaims(t, c) /\ ni[t][c] = InterfaceClaims(t, c)
    BY <1>1, QuietOutside, Calm DEF Exact, ExactLists, Quiet
  <2>2. PICK m \in [Channels -> Seq(Nat)], n \in [Channels -> Seq(Rates)] : m = memChannel[t] /\ n = ni[t]
    BY <1>1 DEF TypeOK, Rates
  <2>3. m = [c \in Channels |-> BufferClaims(t, c)]
    BY <2>1, <2>2
  <2>4. n = [c \in Channels |-> InterfaceClaims(t, c)]
    BY <2>1, <2>2
  <2>5. memActor[t] = On(t)
    BY <1>1 DEF Exact, ExactActors
  <2>6. FitsMemory(platform, t, memActor[t], memChannel[t]) /\ FitsRates(platform, t, ni[t])
    BY <1>1, Capacity
  <2> QED
    BY <2>2, <2>3, <2>4, <2>5, <2>6
<1> QED
  BY <1>1, <1>2, FitsBound

(* Of what fits, a part fits with room for the rest.                       *)
LEMMA Remains ==
    ASSUME NEW x \in Nat, NEW n \in Nat, NEW h \in Nat, NEW p \in Nat, x + n <= h, h <= p
    PROVE  p - x >= n
OBVIOUS

LEMMA RoomLeft ==
    ASSUME NEW f \in [Channels -> Nat], NEW h \in [Channels -> Nat], NEW c \in Channels, NEW n \in Nat,
           \A d \in Channels : f[d] <= h[d], f[c] + n <= h[c]
    PROVE  Total(f) + n <= Total(h)
<1>1. PICK g : g = [f EXCEPT ![c] = f[c] + n]
  OBVIOUS
<1>2. /\ g \in [Channels -> Nat] /\ g[c] = f[c] + n /\ \A d \in Channels \ {c} : g[d] = f[d]
  BY <1>1
<1>3. Total(g) <= Total(h)
  <2>1. \A d \in Channels : g[d] <= h[d]
    BY <1>2
  <2> QED
    BY <1>2, <2>1, TotalMonotone, BindingAssumption
<1>4. Total(g) + f[c] = Total(f) + g[c]
  BY <1>2, ChannelsChange
<1>5. PICK x \in Nat, y \in Nat, z \in Nat, v \in Nat :
         x = Total(f) /\ y = Total(g) /\ z = Total(h) /\ v = f[c]
  BY <1>2, TotalType, BindingAssumption
<1>6. y <= z /\ y + v = x + (v + n)
  BY <1>2, <1>3, <1>4, <1>5
<1>7. x + n <= z
  BY <1>6
<1> QED
  BY <1>5, <1>7

(* On the way the claims of a channel are a part of all it claims.         *)
LEMMA PartOfClaims ==
    ASSUME NEW t \in Tiles, NEW c \in Channels
    PROVE  /\ \/ BufferNow(t, c) = <<>>
              \/ BufferNow(t, c) = BufferClaims(t, c)
              \/ /\ BufferNow(t, c) = <<demand.mem[c]>>
                 /\ BufferClaims(t, c) = <<demand.mem[c], demand.mem[c]>>
           /\ InterfaceNow(t, c) = <<>> \/ InterfaceNow(t, c) = InterfaceClaims(t, c)
<1>1. \/ BufferNow(t, c) = <<>>
      \/ BufferNow(t, c) = BufferClaims(t, c)
      \/ /\ BufferNow(t, c) = <<demand.mem[c]>>
         /\ BufferClaims(t, c) = <<demand.mem[c], demand.mem[c]>>
  <2>1. CASE Waits(c)
    BY <2>1 DEF BufferNow
  <2>2. CASE ~Waits(c) /\ isChannelBoundToTile(c) /\ t = binding[Src[c]]
    <3>1. BufferNow(t, c) = LocalNow(c) /\ BufferClaims(t, c) = Copies(c, demand.mem[c])
      BY <2>2 DEF BufferNow, BufferClaims
    <3>2. \/ LocalNow(c) = Copies(c, demand.mem[c])
          \/ LocalNow(c) = <<demand.mem[c]>> /\ Src[c] = Dst[c]
      BY DEF LocalNow, Half
    <3> QED
      BY <3>1, <3>2 DEF Copies
  <2>3. CASE ~Waits(c) /\ ~(isChannelBoundToTile(c) /\ t = binding[Src[c]])
    <3>1. SourceNow(c) \in {<<>>, <<demand.src[c]>>} /\ TargetNow(c) \in {<<>>, <<demand.dst[c]>>}
      BY DEF SourceNow, TargetNow
    <3> QED
      BY <2>3, <3>1 DEF BufferNow, BufferClaims
  <2> QED
    BY <2>1, <2>2, <2>3
<1>2. InterfaceNow(t, c) = <<>> \/ InterfaceNow(t, c) = InterfaceClaims(t, c)
  <2>1. /\ SendNow(c) = <<>> \/ SendNow(c) = <<[in |-> 0, out |-> demand.bw[c]]>>
        /\ ReceiveNow(c) = <<>> \/ ReceiveNow(c) = <<[in |-> demand.bw[c], out |-> 0]>>
    BY Zenon DEF SendNow, ReceiveNow
  <2> QED
    BY <2>1 DEF InterfaceNow, InterfaceClaims
<1> QED
  BY <1>1, <1>2

LEMMA ClaimsType ==
    ASSUME TypeOK, NEW t \in Tiles, NEW c \in Channels
    PROVE  BufferClaims(t, c) \in Seq(Nat) /\ InterfaceClaims(t, c) \in Seq(Rates)
<1>1. demand.mem[c] \in Nat /\ demand.src[c] \in Nat /\ demand.dst[c] \in Nat /\ demand.bw[c] \in Nat
  BY DEF TypeOK, Demand, Sizes
<1>2. \A v \in Nat : <<v>> \in Seq(Nat) /\ <<v, v>> \in Seq(Nat)
  OBVIOUS
<1>3. <<>> \in Seq(Nat) /\ <<>> \in Seq(Rates)
  OBVIOUS
<1>4. BufferClaims(t, c) \in Seq(Nat)
  BY <1>1, <1>2, <1>3 DEF BufferClaims, Copies
<1>5. [in |-> 0, out |-> demand.bw[c]] \in Rates /\ [in |-> demand.bw[c], out |-> 0] \in Rates
  BY <1>1 DEF Rates
<1>6. \A r \in Rates : <<r>> \in Seq(Rates)
  OBVIOUS
<1>7. InterfaceClaims(t, c) \in Seq(Rates)
  BY <1>3, <1>5, <1>6 DEF InterfaceClaims
<1> QED
  BY <1>4, <1>7

LEMMA NowWithinClaims ==
    ASSUME TypeOK, NEW t \in Tiles, NEW c \in Channels
    PROVE  /\ Total(BufferNow(t, c)) <= Total(BufferClaims(t, c))
           /\ Len(InterfaceNow(t, c)) <= Len(InterfaceClaims(t, c))
           /\ \A f \in {"in", "out"} :
                 Total(Values(InterfaceNow(t, c), f)) <= Total(Values(InterfaceClaims(t, c), f))
<1>1. PICK s \in Seq(Nat), r \in Seq(Rates) : s = BufferClaims(t, c) /\ r = InterfaceClaims(t, c)
  BY ClaimsType
<1>2. Total(BufferNow(t, c)) <= Total(s)
  <2>1. PICK v \in Nat : v = Total(s)
    BY ListTotal
  <2>2. PICK n \in Nat : n = demand.mem[c]
    BY DEF TypeOK, Demand, Sizes
  <2>3. Total(<<>>) = 0 /\ Total(<<n>>) = n /\ Total(<<n, n>>) = n + n
    BY TotalEmpty, TotalList
  <2>4. Total(BufferNow(t, c)) = 0 \/ Total(BufferNow(t, c)) = v \/ (Total(BufferNow(t, c)) = n /\ v = n + n)
    BY <1>1, <2>1, <2>2, <2>3, PartOfClaims
  <2> QED
    BY <2>1, <2>4
<1>3. Len(InterfaceNow(t, c)) <= Len(r)
  <2>1. Len(<<>>) = 0 /\ Len(r) \in Nat
    OBVIOUS
  <2> QED
    BY <1>1, <2>1, PartOfClaims
<1>4. ASSUME NEW f \in {"in", "out"} PROVE Total(Values(InterfaceNow(t, c), f)) <= Total(Values(r, f))
  <2>1. Total(Values(<<>>, f)) = 0 /\ Total(Values(r, f)) \in Nat
    BY RateList, RateTotal
  <2>2. PICK v \in Nat : v = Total(Values(r, f))
    BY <2>1
  <2>3. Total(Values(InterfaceNow(t, c), f)) = 0 \/ Total(Values(InterfaceNow(t, c), f)) = v
    BY <1>1, <2>1, <2>2, PartOfClaims
  <2> QED
    BY <2>2, <2>3
<1> QED
  BY <1>1, <1>2, <1>3, <1>4

(* The rest of the claims of a binding that fits finds room.               *)
LEMMA BufferRoom ==
    ASSUME TypeOK, Exact, Fits(binding), pc # "state", NEW t \in Tiles, NEW c \in Channels, NEW n \in Nat,
           Total(BufferNow(t, c)) + n <= Total(BufferClaims(t, c))
    PROVE  availableMemorySize(t) >= n
<1>1. PICK m \in [Channels -> Seq(Nat)] : m = memChannel[t]
  BY DEF TypeOK
<1>2. PICK k \in [Channels -> Seq(Nat)] : k = [d \in Channels |-> BufferClaims(t, d)]
  BY ClaimsType
<1>3. \A d \in Channels : m[d] = BufferNow(t, d) /\ k[d] = BufferClaims(t, d)
  BY <1>1, <1>2 DEF Exact, ExactLists
<1>4. Total(Sized(m)) + n <= Total(Sized(k))
  <2>1. Sized(m) \in [Channels -> Nat] /\ Sized(k) \in [Channels -> Nat]
    BY SizedType
  <2>2. \A d \in Channels : Sized(m)[d] <= Sized(k)[d]
    BY <1>3, NowWithinClaims DEF Sized
  <2>3. Sized(m)[c] + n <= Sized(k)[c]
    BY <1>3 DEF Sized
  <2> QED
    BY <2>1, <2>2, <2>3, RoomLeft
<1>5. PICK x \in Nat, y \in Nat, z \in Nat, p \in Nat :
         /\ x = MostOf(platform.state, On(t)) /\ y = Total(Sized(m)) /\ z = Total(Sized(k))
         /\ p = platform.memory[t]
  <2>1. MostOf(platform.state, On(t)) \in Nat
    BY StateNumbers, BindingAssumption DEF On, TypeOK
  <2> QED
    BY <2>1, SizedType, PlatformType
<1>6. x + z <= p
  BY <1>2, <1>5, FitsBound DEF FitsMemory
<1>7. availableMemorySize(t) = p - (x + y)
  <2>1. memActor[t] = On(t)
    BY DEF Exact, ExactActors
  <2>2. stateMemory(t) = x /\ usedMemory(t) = x + y
    BY <1>1, <1>5, <2>1, Use
  <2> QED
    BY <1>5, <2>2 DEF availableMemorySize
<1>8. y + n <= z
  BY <1>4, <1>5
<1> QED
  BY <1>6, <1>7, <1>8

LEMMA StateRoom ==
    ASSUME TypeOK, Exact, Fits(binding), pc = "state", NEW t \in Tiles, binding[cur] = t
    PROVE  StateFits(t)
<1>1. PICK m \in [Channels -> Seq(Nat)] : m = memChannel[t]
  BY DEF TypeOK
<1>2. PICK k \in [Channels -> Seq(Nat)] : k = [d \in Channels |-> BufferClaims(t, d)]
  BY ClaimsType
<1>3. \A d \in Channels : m[d] = BufferNow(t, d) /\ k[d] = BufferClaims(t, d)
  BY <1>1, <1>2 DEF Exact, ExactLists
<1>4. Total(Sized(m)) <= Total(Sized(k))
  <2>1. Sized(m) \in [Channels -> Nat] /\ Sized(k) \in [Channels -> Nat]
    BY SizedType
  <2>2. \A d \in Channels : Sized(m)[d] <= Sized(k)[d]
    BY <1>3, NowWithinClaims DEF Sized
  <2> QED
    BY <2>1, <2>2, TotalMonotone, BindingAssumption
<1>5. platform \in Platform /\ On(t) \in SUBSET Actors /\ cur \in On(t)
  BY BindingAssumption DEF On, TypeOK
<1>6. PICK x \in Nat, y \in Nat, z \in Nat, p \in Nat, s \in Nat :
         /\ x = MostOf(platform.state, On(t)) /\ y = Total(Sized(m)) /\ z = Total(Sized(k))
         /\ p = platform.memory[t] /\ s = platform.state[cur]
  <2>1. MostOf(platform.state, On(t)) \in Nat /\ platform.state[cur] \in Nat
    BY <1>5, StateNumbers, PlatformType
  <2> QED
    BY <2>1, SizedType, PlatformType
<1>7. x + z <= p /\ s <= x
  <2>1. x + z <= p
    BY <1>2, <1>6, FitsBound DEF FitsMemory
  <2>2. s <= x
    BY <1>5, <1>6, StateNumbers
  <2> QED
    BY <2>1, <2>2
<1>8. PICK w \in Nat : w = stateMemory(t)
  BY Use
<1>9. availableMemorySize(t) = p - (w + y)
  BY <1>1, <1>6, <1>8, Use DEF availableMemorySize
<1>10. p - (w + y) >= s - w
  BY <1>4, <1>6, <1>7
<1> QED
  BY <1>6, <1>8, <1>9, <1>10 DEF StateFits

LEMMA InterfaceRoom ==
    ASSUME TypeOK, Exact, Fits(binding), NEW t \in Tiles, NEW c \in Channels, NEW r \in Rates,
           InterfaceNow(t, c) = <<>>, InterfaceClaims(t, c) = <<r>>
    PROVE  ConnectionFits(t, r.in, r.out)
<1>1. PICK m \in [Channels -> Seq(Rates)] : m = ni[t]
  BY DEF TypeOK, Rates
<1>2. PICK k \in [Channels -> Seq(Rates)] : k = [d \in Channels |-> InterfaceClaims(t, d)]
  BY ClaimsType
<1>3. \A d \in Channels : m[d] = InterfaceNow(t, d) /\ k[d] = InterfaceClaims(t, d)
  BY <1>1, <1>2 DEF Exact, ExactLists
<1>4. r.in \in Nat /\ r.out \in Nat
  BY DEF Rates
<1>5. Total(Counted(m)) + 1 <= Total(Counted(k))
  <2>1. \A d \in Channels : Counted(m)[d] <= Counted(k)[d]
    BY <1>3, NowWithinClaims DEF Counted
  <2>2. Counted(m)[c] + 1 <= Counted(k)[c]
    <3>1. Len(<<>>) = 0 /\ Len(<<r>>) = 1
      OBVIOUS
    <3>2. Counted(m)[c] = 0 /\ Counted(k)[c] = 1
      BY <1>3, <3>1 DEF Counted
    <3> QED
      BY <3>2
  <2> QED
    BY <2>1, <2>2, CountedType, RoomLeft
<1>6. Total(Valued(m, "in")) + r.in <= Total(Valued(k, "in"))
  <2>1. \A d \in Channels : Valued(m, "in")[d] <= Valued(k, "in")[d]
    BY <1>3, NowWithinClaims DEF Valued
  <2>2. Valued(m, "in")[c] = 0 /\ Valued(k, "in")[c] = r.in
    BY <1>3, RateList DEF Valued
  <2>3. Valued(m, "in")[c] + r.in <= Valued(k, "in")[c]
    BY <1>4, <2>2
  <2> QED
    BY <1>4, <2>1, <2>3, ValuedType, RoomLeft
<1>7. Total(Valued(m, "out")) + r.out <= Total(Valued(k, "out"))
  <2>1. \A d \in Channels : Valued(m, "out")[d] <= Valued(k, "out")[d]
    BY <1>3, NowWithinClaims DEF Valued
  <2>2. Valued(m, "out")[c] = 0 /\ Valued(k, "out")[c] = r.out
    BY <1>3, RateList DEF Valued
  <2>3. Valued(m, "out")[c] + r.out <= Valued(k, "out")[c]
    BY <1>4, <2>2
  <2> QED
    BY <1>4, <2>1, <2>3, ValuedType, RoomLeft
<1>8. FitsRates(platform, t, k)
  BY <1>2, FitsBound
<1>9. /\ Total(Counted(m)) \in Nat /\ Total(Valued(m, "in")) \in Nat /\ Total(Valued(m, "out")) \in Nat
      /\ Total(Counted(k)) \in Nat /\ Total(Valued(k, "in")) \in Nat /\ Total(Valued(k, "out")) \in Nat
      /\ platform.conns[t] \in Nat /\ platform.inBw[t] \in Nat /\ platform.outBw[t] \in Nat
  BY CountedType, ValuedType, PlatformType
<1>13. /\ Total(Counted(k)) <= platform.conns[t]
       /\ Total(Valued(k, "in")) <= platform.inBw[t]
       /\ Total(Valued(k, "out")) <= platform.outBw[t]
  BY <1>8, Zenon DEF FitsRates
<1>10. Total(Counted(m)) < platform.conns[t]
  BY <1>5, <1>9, <1>13
<1>11. platform.inBw[t] - Total(Valued(m, "in")) >= r.in
  BY <1>4, <1>6, <1>9, <1>13, Remains, Zenon
<1>12. platform.outBw[t] - Total(Valued(m, "out")) >= r.out
  BY <1>4, <1>7, <1>9, <1>13, Remains, Zenon
<1> QED
  BY <1>1, <1>10, <1>11, <1>12, Use DEF ConnectionFits

LEMMA ClaimStateHome ==
    ASSUME Core, Fits(binding), ClaimState
    PROVE  pc' \in Claiming /\ UNCHANGED <<platform, demand, binding>>
<1>1. TypeOK /\ Exact /\ pc = "state"
  BY DEF Core, Claimed, ClaimState
<1>2. PICK t \in Tiles : t = binding[cur]
  BY <1>1 DEF Core, AtPort, TypeOK, Claiming
<1>3. StateFits(t)
  BY <1>1, <1>2, StateRoom
<1> QED
  BY <1>2, <1>3 DEF ClaimState, Claiming

LEMMA ClaimPortHome ==
    ASSUME Core, Fits(binding), ClaimPort
    PROVE  pc' \in Claiming /\ UNCHANGED <<platform, demand, binding>>
<1>1. TypeOK /\ Exact /\ pc = "port" /\ pc \in Claiming
  BY DEF Core, Claimed, ClaimPort, Claiming
<1>2. PICK p \in todo :
        \/ UNCHANGED <<platform, demand, binding>> /\ pc' \in {"port", "srcMem"}
        \/ /\ isChannelBoundToTile(p[1])
           /\ ~(availableMemorySize(binding[cur]) >= demand.mem[p[1]])
  <2>1. \E p \in todo :
        \/ UNCHANGED <<platform, demand, binding>> /\ pc' \in {"port", "srcMem"}
        \/ /\ isChannelBoundToTile(p[1])
           /\ availableMemorySize(binding[cur]) < demand.mem[p[1]]
    BY <1>1, Zenon DEF ClaimPort, resources
  <2>2. ASSUME NEW p \in todo, isChannelBoundToTile(p[1])
        PROVE  availableMemorySize(binding[cur]) \in Int /\ demand.mem[p[1]] \in Nat
    <3>1. p[1] \in Channels
      BY <1>1, <2>2, PortsOf DEF Core, AtPort, Pending, ConnectedTo
    <3>2. binding[cur] \in Tiles /\ demand.mem[p[1]] \in Nat
      BY <1>1, <3>1 DEF Core, AtPort, TypeOK, Demand, Sizes
    <3>3. platform.memory[binding[cur]] \in Nat /\ usedMemory(binding[cur]) \in Nat
      BY <1>1, <3>2, PlatformType, Use
    <3> QED
      BY <3>2, <3>3 DEF availableMemorySize
  <2> QED
    BY <2>1, <2>2
<1>3. ASSUME isChannelBoundToTile(p[1])
      PROVE  availableMemorySize(binding[cur]) >= demand.mem[p[1]]
  <2>1. p \in Ports(cur) /\ p \in Pending
    BY <1>1 DEF Core, AtPort, Pending
  <2>2. PICK c \in ConnectedTo(cur), w \in {"out", "in"} : p = <<c, w>>
    BY <2>1, PortsOf
  <2>3. c \in Channels /\ c = p[1] /\ (Out(c) \/ In(c))
    BY <2>1, <2>2 DEF ConnectedTo, Out, In
  <2>4. PICK t \in Tiles : t = binding[cur] /\ t = binding[Src[c]] /\ t = binding[Dst[c]]
    <3>1. binding[cur] \in Tiles
      BY <1>1 DEF Core, AtPort, TypeOK
    <3>2. binding[Src[c]] = binding[Dst[c]] /\ cur \in {Src[c], Dst[c]}
      BY <1>3, <2>2, <2>3 DEF isChannelBoundToTile, ConnectedTo
    <3> QED
      BY <3>1, <3>2
  <2>5. PICK n \in Nat : n = demand.mem[c]
    BY <1>1, <2>3 DEF TypeOK, Demand, Sizes
  <2>6. BufferClaims(t, c) = Copies(c, n) /\ BufferNow(t, c) = IF Waits(c) THEN <<>> ELSE LocalNow(c)
    BY <1>3, <2>3, <2>4, <2>5 DEF BufferClaims, BufferNow
  <2>7. Total(<<>>) = 0 /\ Total(<<n>>) = n /\ Total(<<n, n>>) = n + n
    BY TotalEmpty, TotalList
  <2>8. Total(BufferNow(t, c)) + n <= Total(BufferClaims(t, c))
    <3>1. CASE Src[c] = Dst[c]
      <4>1. BufferClaims(t, c) = <<n, n>> /\ Half(c)
        BY <2>3, <2>6, <3>1 DEF Copies, Half
      <4>2. BufferNow(t, c) = <<>> \/ BufferNow(t, c) = <<n>>
        BY <2>5, <2>6, <4>1 DEF LocalNow
      <4> QED
        BY <2>7, <4>1, <4>2
    <3>2. CASE Src[c] # Dst[c]
      <4>1. BufferClaims(t, c) = <<n>> /\ BufferNow(t, c) = <<>>
        BY <2>3, <2>6, <3>2 DEF Copies, Waits
      <4> QED
        BY <2>7, <4>1
    <3> QED
      BY <3>1, <3>2
  <2>9. availableMemorySize(t) >= n
    BY <1>1, <2>3, <2>8, BufferRoom
  <2> QED
    BY <2>3, <2>4, <2>5, <2>9
<1> QED
  BY <1>2, <1>3 DEF Claiming, Phases

LEMMA ClaimConnectionHome ==
    ASSUME Core, Fits(binding), allocateConnectionResources
    PROVE  pc' \in Claiming /\ UNCHANGED <<platform, demand, binding>>
<1>1. TypeOK /\ Exact /\ pc \in Phases
  BY DEF Core, Claimed, Phases, allocateConnectionResources, ClaimBuffer, ClaimInterface
<1>2. PICK c \in Channels : c = chan
  BY <1>1 DEF Core, AtPort, ConnectedTo
<1>3. isChannelBoundToConnection(c) /\ ~isChannelBoundToTile(c) /\ ~Waits(c)
  BY <1>1, <1>2 DEF Core, AtPort, isChannelBoundToConnection, isChannelBoundToTile
<1>4. PICK t \in Tiles, u \in Tiles : t = binding[Src[c]] /\ u = binding[Dst[c]] /\ t # u
  BY <1>1, <1>3, Ends DEF TypeOK, isChannelBoundToConnection
<1>5. PICK s \in Nat, d \in Nat, b \in Nat : s = demand.src[c] /\ d = demand.dst[c] /\ b = demand.bw[c]
  BY <1>1 DEF TypeOK, Demand, Sizes
<1>6. ASSUME NEW n \in Nat PROVE Total(<<>>) + n <= Total(<<n>>)
  <2>1. Total(<<>>) = 0
    BY TotalEmpty
  <2>2. Total(<<n>>) = n
    BY TotalList
  <2>3. 0 + n <= n
    OBVIOUS
  <2> QED
    BY <2>1, <2>2, <2>3
<1>7. CASE ClaimBuffer("srcMem", "dstMem", t, s)
  <2>1. pc = "srcMem" /\ pc # "state"
    BY <1>7 DEF ClaimBuffer
  <2>2. BufferNow(t, c) = <<>> /\ BufferClaims(t, c) = <<s>>
    BY <1>2, <1>3, <1>4, <1>5, <2>1 DEF BufferNow, BufferClaims, SourceNow, Doing
  <2>3. availableMemorySize(t) >= s
    BY <1>1, <1>6, <2>1, <2>2, BufferRoom
  <2>4. ~(availableMemorySize(t) < s)
    BY <1>1, <2>3, PlatformType, Use DEF availableMemorySize
  <2> QED
    BY <1>7, <2>4 DEF ClaimBuffer, Claiming, Phases
<1>8. CASE ClaimBuffer("dstMem", "srcNI", u, d)
  <2>1. pc = "dstMem" /\ pc # "state"
    BY <1>8 DEF ClaimBuffer
  <2>2. BufferNow(u, c) = <<>> /\ BufferClaims(u, c) = <<d>>
    BY <1>2, <1>3, <1>4, <1>5, <2>1 DEF BufferNow, BufferClaims, TargetNow, Doing
  <2>3. availableMemorySize(u) >= d
    BY <1>1, <1>6, <2>1, <2>2, BufferRoom
  <2>4. ~(availableMemorySize(u) < d)
    BY <1>1, <2>3, PlatformType, Use DEF availableMemorySize
  <2> QED
    BY <1>8, <2>4 DEF ClaimBuffer, Claiming, Phases
<1>9. CASE ClaimInterface("srcNI", "dstNI", t, 0, b)
  <2>1. pc = "srcNI"
    BY <1>9 DEF ClaimInterface
  <2>2. PICK r \in Rates : r = [in |-> 0, out |-> b]
    BY DEF Rates
  <2>3. InterfaceNow(t, c) = <<>> /\ InterfaceClaims(t, c) = <<r>>
    BY <1>2, <1>3, <1>4, <1>5, <2>1, <2>2 DEF InterfaceNow, InterfaceClaims, SendNow, Doing, Phases
  <2>4. ConnectionFits(t, r.in, r.out)
    BY <1>1, <2>3, InterfaceRoom
  <2>5. ConnectionFits(t, 0, b)
    BY <2>2, <2>4
  <2> QED
    BY <1>9, <2>5, Zenon DEF ClaimInterface, Claiming, Phases
<1>10. CASE ClaimInterface("dstNI", "port", u, b, 0)
  <2>1. pc = "dstNI"
    BY <1>10 DEF ClaimInterface
  <2>2. PICK r \in Rates : r = [in |-> b, out |-> 0]
    BY DEF Rates
  <2>3. InterfaceNow(u, c) = <<>> /\ InterfaceClaims(u, c) = <<r>>
    BY <1>2, <1>3, <1>4, <1>5, <2>1, <2>2 DEF InterfaceNow, InterfaceClaims, ReceiveNow, Doing, Phases
  <2>4. ConnectionFits(u, r.in, r.out)
    BY <1>1, <2>3, InterfaceRoom
  <2>5. ConnectionFits(u, b, 0)
    BY <2>2, <2>4
  <2> QED
    BY <1>10, <2>5, Zenon DEF ClaimInterface, Claiming, Phases
<1> QED
  BY <1>2, <1>4, <1>5, <1>7, <1>8, <1>9, <1>10 DEF allocateConnectionResources

(* An action that leaves a home of the actor as it is                      *)
LEMMA KeptHome ==
    ASSUME UNCHANGED <<platform, demand, cur>>, NEW h, Home(h),
           [binding' EXCEPT ![cur] = h] = [binding EXCEPT ![cur] = h]
    PROVE  Home(h)'
<1>1. PICK b : b = [binding EXCEPT ![cur] = h] /\ Fits(b)
  BY DEF Home
<1>2. Fits(b)'
  <2>1. \A t, c : /\ BoundBuffer(b, t, c)' = BoundBuffer(b, t, c)
                  /\ BoundInterface(b, t, c)' = BoundInterface(b, t, c)
    BY DEF BoundBuffer, BoundInterface
  <2> SUFFICES ASSUME NEW t \in Tiles
               PROVE  /\ FitsMemory(platform, t, {a \in Actors : b[a] = t}, [c \in Channels |-> BoundBuffer(b, t, c)])'
                      /\ FitsRates(platform, t, [c \in Channels |-> BoundInterface(b, t, c)])'
    BY Zenon DEF Fits
  <2>2. /\ [c \in Channels |-> BoundBuffer(b, t, c)]' = [c \in Channels |-> BoundBuffer(b, t, c)]
        /\ [c \in Channels |-> BoundInterface(b, t, c)]' = [c \in Channels |-> BoundInterface(b, t, c)]
    BY <2>1
  <2>3. platform' = platform
    OBVIOUS
  <2> QED
    BY <1>1, <2>2, <2>3, Zenon DEF Fits
<1>3. b = [binding' EXCEPT ![cur'] = h]
  BY <1>1
<1> QED
  BY <1>2, <1>3 DEF Home

LEMMA Rebound ==
    ASSUME TypeOK, NEW a \in Actors, NEW t, NEW h
    PROVE  /\ [[binding EXCEPT ![a] = t] EXCEPT ![a] = h] = [binding EXCEPT ![a] = h]
           /\ binding[a] = h => [binding EXCEPT ![a] = h] = binding
BY DEF TypeOK

LEMMA NextActorHome ==
    ASSUME Core, WithinCapacity, NextActor
    PROVE  HasHome'
<1>1. pc = "next" /\ pc' = "tile" /\ mode' = mode /\ untried' = Tiles /\ TypeOK
  BY DEF NextActor, Core
<1>2. PICK a \in remaining : cur' = a /\ (mode = "move" => releaseResources(a))
  BY DEF NextActor
<1> SUFFICES ASSUME mode = "move" PROVE HasHome'
  BY <1>1 DEF HasHome
<1>3. a \in Actors /\ binding[a] # None
  BY <1>1, <1>2 DEF Core, Progress, Trying, Free, TypeOK
<1>4. Released(a)
  BY <1>1, <1>2, <1>3, ClaimedReleasable, Release DEF Core
<1>5. platform' = platform /\ demand' = demand /\ binding' = [binding EXCEPT ![a] = None]
  BY <1>4 DEF Released, ReleasedActor
<1>6. PICK h \in Tiles : h = binding[a]
  BY <1>1, <1>3 DEF TypeOK
<1>7. [binding' EXCEPT ![a] = h] = binding
  BY <1>1, <1>3, <1>5, <1>6, Rebound
<1>8. Fits(binding)
  BY <1>1, SettledFits
<1>9. PICK b : b = binding
  OBVIOUS
<1>10. Fits(b)'
  <2>1. \A t, c : /\ BoundBuffer(b, t, c)' = BoundBuffer(b, t, c)
                  /\ BoundInterface(b, t, c)' = BoundInterface(b, t, c)
    BY <1>5 DEF BoundBuffer, BoundInterface
  <2> QED
    BY <1>5, <1>8, <1>9, <2>1 DEF Fits
<1>11. <<a, h>> \in platform.runs /\ platform.wheel[h] > 0
  BY <1>3, <1>6 DEF Core, Running
<1>12. Home(h)'
  BY <1>2, <1>5, <1>7, <1>9, <1>10, <1>11 DEF Home
<1> QED
  BY <1>1, <1>12 DEF HasHome

LEMMA BindActorHome ==
    ASSUME Core, Sliced, HasHome, bindActor
    PROVE  HasHome'
<1>1. pc = "tile" /\ mode' = mode /\ cur' = cur /\ platform' = platform /\ demand' = demand /\ TypeOK
  BY DEF bindActor, Core
<1> SUFFICES ASSUME mode = "move" PROVE HasHome'
  BY <1>1 DEF HasHome
<1>2. PICK h \in Tiles : Home(h) /\ h \in untried
  BY <1>1 DEF HasHome
<1>3. slice[h] = 0
  BY <1>1 DEF Sliced, Trying
<1>4. CanRun(h)
  BY <1>1, <1>2, <1>3, PlatformType DEF CanRun, Home
<1>5. PICK t \in untried :
        /\ untried' = untried \ {t}
        /\ IF CanRun(t) THEN binding' = [binding EXCEPT ![cur] = t] /\ pc' = "state"
                        ELSE binding' = binding /\ pc' = pc
  BY DEF bindActor
<1>6. cur \in Actors /\ t \in Tiles
  BY <1>1 DEF TypeOK
<1>7. CASE CanRun(t)
  <2>1. binding' = [binding EXCEPT ![cur] = t] /\ pc' = "state" /\ binding'[cur] = t
    BY <1>1, <1>5, <1>6, <1>7 DEF TypeOK
  <2>2. Home(h)'
    BY <1>1, <1>2, <1>6, <2>1, KeptHome, Rebound
  <2>3. h \in untried' \/ binding'[cur] = h
    BY <1>2, <1>5, <2>1
  <2> QED
    BY <1>1, <2>1, <2>2, <2>3 DEF HasHome
<1>8. CASE ~CanRun(t)
  <2>1. binding' = binding /\ pc' = pc /\ h # t
    BY <1>4, <1>5, <1>8
  <2>2. Home(h)'
    BY <1>1, <1>2, <2>1, KeptHome
  <2> QED
    BY <1>1, <1>2, <1>5, <2>1, <2>2 DEF HasHome
<1> QED
  BY <1>7, <1>8

LEMMA ClaimHome ==
    ASSUME Core, HasHome, ClaimState \/ ClaimPort \/ allocateConnectionResources
    PROVE  HasHome'
<1>1. /\ pc \in Claiming /\ mode' = mode /\ cur' = cur /\ untried' = untried
      /\ GiveUpTile \/ (UNCHANGED <<platform, demand, binding>> /\ pc' \in Claiming)
  BY DEF ClaimState, ClaimPort, allocateConnectionResources, ClaimBuffer, ClaimInterface, Claiming,
         Phases, resources
<1> SUFFICES ASSUME mode = "move" PROVE HasHome'
  BY <1>1 DEF HasHome
<1>2. PICK h \in Tiles : Home(h) /\ (h \in untried \/ binding[cur] = h)
  BY <1>1 DEF HasHome
<1>3. TypeOK /\ cur \in Actors
  BY DEF Core, TypeOK
<1>4. \A x \in Claiming : x # "tile"
  BY DEF Claiming, Phases
<1>5. CASE binding[cur] = h
  <2>1. Fits(binding)
    BY <1>2, <1>3, <1>5, Rebound DEF Home
  <2>2. pc' \in Claiming /\ UNCHANGED <<platform, demand, binding>>
    BY <2>1, ClaimStateHome, ClaimPortHome, ClaimConnectionHome
  <2>3. Home(h)'
    BY <1>1, <1>2, <2>2, KeptHome
  <2> QED
    BY <1>1, <1>4, <1>5, <2>2, <2>3 DEF HasHome
<1>6. CASE h \in untried
  <2>1. /\ UNCHANGED <<platform, demand>> /\ [binding' EXCEPT ![cur] = h] = [binding EXCEPT ![cur] = h]
    BY <1>1, <1>3, Rebound DEF GiveUpTile, releaseResources, releaseActor
  <2>2. Home(h)'
    BY <1>1, <1>2, <2>1, KeptHome
  <2> QED
    BY <1>1, <1>6, <2>2 DEF HasHome
<1> QED
  BY <1>2, <1>5, <1>6

LEMMA StepHome ==
    ASSUME Core, WithinCapacity, Sliced, HasHome, [AllocationNext]_allVars
    PROVE  HasHome'
<1>1. CASE \/ NewAttempt \/ ReleaseNext \/ Undone \/ AllBound \/ BindingFails \/ Allocated
           \/ updateStorageSpaceAllocation \/ Optimized \/ SearchStep \/ SearchEnds
  <2>1. pc' \in {"release", "undo", "idle", "next", "bound", "sliced", "exception"}
    BY <1>1 DEF NewAttempt, ReleaseNext, Undone, AllBound, BindingFails, Allocated,
                updateStorageSpaceAllocation, Optimized, SearchStep, SearchEnds, control
  <2> QED
    BY <2>1 DEF HasHome, Claiming, Phases
<1>2. CASE StartBinding
  BY <1>2 DEF StartBinding, HasHome
<1>3. CASE UNCHANGED allVars
  <2>1. UNCHANGED <<platform, demand, binding, pc, mode, cur, untried>> /\ Claiming = Claiming
    BY <1>3 DEF allVars, vars, resources, control
  <2>2. \A h : Home(h) => Home(h)'
    BY <2>1, KeptHome
  <2> QED
    BY <2>1, <2>2 DEF HasHome
<1> QED
  BY <1>1, <1>2, <1>3, NextActorHome, BindActorHome, ClaimHome
     DEF AllocationNext, AllocationAttempt, BindingStep, Attempt

-----------------------------------------------------------------------------
(* In every state of an attempt and of the search: what is claimed is what *)
(* the bound actors and their channels claim up to there and no more than  *)
(* there is, slices are on the tiles in use, and an actor that is moved    *)
(* has a tile to go to.                                                    *)
THEOREM AllocationInvariant ==
    AllocationSpec => [](Core /\ Searching /\ WithinCapacity /\ Sliced /\ HasHome)
<1>1. AllocationInit => Sliced /\ HasHome
  <2> SUFFICES ASSUME AllocationInit PROVE Sliced /\ HasHome
    OBVIOUS
  <2>1. pc = "idle" /\ slice = [t \in Tiles |-> 0] /\ binding = [a \in Actors |-> None]
    BY DEF AllocationInit, Init
  <2>2. \A t \in Tiles : On(t) = {} /\ slice[t] = 0
    BY <2>1, Ends DEF On
  <2> QED
    BY <2>1, <2>2 DEF Sliced, HasHome, Trying, Claiming, Phases
<1>2. AllocationInit => Core /\ Searching /\ WithinCapacity
  BY InitCore, InitCapacity
<1>3. /\ Core /\ Searching /\ WithinCapacity /\ Sliced /\ HasHome /\ [AllocationNext]_allVars
      => (Core /\ Searching /\ WithinCapacity /\ Sliced /\ HasHome)'
  BY StepCore, StepCapacity, StepSliced, StepHome
<1> QED
  BY <1>1, <1>2, <1>3, PTL DEF AllocationSpec

(* No claim on the way exceeds what there is, and whenever an attempt is   *)
(* between two actors, two tiles or at its end every component of the      *)
(* platform holds exactly the claims of the bound actors and of the        *)
(* channels between them.                                                  *)
THEOREM ClaimsMatchBinding == AllocationSpec => []ClaimsOfBound
<1>1. Core /\ WithinCapacity => ClaimsOfBound
  <2> SUFFICES ASSUME Core, WithinCapacity, Settled
               PROVE  /\ \A t \in Tiles : /\ procs[t] = On(t) /\ memActor[t] = On(t)
                                          /\ \A c \in Channels : /\ memChannel[t][c] = BufferClaims(t, c)
                                                                 /\ ni[t][c] = InterfaceClaims(t, c)
                      /\ \A t, u \in Tiles : conn[t, u] = Between(t, u)
    BY DEF ClaimsOfBound, On
  <2>1. Exact /\ pc \notin Claiming /\ pc # "state"
    BY DEF Settled, Core, Claimed, Claiming, Phases
  <2>2. \A c \in Channels : /\ ~Waits(c)
                            /\ \A t \in Tiles : BufferNow(t, c) = BufferClaims(t, c)
                            /\ \A t \in Tiles : InterfaceNow(t, c) = InterfaceClaims(t, c)
    BY <2>1, QuietOutside, Calm DEF Quiet
  <2>3. \A t \in Tiles : procs[t] = On(t) /\ memActor[t] = On(t)
    BY <2>1 DEF Exact, ExactActors
  <2>4. \A t \in Tiles, c \in Channels : /\ memChannel[t][c] = BufferClaims(t, c)
                                         /\ ni[t][c] = InterfaceClaims(t, c)
    BY <2>1, <2>2 DEF Exact, ExactLists
  <2>5. ASSUME NEW t \in Tiles, NEW u \in Tiles PROVE conn[t, u] = Between(t, u)
    <3>1. conn[t, u] = {c \in Between(t, u) : ~Waits(c)}
      BY <2>1, Zenon DEF Exact, ExactLinks
    <3>2. Between(t, u) \subseteq Channels
      BY DEF Between
    <3> QED
      BY <2>2, <3>1, <3>2
  <2> QED
    BY <2>3, <2>4, <2>5
<1> QED
  BY <1>1, AllocationInvariant, PTL

(* An attempt binds the whole application, with slices where it is bound,  *)
(* or leaves nothing behind, and the loads follow every move.              *)
THEOREM WholeBinding == AllocationSpec => []WholeOrNothing
<1>1. Core /\ Sliced => WholeOrNothing
  <2> SUFFICES ASSUME Core, Sliced PROVE WholeOrNothing
    OBVIOUS
  <2>1. pc \in {"bound", "sliced"} => Bound = Actors
    BY DEF Core, Progress
  <2>2. pc = "idle" => Bound \in {{}, Actors}
    BY DEF Core, Progress
  <2>3. pc = "idle" => \A t \in Tiles : slice[t] # 0 <=> \E a \in Actors : binding[a] = t
    BY DEF Sliced, On
  <2>4. ASSUME NEW t \in Tiles
        PROVE  tileLoad[t] = Total([a \in {a \in Actors : binding[a] = t} |-> platform.load[a][t]])
    <3>1. PICK A \in SUBSET Actors : A = On(t)
      BY DEF On
    <3>2. PICK f : f = [a \in A |-> platform.load[a][t]]
      OBVIOUS
    <3>3. Total(f) = SumOf(f, A)
      BY <3>2, TotalIsSum
    <3>4. \A a \in A : Loads(t)[a] = f[a]
      BY <3>1, <3>2 DEF Loads
    <3>5. SumOf(Loads(t), A) = SumOf(f, A)
      BY <3>1, <3>4, LoadNumbers, SumAgrees DEF Core
    <3>6. tileLoad[t] = SumOf(Loads(t), A)
      BY <3>1 DEF Core, Loaded
    <3> QED
      BY <3>1, <3>2, <3>3, <3>5, <3>6 DEF On
  <2> QED
    BY <2>1, <2>2, <2>3, <2>4 DEF WholeOrNothing
<1> QED
  BY <1>1, AllocationInvariant, PTL

(* The tiles that a move can try never run out: the tile that the actor    *)
(* comes from takes it back, whatever of it was claimed elsewhere and      *)
(* released again.                                                         *)
THEOREM MovesEnd == AllocationSpec => []MoveFindsTile
<1>1. HasHome => MoveFindsTile
  BY DEF HasHome, MoveFindsTile
<1> QED
  BY <1>1, AllocationInvariant, PTL

(* The search ends with slices that meet the constraint, one slot at most  *)
(* above its lower bounds, or with wheels that are used up, whatever the   *)
(* analysis of the throughput answers.                                     *)
THEOREM SearchIsRight == AllocationSpec => []AnswerIsRight
<1>1. Searching => AnswerIsRight
  <2> SUFFICES ASSUME Searching, pc = "bound" PROVE TS!AnswerIsRight /\ TS!WithinOneSlot
    BY DEF AnswerIsRight
  <2>1. stage # "reserve" =>
          \A t \in Tiles : IF t \in TS!Used THEN slice[t] \in 1 .. platform.wheel[t] ELSE slice[t] = 0
    BY DEF Searching, Minimized, Proper, TS!Used
  <2>2. stage \in {"failed", "met"} => (success <=> stage = "met")
    BY DEF Searching, Staged
  <2>3. stage = "failed" => Hopeless
    BY DEF Searching, Staged
  <2>4. TS!AnswerIsRight
    BY <2>1, <2>2, <2>3 DEF Hopeless, TS!AnswerIsRight, TS!Used
  <2>5. stage \in {"check", "met"} /\ success => Tight
    BY DEF Searching, Staged
  <2>6. TS!WithinOneSlot
    BY <2>5 DEF Tight, Lower, Met, TS!WithinOneSlot
  <2> QED
    BY <2>4, <2>6
<1> QED
  BY <1>1, AllocationInvariant, PTL

-----------------------------------------------------------------------------
(* The refinement: outside the search Binding sees the slices as they are. *)
LEMMA SeesSlices ==
    ASSUME Core, Sliced, NewAttempt \/ Attempt
    PROVE  Found = slice /\ Found' = slice'
<1>1. pc # "bound"
  BY AttemptOutside
<1>2. CASE pc' = "bound"
  <2>1. AllBound
    BY <1>2 DEF NewAttempt, Attempt, ReleaseNext, Undone, StartBinding, NextActor, bindActor, BindingFails,
       ClaimState, ClaimPort, allocateConnectionResources, ClaimBuffer, ClaimInterface, GiveUpTile,
       Allocated, updateStorageSpaceAllocation, Optimized, control
  <2>2. slice' = slice /\ pc = "next"
    BY <2>1 DEF AllBound, resources
  <2>3. slice = [t \in Tiles |-> 0]
    BY <2>2 DEF Core, TypeOK, Sliced, Trying
  <2> QED
    BY <1>1, <1>2, <2>2, <2>3 DEF Found
<1> QED
  BY <1>1, <1>2 DEF Found

LEMMA SameReleases ==
    ASSUME Found = slice, Found' = slice'
    PROVE  /\ \A a : releaseResources(a) => Abstract!releaseResources(a)
           /\ GiveUpTile => Abstract!GiveUpTile
           /\ UNCHANGED resources => UNCHANGED Abstract!resources
<1> USE DEF releaseResources, releaseActor, releaseChannels, ConnectedTo, HasBuffer, HasInterface,
            Between, Unbound, isChannelBoundToTile, isChannelBoundToConnection,
            Abstract!releaseResources, Abstract!releaseActor, Abstract!releaseChannels,
            Abstract!ConnectedTo, Abstract!HasBuffer, Abstract!HasInterface, Abstract!Between,
            Abstract!Unbound, Abstract!isChannelBoundToTile, Abstract!isChannelBoundToConnection
<1>1. \A a : releaseResources(a) => Abstract!releaseResources(a)
  OBVIOUS
<1>2. GiveUpTile => Abstract!GiveUpTile
  BY DEF GiveUpTile, Abstract!GiveUpTile
<1>3. UNCHANGED resources => UNCHANGED Abstract!resources
  BY DEF resources, Abstract!resources, claims, Abstract!claims
<1> QED
  BY <1>1, <1>2, <1>3

LEMMA SameTerms ==
    /\ Abstract!Bound = Bound /\ Abstract!Buffers = Buffers
    /\ \A a : Abstract!Ports(a) = Ports(a)
    /\ \A t : Abstract!availableMemorySize(t) = availableMemorySize(t)
    /\ \A t : Abstract!StateFits(t) <=> StateFits(t)
    /\ \A t, i, o : Abstract!ConnectionFits(t, i, o) <=> ConnectionFits(t, i, o)
    /\ \A t, c, n : Abstract!reserveMemory(t, c, n) <=> reserveMemory(t, c, n)
    /\ \A c : /\ Abstract!isChannelBoundToTile(c) <=> isChannelBoundToTile(c)
              /\ Abstract!isChannelBoundToConnection(c) <=> isChannelBoundToConnection(c)
<1> USE DEF isChannelBoundToTile, isChannelBoundToConnection, Abstract!isChannelBoundToTile,
            Abstract!isChannelBoundToConnection
<1>1. Abstract!Bound = Bound /\ Abstract!Buffers = Buffers /\ \A a : Abstract!Ports(a) = Ports(a)
  BY DEF Abstract!Bound, Bound, Abstract!Buffers, Buffers, Abstract!Ports, Ports
<1>2. \A s : Abstract!Total(s) = Total(s)
  BY DEF Abstract!Total, Total, Abstract!FoldFunction, FoldFunction, Abstract!FoldFunctionOnSet,
         FoldFunctionOnSet, Abstract!MapThenFoldSet, MapThenFoldSet
<1>3. \A s, f : Abstract!Values(s, f) = Values(s, f)
  BY DEF Abstract!Values, Values
<1>4. \A t : Abstract!stateMemory(t) = stateMemory(t)
  BY DEF Abstract!stateMemory, stateMemory, Abstract!Larger, Larger, Abstract!FoldFunctionOnSet,
         FoldFunctionOnSet, Abstract!MapThenFoldSet, MapThenFoldSet
<1>5. \A t : Abstract!availableMemorySize(t) = availableMemorySize(t)
  BY <1>2, <1>4 DEF Abstract!availableMemorySize, availableMemorySize, Abstract!usedMemory, usedMemory
<1>6. \A t : Abstract!StateFits(t) <=> StateFits(t)
  BY <1>4, <1>5 DEF Abstract!StateFits, StateFits
<1>7. \A t, i, o : Abstract!ConnectionFits(t, i, o) <=> ConnectionFits(t, i, o)
  BY <1>2, <1>3 DEF Abstract!ConnectionFits, ConnectionFits, Abstract!usedConns, usedConns,
                    Abstract!usedBw, usedBw
<1>8. \A t, c, n : Abstract!reserveMemory(t, c, n) <=> reserveMemory(t, c, n)
  BY DEF Abstract!reserveMemory, reserveMemory
<1> QED
  BY <1>1, <1>5, <1>6, <1>7, <1>8

LEMMA SameAttempts ==
    ASSUME Found = slice, Found' = slice'
    PROVE  /\ NewAttempt => Abstract!NewAttempt
           /\ Undone => Abstract!Undone
           /\ StartBinding => Abstract!StartBinding
           /\ AllBound => Abstract!AllBound
           /\ BindingFails => Abstract!BindingFails
           /\ Allocated => Abstract!Allocated
           /\ Optimized => Abstract!Optimized
           /\ ReleaseNext => Abstract!ReleaseNext
           /\ NextActor => Abstract!NextActor
           /\ bindActor => Abstract!bindActor
<1> USE SameTerms, SameReleases DEF claims, Abstract!claims, control, Abstract!control
<1>1. NewAttempt => Abstract!NewAttempt
  BY DEF NewAttempt, Abstract!NewAttempt
<1>2. Undone => Abstract!Undone
  BY DEF Undone, Abstract!Undone
<1>3. StartBinding => Abstract!StartBinding
  BY DEF StartBinding, Abstract!StartBinding
<1>4. AllBound => Abstract!AllBound
  BY DEF AllBound, Abstract!AllBound
<1>5. BindingFails => Abstract!BindingFails
  BY DEF BindingFails, Abstract!BindingFails
<1>6. Allocated => Abstract!Allocated
  BY DEF Allocated, Abstract!Allocated
<1>7. Optimized => Abstract!Optimized
  BY DEF Optimized, Abstract!Optimized
<1>8. ReleaseNext => Abstract!ReleaseNext
  BY DEF ReleaseNext, Abstract!ReleaseNext
<1>9. NextActor => Abstract!NextActor
  BY DEF NextActor, Abstract!NextActor
<1>10. bindActor => Abstract!bindActor
  BY DEF bindActor, Abstract!bindActor, CanRun, Abstract!CanRun
<1> QED
  BY <1>1, <1>2, <1>3, <1>4, <1>5, <1>6, <1>7, <1>8, <1>9, <1>10

LEMMA SameClaims ==
    ASSUME Found = slice, Found' = slice'
    PROVE  /\ ClaimState => Abstract!ClaimState
           /\ ClaimPort => Abstract!ClaimPort
           /\ allocateConnectionResources => Abstract!allocateConnectionResources
           /\ updateStorageSpaceAllocation => Abstract!updateStorageSpaceAllocation
<1> USE SameTerms, SameReleases
<1>1. ClaimState => Abstract!ClaimState
  BY DEF ClaimState, Abstract!ClaimState
<1>2. ClaimPort => Abstract!ClaimPort
  BY DEF ClaimPort, Abstract!ClaimPort
<1>3. \A x, y, t, n : ClaimBuffer(x, y, t, n) => Abstract!ClaimBuffer(x, y, t, n)
  BY DEF ClaimBuffer, Abstract!ClaimBuffer
<1>4. \A x, y, t, i, o : ClaimInterface(x, y, t, i, o) => Abstract!ClaimInterface(x, y, t, i, o)
  BY DEF ClaimInterface, Abstract!ClaimInterface
<1>5. allocateConnectionResources => Abstract!allocateConnectionResources
  BY <1>3, <1>4 DEF allocateConnectionResources, Abstract!allocateConnectionResources
<1>6. updateStorageSpaceAllocation => Abstract!updateStorageSpaceAllocation
  BY DEF updateStorageSpaceAllocation, Abstract!updateStorageSpaceAllocation
<1> QED
  BY <1>1, <1>2, <1>5, <1>6

(* The end of the search is the one step in which Binding finds slices.    *)
LEMMA SearchEndsFinds ==
    ASSUME Core, Searching, SearchEnds
    PROVE  Abstract!allocateTDMAtimeSlices
<1>1. /\ pc = "bound" /\ stage \in {"met", "failed"}
      /\ \/ pc' = "sliced" /\ todo' = Buffers
         \/ pc' = "undo" /\ UNCHANGED todo
      /\ UNCHANGED <<platform, demand, binding, claims, tileLoad, slice, mode, cur, remaining, untried,
                     chan>>
  BY DEF SearchEnds, resources
<1>2. Found' = slice
  BY <1>1 DEF Found
<1>3. Proper(slice) /\ slice \in [Tiles -> Nat]
  BY <1>1 DEF Searching, Minimized, Core, TypeOK
<1>4. \A t \in Tiles : IF tileLoad[t] = 0 THEN slice[t] = 0 ELSE slice[t] \in 1 .. platform.wheel[t]
  BY <1>3 DEF Proper
<1>5. slice \in [Tiles -> UNION {0 .. platform.wheel[t] : t \in Tiles}]
  <2>1. ASSUME NEW t \in Tiles PROVE slice[t] \in UNION {0 .. platform.wheel[u] : u \in Tiles}
    <3>1. platform.wheel[t] \in Nat /\ slice[t] \in Nat
      BY <1>3, PlatformType DEF Core
    <3>2. slice[t] \in 0 .. platform.wheel[t]
      BY <1>4, <3>1
    <3> QED
      BY <3>2
  <2> QED
    BY <1>3, <2>1
<1>6. Abstract!Buffers = Buffers
  BY SameTerms
<1> QED
  BY <1>1, <1>2, <1>4, <1>5, <1>6 DEF Abstract!allocateTDMAtimeSlices, claims, Abstract!claims

LEMMA StepImplements ==
    ASSUME Core, Searching, Sliced, [AllocationNext]_allVars
    PROVE  [Abstract!Next]_Abstract!vars
<1>1. CASE NewAttempt \/ Attempt
  <2>1. Found = slice /\ Found' = slice'
    BY <1>1, SeesSlices
  <2>2. NewAttempt => Abstract!NewAttempt
    BY <2>1, SameAttempts
  <2>3. Attempt => Abstract!Attempt
    BY <2>1, SameAttempts, SameClaims DEF Attempt, Abstract!Attempt
  <2> QED
    BY <1>1, <2>2, <2>3 DEF Abstract!Next
<1>2. CASE SearchStep
  BY <1>2 DEF SearchStep, Found, Abstract!vars, Abstract!resources, Abstract!claims, Abstract!control,
              claims, control
<1>3. CASE SearchEnds
  BY <1>3, SearchEndsFinds DEF Abstract!Next
<1>4. CASE UNCHANGED allVars
  BY <1>4 DEF allVars, vars, resources, claims, control, Found, Abstract!vars, Abstract!resources,
              Abstract!claims, Abstract!control
<1> QED
  BY <1>1, <1>2, <1>3, <1>4 DEF AllocationNext, AllocationAttempt, BindingStep

(* The slices the search reserves, lowers, raises and puts back on the way *)
(* never let the allocation do what a binding with slices found in one     *)
(* step could not.                                                         *)
THEOREM Implementation == AllocationSpec => ImplementsBinding
<1>1. AllocationInit => Abstract!Init
  <2> SUFFICES ASSUME AllocationInit PROVE Abstract!Init
    OBVIOUS
  <2>1. Found = slice /\ Init
    BY DEF AllocationInit, Init, Found
  <2> QED
    BY <2>1 DEF Init, Abstract!Init
<1>2. Core /\ Searching /\ Sliced /\ [AllocationNext]_allVars => [Abstract!Next]_Abstract!vars
  BY StepImplements
<1> QED
  BY <1>1, <1>2, AllocationInvariant, PTL DEF AllocationSpec, ImplementsBinding
=============================================================================
