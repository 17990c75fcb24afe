------------------------- MODULE NoCSchedule_proofs -------------------------
(***************************************************************************)
(* The scheduler of messages on the network, for every network, every set  *)
(* of messages and every number of detours and rip-ups: it ends, and its   *)
(* slot tables are those of the scheduling entities.                       *)
(***************************************************************************)
EXTENDS NoCSchedule, FiniteSetTheorems, WellFoundedInduction, TLAPS

-----------------------------------------------------------------------------
(* Smallest and largest elements                                           *)
LEMMA Smallest ==
    ASSUME NEW S \in SUBSET Nat, S # {}
    PROVE  /\ Min(S) \in S
           /\ \A s \in S : Min(S) <= s
<1>1. PICK r \in S : \A s \in S : <<s, r>> \notin OpToRel(<, Nat)
  <2>1. IsWellFoundedOn(OpToRel(<, Nat), Nat)
    BY NatLessThanWellFounded
  <2> QED
    BY <2>1, WFMin
<1>2. \A s \in S : ~(s < r)
  BY <1>1 DEF OpToRel
<1>3. \A s \in S : r <= s
  BY <1>2
<1> QED
  BY <1>3 DEF Min

LEMMA Largest ==
    ASSUME NEW n \in Nat, NEW S \in SUBSET (0 .. n), S # {}
    PROVE  /\ Max(S) \in S
           /\ \A s \in S : Max(S) >= s
<1> DEFINE T == {n - s : s \in S}
<1>1. T \in SUBSET Nat /\ T # {}
  <2>1. \A s \in S : n - s \in Nat
    OBVIOUS
  <2> QED
    BY <2>1
<1>2. PICK r \in S : n - r = Min(T)
  BY <1>1, Smallest
<1>3. \A s \in S : r >= s
  <2> TAKE s \in S
  <2>1. n - s \in T
    OBVIOUS
  <2>2. Min(T) <= n - s
    BY <2>1, <1>1, Smallest
  <2> QED
    BY <2>2, <1>2
<1> QED
  BY <1>3 DEF Max

-----------------------------------------------------------------------------
(* What is known of problems, routes and bounds                            *)
LEMMA ProblemType ==
    ASSUME problem \in Problems
    PROVE  /\ Messages = 1 .. Len(problem.messages)
           /\ Len(problem.messages) \in Nat
           /\ Len(problem.messages) < UINT_MAX
           /\ \A m \in Messages : /\ Msg(m).start \in Nat
                                  /\ Msg(m).dur \in Nat \ {0}
                                  /\ Msg(m).size \in Nat \ {0}
<1> DEFINE M == [src : {l[1] : l \in Links}, dst : {l[2] : l \in Links},
                 stream : Nat, start : Nat, dur : Nat \ {0}, size : Nat \ {0}]
<1>1. problem.messages \in Seq(M) /\ Len(problem.messages) < UINT_MAX
  BY ProblemsAssumption
<1> HIDE DEF M
<1>2. \A m \in Messages : Msg(m) \in M
  BY <1>1 DEF Messages, Msg
<1> QED
  BY <1>1, <1>2 DEF Messages, M

LEMMA LengthType ==
    ASSUME problem \in Problems, NEW m \in Messages
    PROVE  ShortestLength(Msg(m).src, Msg(m).dst) \in Nat \ {0}
<1> DEFINE R(n) == RoutesOfLength(Msg(m).src, Msg(m).dst, n)
           S == {n \in 1 .. Cardinality(Links) : R(n) # {}}
<1>1. Cardinality(Links) \in Nat
  BY NoCAssumption, FS_CardinalityType
<1>2. \E n \in 1 .. Cardinality(Links) : R(n) # {}
  BY ProblemsAssumption DEF Messages, Msg
<1>3. S \in SUBSET Nat /\ S # {}
  BY <1>1, <1>2
<1>4. Min(S) \in S
  BY <1>3, Smallest
<1>5. ShortestLength(Msg(m).src, Msg(m).dst) = Min(S)
  BY DEF ShortestLength
<1> QED
  BY <1>1, <1>4, <1>5

(* No link comes twice on a route.                                         *)
IsRoute(r) == /\ r \in Seq(Links) /\ r # <<>>
              /\ \A i, j \in DOMAIN r : r[i] = r[j] => i = j

LEMMA RouteType ==
    ASSUME problem \in Problems, NEW m \in Messages, NEW d \in Nat,
           NEW r \in findAllRoutes(m, d)
    PROVE  IsRoute(r)
<1> DEFINE n == ShortestLength(Msg(m).src, Msg(m).dst) + d
<1>1. n \in Nat \ {0}
  BY LengthType
<1>2. r \in RoutesOfLength(Msg(m).src, Msg(m).dst, n)
  BY DEF findAllRoutes
<1> HIDE DEF n
<1>3. /\ r \in [1 .. n -> Links]
      /\ \A i \in 1 .. n : \A j \in 1 .. i - 1 : r[i][2] # r[j][2]
  BY <1>2 DEF RoutesOfLength
<1>4. r \in Seq(Links) /\ r # <<>> /\ DOMAIN r = 1 .. n
  BY <1>1, <1>3
<1>5. \A i, j \in 1 .. n : r[i] = r[j] => i = j
  BY <1>1, <1>3
<1> QED
  BY <1>4, <1>5 DEF IsRoute

(* A route is known by the places of its links.                            *)
LEMMA RoutesFinite ==
    ASSUME problem \in Problems, NEW m \in Messages, NEW d \in Nat
    PROVE  IsFiniteSet(findAllRoutes(m, d))
<1> DEFINE n == ShortestLength(Msg(m).src, Msg(m).dst) + d
           R == findAllRoutes(m, d)
           P == SUBSET ((1 .. n) \X Links)
           places(r) == {<<i, r[i]>> : i \in 1 .. n}
           f == [r \in R |-> places(r)]
<1>1. n \in Nat \ {0}
  BY LengthType
<1>2. R \subseteq [1 .. n -> Links]
  BY DEF findAllRoutes, RoutesOfLength
<1> HIDE DEF n, R
<1>3. IsFiniteSet(P)
  <2>1. IsFiniteSet(1 .. n) /\ IsFiniteSet(Links)
    BY <1>1, FS_Interval, NoCAssumption
  <2> QED
    BY <2>1, FS_Product, FS_SUBSET
<1>4. f \in [R -> P]
  <2>1. ASSUME NEW r \in R PROVE places(r) \in P
    <3>1. \A i \in 1 .. n : r[i] \in Links
      BY <1>2
    <3> QED
      BY <3>1
  <2> QED
    BY <2>1
<1>5. ASSUME NEW r \in R, NEW q \in R, places(r) = places(q) PROVE r = q
  <2>1. ASSUME NEW i \in 1 .. n PROVE r[i] = q[i]
    <3>1. <<i, r[i]>> \in places(q)
      BY <1>5
    <3> QED
      BY <3>1
  <2>2. r \in [1 .. n -> Links] /\ q \in [1 .. n -> Links]
    BY <1>2
  <2>3. r = [i \in 1 .. n |-> r[i]] /\ q = [i \in 1 .. n |-> q[i]]
    BY <2>2
  <2> QED
    BY <2>1, <2>3, Zenon
<1>6. f \in Injection(R, P)
  BY <1>4, <1>5 DEF Injection, IsInjective
<1> QED
  BY <1>3, <1>6, FS_Injection DEF R

-----------------------------------------------------------------------------
(* Remainders                                                              *)
LEMMA Remainder ==
    ASSUME NEW p \in Nat \ {0}, NEW q \in Int, NEW r \in 0 .. p - 1
    PROVE  (q * p + r) % p = r
<1> DEFINE x == q * p + r
           d == x \div p
           e == x % p
<1>1. x \in Int /\ d \in Int /\ e \in 0 .. p - 1 /\ x = p * d + e
  OBVIOUS
<1>2. (q - d) * p = e - r
  BY <1>1
<1>3. q - d \in Int /\ e - r < p /\ e - r > -p
  BY <1>1
<1> HIDE DEF d, e
<1>4. q - d = 0
  <2> DEFINE z == q - d
  <2>1. z * p = e - r /\ z \in Int
    BY <1>2, <1>3
  <2> HIDE DEF z
  <2>2. ~(z >= 1)
    <3> SUFFICES ASSUME z >= 1 PROVE FALSE
      OBVIOUS
    <3>1. z * p >= p
      BY <2>1
    <3> QED
      BY <3>1, <2>1, <1>3, <1>1
  <2>3. ~(z <= -1)
    <3> SUFFICES ASSUME z <= -1 PROVE FALSE
      OBVIOUS
    <3>1. z * p <= -p
      BY <2>1
    <3> QED
      BY <3>1, <2>1, <1>3, <1>1
  <2>4. z = 0
    BY <2>1, <2>2, <2>3
  <2> QED
    BY <2>4 DEF z
<1>5. e = r
  BY <1>2, <1>4, <1>1
<1> QED
  BY <1>5 DEF e

LEMMA RemainderOfSum ==
    ASSUME NEW p \in Nat \ {0}, NEW x \in Int, NEW y \in Int
    PROVE  /\ (x + y) % p = ((x % p) + y) % p
           /\ (x + y * p) % p = x % p
           /\ x % p \in 0 .. p - 1
<1> DEFINE d == x \div p
           e == x % p
           f == e + y
           g == f \div p
           h == f % p
<1>1. d \in Int /\ e \in 0 .. p - 1 /\ x = d * p + e
  OBVIOUS
<1>2. g \in Int /\ h \in 0 .. p - 1 /\ f = g * p + h
  OBVIOUS
<1> HIDE DEF d, e, g, h
<1>3. x + y = (d + g) * p + h
  <2>1. (d + g) * p = d * p + g * p
    BY <1>1, <1>2
  <2> QED
    BY <1>1, <1>2, <2>1 DEF f
<1>4. (x + y) % p = h
  <2> DEFINE q == d + g
  <2>1. q \in Int /\ x + y = q * p + h
    BY <1>1, <1>2, <1>3
  <2> HIDE DEF q
  <2> QED
    BY <1>2, <2>1, Remainder
<1>5. x + y * p = (d + y) * p + e
  <2>1. (d + y) * p = d * p + y * p
    BY <1>1
  <2> QED
    BY <1>1, <2>1
<1>6. (x + y * p) % p = e
  BY <1>1, <1>5, Remainder
<1> QED
  BY <1>4, <1>6, <1>1 DEF h, f, e

-----------------------------------------------------------------------------
(* Every slot comes round once per rotation of the table.                  *)
LEMMA ComesRound ==
    ASSUME NEW start \in Nat, NEW i \in Slots, NEW k \in Nat
    PROVE  LET J == {j \in 0 .. SlotTableSize * k - 1 : (start + j) % SlotTableSize = i}
           IN  IsFiniteSet(J) /\ Cardinality(J) >= k
<1> DEFINE p == SlotTableSize
           J == {j \in 0 .. p * k - 1 : (start + j) % p = i}
           a == (i - start) % p
           f == [r \in 0 .. k - 1 |-> a + r * p]
<1>1. p \in Nat \ {0} /\ i \in 0 .. p - 1
  BY SlotTablesAssumption DEF Slots
<1> HIDE DEF p
<1>2. a \in 0 .. p - 1 /\ (a + start) % p = i
  <2>1. (i - start) + start = i
    BY <1>1
  <2>2. i % p = i
    BY <1>1
  <2>3. i - start \in Int /\ start \in Int
    BY <1>1
  <2> QED
    BY <1>1, <2>1, <2>2, <2>3, RemainderOfSum
<1> HIDE DEF a
<1>3. f \in [0 .. k - 1 -> J]
  <2> SUFFICES ASSUME NEW r \in 0 .. k - 1
               PROVE  a + r * p \in J
    OBVIOUS
  <2>1. a + r * p \in 0 .. p * k - 1
    <3>1. (r + 1) * p <= k * p
      BY <1>1
    <3>2. (r + 1) * p = r * p + p /\ r * p \in Nat /\ k * p = p * k /\ k * p \in Nat
      BY <1>1
    <3> QED
      BY <1>1, <1>2, <3>1, <3>2
  <2>2. (start + (a + r * p)) % p = i
    <3>1. start + (a + r * p) = (a + start) + r * p
      BY <1>1, <1>2
    <3>2. ((a + start) + r * p) % p = (a + start) % p
      <4>1. a + start \in Int /\ r \in Int
        BY <1>1, <1>2
      <4> QED
        BY <1>1, <4>1, RemainderOfSum
    <3> QED
      BY <1>2, <3>1, <3>2
  <2> QED
    BY <2>1, <2>2
<1>4. ASSUME NEW r \in 0 .. k - 1, NEW s \in 0 .. k - 1, a + r * p = a + s * p
      PROVE  r = s
  BY <1>1, <1>2, <1>4
<1>5. f \in Injection(0 .. k - 1, J)
  BY <1>3, <1>4 DEF Injection, IsInjective
<1>6. IsFiniteSet(J)
  <2>1. IsFiniteSet(0 .. p * k - 1)
    BY <1>1, FS_Interval
  <2> QED
    BY <2>1, FS_Subset
<1>7. Cardinality(0 .. k - 1) = k
  BY FS_Interval
<1>8. Cardinality(0 .. k - 1) <= Cardinality(J)
  BY <1>5, <1>6, FS_Injection
<1> QED
  BY <1>6, <1>7, <1>8, FS_CardinalityType DEF p

(* A message of positive size takes at least a time unit, and with a slot  *)
(* in every rotation it gets there, in as many rotations as its size.      *)
LEMMA MinimalDurationType ==
    ASSUME problem \in Problems, NEW m \in Messages, NEW start \in Nat,
           NEW slots \in SUBSET Slots, slots # {}
    PROVE  /\ minimalDuration(m, start, slots) \in Nat /\ minimalDuration(m, start, slots) >= 2
           /\ minimalDuration(m, start, slots) <= SlotTableSize * Msg(m).size + 1
<1> DEFINE size == Msg(m).size
           U(n) == {j \in 0 .. n - 1 : (start + j) % SlotTableSize \in slots}
           B(n) == {j \in U(n) : j - 1 \notin U(n)}
           S == {n \in 0 .. SlotTableSize * size : Sent(slots, start, n) >= size}
           last == SlotTableSize * size
<1>1. size \in Nat \ {0} /\ SlotTableSize \in Nat \ {0}
  BY ProblemType, SlotTablesAssumption
<1>2. \A n : Sent(slots, start, n) = FlitSize * Cardinality(U(n)) - PacketHeaderSize * Cardinality(B(n))
  BY DEF Sent
<1> HIDE DEF size
<1>3. last \in Nat
  BY <1>1
<1>4. Cardinality(U(last)) \in Nat /\ Cardinality(B(last)) \in 0 .. Cardinality(U(last))
  <2>1. IsFiniteSet(0 .. last - 1)
    BY <1>3, FS_Interval
  <2>2. IsFiniteSet(U(last))
    BY <2>1, FS_Subset
  <2>3. B(last) \in SUBSET U(last)
    OBVIOUS
  <2> HIDE DEF B, U
  <2> QED
    BY <2>2, <2>3, FS_Subset, FS_CardinalityType
<1>5. Cardinality(U(last)) >= size
  <2>1. PICK i \in Slots : i \in slots
    OBVIOUS
  <2> DEFINE J == {j \in 0 .. SlotTableSize * size - 1 : (start + j) % SlotTableSize = i}
  <2>2. IsFiniteSet(J) /\ Cardinality(J) >= size
    BY <1>1, ComesRound
  <2>3. J \in SUBSET U(last)
    BY <2>1
  <2>4. IsFiniteSet(U(last))
    <3>1. IsFiniteSet(0 .. last - 1)
      BY <1>3, FS_Interval
    <3> QED
      BY <3>1, FS_Subset
  <2> HIDE DEF J, U
  <2>5. Cardinality(J) <= Cardinality(U(last)) /\ Cardinality(J) \in Nat
    BY <2>2, <2>3, <2>4, FS_Subset, FS_CardinalityType
  <2> QED
    BY <2>2, <2>5, <1>1, <1>4
<1>6. Sent(slots, start, last) >= size
  <2> DEFINE u == Cardinality(U(last))
             b == Cardinality(B(last))
  <2>1. u \in Nat /\ b \in 0 .. u /\ u >= size
    BY <1>4, <1>5
  <2>2. Sent(slots, start, last) = FlitSize * u - PacketHeaderSize * b
    BY <1>2
  <2> HIDE DEF u, b
  <2>3. PacketHeaderSize * b <= PacketHeaderSize * u
    BY <2>1, NoCAssumption
  <2>4. FlitSize * u >= (PacketHeaderSize + 1) * u
    BY <2>1, NoCAssumption
  <2>5. (PacketHeaderSize + 1) * u = PacketHeaderSize * u + u
    BY <2>1, NoCAssumption
  <2>6. PacketHeaderSize * u \in Nat /\ PacketHeaderSize * b \in Nat /\ FlitSize * u \in Nat
    BY <2>1, NoCAssumption
  <2> QED
    BY <2>1, <2>2, <2>3, <2>4, <2>5, <2>6, <1>1
<1>7. S \in SUBSET Nat /\ S # {}
  BY <1>3, <1>6
<1>8. 0 \notin S
  <2>1. U(0) = {} /\ B(0) = {}
    OBVIOUS
  <2>2. Sent(slots, start, 0) = FlitSize * Cardinality({}) - PacketHeaderSize * Cardinality({})
    BY <1>2, <2>1
  <2>3. Sent(slots, start, 0) = 0
    BY <2>2, FS_EmptySet, NoCAssumption
  <2> QED
    BY <2>3, <1>1
<1>9. Min(S) \in S
  BY <1>7, Smallest
<1>10. minimalDuration(m, start, slots) = 1 + Min(S)
  BY DEF minimalDuration, size
<1>11. Min(S) \in 0 .. last
  BY <1>9
<1> HIDE DEF S
<1>12. Min(S) \in Nat /\ Min(S) # 0
  BY <1>7, <1>8, <1>9
<1>13. last = SlotTableSize * Msg(m).size
  BY DEF size
<1> HIDE DEF last
<1> QED
  BY <1>3, <1>10, <1>11, <1>12, <1>13

-----------------------------------------------------------------------------
(* What is found for a message are slots of the table.                     *)
LEMMA SlotsOfType ==
    ASSUME NEW p, p.first \in Int, p.n \in Int
    PROVE  SlotsOf(p) \subseteq Slots
BY SlotTablesAssumption DEF SlotsOf, Slots

LEMMA PacketsType ==
    ASSUME NEW slots, NEW start \in Nat, NEW d \in Nat
    PROVE  findFreePackets(slots, start, d) \subseteq [first : Int, n : Int]
<1> DEFINE S == {i \in Slots \cap slots :
                    d < SlotTableSize => \E j \in 0 .. d - 1 : i = (start + j) % SlotTableSize}
           runs(i) == {n \in 1 .. SlotTableSize : SlotsOf([first |-> i, n |-> n]) \subseteq S}
<1>1. SlotTableSize \in Nat \ {0} /\ S \subseteq Slots /\ S \subseteq Int
  BY SlotTablesAssumption DEF Slots
<1>2. CASE S = Slots
  <2>1. findFreePackets(slots, start, d) = {[first |-> 0, n |-> SlotTableSize]}
    BY <1>2 DEF findFreePackets
  <2> QED
    BY <1>1, <2>1
<1>3. CASE S # Slots
  <2>1. findFreePackets(slots, start, d) =
           {[first |-> i, n |-> Max(runs(i))] : i \in {i \in S : (i - 1) % SlotTableSize \notin S}}
    BY <1>3 DEF findFreePackets
  <2>2. ASSUME NEW i \in S PROVE Max(runs(i)) \in Int
    <3>1. SlotsOf([first |-> i, n |-> 1]) \subseteq S
      <4>1. \A j \in 0 .. 0 : (i + j) % SlotTableSize = i
        BY <1>1 DEF Slots
      <4>2. SlotsOf([first |-> i, n |-> 1]) = {(i + j) % SlotTableSize : j \in 0 .. 0}
        BY DEF SlotsOf
      <4> QED
        BY <4>1, <4>2
    <3> HIDE DEF S
    <3>2. 1 \in runs(i)
      BY <1>1, <3>1
    <3>3. runs(i) \in SUBSET (0 .. SlotTableSize)
      BY <1>1
    <3> HIDE DEF runs
    <3>4. Max(runs(i)) \in runs(i)
      BY <1>1, <3>2, <3>3, Largest
    <3> QED
      BY <1>1, <3>3, <3>4
  <2> HIDE DEF runs, S
  <2> QED
    BY <1>1, <2>1, <2>2
<1> QED
  BY <1>2, <1>3

LEMMA AllocateType ==
    ASSUME NEW slots, NEW start \in Nat, NEW d \in Nat, NEW size \in Nat
    PROVE  AllocateSlots(slots, start, d, size) \subseteq Slots
<1> DEFINE packets == findFreePackets(slots, start, d)
           first(k) == {p \in packets : Cardinality({q \in packets : Larger(q, p)}) < k}
           taken(k) == MapThenSumSet(LAMBDA p : p.n, first(k))
           exact == {k \in 1 .. Cardinality(packets) : taken(k) = nrSlotsRequired(d, size, k)}
           one == nrSlotsRequired(d, size, 1)
           fewest == UNION {SlotsOf([p EXCEPT !.n = one]) : p \in first(1)}
           all == UNION {SlotsOf(p) : p \in first(Min(exact))}
<1>1. AllocateSlots(slots, start, d, size) =
         IF \E p \in first(1) : p.n > one THEN fewest ELSE IF exact = {} THEN {} ELSE all
  BY DEF AllocateSlots
<1>2. packets \subseteq [first : Int, n : Int]
  BY PacketsType
<1>3. one \in Int
  <2> DEFINE rot == d \div SlotTableSize
  <2>1. rot \in Nat /\ FlitSize \in Nat \ {0} /\ PacketHeaderSize \in Nat
    BY SlotTablesAssumption, NoCAssumption
  <2> HIDE DEF rot
  <2>2. \A x \in Int, y \in Nat \ {0} : CeilDiv(x, y) \in Int
    BY DEF CeilDiv
  <2>3. PacketHeaderSize * 1 + size \in Int /\ PacketHeaderSize * 1 * rot + size \in Int
    BY <2>1
  <2>4. one = IF rot = 0 THEN CeilDiv(PacketHeaderSize * 1 + size, FlitSize)
              ELSE CeilDiv(CeilDiv(PacketHeaderSize * 1 * rot + size, FlitSize), rot)
    BY DEF nrSlotsRequired, rot
  <2> HIDE DEF one
  <2>5. CASE rot = 0
    BY <2>1, <2>2, <2>3, <2>4, <2>5
  <2>6. CASE rot # 0
    <3>1. CeilDiv(PacketHeaderSize * 1 * rot + size, FlitSize) \in Int
      BY <2>1, <2>2, <2>3
    <3> QED
      BY <2>1, <2>2, <2>4, <2>6, <3>1
  <2> QED
    BY <2>5, <2>6
<1> HIDE DEF packets, one
<1>4. fewest \subseteq Slots
  <2> SUFFICES ASSUME NEW p \in packets PROVE SlotsOf([p EXCEPT !.n = one]) \subseteq Slots
    OBVIOUS
  <2>1. [p EXCEPT !.n = one].first \in Int /\ [p EXCEPT !.n = one].n \in Int
    BY <1>2, <1>3
  <2> QED
    BY <2>1, SlotsOfType
<1>5. all \subseteq Slots
  <2> SUFFICES ASSUME NEW p \in packets PROVE SlotsOf(p) \subseteq Slots
    OBVIOUS
  <2>1. p.first \in Int /\ p.n \in Int
    BY <1>2
  <2> QED
    BY <2>1, SlotsOfType
<1> HIDE DEF fewest, all, exact, first
<1> QED
  BY <1>1, <1>4, <1>5

LEMMA FoundType ==
    ASSUME NEW r, NEW start \in Nat, NEW d \in Nat, NEW size \in Nat
    PROVE  findSlotsOnRoute(r, start, d, size) \subseteq Slots
BY AllocateType DEF findSlotsOnRoute

-----------------------------------------------------------------------------
(* The tables of a link: one after the other they cover the period.        *)
TableType == [from : Nat, to : Nat, use : [Slots -> Int]]

Covers(T) ==
    /\ T \in Seq(TableType) /\ T # <<>>
    /\ T[1].from = 0 /\ T[Len(T)].to = Period - 1
    /\ \A n \in DOMAIN T : T[n].from <= T[n].to
    /\ \A n \in DOMAIN T : n > 1 => T[n - 1].to + 1 = T[n].from

(* No table is for times before t and from t on.                           *)
CutIn(T, t) == \A n \in DOMAIN T : ~(T[n].from < t /\ t <= T[n].to)

(* Every table of U is a part of one of T.                                 *)
PartOf(s, r) == r.from <= s.from /\ s.to <= r.to /\ s.use = r.use
PartsOf(U, T) == \A n \in DOMAIN U : \E k \in DOMAIN T : PartOf(U[n], T[k])

LEMMA CoversType ==
    ASSUME NEW T, Covers(T)
    PROVE  /\ DOMAIN T = 1 .. Len(T) /\ Len(T) \in Nat \ {0}
           /\ \A j \in 1 .. Len(T) : T[j] \in TableType
           /\ \A j \in 1 .. Len(T) : T[j].from \in Nat /\ T[j].to \in Nat /\ T[j].from <= T[j].to
           /\ \A j \in 1 .. Len(T) : j > 1 => T[j - 1].to + 1 = T[j].from
           /\ T[1].from = 0 /\ T[Len(T)].to = Period - 1
<1>1. T \in Seq(TableType) /\ T # <<>>
  BY DEF Covers
<1>2. DOMAIN T = 1 .. Len(T) /\ Len(T) \in Nat \ {0} /\ \A j \in 1 .. Len(T) : T[j] \in TableType
  BY <1>1
<1>3. \A r \in TableType : r.from \in Nat /\ r.to \in Nat
  BY DEF TableType
<1> QED
  BY <1>2, <1>3 DEF Covers

LEMMA TablesInOrder ==
    ASSUME NEW T, Covers(T), NEW n \in DOMAIN T, NEW k \in DOMAIN T, n < k
    PROVE  T[n].to < T[k].from
<1> DEFINE S == {j \in n + 1 .. Len(T) : ~(T[n].to < T[j].from)}
<1>1. /\ DOMAIN T = 1 .. Len(T) /\ Len(T) \in Nat
      /\ \A j \in 1 .. Len(T) : T[j].from \in Nat /\ T[j].to \in Nat /\ T[j].from <= T[j].to
      /\ \A j \in 1 .. Len(T) : j > 1 => T[j - 1].to + 1 = T[j].from
  BY CoversType
<1>2. ASSUME S # {} PROVE FALSE
  <2>1. S \in SUBSET Nat
    BY <1>1
  <2> DEFINE j == Min(S)
  <2>2. j \in S /\ \A i \in S : j <= i
    BY <1>2, <2>1, Smallest
  <2> HIDE DEF j
  <2>3. j \in 1 .. Len(T) /\ j > n /\ ~(T[n].to < T[j].from) /\ j - 1 \in 1 .. Len(T)
    BY <1>1, <2>2
  <2>4. T[j - 1].to + 1 = T[j].from
    BY <1>1, <2>3
  <2>5. CASE j = n + 1
    <3>1. j - 1 = n
      BY <2>5, <1>1
    <3> QED
      BY <1>1, <2>3, <2>4, <3>1
  <2>6. CASE j # n + 1
    <3>1. j - 1 \in n + 1 .. Len(T) /\ ~(j <= j - 1)
      BY <1>1, <2>3, <2>6
    <3>2. j - 1 \notin S
      BY <2>2, <3>1
    <3>3. T[n].to < T[j - 1].from
      BY <3>1, <3>2
    <3> QED
      BY <1>1, <2>3, <2>4, <3>3
  <2> QED
    BY <2>5, <2>6
<1>3. k \in n + 1 .. Len(T)
  BY <1>1
<1> QED
  BY <1>2, <1>3

LEMMA TableAt ==
    ASSUME NEW T, Covers(T), NEW x \in 0 .. Period - 1
    PROVE  \E n \in DOMAIN T : T[n].from <= x /\ x <= T[n].to
<1> DEFINE S == {j \in DOMAIN T : x <= T[j].to}
           n == Min(S)
<1>1. /\ DOMAIN T = 1 .. Len(T) /\ Len(T) \in Nat \ {0}
      /\ \A j \in 1 .. Len(T) : T[j].from \in Nat /\ T[j].to \in Nat /\ T[j].from <= T[j].to
      /\ \A j \in 1 .. Len(T) : j > 1 => T[j - 1].to + 1 = T[j].from
      /\ T[1].from = 0 /\ T[Len(T)].to = Period - 1
  BY CoversType
<1>2. S \in SUBSET Nat /\ Len(T) \in S
  BY <1>1, SlotTablesAssumption
<1>3. n \in S /\ \A j \in S : n <= j
  BY <1>2, Smallest
<1> HIDE DEF n
<1>4. T[n].from <= x
  <2>1. CASE n = 1
    BY <1>1, <2>1
  <2>2. CASE n # 1
    <3>1. n - 1 \in 1 .. Len(T) /\ n \in 1 .. Len(T) /\ n > 1 /\ ~(n <= n - 1)
      BY <1>1, <1>3, <2>2
    <3>2. ~(x <= T[n - 1].to)
      BY <1>1, <1>3, <3>1
    <3> QED
      BY <1>1, <3>1, <3>2, SlotTablesAssumption
  <2> QED
    BY <2>1, <2>2
<1> QED
  BY <1>3, <1>4

(* What CutAt makes of the table across t                                  *)
LEMMA CutIs ==
    ASSUME NEW T, Covers(T), NEW t, ~CutIn(T, t)
    PROVE  \E c \in DOMAIN T :
              /\ T[c].from < t /\ t <= T[c].to
              /\ CutAt(T, t) = [n \in 1 .. Len(T) + 1 |->
                                   IF n < c THEN T[n]
                                   ELSE IF n = c THEN [T[c] EXCEPT !.to = t - 1]
                                   ELSE IF n = c + 1 THEN [T[c] EXCEPT !.from = t]
                                   ELSE T[n - 1]]
<1> DEFINE across == {n \in DOMAIN T : T[n].from < t /\ t <= T[n].to}
           c == CHOOSE n \in across : TRUE
<1>1. across # {}
  BY DEF CutIn
<1>2. c \in across
  BY <1>1
<1>3. CutAt(T, t) = [n \in 1 .. Len(T) + 1 |->
                       IF n < c THEN T[n]
                       ELSE IF n = c THEN [T[c] EXCEPT !.to = t - 1]
                       ELSE IF n = c + 1 THEN [T[c] EXCEPT !.from = t]
                       ELSE T[n - 1]]
  <2>1. CutAt(T, t) = [n \in 1 .. Len(T) + 1 |->
                         IF n < c THEN T[n]
                         ELSE IF n = c THEN [T[n] EXCEPT !.to = t - 1]
                         ELSE IF n = c + 1 THEN [T[c] EXCEPT !.from = t]
                         ELSE T[n - 1]]
    BY <1>1 DEF CutAt
  <2> HIDE DEF c
  <2> QED
    BY <2>1
<1> HIDE DEF c
<1> QED
  BY <1>2, <1>3

LEMMA CutNothing ==
    ASSUME NEW T, NEW t, CutIn(T, t)
    PROVE  CutAt(T, t) = T
BY DEF CutAt, CutIn

(* A cut moves no use of a slot in time, and joins nothing.                *)
LEMMA CutKeeps ==
    ASSUME NEW T, Covers(T), NEW t \in Nat
    PROVE  /\ Covers(CutAt(T, t))
           /\ PartsOf(CutAt(T, t), T)
           /\ CutIn(CutAt(T, t), t)
           /\ \A u \in Nat : CutIn(T, u) => CutIn(CutAt(T, t), u)
<1>1. CASE CutIn(T, t)
  <2>1. CutAt(T, t) = T
    BY <1>1, CutNothing
  <2>2. PartsOf(T, T)
    <3>1. \A n \in DOMAIN T : T[n].from \in Nat /\ T[n].to \in Nat
      BY CoversType
    <3> QED
      BY <3>1 DEF PartsOf, PartOf
  <2> QED
    BY <1>1, <2>1, <2>2
<1>2. CASE ~CutIn(T, t)
  <2> DEFINE U == CutAt(T, t)
             L == Len(T)
  <2>1. PICK c \in DOMAIN T :
           /\ T[c].from < t /\ t <= T[c].to
           /\ U = [n \in 1 .. L + 1 |->
                      IF n < c THEN T[n]
                      ELSE IF n = c THEN [T[c] EXCEPT !.to = t - 1]
                      ELSE IF n = c + 1 THEN [T[c] EXCEPT !.from = t]
                      ELSE T[n - 1]]
    BY <1>2, CutIs
  <2>2. /\ DOMAIN T = 1 .. L /\ L \in Nat \ {0}
        /\ \A j \in 1 .. L : T[j] \in TableType
        /\ \A j \in 1 .. L : T[j].from \in Nat /\ T[j].to \in Nat /\ T[j].from <= T[j].to
        /\ \A j \in 1 .. L : j > 1 => T[j - 1].to + 1 = T[j].from
        /\ T[1].from = 0 /\ T[L].to = Period - 1
    BY CoversType
  <2> DEFINE left == [T[c] EXCEPT !.to = t - 1]
             right == [T[c] EXCEPT !.from = t]
  <2>3. /\ left \in TableType /\ left.from = T[c].from /\ left.to = t - 1 /\ left.use = T[c].use
        /\ right \in TableType /\ right.from = t /\ right.to = T[c].to /\ right.use = T[c].use
    <3>1. T[c] \in TableType /\ t - 1 \in Nat
      BY <2>1, <2>2
    <3> QED
      BY <3>1 DEF TableType
  <2>4. c \in 1 .. L
    BY <2>2
  <2> HIDE DEF left, right, U, L
  <2>5. /\ DOMAIN U = 1 .. L + 1
        /\ \A n \in 1 .. L + 1 : n < c => U[n] = T[n]
        /\ U[c] = left
        /\ U[c + 1] = right
        /\ \A n \in 1 .. L + 1 : n > c + 1 => U[n] = T[n - 1]
    <3>1. U = [n \in 1 .. L + 1 |-> IF n < c THEN T[n] ELSE IF n = c THEN left
                                   ELSE IF n = c + 1 THEN right ELSE T[n - 1]]
      BY <2>1 DEF left, right
    <3> QED
      BY <3>1, <2>2, <2>4
  <2>6. \A n \in 1 .. L + 1 : n < c \/ n = c \/ n = c + 1 \/ (n > c + 1 /\ n - 1 \in 1 .. L)
    BY <2>2, <2>4
  <2>7. \A n \in 1 .. L + 1 : U[n] \in TableType
    <3> SUFFICES ASSUME NEW n \in 1 .. L + 1 PROVE U[n] \in TableType
      OBVIOUS
    <3>1. CASE n < c
      <4>1. n \in 1 .. L
        BY <2>2, <2>4, <3>1
      <4> QED
        BY <2>2, <2>5, <3>1, <4>1
    <3>2. CASE n > c + 1
      BY <2>2, <2>5, <2>6, <2>4, <3>2
    <3>3. CASE n = c \/ n = c + 1
      BY <2>3, <2>5, <3>3
    <3> QED
      BY <2>6, <3>1, <3>2, <3>3
  <2>8. U \in Seq(TableType) /\ Len(U) = L + 1
    <3>1. U = [n \in 1 .. L + 1 |-> U[n]]
      BY <2>1, <2>5
    <3>2. U \in [1 .. L + 1 -> TableType] /\ L + 1 \in Nat
      BY <2>2, <2>7, <3>1
    <3> HIDE DEF TableType
    <3>3. U \in Seq(TableType)
      BY <3>2
    <3> QED
      BY <3>2, <3>3
  <2>9. \A n \in 1 .. L + 1 : U[n].from <= U[n].to
    BY <2>1, <2>2, <2>3, <2>4, <2>5, <2>6
  <2>10. \A n \in 1 .. L + 1 : n > 1 => U[n - 1].to + 1 = U[n].from
    <3> SUFFICES ASSUME NEW n \in 1 .. L + 1, n > 1 PROVE U[n - 1].to + 1 = U[n].from
      OBVIOUS
    <3>1. CASE n < c
      <4>1. n - 1 \in 1 .. L + 1 /\ n - 1 < c /\ n \in 1 .. L
        BY <2>2, <2>4, <3>1
      <4> QED
        BY <2>2, <2>5, <3>1, <4>1
    <3>2. CASE n = c
      <4>1. n - 1 \in 1 .. L + 1 /\ n - 1 < c /\ n \in 1 .. L
        BY <2>2, <2>4, <3>2
      <4> QED
        BY <2>2, <2>3, <2>5, <3>2, <4>1
    <3>3. CASE n = c + 1
      <4>1. n - 1 = c
        BY <2>4, <3>3
      <4> QED
        BY <2>3, <2>5, <3>3, <4>1
    <3>4. CASE n = c + 2
      <4>1. n - 1 = c + 1 /\ c + 1 \in 1 .. L /\ n > c + 1 /\ c + 1 > 1 /\ (c + 1) - 1 = c
        BY <2>2, <2>4, <3>4
      <4>2. U[n] = T[c + 1] /\ U[n - 1] = right
        BY <2>5, <4>1
      <4>3. T[c].to + 1 = T[c + 1].from
        BY <2>2, <4>1
      <4> QED
        BY <2>3, <4>2, <4>3
    <3>5. CASE n > c + 2
      <4>1. n - 1 \in 1 .. L /\ n - 1 > c + 1 /\ n > c + 1 /\ n - 1 > 1
        BY <2>2, <2>4, <3>5
      <4>2. U[n] = T[n - 1] /\ U[n - 1] = T[(n - 1) - 1]
        BY <2>2, <2>5, <4>1
      <4> QED
        BY <2>2, <4>1, <4>2
    <3> QED
      BY <2>4, <3>1, <3>2, <3>3, <3>4, <3>5
  <2>11. U[1].from = 0
    <3>1. CASE c = 1
      BY <2>2, <2>3, <2>5, <3>1
    <3>2. CASE c # 1
      BY <2>2, <2>4, <2>5, <3>2
    <3> QED
      BY <3>1, <3>2
  <2>12. U[L + 1].to = Period - 1
    <3>1. CASE c = L
      BY <2>2, <2>3, <2>5, <3>1
    <3>2. CASE c # L
      <4>1. L + 1 > c + 1 /\ (L + 1) - 1 = L /\ L + 1 \in 1 .. L + 1
        BY <2>2, <2>4, <3>2
      <4> QED
        BY <2>2, <2>5, <4>1
    <3> QED
      BY <3>1, <3>2
  <2>13. Covers(U)
    <3>1. U # <<>>
      BY <2>2, <2>8
    <3> QED
      BY <2>5, <2>8, <2>9, <2>10, <2>11, <2>12, <3>1 DEF Covers
  <2>14. PartsOf(U, T)
    <3> SUFFICES ASSUME NEW n \in 1 .. L + 1
                 PROVE  \E k \in DOMAIN T : PartOf(U[n], T[k])
      BY <2>5 DEF PartsOf
    <3>1. CASE n < c
      <4>1. n \in DOMAIN T /\ U[n] = T[n] /\ T[n].from \in Nat /\ T[n].to \in Nat
        BY <2>2, <2>4, <2>5, <3>1
      <4> QED
        BY <4>1 DEF PartOf
    <3>2. CASE n = c
      BY <2>1, <2>2, <2>3, <2>4, <2>5, <3>2 DEF PartOf
    <3>3. CASE n = c + 1
      BY <2>1, <2>2, <2>3, <2>4, <2>5, <3>3 DEF PartOf
    <3>4. CASE n > c + 1
      <4>1. n - 1 \in DOMAIN T /\ U[n] = T[n - 1] /\ T[n - 1].from \in Nat /\ T[n - 1].to \in Nat
        BY <2>2, <2>4, <2>5, <2>6, <3>4
      <4> QED
        BY <4>1 DEF PartOf
    <3> QED
      BY <2>6, <3>1, <3>2, <3>3, <3>4
  <2>15. CutIn(U, t)
    <3> SUFFICES ASSUME NEW n \in 1 .. L + 1 PROVE ~(U[n].from < t /\ t <= U[n].to)
      BY <2>5 DEF CutIn
    <3>1. CASE n < c
      <4>1. n \in DOMAIN T /\ c \in DOMAIN T /\ U[n] = T[n]
        BY <2>2, <2>4, <2>5, <3>1
      <4>2. T[n].to < T[c].from
        BY <3>1, <4>1, TablesInOrder
      <4> QED
        BY <2>1, <2>2, <4>1, <4>2
    <3>2. CASE n = c
      BY <2>3, <2>5, <3>2
    <3>3. CASE n = c + 1
      BY <2>3, <2>5, <3>3
    <3>4. CASE n > c + 1
      <4>1. n - 1 \in DOMAIN T /\ c \in DOMAIN T /\ U[n] = T[n - 1] /\ c < n - 1
        BY <2>2, <2>4, <2>5, <2>6, <3>4
      <4>2. T[c].to < T[n - 1].from
        BY <4>1, TablesInOrder
      <4> QED
        BY <2>1, <2>2, <4>1, <4>2
    <3> QED
      BY <2>6, <3>1, <3>2, <3>3, <3>4
  <2>16. \A u \in Nat : CutIn(T, u) => CutIn(U, u)
    <3> SUFFICES ASSUME NEW u \in Nat, CutIn(T, u), NEW n \in DOMAIN U
                 PROVE  ~(U[n].from < u /\ u <= U[n].to)
      BY DEF CutIn
    <3>1. PICK k \in DOMAIN T : PartOf(U[n], T[k])
      BY <2>14 DEF PartsOf
    <3>2. ~(T[k].from < u /\ u <= T[k].to)
      BY DEF CutIn
    <3>3. U[n].from \in Nat /\ U[n].to \in Nat
      BY <2>5, <2>7 DEF TableType
    <3> QED
      BY <2>2, <3>1, <3>2, <3>3 DEF PartOf
  <2> QED
    BY <2>13, <2>14, <2>15, <2>16 DEF U
<1> QED
  BY <1>1, <1>2

-----------------------------------------------------------------------------
(* Claims on a link                                                        *)
Within(x, f) == IF f.loop THEN x <= f.last \/ x >= f.first ELSE f.first <= x /\ x <= f.last

LEMMA PartsOfParts ==
    ASSUME NEW S, NEW U, NEW T, Covers(S), Covers(U), Covers(T), PartsOf(S, U), PartsOf(U, T)
    PROVE  PartsOf(S, T)
<1> SUFFICES ASSUME NEW n \in DOMAIN S PROVE \E k \in DOMAIN T : PartOf(S[n], T[k])
  BY DEF PartsOf
<1>1. PICK j \in DOMAIN U : PartOf(S[n], U[j])
  BY DEF PartsOf
<1>2. PICK k \in DOMAIN T : PartOf(U[j], T[k])
  BY DEF PartsOf
<1>3. /\ S[n].from \in Nat /\ S[n].to \in Nat /\ U[j].from \in Nat /\ U[j].to \in Nat
      /\ T[k].from \in Nat /\ T[k].to \in Nat
  BY CoversType
<1> QED
  BY <1>1, <1>2, <1>3 DEF PartOf

(* A frame that ends at the time at which it begins is cut at its end only.*)
LEMMA CutForFrameKeeps ==
    ASSUME NEW T, Covers(T), NEW f, f.first \in Nat, f.last \in Nat
    PROVE  /\ Covers(CutForFrame(T, f))
           /\ PartsOf(CutForFrame(T, f), T)
           /\ f.first # f.last => CutIn(CutForFrame(T, f), f.first)
           /\ CutIn(CutForFrame(T, f), f.last + 1)
           /\ \A u \in Nat : CutIn(T, u) => CutIn(CutForFrame(T, f), u)
<1> DEFINE U == IF f.loop /\ f.first = f.last THEN T ELSE CutAt(T, f.first)
           S == CutAt(U, f.last + 1)
<1>1. /\ Covers(U) /\ PartsOf(U, T) /\ (f.first # f.last => CutIn(U, f.first))
      /\ \A u \in Nat : CutIn(T, u) => CutIn(U, u)
  <2>1. CASE f.loop /\ f.first = f.last
    <3>1. \A n \in DOMAIN T : T[n].from \in Nat /\ T[n].to \in Nat
      BY CoversType
    <3>2. PartsOf(T, T)
      BY <3>1 DEF PartsOf, PartOf
    <3> QED
      BY <2>1, <3>2
  <2>2. CASE ~(f.loop /\ f.first = f.last)
    BY <2>2, CutKeeps
  <2> QED
    BY <2>1, <2>2
<1>2. CutForFrame(T, f) = S
  BY DEF CutForFrame
<1> HIDE DEF U
<1>3. f.last + 1 \in Nat
  OBVIOUS
<1>4. /\ Covers(S) /\ PartsOf(S, U) /\ CutIn(S, f.last + 1)
      /\ \A u \in Nat : CutIn(U, u) => CutIn(S, u)
  BY <1>1, <1>3, CutKeeps
<1> HIDE DEF S
<1>5. PartsOf(S, T)
  BY <1>1, <1>4, PartsOfParts
<1> QED
  BY <1>1, <1>2, <1>4, <1>5

(* After the cuts a table is in the frame with all its times, or with none.*)
LEMMA InFrameIs ==
    ASSUME NEW U, Covers(U), NEW f, f.first \in Nat, f.last \in Nat,
           CutIn(U, f.first), CutIn(U, f.last + 1),
           NEW n \in DOMAIN U, NEW x \in U[n].from .. U[n].to
    PROVE  InFrame(U[n], f) <=> Within(x, f)
<1>1. U[n].from \in Nat /\ U[n].to \in Nat
  BY CoversType
<1>2. /\ ~(U[n].from < f.first /\ f.first <= U[n].to)
      /\ ~(U[n].from < f.last + 1 /\ f.last + 1 <= U[n].to)
  BY DEF CutIn
<1> QED
  BY <1>1, <1>2 DEF InFrame, Within

(* The entity e claims slot i of link l at time x.                         *)
Claims(e, l, x, i) ==
    \E k \in DOMAIN e.route :
        e.route[k] = l /\ i \in Shifted(e.slots, k - 1) /\ Within(x, Frame(e, k - 1))

(* A table s says at all its times what the entities E claim.              *)
Tells(s, l, E) ==
    \A i \in Slots :
        /\ s.use[i] \in {Free, Elsewhere} \cup DOMAIN E
        /\ \A m \in DOMAIN E : \A x \in s.from .. s.to : s.use[i] = m <=> Claims(E[m], l, x, i)

(* Tables stay cut where a claim begins: releaseSlots relies on it.        *)
CutForClaims(T, l, E) ==
    \A m \in DOMAIN E : \A k \in DOMAIN E[m].route :
        E[m].route[k] = l => CutIn(T, Frame(E[m], k - 1).first)

Matches(T, l, E) ==
    /\ Covers(T)
    /\ \A n \in DOMAIN T : Tells(T[n], l, E)
    /\ CutForClaims(T, l, E)

IsEntity(e) ==
    /\ e \in [start : Nat, dur : Nat, slots : SUBSET Slots, route : Seq(Links)]
    /\ IsRoute(e.route) /\ e.dur >= 2

LEMMA FrameType ==
    ASSUME NEW e, IsEntity(e), NEW k \in Nat
    PROVE  /\ Frame(e, k).first \in 0 .. Period - 1
           /\ Frame(e, k).last \in 0 .. Period - 1
           /\ Frame(e, k).loop \in BOOLEAN
           /\ Frame(e, k).loop <=> Frame(e, k).first >= Frame(e, k).last
<1>1. e.start + k \in Nat /\ e.start + k + e.dur - 1 \in Int /\ e.dur # 1 /\ Period \in Nat \ {0}
  BY SlotTablesAssumption DEF IsEntity
<1> DEFINE a == e.start + k
           b == e.start + k + e.dur - 1
<1>2. Frame(e, k) = [first |-> a % Period, last |-> b % Period,
                     loop |-> Loops(a % Period, b % Period, e.dur)]
  BY DEF Frame
<1>3. a \in Int /\ b \in Int
  BY <1>1
<1> HIDE DEF a, b
<1>4. a % Period \in 0 .. Period - 1 /\ b % Period \in 0 .. Period - 1
  BY <1>1, <1>3, RemainderOfSum
<1>5. Loops(a % Period, b % Period, e.dur) <=> a % Period >= b % Period
  BY <1>1 DEF Loops
<1>6. Loops(a % Period, b % Period, e.dur) \in BOOLEAN
  BY DEF Loops
<1> QED
  BY <1>2, <1>4, <1>5, <1>6

LEMMA OnLink ==
    ASSUME NEW e, IsEntity(e), NEW k \in DOMAIN e.route, NEW x, NEW i
    PROVE  /\ k - 1 \in Nat
           /\ Claims(e, e.route[k], x, i)
                <=> i \in Shifted(e.slots, k - 1) /\ Within(x, Frame(e, k - 1))
<1>1. k - 1 \in Nat
  BY DEF IsEntity, IsRoute
<1>2. \A j \in DOMAIN e.route : e.route[j] = e.route[k] => j = k
  BY DEF IsEntity, IsRoute
<1> QED
  BY <1>1, <1>2 DEF Claims

LEMMA SameTimes ==
    ASSUME NEW s, NEW r, PartOf(s, r), NEW l, NEW E, Tells(r, l, E),
           s.from \in Nat, s.to \in Nat, r.from \in Nat, r.to \in Nat
    PROVE  Tells(s, l, E)
<1>1. s.use = r.use /\ \A x \in s.from .. s.to : x \in r.from .. r.to
  BY DEF PartOf
<1> QED
  BY <1>1 DEF Tells

(* Only the use of slots changes.                                          *)
LEMMA CoversSame ==
    ASSUME NEW U, Covers(U), NEW R, DOMAIN R = DOMAIN U, R = [n \in DOMAIN U |-> R[n]],
           \A n \in DOMAIN U : /\ R[n] \in TableType
                               /\ R[n].from = U[n].from /\ R[n].to = U[n].to
    PROVE  /\ Covers(R)
           /\ \A u : CutIn(U, u) <=> CutIn(R, u)
<1> DEFINE L == Len(U)
<1>1. DOMAIN U = 1 .. L /\ L \in Nat \ {0}
  BY CoversType
<1>2. R \in Seq(TableType) /\ R # <<>> /\ Len(R) = L
  <2> HIDE DEF TableType, L
  <2>1. R \in [1 .. L -> TableType]
    BY <1>1
  <2>2. R \in Seq(TableType)
    BY <1>1, <2>1
  <2>3. Len(R) = L
    BY <1>1, <2>2
  <2> QED
    BY <1>1, <2>2, <2>3
<1>3. /\ R[1].from = 0 /\ R[L].to = Period - 1
      /\ \A n \in 1 .. L : R[n].from <= R[n].to
      /\ \A n \in 1 .. L : n > 1 => R[n - 1].to + 1 = R[n].from
  <2> HIDE DEF TableType
  <2>1. \A n \in 1 .. L : n > 1 => n - 1 \in 1 .. L
    BY <1>1
  <2> QED
    BY <1>1, <2>1, CoversType
<1>4. Covers(R)
  BY <1>1, <1>2, <1>3 DEF Covers
<1>5. \A u : CutIn(U, u) <=> CutIn(R, u)
  BY DEF CutIn
<1> QED
  BY <1>4, <1>5

AreEntities(E) == \A m \in DOMAIN E : E[m] = NoEntity \/ IsEntity(E[m])

LEMMA NoClaims ==
    /\ \A l, x, i : ~Claims(NoEntity, l, x, i)
    /\ DOMAIN NoEntity.route = {}
BY DEF NoEntity, Claims

(* The start of the frame of a claim is a time.                            *)
LEMMA ClaimStart ==
    ASSUME NEW E, AreEntities(E), NEW m \in DOMAIN E, NEW k \in DOMAIN E[m].route
    PROVE  /\ IsEntity(E[m]) /\ k - 1 \in Nat
           /\ Frame(E[m], k - 1).first \in Nat
<1>1. IsEntity(E[m])
  BY NoClaims DEF AreEntities
<1>2. k - 1 \in Nat
  BY <1>1, OnLink
<1> QED
  BY <1>1, <1>2, FrameType

(* The frame of an entity of at most a period, and the time after it       *)
LEMMA NextIs ==
    ASSUME NEW e, IsEntity(e), e.dur <= Period, NEW k \in Nat
    PROVE  LET f == Frame(e, k)
           IN  /\ f.first # f.last
               /\ (e.start + k + e.dur) % Period = IF f.last = Period - 1 THEN 0 ELSE f.last + 1
<1> DEFINE f == Frame(e, k)
           a == e.start + k
           d == e.dur - 1
           p == Period
<1>1. a \in Nat /\ d \in Nat /\ d >= 1 /\ d < p /\ p \in Nat \ {0}
  BY SlotTablesAssumption DEF IsEntity
<1>2. e.start \in Nat /\ e.dur \in Nat
  BY DEF IsEntity
<1>3. e.start + k + e.dur - 1 = a + d /\ e.start + k + e.dur = (a + d) + 1
  BY <1>2
<1>4. f.first = a % p /\ f.last = (a + d) % p
  BY <1>3 DEF Frame
<1> HIDE DEF f, a, d, p
<1>5. f.first \in 0 .. p - 1 /\ (a + d) % p = (f.first + d) % p
  <2>1. a \in Int /\ d \in Int
    BY <1>1
  <2>2. (a + d) % p = ((a % p) + d) % p /\ a % p \in 0 .. p - 1
    BY <1>1, <2>1, RemainderOfSum
  <2> QED
    BY <1>4, <2>2
<1>6. (f.first + d) % p = IF f.first + d < p THEN f.first + d ELSE f.first + d - p
  <2> DEFINE x == f.first + d
  <2>1. x \in Nat /\ x < 2 * p
    BY <1>1, <1>5
  <2> HIDE DEF x
  <2>2. CASE x < p
    <3>1. x = 0 * p + x /\ x \in 0 .. p - 1
      BY <1>1, <2>1, <2>2
    <3>2. x % p = x
      BY <1>1, <3>1, Remainder
    <3> QED
      BY <2>2, <3>2 DEF x
  <2>3. CASE ~(x < p)
    <3> DEFINE y == x - p
    <3>1. x = 1 * p + y /\ y \in 0 .. p - 1
      BY <1>1, <2>1, <2>3
    <3> HIDE DEF y
    <3>2. x % p = y
      BY <1>1, <3>1, Remainder
    <3>3. x - p = f.first + d - p
      BY <1>1, <1>5 DEF x
    <3>4. x % p = f.first + d - p
      BY <3>2, <3>3 DEF y
    <3> QED
      BY <2>3, <3>4 DEF x
  <2> QED
    BY <2>2, <2>3
<1>7. f.first # f.last
  BY <1>1, <1>4, <1>5, <1>6
<1>8. f.last \in 0 .. p - 1 /\ ((a + d) + 1) % p = (f.last + 1) % p
  <2>1. a + d \in Int /\ 1 \in Int
    BY <1>1
  <2>2. ((a + d) + 1) % p = (((a + d) % p) + 1) % p /\ (a + d) % p \in 0 .. p - 1
    BY <1>1, <2>1, RemainderOfSum
  <2> QED
    BY <1>4, <2>2
<1>9. (f.last + 1) % p = IF f.last = p - 1 THEN 0 ELSE f.last + 1
  <2> DEFINE x == f.last + 1
  <2>1. CASE f.last = p - 1
    <3>1. x = 1 * p + 0 /\ 0 \in 0 .. p - 1
      BY <1>1, <2>1
    <3> HIDE DEF x
    <3>2. x % p = 0
      BY <1>1, <3>1, Remainder
    <3> QED
      BY <2>1, <3>2 DEF x
  <2>2. CASE f.last # p - 1
    <3>1. x = 0 * p + x /\ x \in 0 .. p - 1
      BY <1>1, <1>8, <2>2
    <3> HIDE DEF x
    <3>2. x % p = x
      BY <1>1, <3>1, Remainder
    <3> QED
      BY <2>2, <3>2 DEF x
  <2> QED
    BY <2>1, <2>2
<1> QED
  BY <1>3, <1>7, <1>8, <1>9 DEF f, p

(* The tables of a link do what a new claim of at most a period asks, when *)
(* its slots are free.                                                     *)
LEMMA ReserveMatches ==
    ASSUME NEW T, NEW l, NEW E, Matches(T, l, E), AreEntities(E),
           DOMAIN E \subseteq Nat \ {0}, NEW m \in DOMAIN E, E[m] = NoEntity,
           NEW e, IsEntity(e), e.dur <= Period, NEW k \in DOMAIN e.route, e.route[k] = l,
           ~Conflict(T, Shifted(e.slots, k - 1), Frame(e, k - 1))
    PROVE  Matches(reserveSlots(T, m, Shifted(e.slots, k - 1), Frame(e, k - 1)), l,
                   [E EXCEPT ![m] = e])
<1> DEFINE f == Frame(e, k - 1)
           S == Shifted(e.slots, k - 1)
           U == CutForFrame(T, f)
           R == reserveSlots(T, m, S, f)
           F == [E EXCEPT ![m] = e]
           claimed(s) == [s EXCEPT !.use = [i \in Slots |-> IF i \in S THEN m ELSE @[i]]]
<1>1. f.first \in Nat /\ f.last \in Nat /\ k - 1 \in Nat /\ f.first # f.last
  <2>1. k - 1 \in Nat
    BY OnLink
  <2>2. f.first \in 0 .. Period - 1 /\ f.last \in 0 .. Period - 1 /\ f.first # f.last
    BY <2>1, FrameType, NextIs
  <2> HIDE DEF f
  <2> QED
    BY <2>1, <2>2
<1>2. R = [n \in DOMAIN U |-> IF InFrame(U[n], f) THEN claimed(U[n]) ELSE U[n]]
  BY DEF reserveSlots
<1>3. \A n \in DOMAIN U : InFrame(U[n], f) => \A i \in S : U[n].use[i] = Free
  BY DEF Conflict, Taken
<1>4. ASSUME NEW x, NEW i PROVE Claims(e, l, x, i) <=> i \in S /\ Within(x, f)
  BY OnLink
<1>5. DOMAIN F = DOMAIN E /\ F[m] = e /\ \A a \in DOMAIN E : a # m => F[a] = E[a]
  OBVIOUS
<1> HIDE DEF f, S, F
<1>6. /\ Covers(U) /\ PartsOf(U, T) /\ CutIn(U, f.first) /\ CutIn(U, f.last + 1)
      /\ \A u \in Nat : CutIn(T, u) => CutIn(U, u)
  BY <1>1, CutForFrameKeeps DEF Matches
<1> HIDE DEF U
<1>7. ASSUME NEW n \in DOMAIN U PROVE Tells(U[n], l, E)
  <2>1. PICK j \in DOMAIN T : PartOf(U[n], T[j])
    BY <1>6 DEF PartsOf
  <2>2. /\ U[n].from \in Nat /\ U[n].to \in Nat
        /\ T[j].from \in Nat /\ T[j].to \in Nat
    BY <1>6, CoversType DEF Matches
  <2>3. Tells(T[j], l, E)
    BY DEF Matches
  <2> QED
    BY <2>1, <2>2, <2>3, SameTimes
<1>8. ASSUME NEW n \in DOMAIN U
      PROVE  /\ R[n] \in TableType
             /\ R[n].from = U[n].from /\ R[n].to = U[n].to
             /\ \A i \in Slots : R[n].use[i] = IF InFrame(U[n], f) /\ i \in S THEN m ELSE U[n].use[i]
  <2>1. U[n] \in TableType
    BY <1>6, CoversType
  <2>2. m \in Int
    OBVIOUS
  <2>3. CASE InFrame(U[n], f)
    <3>1. R[n] = claimed(U[n])
      BY <1>2, <2>3
    <3> HIDE DEF R
    <3>2. claimed(U[n]) \in TableType
      BY <2>1, <2>2 DEF TableType
    <3>3. /\ claimed(U[n]).from = U[n].from /\ claimed(U[n]).to = U[n].to
          /\ claimed(U[n]).use = [i \in Slots |-> IF i \in S THEN m ELSE U[n].use[i]]
      BY <2>1 DEF TableType
    <3> HIDE DEF claimed
    <3> QED
      BY <2>3, <3>1, <3>2, <3>3
  <2>4. CASE ~InFrame(U[n], f)
    <3>1. R[n] = U[n]
      BY <1>2, <2>4
    <3> QED
      BY <2>1, <2>4, <3>1
  <2> QED
    BY <2>3, <2>4
<1>9. DOMAIN R = DOMAIN U /\ R = [n \in DOMAIN U |-> R[n]]
  BY <1>2
<1> HIDE DEF R
<1>10. Covers(R) /\ \A u : CutIn(U, u) <=> CutIn(R, u)
  BY <1>6, <1>8, <1>9, CoversSame
<1>11. ASSUME NEW n \in DOMAIN R PROVE Tells(R[n], l, F)
  <2>1. n \in DOMAIN U /\ Tells(U[n], l, E)
    BY <1>7, <1>9
  <2> SUFFICES ASSUME NEW i \in Slots
               PROVE  /\ R[n].use[i] \in {Free, Elsewhere} \cup DOMAIN E
                      /\ \A a \in DOMAIN E : \A x \in U[n].from .. U[n].to :
                            R[n].use[i] = a <=> Claims(F[a], l, x, i)
    BY <1>5, <1>8, <2>1 DEF Tells
  <2>2. /\ U[n].use[i] \in {Free, Elsewhere} \cup DOMAIN E
        /\ \A a \in DOMAIN E : \A x \in U[n].from .. U[n].to :
              U[n].use[i] = a <=> Claims(E[a], l, x, i)
    BY <2>1 DEF Tells
  <2>3. \A x \in U[n].from .. U[n].to : InFrame(U[n], f) <=> Within(x, f)
    BY <1>1, <1>6, <2>1, InFrameIs
  <2>4. CASE InFrame(U[n], f) /\ i \in S
    <3>1. R[n].use[i] = m /\ U[n].use[i] = Free
      BY <1>3, <1>8, <2>1, <2>4
    <3>2. ASSUME NEW a \in DOMAIN E, NEW x \in U[n].from .. U[n].to
          PROVE  m = a <=> Claims(F[a], l, x, i)
      <4>1. CASE a = m
        BY <1>4, <1>5, <2>3, <2>4, <4>1
      <4>2. CASE a # m
        <5>1. a # Free
          BY DEF Free
        <5> QED
          BY <1>5, <2>2, <3>1, <4>2, <5>1
      <4> QED
        BY <4>1, <4>2
    <3> QED
      BY <3>1, <3>2
  <2>5. CASE ~(InFrame(U[n], f) /\ i \in S)
    <3>1. R[n].use[i] = U[n].use[i]
      BY <1>8, <2>1, <2>5
    <3>2. ASSUME NEW a \in DOMAIN E, NEW x \in U[n].from .. U[n].to
          PROVE  U[n].use[i] = a <=> Claims(F[a], l, x, i)
      <4>1. CASE a = m
        <5>1. ~Claims(e, l, x, i)
          BY <1>4, <2>3, <2>5
        <5>2. ~Claims(E[m], l, x, i)
          BY NoClaims
        <5> QED
          BY <1>5, <2>2, <4>1, <5>1, <5>2
      <4>2. CASE a # m
        BY <1>5, <2>2, <4>2
      <4> QED
        BY <4>1, <4>2
    <3> QED
      BY <2>2, <3>1, <3>2
  <2> QED
    BY <2>4, <2>5
<1>12. CutForClaims(R, l, F)
  <2> SUFFICES ASSUME NEW a \in DOMAIN E, NEW j \in DOMAIN F[a].route, F[a].route[j] = l
               PROVE  CutIn(U, Frame(F[a], j - 1).first)
    BY <1>5, <1>10 DEF CutForClaims
  <2>1. CASE a = m
    <3>1. F[a] = e /\ j = k
      BY <1>5, <2>1 DEF IsEntity, IsRoute
    <3> QED
      BY <1>6, <3>1 DEF f
  <2>2. CASE a # m
    <3>1. F[a] = E[a]
      BY <1>5, <2>2
    <3>2. CutIn(T, Frame(E[a], j - 1).first)
      BY <3>1 DEF Matches, CutForClaims
    <3>3. Frame(E[a], j - 1).first \in Nat
      BY <3>1, ClaimStart
    <3> QED
      BY <1>6, <3>1, <3>2, <3>3
  <2> QED
    BY <2>1, <2>2
<1>13. Matches(R, l, F)
  BY <1>10, <1>11, <1>12 DEF Matches
<1> QED
  BY <1>13 DEF R, S, f, F

(* releaseSlots reaches every table in which the entity has slots, if it   *)
(* takes no longer than a period.                                          *)
LEMMA ReleaseMatches ==
    ASSUME NEW T, NEW l, NEW E, Matches(T, l, E), AreEntities(E),
           DOMAIN E \subseteq Nat \ {0}, NEW m \in DOMAIN E, IsEntity(E[m]), E[m].dur <= Period,
           NEW k \in DOMAIN E[m].route, E[m].route[k] = l
    PROVE  Matches(releaseSlots(T, m, E[m], k - 1), l, [E EXCEPT ![m] = NoEntity])
<1> DEFINE e == E[m]
           f == Frame(e, k - 1)
           next == (e.start + (k - 1) + e.dur) % Period
           loop == Loops(f.first, next, e.dur)
           in(s) == \/ s.from >= f.first /\ (loop \/ s.from <= next)
                    \/ loop /\ next >= s.to
           freed(s) == [s EXCEPT !.use = [i \in Slots |-> IF @[i] = m THEN Free ELSE @[i]]]
           R == releaseSlots(T, m, e, k - 1)
           F == [E EXCEPT ![m] = NoEntity]
<1>1. k - 1 \in Nat
  BY OnLink
<1>2. R = [n \in DOMAIN T |-> IF in(T[n]) THEN freed(T[n]) ELSE T[n]]
  <2>1. f.first = (e.start + (k - 1)) % Period
    BY DEF Frame
  <2> QED
    BY <2>1 DEF releaseSlots
<1>3. /\ f.first \in Nat /\ f.first <= Period - 1
      /\ f.last \in Nat /\ f.last <= Period - 1 /\ Period \in Nat \ {0}
      /\ f.loop <=> f.first >= f.last
      /\ f.first # f.last
      /\ next = IF f.last = Period - 1 THEN 0 ELSE f.last + 1
      /\ loop <=> f.first >= next
  <2>1. /\ f.first \in 0 .. Period - 1 /\ f.last \in 0 .. Period - 1
        /\ f.loop <=> f.first >= f.last
    BY <1>1, FrameType
  <2>2. f.first # f.last /\ next = IF f.last = Period - 1 THEN 0 ELSE f.last + 1
    BY <1>1, NextIs
  <2>3. e.dur # 1
    BY DEF IsEntity
  <2>4. loop <=> f.first >= next
    BY <2>3 DEF Loops
  <2> HIDE DEF f, next, loop
  <2> QED
    BY <2>1, <2>2, <2>4, SlotTablesAssumption
<1>4. CutIn(T, f.first)
  BY DEF Matches, CutForClaims
<1>5. ASSUME NEW x, NEW i PROVE Claims(e, l, x, i) => Within(x, f)
  BY OnLink
<1>6. Covers(T) /\ \A n \in DOMAIN T : Tells(T[n], l, E)
  BY DEF Matches
<1>7. DOMAIN F = DOMAIN E /\ F[m] = NoEntity /\ \A a \in DOMAIN E : a # m => F[a] = E[a]
  OBVIOUS
<1> HIDE DEF e, f, next, loop, F
<1>8. ASSUME NEW n \in DOMAIN T, NEW i \in Slots, T[n].use[i] = m
      PROVE  in(T[n])
  <2>1. T[n].from \in Nat /\ T[n].to \in Nat /\ T[n].from <= T[n].to
    BY <1>6, CoversType
  <2>2. T[n].from \in T[n].from .. T[n].to /\ T[n].to \in T[n].from .. T[n].to
    BY <2>1
  <2>3. Claims(e, l, T[n].from, i) /\ Claims(e, l, T[n].to, i)
    BY <1>6, <1>8, <2>2 DEF Tells, e
  <2>4. Within(T[n].from, f) /\ Within(T[n].to, f)
    BY <1>5, <2>3
  <2>5. ~(T[n].from < f.first /\ f.first <= T[n].to)
    BY <1>4 DEF CutIn
  <2>6. CASE ~f.loop
    <3>1. T[n].from >= f.first /\ T[n].from <= f.last
      BY <2>4, <2>6 DEF Within
    <3>2. f.first < f.last
      BY <1>3, <2>6
    <3>3. loop \/ T[n].from <= next
      BY <1>3, <2>1, <3>1, <3>2
    <3> QED
      BY <3>1, <3>3
  <2>7. CASE f.loop
    <3>1. /\ T[n].from <= f.last \/ T[n].from >= f.first
          /\ T[n].to <= f.last \/ T[n].to >= f.first
      BY <2>4, <2>7 DEF Within
    <3>2. f.first > f.last
      BY <1>3, <2>7
    <3>3. f.last # Period - 1
      <4>1. f.first <= Period - 1
        BY <1>3
      <4> QED
        BY <1>3, <3>2, <4>1
    <3>4. next = f.last + 1 /\ loop
      BY <1>3, <3>2, <3>3
    <3>5. T[n].from >= f.first \/ T[n].to <= f.last
      BY <1>3, <2>1, <2>5, <3>1
    <3>6. T[n].from >= f.first \/ next >= T[n].to
      BY <1>3, <2>1, <3>4, <3>5
    <3> QED
      BY <3>4, <3>6
  <2> QED
    BY <2>6, <2>7
<1>9. ASSUME NEW n \in DOMAIN T
      PROVE  /\ R[n] \in TableType
             /\ R[n].from = T[n].from /\ R[n].to = T[n].to
             /\ \A i \in Slots : R[n].use[i] = IF T[n].use[i] = m THEN Free ELSE T[n].use[i]
  <2>1. T[n] \in TableType
    BY <1>6, CoversType
  <2>2. CASE in(T[n])
    <3>1. R[n] = freed(T[n])
      BY <1>2, <2>2
    <3> HIDE DEF R, in
    <3>2. freed(T[n]) \in TableType
      BY <2>1 DEF TableType, Free
    <3>3. /\ freed(T[n]).from = T[n].from /\ freed(T[n]).to = T[n].to
          /\ freed(T[n]).use = [i \in Slots |-> IF T[n].use[i] = m THEN Free ELSE T[n].use[i]]
      BY <2>1 DEF TableType
    <3> HIDE DEF freed
    <3> QED
      BY <3>1, <3>2, <3>3
  <2>3. CASE ~in(T[n])
    <3>1. R[n] = T[n]
      BY <1>2, <2>3
    <3>2. \A i \in Slots : T[n].use[i] # m
      BY <1>8, <2>3
    <3> HIDE DEF R
    <3> QED
      BY <2>1, <3>1, <3>2
  <2> QED
    BY <2>2, <2>3
<1>10. DOMAIN R = DOMAIN T /\ R = [n \in DOMAIN T |-> R[n]]
  BY <1>2
<1> HIDE DEF R, in, freed
<1>11. Covers(R) /\ \A u : CutIn(T, u) <=> CutIn(R, u)
  BY <1>6, <1>9, <1>10, CoversSame
<1>12. ASSUME NEW n \in DOMAIN R PROVE Tells(R[n], l, F)
  <2> SUFFICES ASSUME NEW i \in Slots
               PROVE  /\ R[n].use[i] \in {Free, Elsewhere} \cup DOMAIN E
                      /\ \A a \in DOMAIN E : \A x \in T[n].from .. T[n].to :
                            R[n].use[i] = a <=> Claims(F[a], l, x, i)
    BY <1>7, <1>9, <1>10 DEF Tells
  <2>1. /\ T[n].use[i] \in {Free, Elsewhere} \cup DOMAIN E
        /\ \A a \in DOMAIN E : \A x \in T[n].from .. T[n].to :
              T[n].use[i] = a <=> Claims(E[a], l, x, i)
    BY <1>6, <1>10 DEF Tells
  <2>2. R[n].use[i] = IF T[n].use[i] = m THEN Free ELSE T[n].use[i]
    BY <1>9, <1>10
  <2>3. ASSUME NEW a \in DOMAIN E, NEW x \in T[n].from .. T[n].to
        PROVE  R[n].use[i] = a <=> Claims(F[a], l, x, i)
    <3>1. a # Free /\ m # Free
      BY DEF Free
    <3>2. CASE a = m
      <4>1. R[n].use[i] # a
        BY <2>2, <3>1, <3>2
      <4> QED
        BY <1>7, <3>2, <4>1, NoClaims
    <3>3. CASE a # m
      BY <1>7, <2>1, <2>2, <3>1, <3>3
    <3> QED
      BY <3>2, <3>3
  <2>4. R[n].use[i] \in {Free, Elsewhere} \cup DOMAIN E
    BY <2>1, <2>2
  <2> QED
    BY <2>3, <2>4
<1>13. CutForClaims(R, l, F)
  <2> SUFFICES ASSUME NEW a \in DOMAIN E, NEW j \in DOMAIN F[a].route, F[a].route[j] = l
               PROVE  CutIn(T, Frame(F[a], j - 1).first)
    BY <1>7, <1>11 DEF CutForClaims
  <2>1. a # m
    BY <1>7, NoClaims
  <2> QED
    BY <1>7, <2>1 DEF Matches, CutForClaims
<1>14. Matches(R, l, F)
  BY <1>11, <1>12, <1>13 DEF Matches
<1> QED
  BY <1>14 DEF R, F, e

(* An entity does not matter to links that are not on its route.           *)
LEMMA ElsewhereMatches ==
    ASSUME NEW T, NEW l, NEW E, Matches(T, l, E), NEW m \in DOMAIN E, NEW e,
           \A k \in DOMAIN e.route : e.route[k] # l,
           \A k \in DOMAIN E[m].route : E[m].route[k] # l
    PROVE  Matches(T, l, [E EXCEPT ![m] = e])
<1> DEFINE F == [E EXCEPT ![m] = e]
<1>1. DOMAIN F = DOMAIN E /\ F[m] = e /\ \A a \in DOMAIN E : a # m => F[a] = E[a]
  OBVIOUS
<1> HIDE DEF F
<1>2. \A a \in DOMAIN E : \A x, i : Claims(F[a], l, x, i) <=> Claims(E[a], l, x, i)
  <2> TAKE a \in DOMAIN E
  <2>1. CASE a = m
    BY <1>1, <2>1 DEF Claims
  <2>2. CASE a # m
    BY <1>1, <2>2
  <2> QED
    BY <2>1, <2>2
<1>3. \A n \in DOMAIN T : Tells(T[n], l, F)
  BY <1>1, <1>2 DEF Matches, Tells
<1>4. CutForClaims(T, l, F)
  <2> SUFFICES ASSUME NEW a \in DOMAIN E, NEW j \in DOMAIN F[a].route, F[a].route[j] = l
               PROVE  CutIn(T, Frame(F[a], j - 1).first)
    BY <1>1 DEF CutForClaims
  <2>1. a # m
    BY <1>1
  <2> QED
    BY <1>1, <2>1 DEF Matches, CutForClaims
<1> QED
  BY <1>3, <1>4 DEF Matches, F

(* Claims and releases keep the tables of a link in order, whatever the    *)
(* slots are used for.                                                     *)
LEMMA ReserveCovers ==
    ASSUME NEW T, Covers(T), NEW m \in Nat, NEW S, NEW f, f.first \in Nat, f.last \in Nat
    PROVE  Covers(reserveSlots(T, m, S, f))
<1> DEFINE U == CutForFrame(T, f)
           R == reserveSlots(T, m, S, f)
           claimed(s) == [s EXCEPT !.use = [i \in Slots |-> IF i \in S THEN m ELSE @[i]]]
<1>1. R = [n \in DOMAIN U |-> IF InFrame(U[n], f) THEN claimed(U[n]) ELSE U[n]]
  BY DEF reserveSlots
<1>2. Covers(U)
  BY CutForFrameKeeps
<1> HIDE DEF U
<1>3. ASSUME NEW n \in DOMAIN U
      PROVE  R[n] \in TableType /\ R[n].from = U[n].from /\ R[n].to = U[n].to
  <2>1. U[n] \in TableType
    BY <1>2, CoversType
  <2>2. R[n] = IF InFrame(U[n], f) THEN claimed(U[n]) ELSE U[n]
    BY <1>1
  <2> HIDE DEF R
  <2>3. /\ claimed(U[n]) \in TableType
        /\ claimed(U[n]).from = U[n].from /\ claimed(U[n]).to = U[n].to
    BY <2>1 DEF TableType
  <2> HIDE DEF claimed
  <2> QED
    BY <2>1, <2>2, <2>3
<1>4. DOMAIN R = DOMAIN U /\ R = [n \in DOMAIN U |-> R[n]]
  BY <1>1
<1> HIDE DEF R
<1>5. Covers(R)
  BY <1>2, <1>3, <1>4, CoversSame
<1> QED
  BY <1>5 DEF R

LEMMA ReleaseCovers ==
    ASSUME NEW T, Covers(T), NEW m, NEW e, NEW k
    PROVE  Covers(releaseSlots(T, m, e, k))
<1> DEFINE first == (e.start + k) % Period
           next == (e.start + k + e.dur) % Period
           loop == Loops(first, next, e.dur)
           in(s) == \/ s.from >= first /\ (loop \/ s.from <= next)
                    \/ loop /\ next >= s.to
           freed(s) == [s EXCEPT !.use = [i \in Slots |-> IF @[i] = m THEN Free ELSE @[i]]]
           R == releaseSlots(T, m, e, k)
<1>1. R = [n \in DOMAIN T |-> IF in(T[n]) THEN freed(T[n]) ELSE T[n]]
  BY DEF releaseSlots
<1> HIDE DEF in
<1>2. ASSUME NEW n \in DOMAIN T
      PROVE  R[n] \in TableType /\ R[n].from = T[n].from /\ R[n].to = T[n].to
  <2>1. T[n] \in TableType
    BY CoversType
  <2>2. R[n] = IF in(T[n]) THEN freed(T[n]) ELSE T[n]
    BY <1>1
  <2> HIDE DEF R
  <2>3. /\ freed(T[n]) \in TableType
        /\ freed(T[n]).from = T[n].from /\ freed(T[n]).to = T[n].to
    BY <2>1 DEF TableType, Free
  <2> HIDE DEF freed
  <2> QED
    BY <2>1, <2>2, <2>3
<1>3. DOMAIN R = DOMAIN T /\ R = [n \in DOMAIN T |-> R[n]]
  BY <1>1
<1> HIDE DEF R
<1>4. Covers(R)
  BY <1>2, <1>3, CoversSame
<1> QED
  BY <1>4 DEF R

(* A claim that fails leaves a list of slot tables.                        *)
LEMMA InPartType ==
    ASSUME NEW T, Covers(T), NEW m \in Nat, NEW S, NEW f, f.first \in Nat, f.last \in Nat,
           Conflict(T, S, f)
    PROVE  reserveInPart(T, m, S, f) \in Seq(TableType)
<1> DEFINE cut == CutForFrame(T, f)
           n == Min(Taken(T, S, f))
           twice == f.loop /\ f.first = f.last /\ \A i \in S : cut[n].use[i] = Free
           below == {i \in S : \A j \in S : cut[n].use[j] # Free => i < j}
           part == [cut[n] EXCEPT !.from = IF twice THEN f.first ELSE @,
                                  !.use = [i \in Slots |-> IF i \in below THEN m ELSE @[i]]]
           lost == cut[n].to = f.last /\ \A s \in ToSet(T) : s.to # f.last
           lostBefore == /\ f.loop /\ cut[n].from = f.first
                         /\ \A s \in ToSet(CutAt(T, f.last + 1)) : s.from # f.first
           uncut == CutAt(T, cut[n].to + 1)
           ended == {k \in 0 .. Len(uncut) : k > 0 => uncut[k].to <= cut[n].to}
           R == reserveSlots(T, m, S, f)
<1>1. reserveInPart(T, m, S, f) =
         SubSeq(R, 1, IF lostBefore THEN n - 2 ELSE n - 1)
           \o (IF lost THEN <<>> ELSE <<part>>)
           \o SubSeq(uncut, Max(ended) + 1, Len(uncut))
  BY DEF reserveInPart
<1>2. Covers(cut) /\ Covers(R)
  BY CutForFrameKeeps, ReserveCovers
<1>3. Taken(T, S, f) \in SUBSET (1 .. Len(cut)) /\ Taken(T, S, f) # {}
  BY <1>2, CoversType DEF Taken, Conflict
<1>4. DOMAIN R = DOMAIN cut
  BY DEF reserveSlots
<1> HIDE DEF cut, R, twice, below, part, lost, lostBefore, uncut, ended
<1>5. n \in 1 .. Len(cut) /\ cut[n] \in TableType /\ cut[n].to \in Nat
  <2>1. \A j \in 1 .. Len(cut) : cut[j] \in TableType /\ cut[j].to \in Nat /\ j \in Nat
    BY <1>2, CoversType
  <2>2. Taken(T, S, f) \in SUBSET Nat
    BY <1>3, <2>1
  <2>3. n \in Taken(T, S, f)
    BY <1>3, <2>2, Smallest
  <2> HIDE DEF n
  <2> QED
    BY <1>3, <2>1, <2>3
<1> HIDE DEF n
<1>6. R \in Seq(TableType) /\ Len(R) \in Nat /\ n <= Len(R)
  <2>1. DOMAIN R = 1 .. Len(R) /\ Len(R) \in Nat /\ DOMAIN cut = 1 .. Len(cut)
    BY <1>2, CoversType
  <2>2. R \in Seq(TableType)
    BY <1>2 DEF Covers
  <2>3. n \in 1 .. Len(R)
    BY <1>4, <1>5, <2>1
  <2> HIDE DEF TableType
  <2> QED
    BY <2>1, <2>2, <2>3
<1>7. SubSeq(R, 1, IF lostBefore THEN n - 2 ELSE n - 1) \in Seq(TableType)
  <2> DEFINE b == IF lostBefore THEN n - 2 ELSE n - 1
  <2>1. b \in Int /\ b <= Len(R)
    BY <1>5, <1>6
  <2> HIDE DEF b, TableType
  <2>2. SubSeq(R, 1, b) \in Seq(TableType)
    BY <1>6, <2>1
  <2> QED
    BY <2>2 DEF b
<1>8. (IF lost THEN <<>> ELSE <<part>>) \in Seq(TableType)
  <2>1. \A x \in Nat, u \in [Slots -> Int] : [cut[n] EXCEPT !.from = x, !.use = u] \in TableType
    BY <1>5 DEF TableType
  <2>2. (IF twice THEN f.first ELSE cut[n].from) \in Nat
    BY <1>5 DEF TableType
  <2>3. [i \in Slots |-> IF i \in below THEN m ELSE cut[n].use[i]] \in [Slots -> Int]
    BY <1>5 DEF TableType
  <2>4. part \in TableType
    BY <2>1, <2>2, <2>3 DEF part
  <2> HIDE DEF TableType
  <2> QED
    BY <2>4
<1>9. uncut \in Seq(TableType) /\ Len(uncut) \in Nat
  <2>1. cut[n].to + 1 \in Nat
    BY <1>5
  <2>2. Covers(uncut)
    BY <2>1, CutKeeps DEF uncut
  <2> QED
    BY <2>2, CoversType DEF Covers
<1>10. Max(ended) \in 0 .. Len(uncut)
  <2>1. ended \in SUBSET (0 .. Len(uncut)) /\ 0 \in ended
    BY <1>9 DEF ended
  <2> QED
    BY <1>9, <2>1, Largest
<1>11. SubSeq(uncut, Max(ended) + 1, Len(uncut)) \in Seq(TableType)
  <2> HIDE DEF TableType
  <2> QED
    BY <1>9, <1>10
<1> HIDE DEF TableType
<1> QED
  BY <1>1, <1>7, <1>8, <1>11

-----------------------------------------------------------------------------
(* Types, with what the actions rely on: the messages from pos on have no  *)
(* entity, the others have routes without repetition and take their time,  *)
(* which is no more than a period if the history does not have them.       *)
Sound ==
    /\ TypeOK
    /\ pc # "exception" => \A l \in Links : Covers(tables[l])
    /\ \A i, j \in Messages : order[i] = order[j] => i = j
    /\ \A i \in Messages : i >= pos => entity[order[i]] = NoEntity
    /\ AreEntities(entity)
    /\ \A m \in Messages : entity[m].dur <= Period \/ m \in long
    /\ pc \in {"route", "slots", "ripup"} => pos \in Messages
    /\ pc \in {"route", "slots"} => try.minDur >= 1
    /\ pc = "ripup" => nrRipups < MaxNrRipups
    /\ IsFiniteSet(try.routes)
    /\ \A r \in try.routes : IsRoute(r)
    /\ pc = "slots" => IsRoute(try.route)

LEMMA OrderType ==
    ASSUME problem \in Problems, order \in [Messages -> Messages]
    PROVE  /\ Len(order) = Len(problem.messages)
           /\ Messages = 1 .. Len(order) /\ Len(order) \in Nat
           /\ DOMAIN order = Messages
<1>1. Messages = 1 .. Len(problem.messages) /\ Len(problem.messages) \in Nat
  BY ProblemType
<1>2. order \in [1 .. Len(problem.messages) -> Messages]
  BY <1>1
<1>3. order \in Seq(Messages) /\ Len(order) = Len(problem.messages)
  BY <1>1, <1>2
<1> QED
  BY <1>1, <1>3

LEMMA CurType ==
    ASSUME Sound, pos \in Messages
    PROVE  /\ problem \in Problems /\ cur \in Messages /\ cur \in Nat \ {0}
           /\ Msg(cur).start \in Nat /\ Msg(cur).dur \in Nat /\ Msg(cur).size \in Nat
           /\ entity[cur] = NoEntity
<1>1. problem \in Problems /\ order \in [Messages -> Messages] /\ pos \in Nat
  BY DEF Sound, TypeOK
<1>2. cur \in Messages
  BY <1>1 DEF cur
<1>3. entity[cur] = NoEntity
  BY <1>1 DEF cur, Sound
<1> QED
  BY <1>1, <1>2, <1>3, ProblemType

LEMMA UnsignedType ==
    ASSUME NEW x \in Int
    PROVE  Unsigned(x) \in 0 .. 2 ^ Width - 1
<1> DEFINE w == 2 ^ Width
<1>1. w \in Nat \ {0}
  BY NoCAssumption
<1>2. Unsigned(x) = x % w
  BY DEF Unsigned
<1> HIDE DEF w
<1>3. x % w \in 0 .. w - 1
  BY <1>1, RemainderOfSum
<1> QED
  BY <1>2, <1>3 DEF w

LEMMA BoundsType ==
    ASSUME Sound, NEW m \in Messages
    PROVE  /\ earliestStartTime(m) \in Nat
           /\ \A start, length \in Nat : maximalDuration(m, start, length) \in 0 .. 2 ^ Width - 1
<1>1. /\ problem \in Problems
      /\ entity \in [Messages -> [start : Nat, dur : Nat, slots : SUBSET Slots, route : Seq(Links)]]
  BY DEF Sound, TypeOK
<1>2. /\ Messages = 1 .. Len(problem.messages) /\ Len(problem.messages) \in Nat
      /\ Msg(m).start \in Nat /\ Msg(m).dur \in Nat
  BY <1>1, ProblemType
<1>3. ASSUME NEW n \in Messages
      PROVE  entity[n].start \in Nat /\ entity[n].dur \in Nat /\ Len(entity[n].route) \in Nat
  BY <1>1
<1>4. earliestStartTime(m) \in Nat
  <2> DEFINE B == Before(m)
             e == entity[Max(B)]
  <2>1. earliestStartTime(m) = IF B = {} \/ Msg(m).start > e.start + e.dur THEN Msg(m).start
                               ELSE e.start + e.dur + 1
    BY DEF earliestStartTime
  <2>2. B \in SUBSET (0 .. Len(problem.messages)) /\ B \subseteq Messages
    BY <1>2 DEF Before
  <2> HIDE DEF B
  <2>3. CASE B = {}
    BY <1>2, <2>1, <2>3
  <2>4. CASE B # {}
    <3>1. Max(B) \in Messages
      BY <1>2, <2>2, <2>4, Largest
    <3>2. e.start \in Nat /\ e.dur \in Nat
      BY <1>3, <3>1
    <3> HIDE DEF e
    <3> QED
      BY <1>2, <2>1, <3>2
  <2> QED
    BY <2>3, <2>4
<1>5. ASSUME NEW start \in Nat, NEW length \in Nat
      PROVE  maximalDuration(m, start, length) \in 0 .. 2 ^ Width - 1
  <2> DEFINE A == After(m)
             e == entity[Min(A)]
             deadline == Msg(m).start + Msg(m).dur
  <2>1. maximalDuration(m, start, length) =
           IF A = {} \/ deadline + length < e.start + Len(e.route)
           THEN Unsigned(deadline - start - length + 1)
           ELSE Unsigned(e.start + Len(e.route) - start - length + 1)
    BY DEF maximalDuration, Deadline
  <2>2. A \in SUBSET Nat /\ A \subseteq Messages
    BY <1>2 DEF After
  <2> HIDE DEF A
  <2>3. Unsigned(deadline - start - length + 1) \in 0 .. 2 ^ Width - 1
    <3>1. deadline - start - length + 1 \in Int
      BY <1>2
    <3> QED
      BY <3>1, UnsignedType
  <2>4. CASE A = {}
    BY <2>1, <2>3, <2>4
  <2>5. CASE A # {}
    <3>1. Min(A) \in Messages
      BY <2>2, <2>5, Smallest
    <3>2. e.start \in Nat /\ Len(e.route) \in Nat
      BY <1>3, <3>1
    <3> HIDE DEF e
    <3>3. e.start + Len(e.route) - start - length + 1 \in Int
      BY <3>2
    <3>4. Unsigned(e.start + Len(e.route) - start - length + 1) \in 0 .. 2 ^ Width - 1
      BY <3>3, UnsignedType
    <3> QED
      BY <2>1, <2>3, <3>4
  <2> QED
    BY <2>4, <2>5
<1> QED
  BY <1>4, <1>5

(* The entity made of the slots found                                      *)
LEMMA NewEntityType ==
    ASSUME Sound, pc = "slots", FoundSlots # {}
    PROVE  IsEntity(NewEntity(FoundSlots))
<1>1. /\ pos \in Messages /\ IsRoute(try.route)
      /\ try.start \in Nat /\ try.route \in Seq(Links) /\ dur \in Nat
  BY NoCAssumption DEF Sound, TypeOK
<1>2. /\ problem \in Problems /\ cur \in Messages /\ Msg(cur).size \in Nat
  BY <1>1, CurType
<1>3. FoundSlots \in SUBSET Slots
  BY <1>1, <1>2, FoundType DEF FoundSlots
<1> DEFINE d == minimalDuration(cur, try.start, FoundSlots)
<1>4. d \in Nat /\ d >= 2
  BY <1>1, <1>2, <1>3, MinimalDurationType
<1>5. NewEntity(FoundSlots) = [start |-> try.start, dur |-> d, slots |-> FoundSlots, route |-> try.route]
  BY DEF NewEntity
<1> HIDE DEF d
<1> QED
  BY <1>1, <1>3, <1>4, <1>5 DEF IsEntity

(* The tables of the links stay in order when a route is claimed, up to    *)
(* any link, or released.                                                  *)
LEMMA RouteCovers ==
    ASSUME NEW e, IsEntity(e), NEW m \in Nat, \A l \in Links : Covers(tables[l]), NEW n \in Nat
    PROVE  /\ n <= Len(e.route) => \A l \in Links : Covers(reserveResources(m, e, n)[l])
           /\ \A l \in Links : Covers(releaseResources(m, e)[l])
<1>1. ASSUME n <= Len(e.route), NEW l \in Links
      PROVE  Covers(reserveResources(m, e, n)[l])
  <2> DEFINE on == {k \in 1 .. n : e.route[k] = l}
             k == Max(on) - 1
  <2>1. reserveResources(m, e, n)[l] =
           IF on = {} THEN tables[l]
           ELSE reserveSlots(tables[l], m, Shifted(e.slots, k), Frame(e, k))
    BY DEF reserveResources
  <2>2. on \in SUBSET (0 .. n) /\ on \subseteq Nat \ {0}
    OBVIOUS
  <2> HIDE DEF on
  <2>3. CASE on = {}
    BY <2>1, <2>3
  <2>4. CASE on # {}
    <3>1. k \in Nat
      <4>1. Max(on) \in on
        BY <2>2, <2>4, Largest
      <4>2. PICK x \in Nat \ {0} : x = Max(on)
        BY <2>2, <4>1
      <4>3. k = x - 1
        BY <4>2
      <4> HIDE DEF k
      <4> QED
        BY <4>3
    <3> HIDE DEF k
    <3>2. Frame(e, k).first \in 0 .. Period - 1 /\ Frame(e, k).last \in 0 .. Period - 1
      BY <3>1, FrameType
    <3>3. Frame(e, k).first \in Nat /\ Frame(e, k).last \in Nat
      BY <3>2
    <3>4. Covers(reserveSlots(tables[l], m, Shifted(e.slots, k), Frame(e, k)))
      BY <3>3, ReserveCovers
    <3> QED
      BY <2>1, <2>4, <3>4
  <2> QED
    BY <2>3, <2>4
<1>2. ASSUME NEW l \in Links
      PROVE  Covers(releaseResources(m, e)[l])
  BY ReleaseCovers DEF releaseResources
<1> QED
  BY <1>1, <1>2

(* In the beginning no slot is claimed by a message.                       *)
LEMMA TablesInit ==
    ASSUME Init
    PROVE  \A l \in Links :
              /\ Covers(tables[l]) /\ Len(tables[l]) = 1
              /\ tables[l][1].use \in [Slots -> {Free, Elsewhere}]
<1> SUFFICES ASSUME NEW l \in Links
             PROVE  /\ Covers(tables[l]) /\ Len(tables[l]) = 1
                    /\ tables[l][1].use \in [Slots -> {Free, Elsewhere}]
  OBVIOUS
<1> DEFINE use == [i \in Slots |-> IF i \in problem.used[l] THEN Elsewhere ELSE Free]
           s == [from |-> 0, to |-> Period - 1, use |-> use]
<1>1. tables[l] = <<s>>
  BY DEF Init, NewTables
<1>2. use \in [Slots -> {Free, Elsewhere}] /\ s.use = use
  BY DEF Free, Elsewhere
<1>3. use \in [Slots -> Int]
  BY <1>2 DEF Free, Elsewhere
<1> HIDE DEF use
<1>4. Period - 1 \in Nat
  BY SlotTablesAssumption
<1>5. s \in TableType /\ s.from = 0 /\ s.to = Period - 1
  BY <1>3, <1>4 DEF TableType
<1> HIDE DEF s, TableType
<1>6. /\ <<s>> \in Seq(TableType) /\ Len(<<s>>) = 1 /\ DOMAIN <<s>> = {1} /\ <<s>>[1] = s
  BY <1>5
<1>7. <<s>> # <<>>
  BY <1>6
<1>8. Covers(<<s>>)
  BY <1>4, <1>5, <1>6, <1>7 DEF Covers
<1> QED
  BY <1>1, <1>2, <1>6, <1>8

LEMMA NoEntityType ==
    NoEntity \in [start : Nat, dur : Nat, slots : SUBSET Slots, route : Seq(Links)]
<1>1. <<>> \in Seq(Links)
  OBVIOUS
<1> QED
  BY <1>1 DEF NoEntity

LEMMA SoundInit ==
    ASSUME Init
    PROVE  Sound
<1>1. /\ problem \in Problems /\ order \in [Messages -> Messages] /\ pos = 1
      /\ entity = [m \in Messages |-> NoEntity] /\ pc = "message" /\ try = NoTry
      /\ dur = 0 /\ nrRipups = 0 /\ late = {} /\ long = {}
  BY DEF Init
<1>2. Len(order) \in Nat /\ Messages = 1 .. Len(order)
  BY <1>1, OrderType
<1>3. pos \in 1 .. Len(order) + 1
  BY <1>1, <1>2
<1>4. entity \in [Messages -> [start : Nat, dur : Nat, slots : SUBSET Slots, route : Seq(Links)]]
  BY <1>1, NoEntityType
<1>5. \A l \in Links : Covers(tables[l])
  BY TablesInit
<1>6. tables \in [Links -> Seq([from : Nat, to : Nat, use : [Slots -> Int]])]
  <2>1. \A l \in Links : tables[l] \in Seq(TableType)
    BY <1>5 DEF Covers
  <2>2. tables = [l \in Links |-> tables[l]]
    BY DEF Init
  <2>3. tables \in [Links -> Seq(TableType)]
    BY <2>1, <2>2
  <2> QED
    BY <2>3 DEF TableType
<1>7. preferredSlots \in [Links -> [Slots -> Int]]
  BY DEF Init, UINT_MAX
<1>8. try \in [start : Nat, maxDur : Nat, minDur : Nat, detour : 0 .. MaxDetour,
               routes : SUBSET Seq(Links), route : Seq(Links)]
  <2>1. <<>> \in Seq(Links) /\ {} \in SUBSET Seq(Links) /\ 0 \in 0 .. MaxDetour /\ 0 \in Nat
    BY NoCAssumption
  <2> QED
    BY <1>1, <2>1 DEF NoTry
<1>9. dur \in 0 .. 2 ^ Width - 1 /\ nrRipups \in 0 .. MaxNrRipups
  <2>1. \A n \in Nat \ {0} : 0 \in 0 .. n - 1
    OBVIOUS
  <2> QED
    BY <1>1, <2>1, NoCAssumption
<1>10. TypeOK
  BY <1>1, <1>3, <1>4, <1>6, <1>7, <1>8, <1>9 DEF TypeOK
<1>11. \A i, j \in Messages : order[i] = order[j] => i = j
  <2>1. \A i, j \in Messages : i < j => order[i] # order[j]
    <3> SUFFICES ASSUME NEW i \in Messages, NEW j \in Messages, i < j, order[i] = order[j]
                 PROVE  FALSE
      OBVIOUS
    <3> DEFINE m == order[i]
    <3>1. CostsMore(m, m)
      BY DEF Init
    <3>2. m \in Messages /\ m \in Nat
      BY <1>1, <1>2
    <3> HIDE DEF m
    <3>3. Msg(m).size \in Nat /\ Msg(m).dur \in Nat
      BY <1>1, <3>2, ProblemType
    <3> DEFINE a == (Msg(m).size * Msg(m).dur + 1) * Msg(m).dur
    <3>4. a \in Nat
      BY <3>3
    <3>5. a > a \/ (a = a /\ m > m)
      BY <3>1 DEF CostsMore
    <3> HIDE DEF a
    <3> QED
      BY <3>2, <3>4, <3>5
  <2> QED
    BY <1>2, <2>1
<1>12. \A i \in Messages : entity[order[i]] = NoEntity
  BY <1>1
<1>13. AreEntities(entity)
  BY <1>1 DEF AreEntities
<1>14. IsFiniteSet(try.routes) /\ \A r \in try.routes : IsRoute(r)
  BY <1>1, FS_EmptySet DEF NoTry
<1>15. \A m \in Messages : entity[m].dur <= Period
  BY <1>1, SlotTablesAssumption DEF NoEntity
<1> QED
  BY <1>1, <1>5, <1>10, <1>11, <1>12, <1>13, <1>14, <1>15 DEF Sound

TryType == [start : Nat, maxDur : Nat, minDur : Nat, detour : 0 .. MaxDetour,
            routes : SUBSET Seq(Links), route : Seq(Links)]

(* What a step of the search for an entity has to leave sound              *)
Searches ==
    /\ pc \in {"message", "route", "slots", "ripup", "exception", "undefined", "failed", "solved"}
    /\ try \in TryType
    /\ dur \in 0 .. 2 ^ Width - 1
    /\ pc \in {"route", "slots", "ripup"} => pos \in Messages
    /\ pc \in {"route", "slots"} => try.minDur >= 1
    /\ pc = "ripup" => nrRipups < MaxNrRipups
    /\ IsFiniteSet(try.routes)
    /\ \A r \in try.routes : IsRoute(r)
    /\ pc = "slots" => IsRoute(try.route)

(* And what a claim or a rip-up has to                                     *)
Places ==
    /\ problem \in Problems
    /\ order \in [Messages -> Messages]
    /\ pos \in 1 .. Len(order) + 1
    /\ entity \in [Messages -> [start : Nat, dur : Nat, slots : SUBSET Slots, route : Seq(Links)]]
    /\ tables \in [Links -> Seq([from : Nat, to : Nat, use : [Slots -> Int]])]
    /\ preferredSlots \in [Links -> [Slots -> Int]]
    /\ nrRipups \in 0 .. MaxNrRipups
    /\ late \subseteq Messages /\ long \subseteq Messages
    /\ pc # "exception" => \A l \in Links : Covers(tables[l])
    /\ \A i, j \in Messages : order[i] = order[j] => i = j
    /\ \A i \in Messages : i >= pos => entity[order[i]] = NoEntity
    /\ AreEntities(entity)
    /\ \A m \in Messages : entity[m].dur <= Period \/ m \in long

LEMMA SoundParts == Sound <=> Searches /\ Places
  BY DEF Sound, Searches, Places, TypeOK, TryType

LEMMA PlacesSame ==
    ASSUME Places, pc # "exception" \/ pc' = pc,
           UNCHANGED <<problem, order, pos, entity, tables, preferredSlots, nrRipups, history>>
    PROVE  Places' /\ Messages' = Messages
<1>0. UNCHANGED <<late, long>>
  BY DEF history
<1>1. Messages' = Messages
  BY DEF Messages
<1>2. AreEntities(entity)'
  BY DEF Places, AreEntities, IsEntity, IsRoute
<1> QED
  BY <1>0, <1>1, <1>2 DEF Places, Covers

LEMMA NextMessageSound ==
    ASSUME Sound, NextMessage
    PROVE  Sound'
<1> DEFINE start == earliestStartTime(cur)
           length == ShortestLength(Msg(cur).src, Msg(cur).dst)
<1>1. /\ pc = "message" /\ pos <= Len(order) /\ pc' = "route" /\ dur' = dur
      /\ try' = [start |-> start, maxDur |-> maximalDuration(cur, start, length),
                 minDur |-> minimalDuration(cur, start, Slots), detour |-> 0,
                 routes |-> findAllRoutes(cur, 0), route |-> <<>>]
      /\ UNCHANGED <<problem, order, pos, entity, tables, preferredSlots, nrRipups, history>>
  BY DEF NextMessage
<1>2. Searches /\ Places
  BY SoundParts
<1>3. Places' /\ Messages' = Messages
  BY <1>1, <1>2, PlacesSame
<1>4. pos \in Messages
  BY <1>1, <1>2, OrderType DEF Places
<1>5. cur \in Messages /\ problem \in Problems
  BY <1>4, CurType
<1>6. start \in Nat /\ length \in Nat
  BY <1>5, BoundsType, LengthType
<1>7. maximalDuration(cur, start, length) \in 0 .. 2 ^ Width - 1
  BY <1>5, <1>6, BoundsType
<1>8. maximalDuration(cur, start, length) \in Nat
  BY <1>7
<1>9. Slots # {} /\ Slots \in SUBSET Slots
  BY SlotTablesAssumption DEF Slots
<1> HIDE DEF start, length
<1>10. minimalDuration(cur, start, Slots) \in Nat /\ minimalDuration(cur, start, Slots) >= 2
  BY <1>5, <1>6, <1>9, MinimalDurationType
<1>11. IsFiniteSet(findAllRoutes(cur, 0)) /\ \A r \in findAllRoutes(cur, 0) : IsRoute(r)
  BY <1>5, RouteType, RoutesFinite
<1>12. findAllRoutes(cur, 0) \in SUBSET Seq(Links)
  BY <1>11 DEF IsRoute
<1>13. 0 \in 0 .. MaxDetour /\ <<>> \in Seq(Links)
  BY NoCAssumption
<1>14. try' \in TryType
  BY <1>1, <1>6, <1>8, <1>10, <1>12, <1>13 DEF TryType
<1>15. try'.minDur >= 1
  <2>1. \A n \in Nat : n >= 2 => n >= 1
    OBVIOUS
  <2> QED
    BY <1>1, <1>10, <2>1
<1>16. try'.routes = findAllRoutes(cur, 0)
  BY <1>1
<1>17. IsFiniteSet(try.routes)' /\ (\A r \in try.routes : IsRoute(r))'
  BY <1>11, <1>16 DEF IsRoute
<1>18. dur' \in 0 .. 2 ^ Width - 1
  BY <1>1, <1>2 DEF Searches
<1>19. Searches'
  BY <1>1, <1>3, <1>4, <1>14, <1>15, <1>17, <1>18 DEF Searches
<1> QED
  BY <1>3, <1>19, SoundParts, PTL

LEMMA TryRouteSound ==
    ASSUME Sound, TryRoute
    PROVE  Sound'
<1>1. PICK r \in try.routes : try' = [try EXCEPT !.route = r, !.routes = @ \ {r}]
  BY DEF TryRoute
<1>2. /\ pc = "route" /\ pc' = "slots" /\ dur' = Unsigned(try.maxDur - try.detour)
      /\ UNCHANGED <<problem, order, pos, entity, tables, preferredSlots, nrRipups, history>>
  BY DEF TryRoute
<1>3. Searches /\ Places
  BY SoundParts
<1>4. Places' /\ Messages' = Messages
  BY <1>2, <1>3, PlacesSame
<1>5. try \in TryType /\ try.minDur >= 1 /\ pos \in Messages /\ IsFiniteSet(try.routes)
  BY <1>2, <1>3 DEF Searches
<1>6. IsRoute(r) /\ \A q \in try.routes \ {r} : IsRoute(q)
  BY <1>3 DEF Searches
<1>7. r \in Seq(Links) /\ try.routes \ {r} \in SUBSET Seq(Links)
  BY <1>6 DEF IsRoute
<1>8. /\ try' \in TryType /\ try'.minDur = try.minDur
      /\ try'.routes = try.routes \ {r} /\ try'.route = r
  BY <1>1, <1>5, <1>7 DEF TryType
<1>9. IsFiniteSet(try.routes \ {r})
  BY <1>5, FS_Subset
<1>10. dur' \in 0 .. 2 ^ Width - 1
  <2>1. \A x \in Nat, d \in 0 .. MaxDetour : x - d \in Int
    BY NoCAssumption
  <2>2. try.maxDur - try.detour \in Int
    BY <1>5, <2>1 DEF TryType
  <2> QED
    BY <1>2, <2>2, UnsignedType
<1>11. IsRoute(try.route)' /\ (\A q \in try.routes : IsRoute(q))'
  BY <1>6, <1>8 DEF IsRoute
<1>12. Searches'
  BY <1>2, <1>4, <1>5, <1>8, <1>9, <1>10, <1>11 DEF Searches
<1> QED
  BY <1>4, <1>12, SoundParts, PTL

LEMMA NextDetourSound ==
    ASSUME Sound, NextDetour
    PROVE  Sound'
<1> DEFINE routes == findAllRoutes(cur, try.detour + 1)
<1>1. /\ pc = "route" /\ pc' = "route" /\ try.detour < MaxDetour
      /\ try' = [try EXCEPT !.detour = @ + 1, !.routes = routes]
      /\ UNCHANGED <<problem, order, pos, entity, tables, preferredSlots, dur, nrRipups, history>>
  BY DEF NextDetour
<1>2. Searches /\ Places
  BY SoundParts
<1>3. Places' /\ Messages' = Messages
  BY <1>1, <1>2, PlacesSame
<1>4. try \in TryType /\ try.minDur >= 1 /\ pos \in Messages
  BY <1>1, <1>2 DEF Searches
<1>5. try.detour + 1 \in 0 .. MaxDetour /\ try.detour + 1 \in Nat
  <2>1. try.detour \in 0 .. MaxDetour
    BY <1>4 DEF TryType
  <2> QED
    BY <1>1, <2>1, NoCAssumption
<1>6. cur \in Messages /\ problem \in Problems
  BY <1>4, CurType
<1>7. IsFiniteSet(routes) /\ \A q \in routes : IsRoute(q)
  BY <1>5, <1>6, RouteType, RoutesFinite
<1>8. routes \in SUBSET Seq(Links)
  BY <1>7 DEF IsRoute
<1> HIDE DEF routes
<1>9. try' \in TryType /\ try'.minDur = try.minDur /\ try'.routes = routes
  BY <1>1, <1>4, <1>5, <1>8 DEF TryType
<1>10. (\A q \in try.routes : IsRoute(q))'
  BY <1>7, <1>9 DEF IsRoute
<1>11. dur' \in 0 .. 2 ^ Width - 1
  BY <1>1, <1>2 DEF Searches
<1>12. Searches'
  BY <1>1, <1>3, <1>4, <1>7, <1>9, <1>10, <1>11 DEF Searches
<1> QED
  BY <1>3, <1>12, SoundParts, PTL

LEMMA NoTryType ==
    /\ NoTry \in TryType /\ IsFiniteSet(NoTry.routes) /\ NoTry.routes = {}
    /\ 0 \in 0 .. 2 ^ Width - 1
<1>1. 0 \in 0 .. MaxDetour /\ <<>> \in Seq(Links)
  BY NoCAssumption
<1>2. NoTry \in TryType /\ NoTry.routes = {}
  BY <1>1 DEF NoTry, TryType
<1>3. \A n \in Nat \ {0} : 0 \in 0 .. n - 1
  OBVIOUS
<1> QED
  BY <1>2, <1>3, FS_EmptySet, NoCAssumption

LEMMA NotFoundSound ==
    ASSUME Sound, NotFound
    PROVE  Sound'
<1>1. /\ pc = "route" /\ pc' = IF nrRipups < MaxNrRipups THEN "ripup" ELSE "failed"
      /\ try' = NoTry /\ dur' = 0
      /\ UNCHANGED <<problem, order, pos, entity, tables, preferredSlots, nrRipups, history>>
  BY DEF NotFound
<1>2. Searches /\ Places
  BY SoundParts
<1>3. Places' /\ Messages' = Messages
  BY <1>1, <1>2, PlacesSame
<1>4. pos \in Messages
  BY <1>1, <1>2 DEF Searches
<1>5. Searches'
  BY <1>1, <1>3, <1>4, NoTryType DEF Searches
<1> QED
  BY <1>3, <1>5, SoundParts, PTL

(* Steps that change no more than where the scheduler is, and a duration   *)
LEMMA ControlSound ==
    ASSUME Sound, HalveDuration \/ GiveUpRoute \/ RipupNothing \/ AllScheduled
    PROVE  Sound'
<1>1. Searches /\ Places
  BY SoundParts
<1>2. /\ UNCHANGED <<problem, order, pos, entity, tables, preferredSlots, try, nrRipups, history>>
      /\ pc # "exception"
  BY DEF HalveDuration, GiveUpRoute, RipupNothing, AllScheduled
<1>3. Places' /\ Messages' = Messages
  BY <1>1, <1>2, PlacesSame
<1>4. (\A q \in try.routes : IsRoute(q))' /\ (IsRoute(try.route)' <=> IsRoute(try.route))
  BY <1>1, <1>2 DEF IsRoute, Searches
<1>5. \A n \in Nat : \A d \in 0 .. n : d \div 2 \in 0 .. n
  OBVIOUS
<1>6. 2 ^ Width - 1 \in Nat
  BY NoCAssumption
<1>7. dur' \in 0 .. 2 ^ Width - 1
  BY <1>1, <1>5, <1>6 DEF Searches, HalveDuration, GiveUpRoute, RipupNothing, AllScheduled
<1>8. ASSUME HalveDuration PROVE Searches'
  <2>1. pc = "slots" /\ pc' = "slots"
    BY <1>8 DEF HalveDuration
  <2> QED
    BY <1>1, <1>2, <1>3, <1>4, <1>7, <2>1 DEF Searches
<1>9. ASSUME GiveUpRoute PROVE Searches'
  <2>1. pc = "slots" /\ pc' = "route"
    BY <1>9 DEF GiveUpRoute
  <2> QED
    BY <1>1, <1>2, <1>3, <1>4, <1>7, <2>1 DEF Searches
<1>10. ASSUME RipupNothing \/ AllScheduled PROVE Searches'
  <2>1. pc' \in {"undefined", "solved"}
    BY <1>10 DEF RipupNothing, AllScheduled
  <2> QED
    BY <1>1, <1>2, <1>3, <1>4, <1>7, <2>1 DEF Searches
<1>11. Searches'
  BY <1>8, <1>9, <1>10
<1> QED
  BY <1>3, <1>11, SoundParts, PTL

(* The links, claimed or released, and the preferences have their types.   *)
LEMMA ClaimTypes ==
    ASSUME Sound, pc # "exception", NEW e, IsEntity(e), NEW m \in Nat,
           NEW n \in Nat, n <= Len(e.route), NEW d \in Int
    PROVE  /\ \A l \in Links : Covers(reserveResources(m, e, n)[l])
           /\ \A l \in Links : Covers(releaseResources(m, e)[l])
           /\ reserveResources(m, e, n) \in [Links -> Seq([from : Nat, to : Nat, use : [Slots -> Int]])]
           /\ releaseResources(m, e) \in [Links -> Seq([from : Nat, to : Nat, use : [Slots -> Int]])]
           /\ changePreferenceLevel(e, d) \in [Links -> [Slots -> Int]]
<1>1. \A l \in Links : Covers(tables[l])
  BY DEF Sound
<1>2. /\ \A l \in Links : Covers(reserveResources(m, e, n)[l])
      /\ \A l \in Links : Covers(releaseResources(m, e)[l])
  BY <1>1, RouteCovers
<1>3. /\ \A l \in Links : reserveResources(m, e, n)[l] \in Seq(TableType)
      /\ \A l \in Links : releaseResources(m, e)[l] \in Seq(TableType)
  BY <1>2 DEF Covers
<1>4. /\ reserveResources(m, e, n) = [l \in Links |-> reserveResources(m, e, n)[l]]
      /\ releaseResources(m, e) = [l \in Links |-> releaseResources(m, e)[l]]
  BY DEF reserveResources, releaseResources
<1>5. /\ reserveResources(m, e, n) \in [Links -> Seq(TableType)]
      /\ releaseResources(m, e) \in [Links -> Seq(TableType)]
  BY <1>3, <1>4
<1>6. \A l \in Links, i \in Slots : preferredSlots[l][i] \in Int /\ preferredSlots[l][i] + d \in Int
  BY DEF Sound, TypeOK
<1>7. changePreferenceLevel(e, d) \in [Links -> [Slots -> Int]]
  BY <1>6 DEF changePreferenceLevel
<1> QED
  BY <1>2, <1>5, <1>7 DEF TableType

LEMMA SlotsFoundSound ==
    ASSUME Sound, SlotsFound
    PROVE  Sound'
<1> DEFINE e == NewEntity(FoundSlots)
<1>1. /\ pc = "slots" /\ FoundSlots # {} /\ pc' = "message" /\ try' = NoTry /\ dur' = 0
      /\ pos' = pos + 1
      /\ tables' = reserveResources(cur, e, Len(e.route))
      /\ preferredSlots' = changePreferenceLevel(e, 1)
      /\ entity' = [entity EXCEPT ![cur] = e]
      /\ late' \in {late, late \cup {cur}}
      /\ long' = IF e.dur <= Period THEN long ELSE long \cup {cur}
      /\ UNCHANGED <<problem, order, nrRipups>>
  BY DEF SlotsFound
<1>2. Searches /\ Places
  BY SoundParts
<1>3. IsEntity(e)
  BY <1>1, NewEntityType
<1> HIDE DEF e
<1>4. pos \in Messages
  BY <1>1, <1>2 DEF Searches
<1>5. cur \in Messages /\ cur \in Nat /\ Len(e.route) \in Nat /\ Len(e.route) <= Len(e.route)
  BY <1>3, <1>4, CurType DEF IsEntity
<1>6. Messages' = Messages /\ Len(order)' = Len(order)
  BY <1>1 DEF Messages
<1>7. /\ \A l \in Links : Covers(tables'[l])
      /\ tables' \in [Links -> Seq([from : Nat, to : Nat, use : [Slots -> Int]])]
      /\ preferredSlots' \in [Links -> [Slots -> Int]]
  <2>1. /\ \A l \in Links : Covers(reserveResources(cur, e, Len(e.route))[l])
        /\ reserveResources(cur, e, Len(e.route))
              \in [Links -> Seq([from : Nat, to : Nat, use : [Slots -> Int]])]
        /\ changePreferenceLevel(e, 1) \in [Links -> [Slots -> Int]]
    <3>1. 1 \in Int
      OBVIOUS
    <3>2. PICK n \in Nat : n = Len(e.route) /\ n <= Len(e.route)
      BY <1>5
    <3>3. /\ \A l \in Links : Covers(reserveResources(cur, e, n)[l])
          /\ reserveResources(cur, e, n)
                \in [Links -> Seq([from : Nat, to : Nat, use : [Slots -> Int]])]
          /\ changePreferenceLevel(e, 1) \in [Links -> [Slots -> Int]]
      BY <1>1, <1>3, <1>5, <3>1, <3>2, ClaimTypes
    <3> QED
      BY <3>2, <3>3
  <2> QED
    BY <1>1, <2>1
<1>8. entity' \in [Messages -> [start : Nat, dur : Nat, slots : SUBSET Slots, route : Seq(Links)]]
  BY <1>1, <1>2, <1>3, <1>5 DEF Places, IsEntity
<1>9. pos' \in 1 .. Len(order) + 1 /\ \A i \in Messages : i >= pos' => i >= pos /\ i # pos
  BY <1>1, <1>2, <1>4, OrderType DEF Places
<1>10. \A i \in Messages : i >= pos' => entity'[order[i]] = NoEntity
  <2> SUFFICES ASSUME NEW i \in Messages, i >= pos'
               PROVE  entity'[order[i]] = NoEntity
    OBVIOUS
  <2>1. i >= pos /\ i # pos
    BY <1>9
  <2>2. order[i] # cur
    BY <1>2, <1>4, <2>1 DEF Places, cur
  <2>3. order[i] \in Messages /\ entity[order[i]] = NoEntity
    BY <1>2, <2>1 DEF Places
  <2> QED
    BY <1>1, <1>2, <2>2, <2>3 DEF Places
<1>11. AreEntities(entity')
  <2> SUFFICES ASSUME NEW m \in DOMAIN entity'
               PROVE  entity'[m] = NoEntity \/ IsEntity(entity'[m])
    BY DEF AreEntities
  <2>1. m \in DOMAIN entity
    BY <1>1
  <2>2. CASE m = cur
    BY <1>1, <1>3, <2>1, <2>2
  <2>3. CASE m # cur
    BY <1>1, <1>2, <2>1, <2>3 DEF Places, AreEntities
  <2> QED
    BY <2>2, <2>3
<1>12. Places'
  <2>1. AreEntities(entity)' <=> AreEntities(entity')
    BY DEF AreEntities, IsEntity, IsRoute
  <2>2. (\A l \in Links : Covers(tables[l]))'
    BY <1>7 DEF Covers
  <2>3. \A m \in Messages : entity'[m].dur <= Period \/ m \in long'
    <3> SUFFICES ASSUME NEW m \in Messages PROVE entity'[m].dur <= Period \/ m \in long'
      OBVIOUS
    <3>1. m \in long => m \in long'
      BY <1>1
    <3>2. CASE m = cur
      BY <1>1, <1>2, <1>5, <3>2 DEF Places
    <3>3. CASE m # cur
      BY <1>1, <1>2, <3>1, <3>3 DEF Places
    <3> QED
      BY <3>2, <3>3
  <2>4. late' \subseteq Messages /\ long' \subseteq Messages
    BY <1>1, <1>2, <1>5 DEF Places
  <2> QED
    BY <1>1, <1>2, <1>6, <1>7, <1>8, <1>9, <1>10, <1>11, <2>1, <2>2, <2>3, <2>4 DEF Places
<1>13. Searches'
  BY <1>1, NoTryType DEF Searches
<1> QED
  BY <1>12, <1>13, SoundParts, PTL

LEMMA SlotAlreadyReservedSound ==
    ASSUME Sound, SlotAlreadyReserved
    PROVE  Sound'
<1> DEFINE e == NewEntity(FoundSlots)
           k == Min(Conflicts(e)) - 1
           l == e.route[k + 1]
           part == reserveInPart(tables[l], cur, Shifted(e.slots, k), Frame(e, k))
<1>1. /\ pc = "slots" /\ FoundSlots # {} /\ pc' = "exception" /\ Conflicts(e) # {}
      /\ tables' = [reserveResources(cur, e, k) EXCEPT ![l] = part]
      /\ UNCHANGED <<problem, order, pos, entity, preferredSlots, try, dur, nrRipups, history>>
  BY DEF SlotAlreadyReserved
<1>2. Searches /\ Places
  BY SoundParts
<1>3. IsEntity(e)
  BY <1>1, NewEntityType
<1> HIDE DEF e
<1>4. /\ k \in Nat /\ k <= Len(e.route)
      /\ l \in Links /\ Conflict(tables[l], Shifted(e.slots, k), Frame(e, k))
  <2>1. e.route \in Seq(Links) /\ Len(e.route) \in Nat /\ DOMAIN e.route = 1 .. Len(e.route)
    BY <1>3 DEF IsEntity
  <2>2. Conflicts(e) \in SUBSET Nat /\ Conflicts(e) \subseteq DOMAIN e.route
    BY <2>1 DEF Conflicts
  <2>3. PICK x \in Conflicts(e) : x = Min(Conflicts(e))
    BY <1>1, <2>2, Smallest
  <2>4. x \in 1 .. Len(e.route) /\ e.route[x] \in Links
    BY <2>1, <2>2
  <2>5. k = x - 1 /\ k + 1 = x
    BY <2>3, <2>4
  <2>6. Conflict(tables[e.route[x]], Shifted(e.slots, x - 1), Frame(e, x - 1))
    BY DEF Conflicts
  <2> HIDE DEF k
  <2> QED
    BY <2>1, <2>4, <2>5, <2>6
<1> HIDE DEF k, l
<1>5. pos \in Messages
  BY <1>1, <1>2 DEF Searches
<1>6. cur \in Nat
  BY <1>5, CurType
<1>7. tables' \in [Links -> Seq([from : Nat, to : Nat, use : [Slots -> Int]])]
  <2>1. 0 \in Int
    OBVIOUS
  <2>2. reserveResources(cur, e, k) \in [Links -> Seq([from : Nat, to : Nat, use : [Slots -> Int]])]
    BY <1>1, <1>3, <1>4, <1>6, <2>1, ClaimTypes
  <2>3. part \in Seq([from : Nat, to : Nat, use : [Slots -> Int]])
    <3>1. Frame(e, k).first \in 0 .. Period - 1 /\ Frame(e, k).last \in 0 .. Period - 1
      BY <1>3, <1>4, FrameType
    <3>2. Frame(e, k).first \in Nat /\ Frame(e, k).last \in Nat
      BY <3>1
    <3>3. Covers(tables[l])
      BY <1>1, <1>2, <1>4 DEF Places
    <3>4. part \in Seq(TableType)
      BY <1>4, <1>6, <3>2, <3>3, InPartType
    <3> QED
      BY <3>4 DEF TableType
  <2> HIDE DEF part
  <2> QED
    BY <1>1, <2>2, <2>3
<1>8. Messages' = Messages
  BY <1>1 DEF Messages
<1>9. Places'
  <2>1. AreEntities(entity)'
    BY <1>1, <1>2 DEF Places, AreEntities, IsEntity, IsRoute
  <2>2. UNCHANGED <<late, long>>
    BY <1>1 DEF history
  <2> QED
    BY <1>1, <1>2, <1>7, <1>8, <2>1, <2>2 DEF Places
<1>10. Searches'
  <2>1. (\A q \in try.routes : IsRoute(q))'
    BY <1>1, <1>2 DEF IsRoute, Searches
  <2> QED
    BY <1>1, <1>2, <2>1 DEF Searches
<1> QED
  BY <1>9, <1>10, SoundParts, PTL

(* The message ripped up is one with an entity, before the current one.    *)
RippedUp(k) ==
    /\ k \in 1 .. pos - 1 /\ IsEntity(entity[order[k]])
    /\ tables' = releaseResources(order[k], entity[order[k]])
    /\ preferredSlots' = changePreferenceLevel(entity[order[k]], -1)
    /\ entity' = [entity EXCEPT ![order[k]] = NoEntity]
    /\ order' = Ripped(k)

LEMMA RipupIs ==
    ASSUME Sound, ripupScheduleEntity
    PROVE  /\ \E k \in Nat : RippedUp(k)
           /\ pc = "ripup" /\ pc' = "message" /\ pos' = pos - 1 /\ nrRipups' = nrRipups + 1
           /\ UNCHANGED <<problem, try, dur, history>>
           /\ pos \in Messages /\ nrRipups < MaxNrRipups
<1>1. PICK r \in findAllRoutes(cur, 0) :
          LET conflict == [n \in 1 .. pos - 1 |->
                              IF Scheduled(order[n])
                              THEN severityConflict(entity[order[n]], cur, r) ELSE 0]
              largest == {n \in DOMAIN conflict :
                             /\ conflict[n] > 0
                             /\ \A i \in DOMAIN conflict : conflict[i] <= conflict[n]}
              m == order[Min(largest)]
          IN  /\ largest # {}
              /\ tables' = releaseResources(m, entity[m])
              /\ preferredSlots' = changePreferenceLevel(entity[m], -1)
              /\ entity' = [entity EXCEPT ![m] = NoEntity]
              /\ order' = Ripped(Min(largest))
  BY DEF ripupScheduleEntity
<1> DEFINE conflict == [n \in 1 .. pos - 1 |->
                          IF Scheduled(order[n])
                          THEN severityConflict(entity[order[n]], cur, r) ELSE 0]
           largest == {n \in DOMAIN conflict :
                         /\ conflict[n] > 0
                         /\ \A i \in DOMAIN conflict : conflict[i] <= conflict[n]}
           k == Min(largest)
<1>2. /\ largest # {}
      /\ tables' = releaseResources(order[k], entity[order[k]])
      /\ preferredSlots' = changePreferenceLevel(entity[order[k]], -1)
      /\ entity' = [entity EXCEPT ![order[k]] = NoEntity]
      /\ order' = Ripped(k)
  BY <1>1
<1>3. /\ pc = "ripup" /\ pc' = "message" /\ pos' = pos - 1 /\ nrRipups' = nrRipups + 1
      /\ UNCHANGED <<problem, try, dur, history>>
  BY DEF ripupScheduleEntity
<1>4. Searches /\ Places
  BY SoundParts
<1>5. pos \in Messages /\ nrRipups < MaxNrRipups
  BY <1>3, <1>4 DEF Searches
<1>6. largest \in SUBSET Nat /\ largest \subseteq 1 .. pos - 1
  OBVIOUS
<1>7. \A n \in largest : conflict[n] > 0 /\ n \in 1 .. pos - 1
  OBVIOUS
<1>8. \A n \in 1 .. pos - 1 : ~Scheduled(order[n]) => conflict[n] = 0
  OBVIOUS
<1> HIDE DEF conflict
<1>9. \A n \in largest : Scheduled(order[n])
  <2>1. ~(0 > 0)
    OBVIOUS
  <2> HIDE DEF largest
  <2> QED
    BY <1>7, <1>8, <2>1
<1> HIDE DEF largest
<1>10. k \in largest
  BY <1>2, <1>6, Smallest
<1> HIDE DEF k
<1>11. k \in 1 .. pos - 1 /\ k \in Nat
  BY <1>6, <1>10
<1>12. k \in Messages
  BY <1>4, <1>5, <1>11, OrderType DEF Places
<1>13. IsEntity(entity[order[k]])
  <2>1. order[k] \in Messages /\ DOMAIN entity = Messages
    BY <1>4, <1>12 DEF Places
  <2>2. entity[order[k]] # NoEntity
    BY <1>9, <1>10 DEF Scheduled
  <2> QED
    BY <1>4, <2>1, <2>2 DEF Places, AreEntities
<1> QED
  BY <1>2, <1>3, <1>5, <1>11, <1>13 DEF RippedUp

(* The list of messages after a rip-up                                     *)
LEMMA RippedIs ==
    ASSUME problem \in Problems, order \in [Messages -> Messages], pos \in Messages,
           \A i, j \in Messages : order[i] = order[j] => i = j,
           NEW k \in 1 .. pos - 1
    PROVE  /\ Ripped(k) \in [Messages -> Messages]
           /\ k \in Messages /\ pos - 1 \in Messages
           /\ Ripped(k)[pos - 1] = order[pos] /\ Ripped(k)[pos] = order[k]
           /\ \A i \in Messages : i > pos => Ripped(k)[i] = order[i]
           /\ \A i, j \in Messages : Ripped(k)[i] = Ripped(k)[j] => i = j
<1> DEFINE to(i) == IF i < k \/ i > pos THEN i ELSE IF i = pos THEN k ELSE i + 1
<1>1. Messages = 1 .. Len(order) /\ Len(order) \in Nat /\ DOMAIN order = Messages
  BY OrderType
<1>2. \A i \in Messages : to(i) \in Messages
  BY <1>1
<1>3. \A i, j \in Messages : to(i) = to(j) => i = j
  BY <1>1
<1>4. Ripped(k) = [i \in Messages |-> order[to(i)]]
  BY <1>1 DEF Ripped
<1>5. k \in Messages /\ pos - 1 \in Messages /\ pos \in Messages
  BY <1>1
<1>6. to(pos - 1) = pos /\ to(pos) = k /\ \A i \in Messages : i > pos => to(i) = i
  BY <1>1
<1> HIDE DEF to
<1>7. Ripped(k) \in [Messages -> Messages]
  BY <1>2, <1>4
<1>8. \A i, j \in Messages : Ripped(k)[i] = Ripped(k)[j] => i = j
  BY <1>2, <1>3, <1>4
<1> QED
  BY <1>4, <1>5, <1>6, <1>7, <1>8

LEMMA RipupSound ==
    ASSUME Sound, ripupScheduleEntity
    PROVE  Sound'
<1>1. PICK k \in Nat : RippedUp(k)
  BY RipupIs
<1>2. /\ pc = "ripup" /\ pc' = "message" /\ pos' = pos - 1 /\ nrRipups' = nrRipups + 1
      /\ UNCHANGED <<problem, try, dur, history>>
      /\ pos \in Messages /\ nrRipups < MaxNrRipups
  BY RipupIs
<1> DEFINE m == order[k]
<1>3. /\ k \in 1 .. pos - 1 /\ IsEntity(entity[m])
      /\ tables' = releaseResources(m, entity[m])
      /\ preferredSlots' = changePreferenceLevel(entity[m], -1)
      /\ entity' = [entity EXCEPT ![m] = NoEntity]
      /\ order' = Ripped(k)
  BY <1>1 DEF RippedUp
<1>4. Searches /\ Places
  BY SoundParts
<1>5. /\ Ripped(k) \in [Messages -> Messages]
      /\ k \in Messages /\ pos - 1 \in Messages
      /\ Ripped(k)[pos - 1] = order[pos] /\ Ripped(k)[pos] = order[k]
      /\ \A i \in Messages : i > pos => Ripped(k)[i] = order[i]
      /\ \A i, j \in Messages : Ripped(k)[i] = Ripped(k)[j] => i = j
  BY <1>2, <1>3, <1>4, RippedIs DEF Places
<1>6. Messages' = Messages
  BY <1>2 DEF Messages
<1>7. m \in Messages /\ m \in Nat
  <2>1. m \in Messages /\ problem \in Problems
    BY <1>4, <1>5 DEF Places
  <2> HIDE DEF m
  <2> QED
    BY <2>1, ProblemType
<1>8. /\ \A l \in Links : Covers(tables'[l])
      /\ tables' \in [Links -> Seq([from : Nat, to : Nat, use : [Slots -> Int]])]
      /\ preferredSlots' \in [Links -> [Slots -> Int]]
  <2>1. 0 \in Nat /\ 0 <= Len(entity[m].route) /\ -1 \in Int
    BY <1>3 DEF IsEntity
  <2> HIDE DEF m
  <2> QED
    BY <1>2, <1>3, <1>7, <2>1, ClaimTypes
<1>9. entity' \in [Messages -> [start : Nat, dur : Nat, slots : SUBSET Slots, route : Seq(Links)]]
  BY <1>3, <1>4, <1>7, NoEntityType DEF Places
<1>10. /\ order' \in [Messages -> Messages]
       /\ \A i, j \in Messages : order'[i] = order'[j] => i = j
  BY <1>3, <1>5
<1>11. Len(order') = Len(problem.messages) /\ Messages = 1 .. Len(problem.messages)
       /\ Len(problem.messages) \in Nat
  <2>1. order' = [i \in 1 .. Len(problem.messages) |-> order'[i]] /\ Messages = 1 .. Len(problem.messages)
        /\ Len(problem.messages) \in Nat
    BY <1>4, <1>10, OrderType DEF Places
  <2> QED
    BY <2>1
<1>12. pos' \in 1 .. Len(order') + 1
  BY <1>2, <1>3, <1>11
<1>13. \A i \in Messages : i >= pos' => entity'[order'[i]] = NoEntity
  <2> SUFFICES ASSUME NEW i \in Messages, i >= pos'
               PROVE  entity'[order'[i]] = NoEntity
    OBVIOUS
  <2>1. i = pos - 1 \/ i = pos \/ i > pos
    BY <1>2, <1>11
  <2>2. \A j \in Messages : j >= pos => entity'[order[j]] = NoEntity
    <3> SUFFICES ASSUME NEW j \in Messages, j >= pos
                 PROVE  entity'[order[j]] = NoEntity
      OBVIOUS
    <3>1. order[j] \in Messages /\ entity[order[j]] = NoEntity
      BY <1>4 DEF Places
    <3> QED
      BY <1>3, <1>4, <1>7, <3>1 DEF Places
  <2>3. entity'[m] = NoEntity
    BY <1>3, <1>4, <1>7 DEF Places
  <2>4. CASE i = pos - 1
    <3>1. pos >= pos
      BY <1>2, <1>11
    <3> QED
      BY <1>2, <1>3, <1>5, <2>2, <2>4, <3>1
  <2>5. CASE i = pos
    BY <1>3, <1>5, <2>3, <2>5
  <2>6. CASE i > pos
    <3>1. i >= pos
      BY <1>2, <1>11, <2>6
    <3> QED
      BY <1>3, <1>5, <2>2, <2>6, <3>1
  <2> QED
    BY <2>1, <2>4, <2>5, <2>6
<1>14. AreEntities(entity')
  <2> SUFFICES ASSUME NEW n \in DOMAIN entity'
               PROVE  entity'[n] = NoEntity \/ IsEntity(entity'[n])
    BY DEF AreEntities
  <2> QED
    BY <1>3, <1>4, <1>7 DEF Places, AreEntities
<1>15. nrRipups' \in 0 .. MaxNrRipups
  BY <1>2, <1>4, NoCAssumption DEF Places
<1>16. Places'
  <2>1. AreEntities(entity)' <=> AreEntities(entity')
    BY DEF AreEntities, IsEntity, IsRoute
  <2>2. (\A l \in Links : Covers(tables[l]))'
    BY <1>8 DEF Covers
  <2>3. UNCHANGED <<late, long>>
    BY <1>2 DEF history
  <2>4. \A n \in Messages : entity'[n].dur <= Period \/ n \in long'
    <3>1. NoEntity.dur <= Period
      BY SlotTablesAssumption DEF NoEntity
    <3>2. \A n \in Messages : entity'[n] = NoEntity \/ entity'[n] = entity[n]
      BY <1>3, <1>4 DEF Places
    <3> QED
      BY <1>4, <2>3, <3>1, <3>2 DEF Places
  <2> QED
    BY <1>2, <1>4, <1>6, <1>8, <1>9, <1>10, <1>12, <1>13, <1>14, <1>15, <2>1, <2>2, <2>3, <2>4
       DEF Places
<1>17. Searches'
  <2>1. (\A q \in try.routes : IsRoute(q))'
    BY <1>2, <1>4 DEF IsRoute, Searches
  <2> QED
    BY <1>2, <1>4, <2>1 DEF Searches
<1> QED
  BY <1>16, <1>17, SoundParts, PTL

(* Sound is an inductive invariant.                                        *)
LEMMA SoundAlways == Spec => []Sound
<1>1. Init => Sound
  BY SoundInit
<1>2. Sound /\ [Next]_vars => Sound'
  <2> SUFFICES ASSUME Sound, [Next]_vars PROVE Sound'
    OBVIOUS
  <2>1. CASE NextMessage
    BY <2>1, NextMessageSound
  <2>2. CASE TryRoute
    BY <2>2, TryRouteSound
  <2>3. CASE NextDetour
    BY <2>3, NextDetourSound
  <2>4. CASE NotFound
    BY <2>4, NotFoundSound
  <2>5. CASE SlotsFound
    BY <2>5, SlotsFoundSound
  <2>6. CASE SlotAlreadyReserved
    BY <2>6, SlotAlreadyReservedSound
  <2>7. CASE HalveDuration \/ GiveUpRoute \/ RipupNothing \/ AllScheduled
    BY <2>7, ControlSound
  <2>8. CASE ripupScheduleEntity
    BY <2>8, RipupSound
  <2>9. ASSUME UNCHANGED vars PROVE Sound'
    <3>1. Searches /\ Places
      BY SoundParts
    <3>2. Places' /\ Messages' = Messages
      BY <2>9, <3>1, PlacesSame DEF vars
    <3>3. (\A q \in try.routes : IsRoute(q))' /\ (IsRoute(try.route)' <=> IsRoute(try.route))
      BY <2>9, <3>1 DEF IsRoute, Searches, vars
    <3>4. Searches'
      BY <2>9, <3>1, <3>2, <3>3 DEF Searches, vars
    <3> QED
      BY <3>2, <3>4, SoundParts, PTL
  <2> QED
    BY <2>1, <2>2, <2>3, <2>4, <2>5, <2>6, <2>7, <2>8, <2>9 DEF Next
<1> QED
  BY <1>1, <1>2, PTL DEF Spec

(* Less is left when one entry is less and those before it are the same.   *)
LessLeft == \E i \in DOMAIN Left : Left'[i] < Left[i] /\ \A j \in 1 .. i - 1 : Left'[j] = Left[j]

LEMMA LeftIs ==
    /\ DOMAIN Left = 1 .. 7
    /\ Left[1] = MaxNrRipups - nrRipups /\ Left'[1] = MaxNrRipups - nrRipups'
    /\ Left[2] = Len(order) - pos /\ Left'[2] = Len(order') - pos'
    /\ Left[3] = Stage[pc] /\ Left'[3] = Stage[pc']
    /\ Left[4] = MaxDetour - try.detour /\ Left'[4] = MaxDetour - try'.detour
    /\ Left[5] = Cardinality(try.routes) /\ Left'[5] = Cardinality(try'.routes)
    /\ Left[6] = Cardinality({pc} \cap {"slots"}) /\ Left'[6] = Cardinality({pc'} \cap {"slots"})
    /\ Left[7] = dur /\ Left'[7] = dur'
  BY DEF Left, Stage

LEMMA StageIs ==
    /\ Stage["message"] = 3 /\ Stage["route"] = 2 /\ Stage["slots"] = 2 /\ Stage["ripup"] = 1
    /\ Stage["failed"] = 0 /\ Stage["exception"] = 0 /\ Stage["undefined"] = 0
    /\ Stage["solved"] = 0
  BY DEF Stage

LEMMA StepLeavesLess ==
    ASSUME Sound, Next
    PROVE  LessLeft
<1>1. /\ nrRipups \in Nat /\ MaxNrRipups \in Nat /\ pos \in Nat /\ Len(order) \in Nat
      /\ dur \in Nat /\ MaxDetour \in Nat /\ try \in TryType
      /\ pc \in {"route", "slots"} => try.minDur >= 1
      /\ IsFiniteSet(try.routes)
      /\ problem \in Problems /\ order \in [Messages -> Messages]
  <2>1. Searches /\ Places
    BY SoundParts
  <2>2. Len(order) \in Nat
    BY <2>1, OrderType DEF Places
  <2>3. dur \in Nat
    BY <2>1, NoCAssumption DEF Searches
  <2> QED
    BY <2>1, <2>2, <2>3, NoCAssumption DEF Places, Searches
<1>2. try.detour \in Nat /\ try.minDur \in Nat
  BY <1>1 DEF TryType
<1>3. ASSUME NEW i \in 1 .. 7, Left'[i] < Left[i], \A j \in 1 .. i - 1 : Left'[j] = Left[j]
      PROVE  LessLeft
  BY <1>3, LeftIs DEF LessLeft
<1>4. CASE NextMessage
  <2>1. pc = "message" /\ pc' = "route" /\ UNCHANGED <<order, pos, nrRipups>>
    BY <1>4 DEF NextMessage
  <2>2. Left'[3] < Left[3] /\ Left'[1] = Left[1] /\ Left'[2] = Left[2]
    BY <2>1, StageIs, LeftIs
  <2> QED
    BY <1>3, <2>2
<1>5. CASE TryRoute
  <2>1. PICK r \in try.routes : try' = [try EXCEPT !.route = r, !.routes = @ \ {r}]
    BY <1>5 DEF TryRoute
  <2>2. pc = "route" /\ pc' = "slots" /\ UNCHANGED <<order, pos, nrRipups>>
    BY <1>5 DEF TryRoute
  <2>3. try'.routes = try.routes \ {r} /\ try'.detour = try.detour
    BY <1>1, <2>1 DEF TryType
  <2>4. Cardinality(try.routes \ {r}) = Cardinality(try.routes) - 1 /\ Cardinality(try.routes) \in Nat
    BY <1>1, FS_RemoveElement, FS_CardinalityType
  <2>5. Left'[5] < Left[5] /\ Left'[1] = Left[1] /\ Left'[2] = Left[2] /\ Left'[3] = Left[3]
        /\ Left'[4] = Left[4]
    BY <2>2, <2>3, <2>4, StageIs, LeftIs
  <2> QED
    BY <1>3, <2>5
<1>6. CASE NextDetour
  <2>1. /\ try' = [try EXCEPT !.detour = @ + 1, !.routes = findAllRoutes(cur, try.detour + 1)]
        /\ UNCHANGED <<order, pos, nrRipups, pc>>
    BY <1>6 DEF NextDetour
  <2>2. try'.detour = try.detour + 1
    BY <1>1, <2>1 DEF TryType
  <2>3. Left'[4] < Left[4] /\ Left'[1] = Left[1] /\ Left'[2] = Left[2] /\ Left'[3] = Left[3]
    BY <1>1, <1>2, <2>1, <2>2, LeftIs
  <2> QED
    BY <1>3, <2>3
<1>7. CASE NotFound
  <2>1. pc = "route" /\ pc' \in {"ripup", "failed"} /\ UNCHANGED <<order, pos, nrRipups>>
    BY <1>7 DEF NotFound
  <2>2. Left'[3] < Left[3] /\ Left'[1] = Left[1] /\ Left'[2] = Left[2]
    BY <2>1, StageIs, LeftIs
  <2> QED
    BY <1>3, <2>2
<1>8. CASE SlotsFound
  <2>1. pos' = pos + 1 /\ UNCHANGED <<order, nrRipups>>
    BY <1>8 DEF SlotsFound
  <2>2. Left'[2] < Left[2] /\ Left'[1] = Left[1]
    BY <1>1, <2>1, LeftIs
  <2> QED
    BY <1>3, <2>2
<1>9. CASE SlotAlreadyReserved
  <2>1. pc = "slots" /\ pc' = "exception" /\ UNCHANGED <<order, pos, nrRipups>>
    BY <1>9 DEF SlotAlreadyReserved
  <2>2. Left'[3] < Left[3] /\ Left'[1] = Left[1] /\ Left'[2] = Left[2]
    BY <2>1, StageIs, LeftIs
  <2> QED
    BY <1>3, <2>2
<1>10. CASE HalveDuration
  <2>1. pc = "slots" /\ dur >= try.minDur /\ dur' = dur \div 2
        /\ UNCHANGED <<order, pos, nrRipups, pc, try>>
    BY <1>10 DEF HalveDuration
  <2>2. \A d, m \in Nat : d >= m /\ m >= 1 => d \div 2 < d
    OBVIOUS
  <2>3. dur' < dur
    BY <1>1, <1>2, <2>1, <2>2
  <2>4. /\ Left'[7] < Left[7] /\ Left'[1] = Left[1] /\ Left'[2] = Left[2] /\ Left'[3] = Left[3]
        /\ Left'[4] = Left[4] /\ Left'[5] = Left[5] /\ Left'[6] = Left[6]
    BY <2>1, <2>3, LeftIs
  <2> QED
    BY <1>3, <2>4
<1>11. CASE GiveUpRoute
  <2>1. pc = "slots" /\ pc' = "route" /\ UNCHANGED <<order, pos, nrRipups, try>>
    BY <1>11 DEF GiveUpRoute
  <2>2. {pc} \cap {"slots"} = {pc} /\ {pc'} \cap {"slots"} = {}
    BY <2>1
  <2>3. Cardinality({pc}) = 1 /\ Cardinality({}) = 0
    BY FS_Singleton, FS_EmptySet
  <2>4. /\ Left'[6] < Left[6] /\ Left'[1] = Left[1] /\ Left'[2] = Left[2] /\ Left'[3] = Left[3]
        /\ Left'[4] = Left[4] /\ Left'[5] = Left[5]
    BY <2>1, <2>2, <2>3, StageIs, LeftIs
  <2> QED
    BY <1>3, <2>4
<1>12. CASE ripupScheduleEntity
  <2>1. nrRipups' = nrRipups + 1
    BY <1>12 DEF ripupScheduleEntity
  <2>2. Left'[1] < Left[1]
    BY <1>1, <2>1, LeftIs
  <2> QED
    BY <1>3, <2>2
<1>13. CASE RipupNothing \/ AllScheduled
  <2>1. pc \in {"ripup", "message"} /\ pc' \in {"undefined", "solved"}
        /\ UNCHANGED <<order, pos, nrRipups>>
    BY <1>13 DEF RipupNothing, AllScheduled
  <2>2. Left'[3] < Left[3] /\ Left'[1] = Left[1] /\ Left'[2] = Left[2]
    BY <2>1, StageIs, LeftIs
  <2> QED
    BY <1>3, <2>2
<1> QED
  BY <1>4, <1>5, <1>6, <1>7, <1>8, <1>9, <1>10, <1>11, <1>12, <1>13 DEF Next

(* Every step leaves less to do, on every network and for every list of    *)
(* messages: the list only gets longer again when a rip-up is used up, and *)
(* the duration that is halved is not zero, as a message with something to *)
(* send takes time.  What is left is bounded below, so the scheduler ends. *)
THEOREM SchedulerEnds == Spec => LeavesLess
<1>1. Sound /\ [Next]_vars => [LessLeft]_vars
  <2>1. Sound /\ Next => LessLeft
    BY StepLeavesLess
  <2> QED
    BY <2>1
<1>2. [][LessLeft]_vars <=> LeavesLess
  BY PTL DEF LeavesLess, LessLeft
<1> QED
  BY <1>1, <1>2, SoundAlways, PTL DEF Spec

(* Types, through every search, claim and rip-up                           *)
THEOREM Typing == Spec => []TypeOK
<1>1. Sound => TypeOK
  BY DEF Sound
<1> QED
  BY <1>1, SoundAlways, PTL

-----------------------------------------------------------------------------
(* The times of an entity                                                  *)
LEMMA ComeAt ==
    ASSUME NEW p \in Nat \ {0}, NEW a \in Nat, NEW j \in 0 .. p - 1
    PROVE  /\ a % p \in 0 .. p - 1
           /\ (a + j) % p = IF (a % p) + j < p THEN (a % p) + j ELSE (a % p) + j - p
<1>1. (a + j) % p = ((a % p) + j) % p /\ a % p \in 0 .. p - 1
  <2>1. a \in Int /\ j \in Int
    OBVIOUS
  <2> QED
    BY <2>1, RemainderOfSum, Zenon
<1>2. PICK f \in 0 .. p - 1 : f = a % p
  BY <1>1
<1>3. CASE f + j < p
  <2>1. f + j \in 0 .. p - 1 /\ 0 * p + (f + j) = f + j
    BY <1>3
  <2>2. (0 * p + (f + j)) % p = f + j
    BY <2>1, Remainder
  <2> QED
    BY <1>1, <1>2, <1>3, <2>1, <2>2
<1>4. CASE ~(f + j < p)
  <2>1. f + j - p \in 0 .. p - 1 /\ 1 * p + (f + j - p) = f + j
    BY <1>4
  <2>2. (1 * p + (f + j - p)) % p = f + j - p
    BY <2>1, Remainder
  <2> QED
    BY <1>1, <1>2, <1>4, <2>1, <2>2
<1> QED
  BY <1>3, <1>4

(* A frame of at most a period holds the times of its entity.              *)
LEMMA TimesIs ==
    ASSUME NEW e, IsEntity(e), e.dur <= Period, NEW k \in Nat, NEW x \in 0 .. Period - 1
    PROVE  Within(x, Frame(e, k)) <=> \E j \in 0 .. e.dur - 1 : x = (e.start + k + j) % Period
<1>1. e.start \in Nat /\ e.dur \in Nat /\ e.dur >= 2
  BY DEF IsEntity
<1>2. PICK p \in Nat \ {0} : p = Period
  BY SlotTablesAssumption
<1>3. PICK a \in Nat : a = e.start + k
  BY <1>1
<1>4. PICK d \in Nat : d = e.dur /\ d >= 2 /\ d <= p
  BY <1>1, <1>2
<1>5. \A j \in 0 .. d - 1 : j \in 0 .. p - 1
  BY <1>4
<1>6. \A j \in 0 .. d - 1 : (a + j) % p = IF (a % p) + j < p THEN (a % p) + j ELSE (a % p) + j - p
  BY <1>5, ComeAt
<1>7. PICK f \in 0 .. p - 1 : f = a % p
  BY <1>5, ComeAt, 0 \in 0 .. p - 1
<1>8. d - 1 \in 0 .. d - 1 /\ a + d - 1 = a + (d - 1)
  BY <1>4
<1>9. PICK z : z = (a + d - 1) % p /\ z = IF f + (d - 1) < p THEN f + (d - 1) ELSE f + (d - 1) - p
  BY <1>6, <1>7, <1>8
<1>10. \A j \in 0 .. d - 1 : (a + j) % p = IF f + j < p THEN f + j ELSE f + j - p
  BY <1>6, <1>7
<1>11. Frame(e, k).first = f /\ Frame(e, k).last = z
  <2>1. e.start + k + e.dur - 1 = a + d - 1
    BY <1>1, <1>3, <1>4
  <2> QED
    BY <1>2, <1>3, <1>7, <1>9, <2>1 DEF Frame
<1>12. Frame(e, k).loop <=> f >= z
  BY <1>11, FrameType
<1>13. Within(x, Frame(e, k)) <=> IF f >= z THEN x <= z \/ x >= f ELSE f <= x /\ x <= z
  BY <1>11, <1>12 DEF Within
<1>14. (IF f >= z THEN x <= z \/ x >= f ELSE f <= x /\ x <= z)
          <=> \E j \in 0 .. d - 1 : x = IF f + j < p THEN f + j ELSE f + j - p
  <2>1. CASE f + (d - 1) < p
    <3>1. z = f + (d - 1) /\ ~(f >= z)
      BY <1>4, <1>9, <2>1
    <3>2. ASSUME f <= x, x <= z
          PROVE  \E j \in 0 .. d - 1 : x = IF f + j < p THEN f + j ELSE f + j - p
      <4>1. x - f \in 0 .. d - 1 /\ f + (x - f) = x /\ x < p
        BY <1>2, <1>4, <3>1, <3>2
      <4> QED
        BY <4>1
    <3>3. ASSUME NEW j \in 0 .. d - 1, x = IF f + j < p THEN f + j ELSE f + j - p
          PROVE  f <= x /\ x <= z
      BY <1>4, <2>1, <3>1, <3>3
    <3> QED
      BY <3>1, <3>2, <3>3
  <2>2. CASE ~(f + (d - 1) < p)
    <3>1. z = f + (d - 1) - p /\ f >= z
      BY <1>4, <1>9, <2>2
    <3>2. ASSUME x >= f
          PROVE  \E j \in 0 .. d - 1 : x = IF f + j < p THEN f + j ELSE f + j - p
      <4>1. x - f \in 0 .. d - 1 /\ f + (x - f) = x /\ x < p
        BY <1>2, <1>4, <2>2, <3>2
      <4> QED
        BY <4>1
    <3>3. ASSUME x <= z
          PROVE  \E j \in 0 .. d - 1 : x = IF f + j < p THEN f + j ELSE f + j - p
      <4>1. x + p - f \in 0 .. d - 1 /\ f + (x + p - f) - p = x /\ ~(f + (x + p - f) < p)
        BY <1>2, <1>4, <2>2, <3>1, <3>3
      <4> QED
        BY <4>1
    <3>4. ASSUME NEW j \in 0 .. d - 1, x = IF f + j < p THEN f + j ELSE f + j - p
          PROVE  x <= z \/ x >= f
      BY <1>4, <2>2, <3>1, <3>4
    <3> QED
      BY <3>1, <3>2, <3>3, <3>4
  <2> QED
    BY <2>1, <2>2
<1>15. \A j \in 0 .. d - 1 : e.start + k + j = a + j
  BY <1>1, <1>3
<1>16. (\E j \in 0 .. d - 1 : x = IF f + j < p THEN f + j ELSE f + j - p)
          <=> \E j \in 0 .. e.dur - 1 : x = (e.start + k + j) % Period
  BY <1>2, <1>4, <1>10, <1>15
<1> QED
  BY <1>13, <1>14, <1>16

-----------------------------------------------------------------------------
(* The preference of a slot is the number of entities that use it, unless  *)
(* it is preferred by the problem.                                         *)
Uses(e, l, i) == \E k \in DOMAIN e.route : e.route[k] = l /\ i \in Shifted(e.slots, k - 1)

Users(E, l, i) == {m \in DOMAIN E : Uses(E[m], l, i)}

Prefers ==
    \A l \in Links : \A i \in Slots :
        preferredSlots[l][i] = IF i \in problem.preferred[l] THEN UINT_MAX
                               ELSE Cardinality(Users(entity, l, i))

(* There are fewer users than UINT_MAX.                                    *)
LEMMA UsersType ==
    ASSUME Sound, NEW l, NEW i
    PROVE  /\ IsFiniteSet(Users(entity, l, i))
           /\ Cardinality(Users(entity, l, i)) \in Nat
           /\ Cardinality(Users(entity, l, i)) < UINT_MAX
<1>1. problem \in Problems /\ DOMAIN entity = Messages
  BY DEF Sound, TypeOK
<1>2. PICK n \in Nat : n = Len(problem.messages) /\ n < UINT_MAX /\ Messages = 1 .. n
  BY <1>1, ProblemType
<1>3. Users(entity, l, i) \subseteq 1 .. n
  BY <1>1, <1>2 DEF Users
<1>4. 1 \in Int /\ n \in Int
  BY <1>2
<1>5. IsFiniteSet(1 .. n) /\ Cardinality(1 .. n) = IF 1 > n THEN 0 ELSE n - 1 + 1
  BY <1>4, FS_Interval
<1>6. IsFiniteSet(Users(entity, l, i))
  BY <1>3, <1>5, FS_Subset
<1>7. /\ Cardinality(Users(entity, l, i)) <= Cardinality(1 .. n)
      /\ Cardinality(Users(entity, l, i)) \in Nat
  BY <1>3, <1>5, <1>6, FS_Subset, FS_CardinalityType
<1>8. Cardinality(1 .. n) = n
  BY <1>5
<1> QED
  BY <1>2, <1>6, <1>7, <1>8 DEF UINT_MAX

LEMMA PrefersAdded ==
    ASSUME Sound, Prefers, NEW m \in Messages, entity[m] = NoEntity, NEW e,
           NEW l \in Links, NEW i \in Slots
    PROVE  changePreferenceLevel(e, 1)[l][i] =
              IF i \in problem.preferred[l] THEN UINT_MAX
              ELSE Cardinality(Users([entity EXCEPT ![m] = e], l, i))
<1> DEFINE U == Users(entity, l, i)
           V == Users([entity EXCEPT ![m] = e], l, i)
<1>1. changePreferenceLevel(e, 1)[l][i] =
        IF preferredSlots[l][i] # UINT_MAX /\ Uses(e, l, i) THEN preferredSlots[l][i] + 1
        ELSE preferredSlots[l][i]
  BY DEF changePreferenceLevel, Uses
<1>2. preferredSlots[l][i] = IF i \in problem.preferred[l] THEN UINT_MAX ELSE Cardinality(U)
  BY DEF Prefers
<1>3. IsFiniteSet(U) /\ Cardinality(U) \in Nat /\ Cardinality(U) < UINT_MAX
  BY UsersType
<1>4. m \in DOMAIN entity
  BY DEF Sound, TypeOK
<1>5. m \notin U
  BY NoClaims DEF Users, Uses
<1>6. V = IF Uses(e, l, i) THEN U \cup {m} ELSE U
  BY <1>4, <1>5 DEF Users
<1>7. Cardinality(U \cup {m}) = Cardinality(U) + 1
  BY <1>3, <1>5, FS_AddElement
<1> HIDE DEF U, V
<1>8. i \in problem.preferred[l] => changePreferenceLevel(e, 1)[l][i] = UINT_MAX
  BY <1>1, <1>2
<1>9. ASSUME i \notin problem.preferred[l]
      PROVE  changePreferenceLevel(e, 1)[l][i] = Cardinality(V)
  <2>1. preferredSlots[l][i] = Cardinality(U) /\ preferredSlots[l][i] # UINT_MAX
    BY <1>2, <1>3, <1>9 DEF UINT_MAX
  <2>2. CASE Uses(e, l, i)
    BY <1>1, <1>6, <1>7, <2>1, <2>2
  <2>3. CASE ~Uses(e, l, i)
    BY <1>1, <1>6, <2>1, <2>3
  <2> QED
    BY <2>2, <2>3
<1> QED
  BY <1>8, <1>9 DEF V

LEMMA PrefersRemoved ==
    ASSUME Sound, Prefers, NEW m \in Messages, NEW l \in Links, NEW i \in Slots
    PROVE  changePreferenceLevel(entity[m], -1)[l][i] =
              IF i \in problem.preferred[l] THEN UINT_MAX
              ELSE Cardinality(Users([entity EXCEPT ![m] = NoEntity], l, i))
<1> DEFINE U == Users(entity, l, i)
           V == Users([entity EXCEPT ![m] = NoEntity], l, i)
           e == entity[m]
<1>1. changePreferenceLevel(e, -1)[l][i] =
        IF preferredSlots[l][i] # UINT_MAX /\ Uses(e, l, i) THEN preferredSlots[l][i] + -1
        ELSE preferredSlots[l][i]
  BY DEF changePreferenceLevel, Uses
<1>2. preferredSlots[l][i] = IF i \in problem.preferred[l] THEN UINT_MAX ELSE Cardinality(U)
  BY DEF Prefers
<1>3. IsFiniteSet(U) /\ Cardinality(U) \in Nat /\ Cardinality(U) < UINT_MAX
  BY UsersType
<1>4. m \in DOMAIN entity
  BY DEF Sound, TypeOK
<1>5. ~Uses(NoEntity, l, i) /\ (m \in U <=> Uses(e, l, i))
  BY <1>4, NoClaims DEF Users, Uses
<1>6. V = IF Uses(e, l, i) THEN U \ {m} ELSE U
  BY <1>4, <1>5 DEF Users
<1>7. m \in U => Cardinality(U \ {m}) = Cardinality(U) - 1
  BY <1>3, FS_RemoveElement
<1> HIDE DEF U, V, e
<1>8. i \in problem.preferred[l] => changePreferenceLevel(e, -1)[l][i] = UINT_MAX
  BY <1>1, <1>2
<1>9. ASSUME i \notin problem.preferred[l]
      PROVE  changePreferenceLevel(e, -1)[l][i] = Cardinality(V)
  <2>1. preferredSlots[l][i] = Cardinality(U) /\ preferredSlots[l][i] # UINT_MAX
    BY <1>2, <1>3, <1>9 DEF UINT_MAX
  <2>2. CASE Uses(e, l, i)
    BY <1>1, <1>3, <1>5, <1>6, <1>7, <2>1, <2>2
  <2>3. CASE ~Uses(e, l, i)
    BY <1>1, <1>6, <2>1, <2>3
  <2> QED
    BY <2>2, <2>3
<1> QED
  BY <1>8, <1>9 DEF V, e

(* The place of a link on a route                                          *)
LEMMA PlaceOn ==
    ASSUME NEW e, IsEntity(e), NEW l
    PROVE  LET on == {k \in 1 .. Len(e.route) : e.route[k] = l}
           IN  /\ DOMAIN e.route = 1 .. Len(e.route)
               /\ on = {} => \A k \in DOMAIN e.route : e.route[k] # l
               /\ on # {} => Max(on) \in DOMAIN e.route /\ e.route[Max(on)] = l
<1> DEFINE on == {k \in 1 .. Len(e.route) : e.route[k] = l}
<1>1. Len(e.route) \in Nat /\ DOMAIN e.route = 1 .. Len(e.route)
  BY DEF IsEntity
<1>2. on = {} => \A k \in DOMAIN e.route : e.route[k] # l
  BY <1>1
<1>3. ASSUME on # {} PROVE Max(on) \in on
  <2>1. on \in SUBSET (0 .. Len(e.route))
    BY <1>1
  <2> HIDE DEF on
  <2> QED
    BY <1>1, <1>3, <2>1, Largest
<1>4. \A k \in on : k \in DOMAIN e.route /\ e.route[k] = l
  BY <1>1
<1> HIDE DEF on
<1>5. on # {} => Max(on) \in DOMAIN e.route /\ e.route[Max(on)] = l
  BY <1>3, <1>4
<1> QED
  BY <1>1, <1>2, <1>5 DEF on

(* All links match after a claim of at most a period without conflicts,    *)
LEMMA ClaimMatches ==
    ASSUME Sound, \A l \in Links : Matches(tables[l], l, entity),
           NEW m \in Messages, entity[m] = NoEntity,
           NEW e, IsEntity(e), e.dur <= Period, Conflicts(e) = {}, NEW l \in Links
    PROVE  Matches(reserveResources(m, e, Len(e.route))[l], l, [entity EXCEPT ![m] = e])
<1> DEFINE on == {k \in 1 .. Len(e.route) : e.route[k] = l}
           k == Max(on)
<1>1. reserveResources(m, e, Len(e.route))[l] =
         IF on = {} THEN tables[l]
         ELSE reserveSlots(tables[l], m, Shifted(e.slots, k - 1), Frame(e, k - 1))
  BY DEF reserveResources
<1>2. /\ on = {} => \A j \in DOMAIN e.route : e.route[j] # l
      /\ on # {} => k \in DOMAIN e.route /\ e.route[k] = l
  BY PlaceOn
<1> HIDE DEF on, k
<1>3. /\ DOMAIN entity = Messages /\ AreEntities(entity) /\ Messages \subseteq Nat \ {0}
      /\ Matches(tables[l], l, entity)
  <2>1. problem \in Problems /\ DOMAIN entity = Messages /\ AreEntities(entity)
    BY DEF Sound, TypeOK
  <2>2. Messages \subseteq Nat \ {0}
    BY <2>1, ProblemType
  <2> QED
    BY <2>1, <2>2
<1>4. CASE on = {}
  <2>1. \A j \in DOMAIN entity[m].route : entity[m].route[j] # l
    BY NoClaims
  <2>2. Matches(tables[l], l, [entity EXCEPT ![m] = e])
    BY <1>2, <1>3, <1>4, <2>1, ElsewhereMatches
  <2> QED
    BY <1>1, <1>4, <2>2
<1>5. CASE on # {}
  <2>1. k \in DOMAIN e.route /\ e.route[k] = l
    BY <1>2, <1>5
  <2>2. ~Conflict(tables[l], Shifted(e.slots, k - 1), Frame(e, k - 1))
    BY <2>1 DEF Conflicts
  <2>3. Matches(reserveSlots(tables[l], m, Shifted(e.slots, k - 1), Frame(e, k - 1)), l,
                [entity EXCEPT ![m] = e])
    BY <1>3, <2>1, <2>2, ReserveMatches
  <2> QED
    BY <1>1, <1>5, <2>3
<1> QED
  BY <1>4, <1>5

(* and after the release of an entity of at most a period.                 *)
LEMMA ReleasedMatches ==
    ASSUME Sound, \A l \in Links : Matches(tables[l], l, entity),
           NEW m \in Messages, IsEntity(entity[m]), entity[m].dur <= Period, NEW l \in Links
    PROVE  Matches(releaseResources(m, entity[m])[l], l, [entity EXCEPT ![m] = NoEntity])
<1> DEFINE e == entity[m]
           on == {k \in 1 .. Len(e.route) : e.route[k] = l}
           k == Max(on)
<1>0. DOMAIN e.route = 1 .. Len(e.route)
  BY PlaceOn
<1>1. releaseResources(m, e)[l] =
         IF on = {} THEN tables[l] ELSE releaseSlots(tables[l], m, e, k - 1)
  BY <1>0 DEF releaseResources
<1>2. /\ on = {} => \A j \in DOMAIN e.route : e.route[j] # l
      /\ on # {} => k \in DOMAIN e.route /\ e.route[k] = l
  BY PlaceOn
<1> HIDE DEF on, k
<1>3. /\ DOMAIN entity = Messages /\ AreEntities(entity) /\ Messages \subseteq Nat \ {0}
      /\ Matches(tables[l], l, entity)
  <2>1. problem \in Problems /\ DOMAIN entity = Messages /\ AreEntities(entity)
    BY DEF Sound, TypeOK
  <2>2. Messages \subseteq Nat \ {0}
    BY <2>1, ProblemType
  <2> QED
    BY <2>1, <2>2
<1>4. CASE on = {}
  <2>1. \A j \in DOMAIN NoEntity.route : NoEntity.route[j] # l
    BY NoClaims
  <2>2. Matches(tables[l], l, [entity EXCEPT ![m] = NoEntity])
    BY <1>2, <1>3, <1>4, <2>1, ElsewhereMatches
  <2> QED
    BY <1>1, <1>4, <2>2
<1>5. CASE on # {}
  <2>1. k \in DOMAIN entity[m].route /\ entity[m].route[k] = l
    BY <1>2, <1>5
  <2>2. Matches(releaseSlots(tables[l], m, entity[m], k - 1), l, [entity EXCEPT ![m] = NoEntity])
    BY <1>3, <2>1, ReleaseMatches
  <2> QED
    BY <1>1, <1>5, <2>2
<1> QED
  BY <1>4, <1>5

-----------------------------------------------------------------------------
(* No message takes longer than a period, as when none ever did.           *)
Short == \A m \in Messages : entity[m].dur <= Period

LEMMA NoneLong == Sound /\ long = {} => Short
  BY DEF Sound, Short

(* Until a claim fails, the tables of every link do what its claims ask,   *)
(* and no more, and they are cut where a claim begins.                     *)
InOrder ==
    /\ pc # "exception" => \A l \in Links : Matches(tables[l], l, entity)
    /\ Prefers

LEMMA InOrderInit ==
    ASSUME Init
    PROVE  InOrder
<1>1. Sound
  BY SoundInit
<1>2. DOMAIN entity = Messages /\ Messages \subseteq Nat \ {0} /\ \A m \in Messages : entity[m] = NoEntity
  <2>1. problem \in Problems /\ DOMAIN entity = Messages /\ \A m \in Messages : entity[m] = NoEntity
    BY DEF Init
  <2> QED
    BY <2>1, ProblemType
<1>3. ASSUME NEW l \in Links PROVE Matches(tables[l], l, entity)
  <2>1. /\ Covers(tables[l]) /\ Len(tables[l]) = 1
        /\ tables[l][1].use \in [Slots -> {Free, Elsewhere}]
    BY TablesInit
  <2>2. DOMAIN tables[l] = 1 .. Len(tables[l])
    BY <2>1, CoversType
  <2>3. \A n \in DOMAIN tables[l] : n = 1
    BY <2>1, <2>2
  <2>4. Tells(tables[l][1], l, entity)
    <3> SUFFICES ASSUME NEW i \in Slots
                 PROVE  /\ tables[l][1].use[i] \in {Free, Elsewhere} \cup Messages
                        /\ \A m \in Messages : \A x \in tables[l][1].from .. tables[l][1].to :
                              tables[l][1].use[i] = m <=> Claims(entity[m], l, x, i)
      BY <1>2 DEF Tells
    <3>1. tables[l][1].use[i] \in {Free, Elsewhere}
      BY <2>1
    <3>2. \A m \in Messages : tables[l][1].use[i] # m
      BY <1>2, <3>1 DEF Free, Elsewhere
    <3>3. \A m \in Messages : \A x : ~Claims(entity[m], l, x, i)
      BY <1>2, NoClaims
    <3> QED
      BY <3>1, <3>2, <3>3
  <2>5. CutForClaims(tables[l], l, entity)
    BY <1>2, NoClaims DEF CutForClaims
  <2> QED
    BY <2>1, <2>3, <2>4, <2>5 DEF Matches
<1>4. Prefers
  <2> SUFFICES ASSUME NEW l \in Links, NEW i \in Slots
               PROVE  preferredSlots[l][i] = IF i \in problem.preferred[l] THEN UINT_MAX
                                             ELSE Cardinality(Users(entity, l, i))
    BY DEF Prefers
  <2>1. preferredSlots[l][i] = IF i \in problem.preferred[l] THEN UINT_MAX ELSE 0
    BY DEF Init
  <2>2. Users(entity, l, i) = {}
    BY <1>2, NoClaims DEF Users, Uses
  <2> QED
    BY <2>1, <2>2, FS_EmptySet
<1> QED
  BY <1>3, <1>4 DEF InOrder

LEMMA PrefersSame ==
    ASSUME Prefers, UNCHANGED <<problem, entity, preferredSlots>>
    PROVE  Prefers'
<1> SUFFICES ASSUME NEW l \in Links, NEW i \in Slots
             PROVE  preferredSlots'[l][i] = IF i \in problem'.preferred[l] THEN UINT_MAX
                                            ELSE Cardinality(Users(entity', l, i))
  BY DEF Prefers, Users, Uses
<1>1. preferredSlots[l][i] = IF i \in problem.preferred[l] THEN UINT_MAX
                             ELSE Cardinality(Users(entity, l, i))
  BY DEF Prefers
<1> QED
  BY <1>1

LEMMA InOrderSame ==
    ASSUME InOrder, pc # "exception", UNCHANGED <<problem, entity, tables, preferredSlots>>
    PROVE  InOrder'
<1>1. \A l \in Links : Matches(tables[l], l, entity)
  BY DEF InOrder
<1>2. (\A l \in Links : Matches(tables[l], l, entity))'
  BY <1>1 DEF Matches, Covers, Tells, Claims, CutForClaims, CutIn
<1>3. Prefers'
  BY PrefersSame DEF InOrder
<1> QED
  BY <1>2, <1>3 DEF InOrder

LEMMA InOrderNext ==
    ASSUME Sound, Short, Short', InOrder, Next
    PROVE  InOrder'
<1>1. CASE NextMessage
  BY <1>1, InOrderSame DEF NextMessage
<1>2. CASE TryRoute
  BY <1>2, InOrderSame DEF TryRoute
<1>3. CASE NextDetour
  BY <1>3, InOrderSame DEF NextDetour
<1>4. CASE NotFound
  BY <1>4, InOrderSame DEF NotFound
<1>5. CASE HalveDuration \/ GiveUpRoute
  BY <1>5, InOrderSame DEF HalveDuration, GiveUpRoute
<1>6. CASE RipupNothing \/ AllScheduled
  BY <1>6, InOrderSame DEF RipupNothing, AllScheduled
<1>7. CASE SlotsFound
  <2> DEFINE e == NewEntity(FoundSlots)
  <2>1. /\ pc = "slots" /\ FoundSlots # {} /\ Conflicts(e) = {}
        /\ tables' = reserveResources(cur, e, Len(e.route))
        /\ preferredSlots' = changePreferenceLevel(e, 1)
        /\ entity' = [entity EXCEPT ![cur] = e] /\ problem' = problem
    BY <1>7 DEF SlotsFound
  <2>2. IsEntity(e)
    BY <2>1, NewEntityType
  <2> HIDE DEF e
  <2>3. \A l \in Links : Matches(tables[l], l, entity)
    BY <2>1 DEF InOrder
  <2>4. cur \in Messages /\ entity[cur] = NoEntity
    BY <2>1, CurType DEF Sound
  <2>5. PICK m \in Messages : m = cur
    BY <2>4
  <2>6. \A l \in Links : Matches(tables'[l], l, entity')
    <3>1. e.dur <= Period
      <4>1. DOMAIN entity = Messages /\ Messages' = Messages
        BY <2>1 DEF Sound, TypeOK, Messages
      <4> QED
        BY <2>1, <2>4, <4>1 DEF Short
    <3> QED
      BY <2>1, <2>2, <2>3, <2>4, <2>5, <3>1, ClaimMatches
  <2>7. \A l \in Links : \A i \in Slots :
           preferredSlots'[l][i] = IF i \in problem.preferred[l] THEN UINT_MAX
                                   ELSE Cardinality(Users(entity', l, i))
    <3>1. Prefers /\ entity[m] = NoEntity
      BY <2>4, <2>5 DEF InOrder
    <3>2. \A l \in Links : \A i \in Slots :
             changePreferenceLevel(e, 1)[l][i] =
                IF i \in problem.preferred[l] THEN UINT_MAX
                ELSE Cardinality(Users([entity EXCEPT ![m] = e], l, i))
      BY <3>1, PrefersAdded
    <3> QED
      BY <2>1, <2>5, <3>2
  <2>8. (\A l \in Links : Matches(tables[l], l, entity))'
    BY <2>6 DEF Matches, Covers, Tells, Claims, CutForClaims, CutIn
  <2>9. Prefers'
    BY <2>1, <2>7 DEF Prefers, Users, Uses
  <2> QED
    BY <2>8, <2>9 DEF InOrder
<1>8. CASE SlotAlreadyReserved
  <2>1. pc' = "exception" /\ UNCHANGED <<problem, entity, preferredSlots>>
    BY <1>8 DEF SlotAlreadyReserved
  <2>2. Prefers'
    BY <2>1, PrefersSame DEF InOrder
  <2> QED
    BY <2>1, <2>2 DEF InOrder
<1>9. CASE ripupScheduleEntity
  <2>1. PICK k \in Nat : RippedUp(k)
    BY <1>9, RipupIs
  <2>2. pc = "ripup" /\ pos \in Messages /\ problem' = problem
    BY <1>9, RipupIs
  <2>3. k \in Messages
    <3>1. problem \in Problems /\ order \in [Messages -> Messages] /\ k \in 1 .. pos - 1
      BY <2>1 DEF Sound, TypeOK, RippedUp
    <3> QED
      BY <2>2, <3>1, OrderType
  <2>4. PICK m \in Messages : m = order[k]
    BY <2>3 DEF Sound, TypeOK
  <2>5. /\ IsEntity(entity[m])
        /\ tables' = releaseResources(m, entity[m])
        /\ preferredSlots' = changePreferenceLevel(entity[m], -1)
        /\ entity' = [entity EXCEPT ![m] = NoEntity]
    BY <2>1, <2>4 DEF RippedUp
  <2>6. \A l \in Links : Matches(tables[l], l, entity)
    BY <2>2 DEF InOrder
  <2>7. \A l \in Links : Matches(tables'[l], l, entity')
    BY <2>5, <2>6, ReleasedMatches DEF Short
  <2>8. \A l \in Links : \A i \in Slots :
           preferredSlots'[l][i] = IF i \in problem.preferred[l] THEN UINT_MAX
                                   ELSE Cardinality(Users(entity', l, i))
    BY <2>5, PrefersRemoved DEF InOrder
  <2>9. (\A l \in Links : Matches(tables[l], l, entity))'
    BY <2>7 DEF Matches, Covers, Tells, Claims, CutForClaims, CutIn
  <2>10. Prefers'
    BY <2>2, <2>8 DEF Prefers, Users, Uses
  <2> QED
    BY <2>9, <2>10 DEF InOrder
<1> QED
  BY <1>1, <1>2, <1>3, <1>4, <1>5, <1>6, <1>7, <1>8, <1>9 DEF Next

(* What a slot table says at a time is who holds the slot then.            *)
LEMMA HoldsIs ==
    ASSUME Sound, Short, NEW m \in Messages, NEW l, NEW x \in 0 .. Period - 1, NEW i
    PROVE  Holds(m, l, x, i) <=> Claims(entity[m], l, x, i)
<1>1. entity[m] = NoEntity \/ IsEntity(entity[m])
  BY DEF Sound, TypeOK, AreEntities
<1>2. CASE entity[m] = NoEntity
  BY <1>2, NoClaims DEF Holds
<1>3. CASE IsEntity(entity[m])
  <2> DEFINE e == entity[m]
  <2>1. IsEntity(e) /\ e.dur <= Period
    BY <1>3 DEF Short
  <2>2. \A k \in DOMAIN e.route : k - 1 \in Nat /\ k \in Nat
    BY <2>1, OnLink DEF IsEntity
  <2>3. \A k \in DOMAIN e.route :
           Within(x, Frame(e, k - 1))
              <=> \E j \in 0 .. e.dur - 1 : x = (e.start + (k - 1) + j) % Period
    BY <2>1, <2>2, TimesIs
  <2>4. \A k \in DOMAIN e.route : \A j \in 0 .. e.dur - 1 : e.start + (k - 1) + j = e.start + k - 1 + j
    BY <2>1, <2>2 DEF IsEntity
  <2>5. Holds(m, l, x, i) <=>
           \E k \in DOMAIN e.route :
              /\ e.route[k] = l
              /\ i \in Shifted(e.slots, k - 1)
              /\ \E j \in 0 .. e.dur - 1 : x = (e.start + k - 1 + j) % Period
    BY DEF Holds
  <2>6. \A k \in DOMAIN e.route :
           Within(x, Frame(e, k - 1))
              <=> \E j \in 0 .. e.dur - 1 : x = (e.start + k - 1 + j) % Period
    BY <2>3, <2>4
  <2> HIDE DEF e
  <2>7. Holds(m, l, x, i) <=> Claims(e, l, x, i)
    BY <2>5, <2>6 DEF Claims
  <2> QED
    BY <2>7 DEF e
<1> QED
  BY <1>1, <1>2, <1>3

(* An entity that uses a slot does so at the time its frame begins.        *)
LEMMA UsersHold ==
    ASSUME Sound, Short, NEW l, NEW i
    PROVE  {m \in Messages : \E x \in 0 .. Period - 1 : Holds(m, l, x, i)} = Users(entity, l, i)
<1>1. DOMAIN entity = Messages
  BY DEF Sound, TypeOK
<1>2. ASSUME NEW m \in Messages
      PROVE  (\E x \in 0 .. Period - 1 : Holds(m, l, x, i)) <=> Uses(entity[m], l, i)
  <2>1. ASSUME NEW x \in 0 .. Period - 1, Holds(m, l, x, i) PROVE Uses(entity[m], l, i)
    BY <2>1 DEF Holds, Uses
  <2>2. ASSUME Uses(entity[m], l, i) PROVE \E x \in 0 .. Period - 1 : Holds(m, l, x, i)
    <3>1. PICK k \in DOMAIN entity[m].route :
             entity[m].route[k] = l /\ i \in Shifted(entity[m].slots, k - 1)
      BY <2>2 DEF Uses
    <3>2. IsEntity(entity[m])
      BY <1>1, <3>1, NoClaims DEF Sound, AreEntities
    <3>3. k - 1 \in Nat
      BY <3>1, <3>2, OnLink
    <3> DEFINE f == Frame(entity[m], k - 1)
               x == f.first
    <3>4. x \in 0 .. Period - 1 /\ x \in Nat /\ (f.loop <=> f.first >= f.last)
          /\ f.last \in Nat
      BY <3>2, <3>3, FrameType
    <3> HIDE DEF f
    <3>5. Within(x, f)
      BY <3>4 DEF Within
    <3>6. Claims(entity[m], l, x, i)
      BY <3>1, <3>5 DEF Claims, f
    <3>7. Holds(m, l, x, i)
      BY <3>4, <3>6, HoldsIs
    <3> QED
      BY <3>4, <3>7
  <2> QED
    BY <2>1, <2>2
<1> QED
  BY <1>1, <1>2 DEF Users

LEMMA InOrderMatches ==
    ASSUME Sound, Short, InOrder
    PROVE  TablesMatchEntities
<1> SUFFICES ASSUME pc # "exception", NEW l \in Links
             PROVE  /\ \A x \in 0 .. Period - 1 :
                          \E n \in DOMAIN tables[l] :
                             LET s == tables[l][n]
                             IN  /\ s.from <= x /\ x <= s.to
                                 /\ n > 1 => tables[l][n - 1].to + 1 = s.from
                                 /\ \A i \in Slots :
                                       {m \in Messages : Holds(m, l, x, i)} =
                                          IF s.use[i] \in {Free, Elsewhere} THEN {} ELSE {s.use[i]}
                    /\ \A i \in Slots \ problem.preferred[l] :
                          preferredSlots[l][i] =
                             Cardinality({m \in Messages :
                                             \E x \in 0 .. Period - 1 : Holds(m, l, x, i)})
  BY DEF TablesMatchEntities
<1>1. Matches(tables[l], l, entity)
  BY DEF InOrder
<1>2. DOMAIN entity = Messages /\ Messages \subseteq Nat \ {0}
  <2>1. problem \in Problems /\ DOMAIN entity = Messages
    BY DEF Sound, TypeOK
  <2> QED
    BY <2>1, ProblemType
<1>3. ASSUME NEW x \in 0 .. Period - 1
      PROVE  \E n \in DOMAIN tables[l] :
                LET s == tables[l][n]
                IN  /\ s.from <= x /\ x <= s.to
                    /\ n > 1 => tables[l][n - 1].to + 1 = s.from
                    /\ \A i \in Slots :
                          {m \in Messages : Holds(m, l, x, i)} =
                             IF s.use[i] \in {Free, Elsewhere} THEN {} ELSE {s.use[i]}
  <2>1. PICK n \in DOMAIN tables[l] : tables[l][n].from <= x /\ x <= tables[l][n].to
    BY <1>1, TableAt DEF Matches
  <2> DEFINE s == tables[l][n]
  <2>2. s.from \in Nat /\ s.to \in Nat /\ (n > 1 => tables[l][n - 1].to + 1 = s.from)
    BY <1>1, <2>1, CoversType DEF Matches
  <2>3. x \in s.from .. s.to
    BY <2>1, <2>2
  <2>4. Tells(s, l, entity)
    BY <1>1 DEF Matches
  <2> HIDE DEF s
  <2>5. ASSUME NEW i \in Slots
        PROVE  {m \in Messages : Holds(m, l, x, i)} =
                  IF s.use[i] \in {Free, Elsewhere} THEN {} ELSE {s.use[i]}
    <3>1. /\ s.use[i] \in {Free, Elsewhere} \cup Messages
          /\ \A m \in Messages : s.use[i] = m <=> Claims(entity[m], l, x, i)
      BY <1>2, <2>3, <2>4 DEF Tells
    <3>2. \A m \in Messages : Holds(m, l, x, i) <=> s.use[i] = m
      BY <3>1, HoldsIs
    <3>3. CASE s.use[i] \in {Free, Elsewhere}
      <4>1. \A m \in Messages : s.use[i] # m
        BY <1>2, <3>3 DEF Free, Elsewhere
      <4> QED
        BY <3>2, <3>3, <4>1
    <3>4. CASE s.use[i] \notin {Free, Elsewhere}
      <4>1. s.use[i] \in Messages
        BY <3>1, <3>4
      <4> QED
        BY <3>2, <3>4, <4>1
    <3> QED
      BY <3>3, <3>4
  <2> QED
    BY <2>1, <2>2, <2>5 DEF s
<1>4. ASSUME NEW i \in Slots \ problem.preferred[l]
      PROVE  preferredSlots[l][i] =
                Cardinality({m \in Messages : \E x \in 0 .. Period - 1 : Holds(m, l, x, i)})
  <2>1. preferredSlots[l][i] = Cardinality(Users(entity, l, i))
    BY DEF InOrder, Prefers
  <2> QED
    BY <2>1, UsersHold
<1> QED
  BY <1>3, <1>4

(* An entity that was longer than a period is remembered.                  *)
LEMMA LongStays ==
    ASSUME Sound, [Next]_vars
    PROVE  long \subseteq long'
<1>1. CASE SlotsFound
  BY <1>1 DEF SlotsFound
<1>2. CASE ripupScheduleEntity
  BY <1>2, RipupIs DEF history
<1>3. CASE ~SlotsFound /\ ~ripupScheduleEntity
  <2>1. history' = history
    BY <1>3 DEF Next, vars, NextMessage, TryRoute, NextDetour, NotFound, SlotAlreadyReserved,
                HalveDuration, GiveUpRoute, RipupNothing, AllScheduled
  <2> QED
    BY <2>1 DEF history
<1> QED
  BY <1>1, <1>2, <1>3

(* The slot tables of every network hold exactly what the scheduling       *)
(* entities ask for, through every claim and rip-up, until a claim fails   *)
(* or an entity takes more than a period: such a one is released only in   *)
(* part.                                                                   *)
THEOREM SlotTablesRight == Spec => []TablesMatchEntities
<1>1. Init => (long = {} => InOrder)
  BY InOrderInit
<1>2. /\ Sound /\ Sound' /\ (long = {} => InOrder) /\ [Next]_vars
      => (long = {} => InOrder)'
  <2> SUFFICES ASSUME Sound, Sound', long = {} => InOrder, [Next]_vars, long' = {}
               PROVE  InOrder'
    OBVIOUS
  <2>1. long = {} /\ InOrder
    BY LongStays
  <2>2. Short /\ Short'
    <3>1. (long = {})'
      OBVIOUS
    <3>2. Short'
      BY <3>1, NoneLong, PTL
    <3> QED
      BY <2>1, <3>2, NoneLong
  <2>3. CASE Next
    BY <2>1, <2>2, <2>3, InOrderNext
  <2>4. CASE UNCHANGED vars
    <3>1. CASE pc # "exception"
      BY <2>1, <2>4, <3>1, InOrderSame DEF vars
    <3>2. CASE pc = "exception"
      <4>1. pc' = "exception" /\ UNCHANGED <<problem, entity, preferredSlots>>
        BY <2>4, <3>2 DEF vars
      <4>2. Prefers'
        BY <2>1, <4>1, PrefersSame DEF InOrder
      <4> QED
        BY <4>1, <4>2 DEF InOrder
    <3> QED
      BY <3>1, <3>2
  <2> QED
    BY <2>3, <2>4
<1>3. Sound /\ (long = {} => InOrder) => TablesMatchEntities
  <2>1. Sound /\ long # {} => TablesMatchEntities
    BY DEF TablesMatchEntities
  <2> QED
    BY <2>1, NoneLong, InOrderMatches
<1> QED
  BY <1>1, <1>2, <1>3, SoundAlways, PTL DEF Spec

(* Messages whose size is small for the period take no more than it.       *)
LEMMA NeverLong ==
    ASSUME \A p \in Problems : \A m \in DOMAIN p.messages :
              SlotTableSize * p.messages[m].size < Period
    PROVE  Spec => [](long = {})
<1>1. Init => long = {}
  BY DEF Init
<1>2. Sound /\ long = {} /\ [Next]_vars => (long = {})'
  <2> SUFFICES ASSUME Sound, long = {}, [Next]_vars
               PROVE  long' = {}
    OBVIOUS
  <2>1. CASE SlotsFound
    <3> DEFINE e == NewEntity(FoundSlots)
    <3>1. /\ pc = "slots" /\ FoundSlots # {}
          /\ long' = IF e.dur <= Period THEN long ELSE long \cup {cur}
      BY <2>1 DEF SlotsFound
    <3>2. /\ problem \in Problems /\ cur \in Messages /\ try.start \in Nat /\ dur \in Nat
          /\ Msg(cur).size \in Nat
      <4>1. pos \in Messages /\ try.start \in Nat /\ dur \in Nat
        BY <3>1, NoCAssumption DEF Sound, TypeOK
      <4> QED
        BY <4>1, CurType
    <3>3. FoundSlots \in SUBSET Slots
      BY <3>2, FoundType DEF FoundSlots
    <3> DEFINE d == minimalDuration(cur, try.start, FoundSlots)
    <3>4. d \in Nat /\ d <= SlotTableSize * Msg(cur).size + 1
      BY <3>1, <3>2, <3>3, MinimalDurationType
    <3>5. e.dur = d
      BY DEF NewEntity
    <3> HIDE DEF d, e
    <3>6. SlotTableSize * Msg(cur).size < Period
      BY <3>2 DEF Messages, Msg
    <3>7. SlotTableSize * Msg(cur).size \in Nat
      BY <3>2, SlotTablesAssumption
    <3>8. e.dur <= Period
      BY <3>4, <3>5, <3>6, <3>7, SlotTablesAssumption
    <3> QED
      BY <3>1, <3>8
  <2>2. CASE ripupScheduleEntity
    BY <2>2, RipupIs DEF history
  <2>3. CASE ~SlotsFound /\ ~ripupScheduleEntity
    <3>1. history' = history
      BY <2>3 DEF Next, vars, NextMessage, TryRoute, NextDetour, NotFound,
                  SlotAlreadyReserved, HalveDuration, GiveUpRoute, RipupNothing, AllScheduled
    <3> QED
      BY <3>1 DEF history
  <2> QED
    BY <2>1, <2>2, <2>3
<1> QED
  BY <1>1, <1>2, SoundAlways, PTL DEF Spec

(* No problem whose messages are small for the period ever has such an     *)
(* entity, so that its tables are those of the entities until a claim      *)
(* fails: a message with a single slot in every turn of the table, and a   *)
(* byte in every flit, is gone within a period.                            *)
THEOREM SlotTablesOfSmallMessages ==
    ASSUME \A p \in Problems : \A m \in DOMAIN p.messages :
              SlotTableSize * p.messages[m].size < Period
    PROVE  Spec => [](long = {} /\ TablesMatchEntities)
<1>1. Spec => [](long = {})
  BY NeverLong
<1> QED
  BY <1>1, SlotTablesRight, PTL
=============================================================================
