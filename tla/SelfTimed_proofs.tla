--------------------------- MODULE SelfTimed_proofs ---------------------------
(***************************************************************************)
(* Invariants of the self-timed execution, for every set of graphs.        *)
(***************************************************************************)
EXTENDS SelfTimed, SDFGraphs_proofs, FiniteSetTheorems

-----------------------------------------------------------------------------
(* Types and order of the firings support each other: the subtraction of   *)
(* clockStep stays in Nat because the front is the least entry.  The       *)
(* iterator of computeThroughput begins in the list of stored states.      *)
Safe == /\ TypeOK
        /\ FiringsInOrder
        /\ phase = "sum" => iter > 0

LEMMA InitSafe == Init => Safe
<1> SUFFICES ASSUME Init PROVE Safe
  OBVIOUS
<1>1. IsSDFGraph(g)
  BY GraphsAssumption DEF Init
<1>2. outputActor \in Actors(g) /\ outputActorRepCnt \in Positive
  BY RepVecAssumption DEF Init, initOutputActor
<1>3. ch \in [Channels(g) -> Nat]
  BY <1>1, InitialTokensType DEF Init
<1>4. actClk \in [Actors(g) -> Seq(Nat)] /\ \A a \in Actors(g) : actClk[a] = <<>>
  BY DEF Init
<1>5. TypeOK
  BY <1>2, <1>3, <1>4 DEF Init, TypeOK
<1>6. FiringsInOrder
  BY <1>4 DEF FiringsInOrder, Ordered
<1> QED
  BY <1>5, <1>6 DEF Safe, Init

LEMMA EndSafe ==
    ASSUME Safe, NEW a \in Actors(g), ReadyToEnd(a), endActorFiring(a), UNCHANGED g
    PROVE  /\ ch' \in [Channels(g) -> Nat]
           /\ actClk' \in [Actors(g) -> Seq(Nat)]
           /\ FiringsInOrder'
<1>1. IsSDFGraph(g) /\ g.ex[a] \in Nat
  BY GraphsAssumption, ExType DEF Safe, TypeOK
<1>2. ch' \in [Channels(g) -> Nat]
  BY <1>1, ProduceType DEF Safe, TypeOK, endActorFiring
<1>3. Tail(actClk[a]) \in Seq(Nat) /\ Ordered(Tail(actClk[a]), g.ex[a])
  BY <1>1, TailOrdered DEF Safe, TypeOK, FiringsInOrder, ReadyToEnd
<1>4. actClk' = [actClk EXCEPT ![a] = Tail(actClk[a])]
  BY DEF endActorFiring
<1> QED
  BY <1>2, <1>3, <1>4 DEF Safe, TypeOK, FiringsInOrder

LEMMA StartSafe ==
    ASSUME Safe, NEW a \in Actors(g), Ready(g, ch, a), startActorFiring(a), UNCHANGED g
    PROVE  /\ ch' \in [Channels(g) -> Nat]
           /\ actClk' \in [Actors(g) -> Seq(Nat)]
           /\ FiringsInOrder'
<1>1. IsSDFGraph(g) /\ g.ex[a] \in Nat
  BY GraphsAssumption, ExType DEF Safe, TypeOK
<1>2. ch' \in [Channels(g) -> Nat]
  BY <1>1, ConsumeType DEF Safe, TypeOK, startActorFiring
<1>3. Append(actClk[a], g.ex[a]) \in Seq(Nat) /\ Ordered(Append(actClk[a], g.ex[a]), g.ex[a])
  BY <1>1, AppendOrdered DEF Safe, TypeOK, FiringsInOrder
<1>4. actClk' = [actClk EXCEPT ![a] = Append(actClk[a], g.ex[a])]
  BY DEF startActorFiring
<1> QED
  BY <1>2, <1>3, <1>4 DEF Safe, TypeOK, FiringsInOrder

LEMMA ClockSafe == Safe /\ ClockStep => Safe'
<1> SUFFICES ASSUME Safe, ClockStep PROVE Safe'
  OBVIOUS
<1>1. PICK first \in Active :
        LET step == Head(actClk[first])
        IN  /\ \A a \in Active : step <= Head(actClk[a])
            /\ actClk' = [a \in Actors(g) |->
                            [i \in DOMAIN actClk[a] |-> actClk[a][i] - step]]
            /\ glbClk' = glbClk + step
            /\ now' = now + step
  BY DEF ClockStep
<1> DEFINE step == Head(actClk[first])
           lowered(a) == [i \in DOMAIN actClk[a] |-> actClk[a][i] - step]
<1>2. step \in Nat
  BY DEF Active, Safe, TypeOK
<1>3. ASSUME NEW a \in Actors(g)
      PROVE  lowered(a) \in Seq(Nat) /\ Ordered(lowered(a), g.ex[a])
  <2>1. actClk[a] # <<>> => step <= Head(actClk[a])
    BY <1>1 DEF Active
  <2>2. g.ex[a] \in Nat
    BY GraphsAssumption, ExType DEF Safe, TypeOK
  <2>3. actClk[a] \in Seq(Nat) /\ Ordered(actClk[a], g.ex[a])
    BY DEF Safe, TypeOK, FiringsInOrder
  <2> HIDE DEF step
  <2> QED
    BY <1>2, <2>1, <2>2, <2>3, LowerOrdered
<1>4. actClk' = [a \in Actors(g) |-> lowered(a)] /\ glbClk' = glbClk + step /\ now' = now + step
  BY <1>1
<1> HIDE DEF lowered
<1>5. /\ phase' = "end"
      /\ UNCHANGED <<g, outputActor, outputActorRepCnt, ch, repCnt, stored,
                     recurrent, iter, thr, storedAt>>
  BY DEF ClockStep, graph, result
<1> HIDE DEF step
<1>6. FiringsInOrder' /\ actClk' \in [Actors(g') -> Seq(Nat)]
  BY <1>3, <1>4, <1>5 DEF FiringsInOrder
<1>7. TypeOK'
  BY <1>2, <1>4, <1>5, <1>6 DEF Safe, TypeOK
<1> QED
  BY <1>5, <1>6, <1>7 DEF Safe

LEMMA NextSafe == Safe /\ [Next]_vars => Safe'
<1> SUFFICES ASSUME Safe, [Next]_vars PROVE Safe'
  OBVIOUS
<1>1. ASSUME NEW a \in Actors(g), EndFiring(a) PROVE Safe'
  BY <1>1, EndSafe DEF EndFiring, FirstToEnd, graph, result, Safe, TypeOK
<1>2. ASSUME NEW a \in Actors(g), StoreAndEndFiring(a) PROVE Safe'
  <2>1. Current \in State(g)
    BY DEF Current, State, Safe, TypeOK
  <2>2. stored' \in Seq(State(g')) /\ storedAt' \in Seq(Nat)
    BY <1>2, <2>1 DEF StoreAndEndFiring, graph, Safe, TypeOK
  <2> QED
    BY <1>2, <2>2, EndSafe DEF StoreAndEndFiring, FirstToEnd, graph, result, Safe, TypeOK
<1>3. ASSUME NEW a \in Actors(g), RecurrentState(a) PROVE Safe'
  BY <1>3 DEF RecurrentState, graph, Safe, TypeOK, FiringsInOrder
<1>4. ASSUME NEW a \in Actors(g), StartFiring(a) PROVE Safe'
  BY <1>4, StartSafe DEF StartFiring, graph, result, Safe, TypeOK
<1>5. CASE EndsDone
  BY <1>5 DEF EndsDone, graph, result, Safe, TypeOK, FiringsInOrder
<1>6. CASE ClockStep
  BY <1>6, ClockSafe
<1>7. CASE Deadlock
  BY <1>7 DEF Deadlock, graph, Safe, TypeOK, FiringsInOrder
<1>8. CASE AddState
  <2>1. stored \in Seq(State(g)) /\ iter \in DOMAIN stored
    BY <1>8 DEF AddState, Safe, TypeOK
  <2>2. stored[iter] \in State(g)
    BY <2>1, ElementType
  <2>3. stored[iter].glbClk \in Nat
    BY <2>2 DEF State
  <2> QED
    BY <1>8, <2>3 DEF AddState, graph, Safe, TypeOK, FiringsInOrder
<1>9. CASE ReturnThroughput
  BY <1>9 DEF ReturnThroughput, graph, result, Safe, TypeOK, FiringsInOrder
<1>10. CASE UNCHANGED vars
  BY <1>10 DEF vars, Safe, TypeOK, FiringsInOrder
<1> QED
  BY <1>1, <1>2, <1>3, <1>4, <1>5, <1>6, <1>7, <1>8, <1>9, <1>10 DEF Next

(* Types: in particular no subtraction of the analysis goes below zero,    *)
(* neither of the tokens consumed nor of the remaining times.              *)
THEOREM Typing == Spec => []TypeOK
<1>1. Safe => TypeOK
  BY DEF Safe
<1> QED
  BY <1>1, InitSafe, NextSafe, PTL DEF Spec

(* The fronts that the analysis looks at are the firings that end first.   *)
THEOREM InOrder == Spec => []FiringsInOrder
<1>1. Safe => FiringsInOrder
  BY DEF Safe
<1> QED
  BY <1>1, InitSafe, NextSafe, PTL DEF Spec

-----------------------------------------------------------------------------
(* The value returned.  At[i] is the time at which state i was stored; the *)
(* glbClk of a stored state is the time since the state stored before it,  *)
(* so the sum computeThroughput builds up telescopes.                      *)
At == [i \in 0 .. Len(storedAt) |-> IF i = 0 THEN 0 ELSE storedAt[i]]

StoredTimes ==
    /\ Len(storedAt) = Len(stored)
    /\ \A i \in DOMAIN stored : stored[i].glbClk = At[i] - At[i - 1]
    /\ glbClk = now - At[Len(stored)]

SumSoFar ==
    /\ phase \in {"end", "start"} => thr.fire = 0 /\ thr.time = 0
    /\ phase = "sum" \/ (phase = "done" /\ thr.fire > 0) =>
          /\ recurrent \in DOMAIN stored
          /\ stored[recurrent] = Current
          /\ iter \in recurrent .. Len(stored) + 1
          /\ thr.fire = iter - recurrent
          /\ thr.time = At[iter - 1] - At[recurrent - 1]
    /\ phase = "done" /\ thr.fire > 0 => iter = Len(stored) + 1

PeriodInv == Safe /\ StoredTimes /\ SumSoFar

LEMMA AtType ==
    ASSUME Safe, StoredTimes
    PROVE  /\ Len(stored) \in Nat
           /\ DOMAIN stored = 1 .. Len(stored)
           /\ At \in [0 .. Len(stored) -> Nat]
           /\ At[0] = 0
           /\ \A i \in DOMAIN stored : At[i] = storedAt[i]
BY DEF Safe, TypeOK, StoredTimes, At

LEMMA InitPeriod == Init => PeriodInv
BY InitSafe DEF Init, PeriodInv, StoredTimes, SumSoFar, At

LEMMA StorePeriod ==
    ASSUME PeriodInv, NEW a \in Actors(g), StoreAndEndFiring(a)
    PROVE  StoredTimes' /\ SumSoFar'
<1> DEFINE n == Len(stored)
<1>1. /\ stored' = Append(stored, Current) /\ storedAt' = Append(storedAt, now)
      /\ glbClk' = 0 /\ now' = now /\ phase' = "end" /\ thr' = thr /\ phase = "end"
  BY DEF StoreAndEndFiring, FirstToEnd, result
<1>2. n \in Nat /\ Len(stored') = n + 1 /\ Len(storedAt') = n + 1 /\ DOMAIN stored' = 1 .. n + 1
  BY <1>1 DEF PeriodInv, StoredTimes, Safe, TypeOK
<1>3. /\ \A i \in 0 .. n : At'[i] = At[i]
      /\ At'[n + 1] = now
  BY <1>1, <1>2 DEF At, PeriodInv, StoredTimes, Safe, TypeOK
<1>4. ASSUME NEW i \in 1 .. n + 1
      PROVE  stored'[i].glbClk = At'[i] - At'[i - 1]
  <2>1. CASE i = n + 1
    <3>1. stored'[i].glbClk = glbClk
      BY <1>1, <1>2, <2>1 DEF PeriodInv, Safe, TypeOK, Current
    <3>2. glbClk = now - At[n]
      BY DEF PeriodInv, StoredTimes
    <3>3. At'[i] = now /\ At'[i - 1] = At[n]
      BY <1>2, <1>3, <2>1
    <3> QED
      BY <3>1, <3>2, <3>3
  <2>2. CASE i \in 1 .. n
    <3>1. stored'[i] = stored[i]
      BY <1>1, <1>2, <2>2 DEF PeriodInv, Safe, TypeOK
    <3>2. stored[i].glbClk = At[i] - At[i - 1]
      BY <2>2, AtType DEF PeriodInv, StoredTimes
    <3>3. At'[i] = At[i] /\ At'[i - 1] = At[i - 1]
      BY <1>2, <1>3, <2>2
    <3> QED
      BY <3>1, <3>2, <3>3
  <2> QED
    BY <1>2, <2>1, <2>2
<1>5. glbClk' = now' - At'[n + 1]
  BY <1>1, <1>3 DEF PeriodInv, Safe, TypeOK
<1>6. StoredTimes'
  BY <1>2, <1>4, <1>5 DEF StoredTimes
<1>7. SumSoFar'
  BY <1>1 DEF PeriodInv, SumSoFar
<1> QED
  BY <1>6, <1>7

LEMMA NextPeriod == PeriodInv /\ [Next]_vars => PeriodInv'
<1> SUFFICES ASSUME PeriodInv, [Next]_vars PROVE StoredTimes' /\ SumSoFar'
  BY NextSafe DEF PeriodInv
<1> DEFINE Kept == UNCHANGED <<stored, storedAt>>
<1>1. ASSUME Kept PROVE At' = At
  BY <1>1 DEF At
<1>2. ASSUME NEW a \in Actors(g), EndFiring(a) \/ StartFiring(a)
      PROVE  StoredTimes' /\ SumSoFar'
  <2>1. /\ Kept /\ UNCHANGED <<glbClk, now, thr, phase>> /\ phase \in {"end", "start"}
    BY <1>2 DEF EndFiring, StartFiring, FirstToEnd, graph, result
  <2> QED
    BY <1>1, <2>1 DEF PeriodInv, StoredTimes, SumSoFar
<1>3. ASSUME NEW a \in Actors(g), StoreAndEndFiring(a)
      PROVE  StoredTimes' /\ SumSoFar'
  BY <1>3, StorePeriod
<1>4. ASSUME NEW a \in Actors(g), RecurrentState(a)
      PROVE  StoredTimes' /\ SumSoFar'
  <2>1. /\ Kept /\ UNCHANGED <<glbClk, now, thr, ch, actClk>>
        /\ phase' = "sum" /\ phase = "end"
        /\ recurrent' \in DOMAIN stored /\ iter' = recurrent' /\ stored[recurrent'] = Current
    BY <1>4 DEF RecurrentState, FirstToEnd
  <2>2. /\ recurrent' \in 1 .. Len(stored) /\ Len(stored) \in Nat /\ stored' = stored
        /\ Current' = Current /\ thr.fire = 0 /\ thr.time = 0
        /\ \A i \in 0 .. Len(stored) : At[i] \in Nat
    BY <2>1, AtType DEF PeriodInv, SumSoFar, Current
  <2>3. At'[iter' - 1] = At'[recurrent' - 1] /\ At'[iter' - 1] \in Nat
    BY <1>1, <2>1, <2>2
  <2>4. SumSoFar'
    BY <2>1, <2>2, <2>3 DEF SumSoFar
  <2> QED
    BY <1>1, <2>1, <2>4 DEF PeriodInv, StoredTimes
<1>5. CASE EndsDone
  <2>1. Kept /\ UNCHANGED <<glbClk, now, thr>> /\ phase = "end" /\ phase' = "start"
    BY <1>5 DEF EndsDone, result
  <2> QED
    BY <1>1, <2>1 DEF PeriodInv, StoredTimes, SumSoFar
<1>6. CASE ClockStep
  <2>1. /\ Kept /\ UNCHANGED thr /\ phase = "start" /\ phase' = "end"
        /\ \E a \in Active : /\ glbClk' = glbClk + Head(actClk[a])
                             /\ now' = now + Head(actClk[a])
    BY <1>6 DEF ClockStep, result
  <2>2. PICK a \in Active : /\ glbClk' = glbClk + Head(actClk[a])
                            /\ now' = now + Head(actClk[a])
    BY <2>1
  <2>3. Head(actClk[a]) \in Nat /\ glbClk \in Nat /\ now \in Nat /\ At[Len(stored)] \in Nat
    BY AtType DEF Active, PeriodInv, Safe, TypeOK
  <2>4. glbClk = now - At[Len(stored)]
    BY DEF PeriodInv, StoredTimes
  <2>5. glbClk' = now' - At[Len(stored)]
    BY <2>2, <2>3, <2>4
  <2> QED
    BY <1>1, <2>1, <2>5 DEF PeriodInv, StoredTimes, SumSoFar
<1>7. CASE Deadlock
  <2>1. Kept /\ UNCHANGED <<glbClk, now>> /\ phase' = "done" /\ thr'.fire = 0
    BY <1>7 DEF Deadlock
  <2> QED
    BY <1>1, <2>1 DEF PeriodInv, StoredTimes, SumSoFar
<1>8. CASE AddState
  <2>1. /\ Kept /\ UNCHANGED <<glbClk, now, recurrent, phase, ch, actClk>> /\ phase = "sum"
        /\ iter <= Len(stored) /\ iter' = iter + 1
        /\ thr'.fire = thr.fire + 1 /\ thr'.time = thr.time + stored[iter].glbClk
    BY <1>8 DEF AddState
  <2>2. /\ recurrent \in DOMAIN stored /\ stored[recurrent] = Current
        /\ iter \in recurrent .. Len(stored) + 1
        /\ thr.fire = iter - recurrent
        /\ thr.time = At[iter - 1] - At[recurrent - 1]
    BY <2>1 DEF PeriodInv, SumSoFar
  <2>3. Len(stored) \in Nat /\ recurrent \in 1 .. Len(stored) /\ iter \in DOMAIN stored
    BY <2>1, <2>2 DEF PeriodInv, Safe, TypeOK
  <2>4. stored[iter].glbClk = At[iter] - At[iter - 1]
    BY <2>3 DEF PeriodInv, StoredTimes
  <2>5. \A i \in 0 .. Len(stored) : At[i] \in Nat
    BY AtType DEF PeriodInv
  <2>6. /\ At'[iter' - 1] = At[iter] /\ At'[recurrent' - 1] = At[recurrent - 1]
        /\ At[iter] \in Nat /\ At[iter - 1] \in Nat /\ At[recurrent - 1] \in Nat
    <3>1. iter \in Nat /\ recurrent \in Nat /\ recurrent > 0 /\ iter > 0
      BY <2>2, <2>3
    <3>2. iter' - 1 = iter /\ At' = At /\ recurrent' = recurrent
      BY <1>1, <2>1, <3>1
    <3>3. iter \in 0 .. Len(stored) /\ iter - 1 \in 0 .. Len(stored)
          /\ recurrent - 1 \in 0 .. Len(stored)
      BY <2>1, <2>2, <2>3, <3>1
    <3> QED
      BY <2>5, <3>2, <3>3
  <2>7. thr'.time = At'[iter' - 1] - At'[recurrent' - 1]
    BY <2>1, <2>2, <2>4, <2>6
  <2>8. Current' = Current
    BY <2>1 DEF Current
  <2>9. iter' \in recurrent' .. Len(stored') + 1 /\ thr'.fire = iter' - recurrent'
    BY <2>1, <2>2, <2>3
  <2>10. SumSoFar'
    BY <2>1, <2>2, <2>7, <2>8, <2>9 DEF SumSoFar
  <2> QED
    BY <1>1, <2>1, <2>10 DEF PeriodInv, StoredTimes
<1>9. CASE ReturnThroughput
  <2>1. /\ Kept /\ UNCHANGED <<glbClk, now, result, ch, actClk>> /\ phase = "sum"
        /\ phase' = "done" /\ iter > Len(stored)
    BY <1>9 DEF ReturnThroughput
  <2>2. Current' = Current /\ Len(stored) \in Nat
    BY <2>1 DEF Current, PeriodInv, Safe, TypeOK
  <2> QED
    BY <1>1, <2>1, <2>2 DEF PeriodInv, StoredTimes, SumSoFar, result
<1>10. CASE UNCHANGED vars
  BY <1>1, <1>10 DEF vars, PeriodInv, StoredTimes, SumSoFar, Current
<1> QED
  BY <1>2, <1>3, <1>4, <1>5, <1>6, <1>7, <1>8, <1>9, <1>10 DEF Next

(* Whatever the graph, a throughput that is returned is the number of      *)
(* iterations between two visits to one state over the time between them.  *)
THEOREM PeriodTheorem == Spec => []ThroughputIsPeriod
<1>1. PeriodInv => ThroughputIsPeriod
  <2> SUFFICES ASSUME PeriodInv, phase = "done", thr.fire > 0
               PROVE  /\ recurrent \in DOMAIN stored /\ stored[recurrent] = Current
                      /\ thr.fire = Len(stored) - recurrent + 1
                      /\ thr.time = now - storedAt[recurrent]
    BY DEF ThroughputIsPeriod
  <2>1. /\ recurrent \in DOMAIN stored /\ stored[recurrent] = Current
        /\ iter = Len(stored) + 1 /\ thr.fire = iter - recurrent
        /\ thr.time = At[iter - 1] - At[recurrent - 1]
    BY DEF PeriodInv, SumSoFar
  <2>2. Len(stored) \in Nat /\ recurrent \in 1 .. Len(stored) /\ now \in Nat
    BY <2>1 DEF PeriodInv, Safe, TypeOK
  <2>3. \A i \in 0 .. Len(stored) : At[i] \in Nat
    BY AtType DEF PeriodInv
  <2>4. glbClk = At[recurrent] - At[recurrent - 1] /\ glbClk = now - At[Len(stored)]
    BY <2>1 DEF PeriodInv, StoredTimes, Current
  <2>5. At[iter - 1] = At[Len(stored)] /\ At[recurrent] = storedAt[recurrent]
    BY <2>1, <2>2, AtType DEF PeriodInv
  <2>6. At[recurrent] \in Nat /\ At[recurrent - 1] \in Nat /\ At[Len(stored)] \in Nat
    <3>1. recurrent \in 0 .. Len(stored) /\ recurrent - 1 \in 0 .. Len(stored)
          /\ Len(stored) \in 0 .. Len(stored)
      BY <2>2
    <3> QED
      BY <2>3, <3>1
  <2>7. thr.time = now - storedAt[recurrent]
    <3>1. thr.time = At[Len(stored)] - At[recurrent - 1]
      BY <2>1, <2>5
    <3>2. At[recurrent] - At[recurrent - 1] = now - At[Len(stored)]
      BY <2>4
    <3> HIDE DEF At
    <3> QED
      BY <2>2, <2>5, <2>6, <3>1, <3>2
  <2> QED
    BY <2>1, <2>2, <2>7
<1>2. Init => PeriodInv
  BY InitPeriod
<1> QED
  BY <1>1, <1>2, NextPeriod, PTL DEF Spec

-----------------------------------------------------------------------------
(* The execution is timed dataflow.  A list of remaining times at time n   *)
(* stands for the bag of the times at which its firings end; places are    *)
(* the firings that end at time d.                                         *)
Places(s, n, d) == {i \in DOMAIN s : n + s[i] = d}
DueOf(s, n) == [d \in {n + s[i] : i \in DOMAIN s} |-> Cardinality(Places(s, n, d))]

LEMMA PlacesFinite ==
    ASSUME NEW s \in Seq(Nat), NEW n \in Nat, NEW d
    PROVE  /\ IsFiniteSet(Places(s, n, d)) /\ Cardinality(Places(s, n, d)) \in Nat
           /\ Cardinality(Places(s, n, d)) = 0 <=> Places(s, n, d) = {}
<1>1. DOMAIN s = 1 .. Len(s) /\ Len(s) \in Nat
  OBVIOUS
<1>2. IsFiniteSet(DOMAIN s)
  BY <1>1, FS_Interval
<1>3. Places(s, n, d) \in SUBSET DOMAIN s
  BY DEF Places
<1>4. IsFiniteSet(Places(s, n, d))
  BY <1>2, <1>3, FS_Subset
<1> QED
  BY <1>4, FS_CardinalityType, FS_EmptySet

LEMMA DueDomain ==
    ASSUME NEW s, NEW n, NEW d
    PROVE  d \in DOMAIN DueOf(s, n) <=> Places(s, n, d) # {}
BY DEF DueOf, Places

(* A firing that starts                                                    *)
LEMMA DueAppend ==
    ASSUME NEW s \in Seq(Nat), NEW n \in Nat, NEW x \in Nat
    PROVE  DueOf(Append(s, x), n) = Timed!(+)(DueOf(s, n), Timed!SetToBag({n + x}))
<1> DEFINE t == Append(s, x)
           more == Timed!(+)(DueOf(s, n), Timed!SetToBag({n + x}))
<1>1. /\ t \in Seq(Nat) /\ DOMAIN s = 1 .. Len(s) /\ DOMAIN t = 1 .. Len(s) + 1 /\ Len(s) \in Nat
      /\ \A i \in DOMAIN s : t[i] = s[i]
      /\ t[Len(s) + 1] = x
  OBVIOUS
<1>2. ASSUME NEW d
      PROVE  Places(t, n, d) = IF d = n + x THEN Places(s, n, d) \cup {Len(s) + 1} ELSE Places(s, n, d)
  BY <1>1 DEF Places
<1> HIDE DEF t
<1>3. Len(s) + 1 \notin DOMAIN s
  BY <1>1
<1>4. ASSUME NEW d
      PROVE  Cardinality(Places(t, n, d)) = IF d = n + x THEN Cardinality(Places(s, n, d)) + 1
                                            ELSE Cardinality(Places(s, n, d))
  <2>1. Len(s) + 1 \notin Places(s, n, d)
    BY <1>3 DEF Places
  <2> QED
    BY <1>2, <2>1, PlacesFinite, FS_AddElement
<1>5. DOMAIN more = DOMAIN DueOf(s, n) \cup {n + x}
  BY DEF Timed!(+), Timed!SetToBag
<1>6. DOMAIN DueOf(t, n) = DOMAIN more
  <2> SUFFICES ASSUME NEW d PROVE d \in DOMAIN DueOf(t, n) <=> d \in DOMAIN DueOf(s, n) \cup {n + x}
    BY <1>5
  <2>1. Places(t, n, d) # {} <=> Places(s, n, d) # {} \/ d = n + x
    BY <1>2
  <2>2. d \in DOMAIN DueOf(t, n) <=> Places(t, n, d) # {}
    BY DueDomain
  <2>3. d \in DOMAIN DueOf(s, n) <=> Places(s, n, d) # {}
    BY DueDomain
  <2> QED
    BY <2>1, <2>2, <2>3
<1>7. ASSUME NEW d \in DOMAIN more PROVE DueOf(t, n)[d] = more[d]
  <2>1. DueOf(t, n)[d] = Cardinality(Places(t, n, d))
    BY <1>6, <1>7 DEF DueOf
  <2>2. more[d] = (IF d \in DOMAIN DueOf(s, n) THEN DueOf(s, n)[d] ELSE 0) + (IF d = n + x THEN 1 ELSE 0)
    BY <1>5 DEF Timed!(+), Timed!SetToBag
  <2>3. (IF d \in DOMAIN DueOf(s, n) THEN DueOf(s, n)[d] ELSE 0) = Cardinality(Places(s, n, d))
    <3>1. CASE d \in DOMAIN DueOf(s, n)
      BY <3>1 DEF DueOf
    <3>2. CASE d \notin DOMAIN DueOf(s, n)
      BY <3>2, DueDomain, PlacesFinite
    <3> QED
      BY <3>1, <3>2
  <2>4. Cardinality(Places(s, n, d)) \in Nat
    BY PlacesFinite
  <2> QED
    BY <1>4, <2>1, <2>2, <2>3, <2>4
<1> QED
  <2>1. DueOf(t, n) = [d \in DOMAIN DueOf(t, n) |-> DueOf(t, n)[d]]
    BY DEF DueOf
  <2>2. more = [d \in DOMAIN more |-> more[d]]
    BY DEF Timed!(+)
  <2> HIDE DEF more
  <2>3. DueOf(t, n) = more
    BY <1>6, <1>7, <2>1, <2>2
  <2> QED
    BY <2>3 DEF t, more

(* A firing that ends: the first in the list, with no time left            *)
LEMMA DueTail ==
    ASSUME NEW s \in Seq(Nat), NEW n \in Nat, s # <<>>, Head(s) = 0
    PROVE  /\ n \in DOMAIN DueOf(s, n)
           /\ DueOf(Tail(s), n) = Timed!(-)(DueOf(s, n), Timed!SetToBag({n}))
<1> DEFINE t == Tail(s)
           rest == [d \in DOMAIN DueOf(s, n) |-> IF d = n THEN DueOf(s, n)[d] - 1 ELSE DueOf(s, n)[d]]
           less == Timed!(-)(DueOf(s, n), Timed!SetToBag({n}))
<1>1. /\ t \in Seq(Nat) /\ DOMAIN s = 1 .. Len(s) /\ DOMAIN t = 1 .. Len(s) - 1 /\ Len(s) \in Nat \ {0}
      /\ \A i \in DOMAIN t : t[i] = s[i + 1]
      /\ s[1] = 0 /\ 1 \in DOMAIN s
  OBVIOUS
<1> HIDE DEF t
<1>2. ASSUME NEW d
      PROVE  Cardinality(Places(t, n, d)) = IF d = n THEN Cardinality(Places(s, n, d)) - 1
                                            ELSE Cardinality(Places(s, n, d))
  <2>1. 1 \in Places(s, n, d) <=> d = n
    BY <1>1 DEF Places
  <2>2. IsFiniteSet(Places(s, n, d)) /\ IsFiniteSet(Places(t, n, d))
    BY <1>1, PlacesFinite
  <2>3. ExistsBijection(Places(t, n, d), Places(s, n, d) \ {1})
    <3> DEFINE f == [i \in Places(t, n, d) |-> i + 1]
    <3>1. ASSUME NEW i \in Places(t, n, d)
          PROVE  i \in Int /\ i + 1 \in Places(s, n, d) \ {1}
      <4>1. i \in DOMAIN t /\ n + t[i] = d
        BY DEF Places
      <4>2. i \in Int /\ i + 1 \in DOMAIN s /\ i + 1 # 1 /\ t[i] = s[i + 1]
        BY <1>1, <4>1
      <4> QED
        BY <4>1, <4>2 DEF Places
    <3>2. ASSUME NEW j \in Places(s, n, d) \ {1}
          PROVE  j \in Int /\ j - 1 \in Places(t, n, d)
      <4>1. j \in DOMAIN s /\ j # 1 /\ n + s[j] = d
        BY DEF Places
      <4>2. j \in Int /\ j - 1 \in DOMAIN t /\ (j - 1) + 1 = j
        BY <1>1, <4>1
      <4>3. t[j - 1] = s[j]
        BY <1>1, <4>2
      <4> QED
        BY <4>1, <4>2, <4>3 DEF Places
    <3>3. f \in [Places(t, n, d) -> Places(s, n, d) \ {1}]
      BY <3>1
    <3>4. \A i, j \in Places(t, n, d) : f[i] = f[j] => i = j
      BY <3>1
    <3>5. \A j \in Places(s, n, d) \ {1} : \E i \in Places(t, n, d) : f[i] = j
      <4> SUFFICES ASSUME NEW j \in Places(s, n, d) \ {1} PROVE \E i \in Places(t, n, d) : f[i] = j
        OBVIOUS
      <4>1. j \in Int /\ j - 1 \in Places(t, n, d)
        BY <3>2
      <4>2. f[j - 1] = j
        BY <4>1
      <4> QED
        BY <4>1, <4>2
    <3> HIDE DEF f
    <3>6. f \in Bijection(Places(t, n, d), Places(s, n, d) \ {1})
      BY <3>3, <3>4, <3>5 DEF Bijection, Injection, Surjection, IsInjective
    <3> QED
      BY <3>6 DEF ExistsBijection
  <2>4. Cardinality(Places(t, n, d)) = Cardinality(Places(s, n, d) \ {1})
    BY <2>2, <2>3, FS_Bijection
  <2> QED
    BY <2>1, <2>2, <2>4, FS_RemoveElement
<1>3. Places(s, n, n) # {}
  BY <1>1 DEF Places
<1>4. rest = [d \in DOMAIN DueOf(s, n) |-> Cardinality(Places(t, n, d))]
  <2> SUFFICES ASSUME NEW d \in DOMAIN DueOf(s, n) PROVE rest[d] = Cardinality(Places(t, n, d))
    OBVIOUS
  <2>1. DueOf(s, n)[d] = Cardinality(Places(s, n, d))
    BY DEF DueOf
  <2> QED
    BY <1>2, <2>1
<1>5. less = [d \in {e \in DOMAIN rest : rest[e] > 0} |-> rest[d]]
  BY DEF Timed!(-), Timed!SetToBag
<1>6. {e \in DOMAIN rest : rest[e] > 0} = DOMAIN DueOf(t, n)
  <2> SUFFICES ASSUME NEW d PROVE d \in DOMAIN rest /\ rest[d] > 0 <=> d \in DOMAIN DueOf(t, n)
    OBVIOUS
  <2>1. Cardinality(Places(t, n, d)) \in Nat /\ (Cardinality(Places(t, n, d)) = 0 <=> Places(t, n, d) = {})
    BY <1>1, PlacesFinite
  <2>2. d \in DOMAIN rest <=> Places(s, n, d) # {}
    BY DueDomain
  <2>3. d \in DOMAIN rest => rest[d] = Cardinality(Places(t, n, d))
    BY <1>4
  <2>4. Places(t, n, d) # {} => Places(s, n, d) # {}
    <3> SUFFICES ASSUME NEW i \in Places(t, n, d) PROVE i + 1 \in Places(s, n, d)
      OBVIOUS
    <3>1. i \in DOMAIN t /\ n + t[i] = d
      BY DEF Places
    <3>2. i + 1 \in DOMAIN s /\ t[i] = s[i + 1]
      BY <1>1, <3>1
    <3> QED
      BY <3>1, <3>2 DEF Places
  <2> HIDE DEF rest
  <2> QED
    BY <2>1, <2>2, <2>3, <2>4, DueDomain
<1>7. less = DueOf(t, n)
  <2>1. \A d \in DOMAIN DueOf(t, n) : d \in DOMAIN rest
    BY <1>6
  <2>2. \A d \in DOMAIN DueOf(t, n) : rest[d] = Cardinality(Places(t, n, d))
    BY <1>4, <2>1
  <2>3. DueOf(t, n) = [d \in DOMAIN DueOf(t, n) |-> Cardinality(Places(t, n, d))]
    BY DEF DueOf
  <2> HIDE DEF rest, less
  <2> QED
    BY <1>5, <1>6, <2>2, <2>3
<1> QED
  BY <1>3, <1>7, DueDomain DEF t

(* Time that passes changes no completion time.                            *)
LEMMA DueLower ==
    ASSUME NEW s \in Seq(Nat), NEW n \in Nat, NEW step \in Nat
    PROVE  DueOf([i \in DOMAIN s |-> s[i] - step], n + step) = DueOf(s, n)
<1> DEFINE t == [i \in DOMAIN s |-> s[i] - step]
<1>1. DOMAIN t = DOMAIN s /\ \A i \in DOMAIN s : (n + step) + t[i] = n + s[i]
  OBVIOUS
<1> HIDE DEF t
<1>2. \A d : Places(t, n + step, d) = Places(s, n, d)
  BY <1>1 DEF Places
<1>3. {(n + step) + t[i] : i \in DOMAIN t} = {n + s[i] : i \in DOMAIN s}
  BY <1>1
<1>4. DueOf(t, n + step) = DueOf(s, n)
  BY <1>2, <1>3 DEF DueOf
<1> QED
  BY <1>4 DEF t

(* The state of the timed dataflow that a state of the analysis stands for *)
LEMMA DueIs == Due = [a \in Actors(g) |-> DueOf(actClk[a], now)]
BY DEF Due, DueOf, Places

LEMMA DueIsNext == Due' = [a \in Actors(g') |-> DueOf(actClk'[a], now')]
BY DEF Due, DueOf, Places

LEMMA DueKept ==
    ASSUME UNCHANGED <<g, actClk, now>>
    PROVE  Due' = Due
BY DueIs, DueIsNext

LEMMA DueChanged ==
    ASSUME Safe, NEW a \in Actors(g), NEW list, actClk' = [actClk EXCEPT ![a] = list],
           UNCHANGED <<g, now>>
    PROVE  Due' = [Due EXCEPT ![a] = DueOf(list, now)]
<1>1. actClk \in [Actors(g) -> Seq(Nat)]
  BY DEF Safe, TypeOK
<1>2. \A b \in Actors(g) : actClk'[b] = IF b = a THEN list ELSE actClk[b]
  BY <1>1
<1>3. Due' = [b \in Actors(g) |-> DueOf(actClk'[b], now)]
  BY DueIsNext
<1>4. Due = [b \in Actors(g) |-> DueOf(actClk[b], now)]
  BY DueIs
<1> QED
  BY <1>2, <1>3, <1>4

LEMMA StartIsTimed ==
    ASSUME Safe, NEW a \in Actors(g), StartFiring(a)
    PROVE  Timed!TStart(a)
<1>1. /\ Ready(g, ch, a) /\ ch' = Consume(g, ch, a) /\ g' = g /\ now' = now
      /\ actClk' = [actClk EXCEPT ![a] = Append(actClk[a], g.ex[a])]
  BY DEF StartFiring, startActorFiring, graph
<1>2. actClk[a] \in Seq(Nat) /\ now \in Nat /\ g.ex[a] \in Nat
  BY GraphsAssumption, ExType DEF Safe, TypeOK
<1>3. Due[a] = DueOf(actClk[a], now)
  BY DueIs
<1>4. Due' = [Due EXCEPT ![a] = DueOf(Append(actClk[a], g.ex[a]), now)]
  BY <1>1, DueChanged
<1>5. DueOf(Append(actClk[a], g.ex[a]), now) = Timed!(+)(Due[a], Timed!SetToBag({now + g.ex[a]}))
  BY <1>2, <1>3, DueAppend, Zenon
<1>6. Timed!Ready(g, ch, a) /\ ch' = Timed!Consume(g, ch, a)
  BY <1>1 DEF Timed!Ready, Timed!InChannels, Timed!Channels, Timed!Consume,
              Ready, InChannels, Channels, Consume
<1> QED
  BY <1>1, <1>4, <1>5, <1>6 DEF Timed!TStart

LEMMA EndIsTimed ==
    ASSUME Safe, NEW a \in Actors(g), ReadyToEnd(a), endActorFiring(a), UNCHANGED <<g, now>>
    PROVE  Timed!TEnd(a)
<1>1. /\ ch' = Produce(g, ch, a) /\ actClk' = [actClk EXCEPT ![a] = Tail(actClk[a])]
      /\ actClk[a] # <<>> /\ Head(actClk[a]) = 0
  BY DEF endActorFiring, ReadyToEnd
<1>2. actClk[a] \in Seq(Nat) /\ now \in Nat
  BY DEF Safe, TypeOK
<1>3. Due[a] = DueOf(actClk[a], now)
  BY DueIs
<1>4. Due' = [Due EXCEPT ![a] = DueOf(Tail(actClk[a]), now)]
  BY <1>1, DueChanged
<1>5. /\ now \in DOMAIN Due[a]
      /\ DueOf(Tail(actClk[a]), now) = Timed!(-)(Due[a], Timed!SetToBag({now}))
  BY <1>1, <1>2, <1>3, DueTail
<1>6. ch' = Timed!Produce(g, ch, a)
  BY <1>1 DEF Timed!Channels, Timed!Produce, Channels, Produce
<1> QED
  BY <1>4, <1>5, <1>6 DEF Timed!TEnd, Timed!BagIn, Timed!BagToSet

(* The clock goes to the next completion, or stays when it is due now.     *)
LEMMA ClockIsTimed ==
    ASSUME Safe, ClockStep
    PROVE  Timed!TTick \/ UNCHANGED Timed!tvars
<1>1. PICK first \in Active :
        /\ \A a \in Active : Head(actClk[first]) <= Head(actClk[a])
        /\ actClk' = [a \in Actors(g) |->
                        [i \in DOMAIN actClk[a] |-> actClk[a][i] - Head(actClk[first])]]
        /\ now' = now + Head(actClk[first])
  BY DEF ClockStep
<1>2. PICK step \in Nat : step = Head(actClk[first])
  BY DEF Active, Safe, TypeOK
<1>3. /\ g' = g /\ ch' = ch /\ now' = now + step /\ now \in Nat
      /\ \A a \in Actors(g) : ~Ready(g, ch, a)
      /\ \A a \in Actors(g) : actClk'[a] = [i \in DOMAIN actClk[a] |-> actClk[a][i] - step]
  BY <1>1, <1>2 DEF ClockStep, graph, Safe, TypeOK
<1>4. Due' = Due
  <2>1. \A a \in Actors(g) : DueOf(actClk'[a], now') = DueOf(actClk[a], now)
    <3> SUFFICES ASSUME NEW a \in Actors(g) PROVE DueOf(actClk'[a], now') = DueOf(actClk[a], now)
      OBVIOUS
    <3>1. actClk[a] \in Seq(Nat)
      BY DEF Safe, TypeOK
    <3>2. actClk'[a] = [i \in DOMAIN actClk[a] |-> actClk[a][i] - step] /\ now' = now + step
      BY <1>3
    <3>3. DueOf([i \in DOMAIN actClk[a] |-> actClk[a][i] - step], now + step) = DueOf(actClk[a], now)
      BY <1>3, <3>1, DueLower
    <3> QED
      BY <3>2, <3>3
  <2> QED
    BY <1>3, <2>1, DueIs, DueIsNext
<1>5. CASE step = 0
  BY <1>3, <1>4, <1>5 DEF Timed!tvars
<1>6. CASE step > 0
  <2>1. \A a \in Actors(g) : ~Timed!Ready(g, ch, a)
    BY <1>3 DEF Timed!Ready, Timed!InChannels, Timed!Channels, Ready, InChannels, Channels
  <2>2. ASSUME NEW e
        PROVE  e \in Timed!AllDue <=> \E a \in Actors(g) : \E i \in DOMAIN actClk[a] : e = now + actClk[a][i]
    <3>1. \A a \in Actors(g) : DOMAIN Due[a] = {now + actClk[a][i] : i \in DOMAIN actClk[a]}
      BY DEF Due
    <3>2. Timed!AllDue = UNION {DOMAIN Due[a] : a \in Actors(g)}
      BY DEF Timed!AllDue, Timed!BagToSet, Timed!Actors, Actors
    <3> QED
      BY <3>1, <3>2
  <2>3. now + step \in Timed!AllDue
    <3>1. first \in Actors(g) /\ 1 \in DOMAIN actClk[first] /\ Head(actClk[first]) = actClk[first][1]
      BY DEF Active, Safe, TypeOK
    <3> QED
      BY <1>2, <2>2, <3>1
  <2>4. ASSUME NEW e \in Timed!AllDue PROVE now + step <= e
    <3>6. PICK a \in Actors(g) : \E i \in DOMAIN actClk[a] : e = now + actClk[a][i]
      BY <2>2
    <3>1. PICK i \in DOMAIN actClk[a] : e = now + actClk[a][i]
      BY <3>6
    <3>2. actClk[a] \in Seq(Nat) /\ Ordered(actClk[a], g.ex[a])
      BY DEF Safe, TypeOK, FiringsInOrder
    <3>3. /\ actClk[a] # <<>> /\ 1 \in DOMAIN actClk[a] /\ 1 <= i /\ Head(actClk[a]) = actClk[a][1]
          /\ actClk[a][1] \in Nat /\ actClk[a][i] \in Nat
      BY <3>2
    <3>4. step <= actClk[a][1]
      BY <1>1, <1>2, <3>3 DEF Active
    <3>5. actClk[a][1] <= actClk[a][i]
      BY <3>2, <3>3 DEF Ordered
    <3> QED
      BY <1>3, <3>1, <3>3, <3>4, <3>5
  <2>5. now + step > now
    BY <1>3, <1>6
  <2> QED
    BY <1>3, <1>4, <2>1, <2>3, <2>4, <2>5 DEF Timed!TTick, Timed!Actors, Actors
<1> QED
  BY <1>5, <1>6

(* In every graph the analysis executes timed dataflow: whatever order its *)
(* loops end and start firings in, whichever state it stores, a firing     *)
(* takes exactly its execution time, starts when its tokens are there, and *)
(* time goes on only when nothing can start or has to end.                 *)
THEOREM TimedExecution == Spec => IsTimedDataflow
<1>1. Init => Timed!TInit
  <2> SUFFICES ASSUME Init PROVE Timed!TInit
    OBVIOUS
  <2>1. g \in Graphs /\ ch = InitialTokens(g) /\ now = 0 /\ \A a \in Actors(g) : actClk[a] = <<>>
    BY DEF Init
  <2>2. \A a \in Actors(g) : DueOf(actClk[a], now) = Timed!EmptyBag
    BY <2>1 DEF DueOf, Timed!EmptyBag, Timed!SetToBag
  <2>3. Due = [a \in Actors(g) |-> Timed!EmptyBag]
    BY <2>2, DueIs
  <2> QED
    BY <2>1, <2>3 DEF Timed!TInit, Timed!InitialTokens, Timed!Channels, Timed!Actors,
                      InitialTokens, Channels, Actors
<1>2. Safe /\ [Next]_vars => [Timed!TNext]_Timed!tvars
  <2> SUFFICES ASSUME Safe, [Next]_vars PROVE Timed!TNext \/ UNCHANGED Timed!tvars
    OBVIOUS
  <2>1. ASSUME NEW a \in Actors(g), EndFiring(a) \/ StoreAndEndFiring(a) PROVE Timed!TEnd(a)
    BY <2>1, EndIsTimed DEF EndFiring, StoreAndEndFiring, FirstToEnd, graph
  <2>2. ASSUME NEW a \in Actors(g), StartFiring(a) PROVE Timed!TStart(a)
    BY <2>2, StartIsTimed
  <2>3. CASE ClockStep
    BY <2>3, ClockIsTimed DEF Timed!TNext
  <2>4. ASSUME UNCHANGED <<g, ch, actClk, now>> PROVE UNCHANGED Timed!tvars
    BY <2>4, DueKept DEF Timed!tvars
  <2>5. ASSUME NEW a \in Actors(g), RecurrentState(a) PROVE UNCHANGED <<g, ch, actClk, now>>
    BY <2>5 DEF RecurrentState, graph
  <2>6. ASSUME EndsDone \/ Deadlock \/ AddState \/ ReturnThroughput \/ UNCHANGED vars
        PROVE  UNCHANGED <<g, ch, actClk, now>>
    BY <2>6 DEF EndsDone, Deadlock, AddState, ReturnThroughput, graph, vars
  <2> QED
    BY <2>1, <2>2, <2>3, <2>4, <2>5, <2>6 DEF Next, Timed!TNext, Timed!Actors, Actors
<1> QED
  BY <1>1, <1>2, InitSafe, NextSafe, PTL DEF Spec, IsTimedDataflow
=============================================================================
