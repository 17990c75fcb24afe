-------------------------- MODULE StorageExec_proofs --------------------------
(***************************************************************************)
(* Invariants of the execution under a storage distribution, for every set *)
(* of graphs, every distribution and every search for cycles; and that it  *)
(* is the self-timed execution of the graph with the space as channels.    *)
(***************************************************************************)
EXTENDS StorageDSE, SDFGraphs_proofs, FiniteSetTheorems, SequenceTheorems, WellFoundedInduction

(* As in the self-timed execution types and order support each other. The  *)
(* last two conjuncts place the iterator of computeThroughput.             *)
Safe ==
    /\ ExecutionTypes
    /\ FiringsInOrder
    /\ mode # "exec" => iter > 0
    /\ phase = "sum" => mode # "exec"

LEMMA GraphType ==
    ASSUME ExecutionTypes
    PROVE  /\ IsSDFGraph(g) /\ g \in Graphs
           /\ size \in [Channels(g) -> Nat]
           /\ ch \in [Channels(g) -> Nat] /\ sp \in [Channels(g) -> Nat]
           /\ actClk \in [Actors(g) -> Seq(Nat)] /\ glbClk \in Nat
<1>1. IsSDFGraph(g)
  BY StorageGraphs DEF ExecutionTypes
<1>2. Current \in State(g)
  BY DEF ExecutionTypes
<1> QED
  BY <1>1, <1>2 DEF ExecutionTypes, Current, State

LEMMA CurrentType ==
    ASSUME IsSDFGraph(g), ch \in [Channels(g) -> Nat], sp \in [Channels(g) -> Nat],
           actClk \in [Actors(g) -> Seq(Nat)], glbClk \in Nat
    PROVE  Current \in State(g)
BY DEF Current, State

(* Any distribution can be the next one that is executed.                 *)
LEMMA ClearedSafe ==
    g \in Graphs /\ size \in [Channels(g) -> Nat] /\ initOutputActor /\ Cleared => Safe
<1> SUFFICES ASSUME g \in Graphs, size \in [Channels(g) -> Nat], initOutputActor, Cleared
             PROVE  Safe
  OBVIOUS
<1>1. IsSDFGraph(g) /\ RepVec(g) \in [Actors(g) -> Positive]
  BY StorageGraphs
<1>2. outputActor \in Actors(g) /\ outputActorRepCnt \in Positive
  BY <1>1 DEF initOutputActor
<1>3. /\ ch \in [Channels(g) -> Nat] /\ sp \in [Channels(g) -> Nat]
      /\ actClk \in [Actors(g) -> Seq(Nat)] /\ \A a \in Actors(g) : actClk[a] = <<>>
      /\ glbClk \in Nat
  BY DEF Cleared
<1>4. Current \in State(g)
  BY <1>1, <1>3, CurrentType
<1>5. ExecutionTypes
  BY <1>1, <1>2, <1>3, <1>4 DEF Cleared, ExecutionTypes
<1>6. FiringsInOrder
  BY <1>3 DEF FiringsInOrder, Ordered
<1> QED
  BY <1>5, <1>6 DEF Safe, Cleared

LEMMA InitSafe == Init => Safe
<1> SUFFICES ASSUME Init PROVE Safe
  OBVIOUS
<1>1. g \in Graphs /\ size \in Sizes(g) /\ size \in [Channels(g) -> Nat]
  BY StorageGraphs DEF Init
<1> QED
  BY <1>1, ClearedSafe DEF Init

-----------------------------------------------------------------------------
(* What the parts of the code that move tokens, space and firings keep     *)
Moved == /\ ch \in [Channels(g) -> Nat]
         /\ sp \in [Channels(g) -> Nat]
         /\ actClk \in [Actors(g) -> Seq(Nat)]
         /\ FiringsInOrder

LEMMA SafeMoved == Safe => Moved
BY GraphType DEF Safe, Moved

LEMMA EndMoved ==
    ASSUME Safe, NEW a \in Actors(g), actorReadyToEnd(a), endActorFiring(a), UNCHANGED g
    PROVE  Moved'
<1>1. IsSDFGraph(g) /\ g.ex[a] \in Nat /\ Moved
  BY GraphType, ExType, SafeMoved DEF Safe
<1>2. ch' \in [Channels(g) -> Nat]
  BY <1>1, ProduceType DEF Moved, endActorFiring
<1>3. sp' \in [Channels(g) -> Nat]
  <2>1. \A k \in Channels(g) : g.ch[k].c \in Nat
    BY <1>1, ChannelType DEF Positive
  <2> QED
    BY <1>1, <2>1 DEF Moved, endActorFiring
<1>4. Tail(actClk[a]) \in Seq(Nat) /\ Ordered(Tail(actClk[a]), g.ex[a])
  BY <1>1, TailOrdered DEF Moved, FiringsInOrder, actorReadyToEnd
<1>5. actClk' = [actClk EXCEPT ![a] = Tail(actClk[a])]
  BY DEF endActorFiring
<1> QED
  BY <1>1, <1>2, <1>3, <1>4, <1>5 DEF Moved, FiringsInOrder

LEMMA StartMoved ==
    ASSUME Safe, NEW a \in Actors(g), actorReadyToFire(a), startActorFiring(a), UNCHANGED g
    PROVE  Moved'
<1>1. IsSDFGraph(g) /\ g.ex[a] \in Nat /\ Moved
  BY GraphType, ExType, SafeMoved DEF Safe
<1>2. ch' \in [Channels(g) -> Nat]
  BY <1>1, ConsumeType DEF Moved, startActorFiring, actorReadyToFire
<1>3. sp' \in [Channels(g) -> Nat]
  <2>1. \A k \in Channels(g) : g.ch[k].p \in Nat
    BY <1>1, ChannelType DEF Positive
  <2>2. \A k \in Channels(g) : g.ch[k].src = a => sp[k] >= g.ch[k].p
    BY DEF actorReadyToFire, OutChannels
  <2> QED
    BY <1>1, <2>1, <2>2 DEF Moved, startActorFiring
<1>4. Append(actClk[a], g.ex[a]) \in Seq(Nat) /\ Ordered(Append(actClk[a], g.ex[a]), g.ex[a])
  BY <1>1, AppendOrdered DEF Moved, FiringsInOrder
<1>5. actClk' = [actClk EXCEPT ![a] = Append(actClk[a], g.ex[a])]
  BY DEF startActorFiring
<1> QED
  BY <1>1, <1>2, <1>3, <1>4, <1>5 DEF Moved, FiringsInOrder

LEMMA ClockMoved == Safe /\ ClockStep => Moved' /\ glbClk' \in Nat
<1> SUFFICES ASSUME Safe, ClockStep PROVE Moved' /\ glbClk' \in Nat
  OBVIOUS
<1>1. PICK first \in Active :
        LET step == Head(actClk[first])
        IN  /\ \A a \in Active : step <= Head(actClk[a])
            /\ actClk' = [a \in Actors(g) |->
                            [i \in DOMAIN actClk[a] |-> actClk[a][i] - step]]
            /\ glbClk' = glbClk + step
  BY DEF ClockStep
<1> DEFINE step == Head(actClk[first])
           lowered(a) == [i \in DOMAIN actClk[a] |-> actClk[a][i] - step]
<1>2. Moved /\ glbClk \in Nat /\ IsSDFGraph(g)
  BY SafeMoved, GraphType DEF Safe
<1>3. step \in Nat
  BY <1>2 DEF Active, Moved
<1>4. ASSUME NEW a \in Actors(g)
      PROVE  lowered(a) \in Seq(Nat) /\ Ordered(lowered(a), g.ex[a])
  <2>1. actClk[a] # <<>> => step <= Head(actClk[a])
    BY <1>1 DEF Active
  <2>2. g.ex[a] \in Nat
    BY <1>2, ExType
  <2>3. actClk[a] \in Seq(Nat) /\ Ordered(actClk[a], g.ex[a])
    BY <1>2 DEF Moved, FiringsInOrder
  <2> HIDE DEF step
  <2> QED
    BY <1>3, <2>1, <2>2, <2>3, LowerOrdered
<1>5. actClk' = [a \in Actors(g) |-> lowered(a)] /\ glbClk' = glbClk + step
  BY <1>1
<1>6. UNCHANGED <<g, ch, sp>>
  BY DEF ClockStep, graph
<1> HIDE DEF lowered, step
<1> QED
  BY <1>2, <1>3, <1>4, <1>5, <1>6 DEF Moved, FiringsInOrder

-----------------------------------------------------------------------------
LEMMA WaitsType ==
    ASSUME Safe, NEW a \in Actors(g)
    PROVE  findCausalDependencies(a) \subseteq Actors(g) \X Actors(g)
<1>1. \A k \in Channels(g) : g.ch[k].src \in Actors(g) /\ g.ch[k].dst \in Actors(g)
  BY GraphType, ChannelType DEF Safe
<1> QED
  BY <1>1 DEF findCausalDependencies, InChannels, OutChannels

LEMMA FitSafe == Safe /\ (InitialTokensDoNotFit \/ PlaceInitialTokens) => Safe'
<1> SUFFICES ASSUME Safe, InitialTokensDoNotFit \/ PlaceInitialTokens PROVE Safe'
  OBVIOUS
<1>1. /\ IsSDFGraph(g) /\ size \in [Channels(g) -> Nat] /\ glbClk \in Nat
      /\ actClk \in [Actors(g) -> Seq(Nat)]
  BY GraphType DEF Safe
<1>2. CASE InitialTokensDoNotFit
  BY <1>2 DEF InitialTokensDoNotFit, Current, graph, current, Safe, ExecutionTypes, FiringsInOrder
<1>3. CASE PlaceInitialTokens
  <2>1. ch' \in [Channels(g) -> Nat]
    BY <1>1, <1>3, InitialTokensType DEF PlaceInitialTokens
  <2>2. sp' \in [Channels(g) -> Nat]
    <3>1. \A k \in Channels(g) : g.ch[k].t \in Nat /\ size[k] >= g.ch[k].t
      BY <1>1, <1>3, ChannelType DEF PlaceInitialTokens, NoRoom
    <3> QED
      BY <1>1, <1>3, <3>1 DEF PlaceInitialTokens
  <2>3. UNCHANGED <<g, actClk, glbClk>>
    BY <1>3 DEF PlaceInitialTokens, graph
  <2>4. Current' \in State(g')
    BY <1>1, <2>1, <2>2, <2>3 DEF Current, State
  <2> QED
    BY <1>3, <2>1, <2>2, <2>3, <2>4
    DEF PlaceInitialTokens, graph, result, Safe, ExecutionTypes, FiringsInOrder
<1> QED
  BY <1>2, <1>3

(* The actions that end or start a firing                                  *)
LEMMA FireSafe ==
    ASSUME Safe, NEW a \in Actors(g),
           \/ EndFiring(a) \/ StoreAndEndFiring(a) \/ PeriodicIteration(a) \/ StartFiring(a)
    PROVE  Safe'
<1>1. g' = g /\ UNCHANGED <<size, outputActor, outputActorRepCnt>> /\ IsSDFGraph(g)
  BY GraphType DEF EndFiring, StoreAndEndFiring, PeriodicIteration, StartFiring, graph, Safe
<1>2. Moved'
  BY <1>1, EndMoved, StartMoved
     DEF EndFiring, StoreAndEndFiring, PeriodicIteration, StartFiring, NewIteration, FirstToEnd
<1>3. glbClk' \in Nat
  BY GraphType DEF EndFiring, StoreAndEndFiring, PeriodicIteration, StartFiring, NewIteration, Safe
<1>4. Current' \in State(g')
  BY <1>1, <1>2, <1>3 DEF Current, State, Moved
<1>5. CASE EndFiring(a)
  BY <1>1, <1>2, <1>4, <1>5 DEF EndFiring, result, FirstToEnd, Moved, Safe, ExecutionTypes
<1>6. CASE StoreAndEndFiring(a)
  <2>1. stored' \in Seq(State(g'))
    BY <1>1, <1>6 DEF StoreAndEndFiring, Safe, ExecutionTypes
  <2> QED
    BY <1>1, <1>2, <1>4, <1>6, <2>1
    DEF StoreAndEndFiring, NewIteration, result, FirstToEnd, Moved, Safe, ExecutionTypes
<1>7. CASE PeriodicIteration(a)
  BY <1>1, <1>2, <1>4, <1>7
  DEF PeriodicIteration, NewIteration, result, FirstToEnd, Moved, Safe, ExecutionTypes
<1>8. CASE StartFiring(a)
  <2>1. waitsFor' \subseteq Actors(g') \X Actors(g')
    BY <1>1, <1>8, WaitsType DEF StartFiring, Safe, ExecutionTypes
  <2> QED
    BY <1>1, <1>2, <1>4, <1>8, <2>1 DEF StartFiring, result, Moved, Safe, ExecutionTypes
<1> QED
  BY <1>5, <1>6, <1>7, <1>8

LEMMA NextSafe == Safe /\ [Next]_vars => Safe'
<1> SUFFICES ASSUME Safe, [Next]_vars PROVE Safe'
  OBVIOUS
<1>1. CASE InitialTokensDoNotFit \/ PlaceInitialTokens
  BY <1>1, FitSafe
<1>2. ASSUME NEW a \in Actors(g),
             EndFiring(a) \/ StoreAndEndFiring(a) \/ PeriodicIteration(a) \/ StartFiring(a)
      PROVE  Safe'
  BY <1>2, FireSafe
<1>3. ASSUME NEW a \in Actors(g), RecurrentState(a) PROVE Safe'
  <2>1. recurrent' \in Nat /\ recurrent' > 0
    BY <1>3 DEF RecurrentState, Safe, ExecutionTypes
  <2>2. glbClk' = 0 /\ UNCHANGED <<g, ch, sp, actClk>>
    BY <1>3 DEF RecurrentState, graph
  <2>3. Current' \in State(g')
    BY <2>2, GraphType DEF Safe, Current, State
  <2> QED
    BY <1>3, <2>1, <2>2, <2>3 DEF RecurrentState, FirstToEnd, graph, Safe, ExecutionTypes, FiringsInOrder
<1>4. ASSUME NEW a \in Actors(g), PeriodicState(a) PROVE Safe'
  BY <1>4 DEF PeriodicState, DependentChannels, graph, current, result, Current, Safe, ExecutionTypes, FiringsInOrder
<1>5. CASE EndsDone
  BY <1>5 DEF EndsDone, graph, current, result, Current, Safe, ExecutionTypes, FiringsInOrder
<1>6. CASE ClockStep
  <2>1. Moved' /\ glbClk' \in Nat
    BY <1>6, ClockMoved
  <2>2. /\ UNCHANGED <<g, size, outputActor, outputActorRepCnt, repCnt, stored, mode,
                       waitsFor, periodic, dep, recurrent, iter, thr, ch, sp>>
        /\ phase' = "end" /\ previous' = [ch |-> ch, sp |-> sp]
    BY <1>6 DEF ClockStep, graph, result
  <2>3. Current' \in State(g')
    BY <2>1 DEF Moved, Current, State
  <2>4. previous' \in [ch : [Channels(g') -> Nat], sp : [Channels(g') -> Nat]]
    BY <2>2, SafeMoved DEF Moved
  <2>5. periodic' \in State(g') /\ stored' \in Seq(State(g'))
    BY <2>2 DEF Safe, ExecutionTypes
  <2>6. /\ g' \in Graphs /\ size' \in [Channels(g') -> Nat] /\ outputActor' \in Actors(g')
        /\ outputActorRepCnt' \in Positive /\ dep' \subseteq Channels(g')
        /\ waitsFor' \subseteq Actors(g') \X Actors(g')
    BY <2>2 DEF Safe, ExecutionTypes
  <2>7. ExecutionTypes'
    BY <2>2, <2>3, <2>4, <2>5, <2>6 DEF Safe, ExecutionTypes
  <2> QED
    BY <2>1, <2>2, <2>7 DEF Safe, Moved
<1>7. CASE Deadlock
  BY <1>7 DEF Deadlock, DependentChannels, graph, current, Current, Safe, ExecutionTypes, FiringsInOrder
<1>8. CASE AddState
  <2>1. iter \in DOMAIN stored
    BY <1>8 DEF AddState, Safe, ExecutionTypes
  <2>2. stored[iter] \in State(g)
    BY <2>1, ElementType DEF Safe, ExecutionTypes
  <2>3. stored[iter].glbClk \in Nat
    BY <2>2 DEF State
  <2>4. thr' \in [fire : Nat, time : Nat] /\ iter' \in Nat /\ iter' > 0
    BY <1>8, <2>1, <2>3 DEF AddState, Safe, ExecutionTypes
  <2> QED
    BY <1>8, <2>4 DEF AddState, graph, current, Current, Safe, ExecutionTypes, FiringsInOrder
<1>9. CASE ReturnThroughput
  BY <1>9 DEF ReturnThroughput, graph, current, result, Current, Safe, ExecutionTypes, FiringsInOrder
<1>10. CASE UNCHANGED vars
  BY <1>10 DEF vars, graph, current, result, Current, Safe, ExecutionTypes, FiringsInOrder
<1> QED
  BY <1>1, <1>2, <1>3, <1>4, <1>5, <1>6, <1>7, <1>8, <1>9, <1>10 DEF Next

LEMMA GraphStays == [Next]_vars => UNCHANGED graph
BY Zenon DEF Next, InitialTokensDoNotFit, PlaceInitialTokens, EndFiring, StoreAndEndFiring,
   RecurrentState, PeriodicIteration, PeriodicState, StartFiring, EndsDone, ClockStep, Deadlock,
   AddState, ReturnThroughput, vars

(* Types: neither the tokens nor the free space of a channel go below zero.*)
THEOREM Typing == Spec => []TypeOK
<1>1. Init => Safe /\ size \in Sizes(g)
  BY InitSafe DEF Init
<1>2. Safe /\ size \in Sizes(g) /\ [Next]_vars => Safe' /\ (size \in Sizes(g))'
  BY NextSafe, GraphStays DEF graph
<1>3. Safe /\ size \in Sizes(g) => TypeOK
  BY DEF Safe, TypeOK
<1> QED
  BY <1>1, <1>2, <1>3, PTL DEF Spec

-----------------------------------------------------------------------------
(* Conservation is inductive once nothing is active before the first       *)
(* tokens are placed.                                                      *)
Occupied == [k \in Channels(g) |->
               ch[k] + sp[k] + g.ch[k].p * Len(actClk[g.ch[k].src])
                             + g.ch[k].c * Len(actClk[g.ch[k].dst])]

Fits == \A k \in Channels(g) : ~NoRoom(k)

ConservedInv ==
    /\ Safe
    /\ phase = "begin" => \A a \in Actors(g) : actClk[a] = <<>>
    /\ phase # "begin" /\ Fits => \A k \in Channels(g) : size[k] = Occupied[k]

LEMMA TermTypes ==
    ASSUME Safe, NEW k \in Channels(g)
    PROVE  /\ g.ch[k].p \in Nat /\ g.ch[k].c \in Nat /\ g.ch[k].t \in Nat
           /\ g.ch[k].src \in Actors(g) /\ g.ch[k].dst \in Actors(g)
           /\ ch[k] \in Nat /\ sp[k] \in Nat
           /\ \A a \in Actors(g) : actClk[a] \in Seq(Nat) /\ Len(actClk[a]) \in Nat
           /\ \A a \in Actors(g) : /\ g.ch[k].p * Len(actClk[a]) \in Nat
                                  /\ g.ch[k].c * Len(actClk[a]) \in Nat
<1>1. /\ g.ch[k].p \in Nat /\ g.ch[k].c \in Nat /\ g.ch[k].t \in Nat
      /\ g.ch[k].src \in Actors(g) /\ g.ch[k].dst \in Actors(g)
  BY GraphType, ChannelType DEF Safe, Positive
<1>2. ch[k] \in Nat /\ sp[k] \in Nat /\ \A a \in Actors(g) : actClk[a] \in Seq(Nat)
  BY GraphType DEF Safe
<1>3. \A a \in Actors(g) : Len(actClk[a]) \in Nat
  BY <1>2
<1>4. ASSUME NEW r \in Nat, NEW n \in Nat PROVE r * n \in Nat
  BY <1>4
<1> QED
  BY <1>1, <1>2, <1>3, <1>4

(* A port of rate r: what an active firing occupies turns into x when the  *)
(* firing ends, and is taken from x when one more starts.                  *)
LEMMA OneFewer ==
    ASSUME NEW r \in Nat, NEW x \in Nat, NEW n \in Nat, NEW x2 \in Int, NEW n2 \in Nat,
           (x2 = x + r /\ n = n2 + 1) \/ (x2 = x /\ n2 = n)
    PROVE  x2 + r * n2 = x + r * n
<1>1. r * (n2 + 1) = r * n2 + r /\ r * n2 \in Int
  BY OneMore
<1>2. CASE x2 = x + r /\ n = n2 + 1
  BY <1>1, <1>2
<1> QED
  BY <1>1, <1>2

LEMMA OneMoreActive ==
    ASSUME NEW r \in Nat, NEW x \in Nat, NEW n \in Nat, NEW x2 \in Int, NEW n2 \in Nat,
           (x2 = x - r /\ n2 = n + 1) \/ (x2 = x /\ n2 = n)
    PROVE  x2 + r * n2 = x + r * n
<1>1. r * (n + 1) = r * n + r /\ r * n \in Int
  BY OneMore
<1>2. CASE x2 = x - r /\ n2 = n + 1
  BY <1>1, <1>2
<1> QED
  BY <1>1, <1>2

LEMMA EndKeeps ==
    ASSUME Safe, NEW a \in Actors(g), actorReadyToEnd(a), endActorFiring(a), UNCHANGED g,
           NEW k \in Channels(g)
    PROVE  Occupied'[k] = Occupied[k]
<1> DEFINE p == g.ch[k].p
           c == g.ch[k].c
           src == g.ch[k].src
           dst == g.ch[k].dst
           t == ch[k]
           s == sp[k]
           m == Len(actClk[src])
           n == Len(actClk[dst])
           tt == ch'[k]
           ss == sp'[k]
           mm == Len(actClk'[src])
           nn == Len(actClk'[dst])
<1>1. /\ p \in Nat /\ c \in Nat /\ t \in Nat /\ s \in Nat
      /\ src \in Actors(g) /\ dst \in Actors(g)
      /\ m \in Nat /\ n \in Nat
  BY TermTypes
<1>2. \A b \in Actors(g) : /\ Len(actClk'[b]) \in Nat
                            /\ Len(actClk[b]) = IF b = a THEN Len(actClk'[b]) + 1
                                                        ELSE Len(actClk'[b])
  BY GraphType DEF Safe, actorReadyToEnd, endActorFiring
<1>3. /\ mm \in Nat /\ nn \in Nat
      /\ m = IF src = a THEN mm + 1 ELSE mm
      /\ n = IF dst = a THEN nn + 1 ELSE nn
  BY <1>1, <1>2
<1>4. /\ tt = IF src = a THEN t + p ELSE t
      /\ ss = IF dst = a THEN s + c ELSE s
  BY DEF endActorFiring, Produce
<1>5. Occupied[k] = t + s + p * m + c * n /\ Occupied'[k] = tt + ss + p * mm + c * nn
  BY DEF Occupied
<1> HIDE DEF p, c, t, s, m, n, tt, ss, mm, nn
<1>6. tt \in Int /\ ss \in Int
  BY <1>1, <1>4
<1>7. tt + p * mm = t + p * m
  BY <1>1, <1>3, <1>4, <1>6, OneFewer
<1>8. ss + c * nn = s + c * n
  BY <1>1, <1>3, <1>4, <1>6, OneFewer
<1>9. p * m \in Int /\ p * mm \in Int /\ c * n \in Int /\ c * nn \in Int
  BY <1>1, <1>3
<1> DEFINE pm == p * m
           pmm == p * mm
           cn == c * n
           cnn == c * nn
<1>10. /\ pm \in Int /\ pmm \in Int /\ cn \in Int /\ cnn \in Int
       /\ tt + pmm = t + pm /\ ss + cnn = s + cn
       /\ Occupied[k] = t + s + pm + cn /\ Occupied'[k] = tt + ss + pmm + cnn
  BY <1>5, <1>7, <1>8, <1>9
<1> HIDE DEF src, dst, pm, pmm, cn, cnn
<1> QED
  BY <1>1, <1>6, <1>10

LEMMA StartKeeps ==
    ASSUME Safe, NEW a \in Actors(g), startActorFiring(a), UNCHANGED g,
           NEW k \in Channels(g)
    PROVE  Occupied'[k] = Occupied[k]
<1> DEFINE p == g.ch[k].p
           c == g.ch[k].c
           src == g.ch[k].src
           dst == g.ch[k].dst
           t == ch[k]
           s == sp[k]
           m == Len(actClk[src])
           n == Len(actClk[dst])
           tt == ch'[k]
           ss == sp'[k]
           mm == Len(actClk'[src])
           nn == Len(actClk'[dst])
<1>1. /\ p \in Nat /\ c \in Nat /\ t \in Nat /\ s \in Nat
      /\ src \in Actors(g) /\ dst \in Actors(g)
      /\ m \in Nat /\ n \in Nat
  BY TermTypes
<1>2. \A b \in Actors(g) : /\ Len(actClk'[b]) \in Nat
                            /\ Len(actClk'[b]) = IF b = a THEN Len(actClk[b]) + 1
                                                         ELSE Len(actClk[b])
  <2>1. \A b \in Actors(g) : actClk[b] \in Seq(Nat) /\ Len(actClk[b]) \in Nat
    BY GraphType DEF Safe
  <2>2. Len(actClk'[a]) = Len(actClk[a]) + 1
    BY GraphType, <2>1 DEF Safe, startActorFiring
  <2>3. \A b \in Actors(g) : b # a => actClk'[b] = actClk[b]
    BY GraphType DEF Safe, startActorFiring
  <2> QED
    BY <2>1, <2>2, <2>3
<1>3. /\ mm \in Nat /\ nn \in Nat
      /\ mm = IF src = a THEN m + 1 ELSE m
      /\ nn = IF dst = a THEN n + 1 ELSE n
  BY <1>1, <1>2
<1>4. /\ tt = IF dst = a THEN t - c ELSE t
      /\ ss = IF src = a THEN s - p ELSE s
  BY DEF startActorFiring, Consume
<1>5. Occupied[k] = t + s + p * m + c * n /\ Occupied'[k] = tt + ss + p * mm + c * nn
  BY DEF Occupied
<1> HIDE DEF p, c, t, s, m, n, tt, ss, mm, nn
<1>6. tt \in Int /\ ss \in Int
  BY <1>1, <1>4
<1>7. tt + c * nn = t + c * n
  BY <1>1, <1>3, <1>4, <1>6, OneMoreActive
<1>8. ss + p * mm = s + p * m
  BY <1>1, <1>3, <1>4, <1>6, OneMoreActive
<1>9. p * m \in Int /\ p * mm \in Int /\ c * n \in Int /\ c * nn \in Int
  BY <1>1, <1>3
<1> DEFINE pm == p * m
           pmm == p * mm
           cn == c * n
           cnn == c * nn
<1>10. /\ pm \in Int /\ pmm \in Int /\ cn \in Int /\ cnn \in Int
       /\ tt + cnn = t + cn /\ ss + pmm = s + pm
       /\ Occupied[k] = t + s + pm + cn /\ Occupied'[k] = tt + ss + pmm + cnn
  BY <1>5, <1>7, <1>8, <1>9
<1>11. t \in Int /\ s \in Int
  BY <1>1
<1> HIDE DEF src, dst, pm, pmm, cn, cnn
<1>12. (t + cn) + (s + pm) = (tt + cnn) + (ss + pmm)
  BY <1>10
<1> QED
  BY <1>6, <1>10, <1>11, <1>12

(* A clock step lowers the remaining times and ends nothing.               *)
LEMMA ClockKeeps ==
    ASSUME Safe, ClockStep, NEW k \in Channels(g)
    PROVE  Occupied'[k] = Occupied[k]
<1>1. \A a \in Actors(g) : Len(actClk'[a]) = Len(actClk[a])
  <2>1. PICK step : actClk' = [a \in Actors(g) |-> [i \in DOMAIN actClk[a] |-> actClk[a][i] - step]]
    BY DEF ClockStep
  <2>2. ASSUME NEW a \in Actors(g)
        PROVE  Len(actClk'[a]) = Len(actClk[a])
    <3>1. actClk[a] \in Seq(Nat) /\ DOMAIN actClk[a] = 1 .. Len(actClk[a]) /\ Len(actClk[a]) \in Nat
      BY GraphType DEF Safe
    <3>2. actClk'[a] \in Seq(Nat)
      BY ClockMoved DEF Moved, ClockStep, graph
    <3>3. DOMAIN actClk'[a] = DOMAIN actClk[a]
      BY <2>1
    <3> QED
      BY <3>1, <3>2, <3>3
  <2> QED
    BY <2>2
<1>2. UNCHANGED <<g, ch, sp>>
  BY DEF ClockStep, graph
<1>3. g.ch[k].src \in Actors(g) /\ g.ch[k].dst \in Actors(g)
  BY TermTypes
<1> QED
  BY <1>1, <1>2, <1>3 DEF Occupied

-----------------------------------------------------------------------------
LEMMA InitConserved == Init => ConservedInv
<1>1. Init => phase = "begin" /\ \A a \in Actors(g) : actClk[a] = <<>>
  BY DEF Init, Cleared
<1> QED
  BY <1>1, InitSafe DEF ConservedInv

(* The initial tokens and the space left for them make up the size.        *)
LEMMA PlaceConserved ==
    ASSUME ConservedInv, PlaceInitialTokens, NEW k \in Channels(g)
    PROVE  size'[k] = Occupied'[k]
<1>1. /\ ch'[k] = g.ch[k].t /\ sp'[k] = size[k] - g.ch[k].t
      /\ UNCHANGED <<g, size, actClk>> /\ phase = "begin"
  BY DEF PlaceInitialTokens, InitialTokens, graph
<1>2. /\ g.ch[k].src \in Actors(g) /\ g.ch[k].dst \in Actors(g) /\ g.ch[k].t \in Nat
      /\ g.ch[k].p \in Nat /\ g.ch[k].c \in Nat /\ size[k] \in Nat
  BY TermTypes, GraphType DEF ConservedInv, Safe
<1>3. Len(actClk'[g.ch[k].src]) = 0 /\ Len(actClk'[g.ch[k].dst]) = 0
  BY <1>1, <1>2 DEF ConservedInv
<1>4. g.ch[k].p * 0 = 0 /\ g.ch[k].c * 0 = 0
  BY <1>2
<1>5. Occupied'[k] = ch'[k] + sp'[k] + g.ch[k].p * 0 + g.ch[k].c * 0
  BY <1>1, <1>3 DEF Occupied
<1> QED
  BY <1>1, <1>2, <1>4, <1>5

(* Every other step leaves the sum as it is.                               *)
LEMMA NextKeeps ==
    ASSUME ConservedInv, [Next]_vars, ~PlaceInitialTokens, NEW k \in Channels(g)
    PROVE  Occupied'[k] = Occupied[k]
<1>1. Safe
  BY DEF ConservedInv
<1>2. ASSUME NEW a \in Actors(g), EndFiring(a) \/ StoreAndEndFiring(a) \/ PeriodicIteration(a)
      PROVE  Occupied'[k] = Occupied[k]
  BY <1>1, <1>2, EndKeeps
     DEF EndFiring, StoreAndEndFiring, PeriodicIteration, NewIteration, FirstToEnd, graph
<1>3. ASSUME NEW a \in Actors(g), StartFiring(a)
      PROVE  Occupied'[k] = Occupied[k]
  BY <1>1, <1>3, StartKeeps DEF StartFiring, graph
<1>4. CASE ClockStep
  BY <1>1, <1>4, ClockKeeps
<1>5. ASSUME UNCHANGED <<g, ch, sp, actClk>>
      PROVE  Occupied'[k] = Occupied[k]
  BY <1>5 DEF Occupied
<1>6. ASSUME NEW a \in Actors(g), RecurrentState(a) \/ PeriodicState(a)
      PROVE  Occupied'[k] = Occupied[k]
  BY <1>5, <1>6 DEF RecurrentState, PeriodicState, graph, current
<1>7. CASE InitialTokensDoNotFit \/ EndsDone \/ Deadlock \/ AddState \/ ReturnThroughput
           \/ UNCHANGED vars
  BY <1>5, <1>7
     DEF InitialTokensDoNotFit, EndsDone, Deadlock, AddState, ReturnThroughput, vars, graph, current
<1> QED
  BY <1>2, <1>3, <1>4, <1>6, <1>7 DEF Next

LEMMA NextConserved == ConservedInv /\ [Next]_vars => ConservedInv'
<1> SUFFICES ASSUME ConservedInv, [Next]_vars PROVE ConservedInv'
  OBVIOUS
<1>1. Safe'
  BY NextSafe DEF ConservedInv
<1>2. UNCHANGED <<g, size>>
  BY DEF Next, vars, graph, InitialTokensDoNotFit, PlaceInitialTokens, EndFiring,
         StoreAndEndFiring, RecurrentState, PeriodicIteration, PeriodicState, StartFiring,
         EndsDone, ClockStep, Deadlock, AddState, ReturnThroughput
<1>3. /\ phase' = "begin" => phase = "begin" /\ UNCHANGED actClk
      /\ phase = "begin" /\ phase' # "begin" => PlaceInitialTokens \/ ~Fits
  BY DEF Next, vars, current, InitialTokensDoNotFit, PlaceInitialTokens, EndFiring, FirstToEnd,
         StoreAndEndFiring, RecurrentState, PeriodicIteration, PeriodicState, StartFiring,
         EndsDone, ClockStep, StartsDone, Deadlock, AddState, ReturnThroughput, Fits, NoRoom
<1>4. Fits' = Fits
  BY <1>2 DEF Fits, NoRoom
<1>5. phase' = "begin" => \A a \in Actors(g') : actClk'[a] = <<>>
  BY <1>2, <1>3 DEF ConservedInv
<1>6. ASSUME phase' # "begin", Fits', NEW k \in Channels(g')
      PROVE  size'[k] = Occupied'[k]
  <2>1. CASE PlaceInitialTokens
    BY <1>2, <1>6, <2>1, PlaceConserved
  <2>2. CASE ~PlaceInitialTokens
    <3>1. phase # "begin" /\ Fits /\ k \in Channels(g)
      BY <1>2, <1>3, <1>4, <1>6, <2>2
    <3>2. Occupied'[k] = Occupied[k]
      BY <3>1, <2>2, NextKeeps
    <3> QED
      BY <1>2, <3>1, <3>2 DEF ConservedInv
  <2> QED
    BY <2>1, <2>2
<1> QED
  BY <1>1, <1>5, <1>6 DEF ConservedInv

(* Storage is conserved: no interleaving of claims and releases leaks or   *)
(* double-books space, in the transient and while the period is replayed.  *)
THEOREM Conservation == Spec => []StorageConserved
<1>1. ConservedInv => StorageConserved
  BY DEF ConservedInv, StorageConserved, Fits, Occupied
<1> QED
  BY <1>1, InitConserved, NextConserved, PTL DEF Spec
-----------------------------------------------------------------------------
(* The times of the stored states: the recursive function is a function    *)
(* that satisfies its equation, and one more state adds one value.         *)
LEMMA NumbersUpTo ==
    ASSUME NEW S, 0 \in S, \A n \in Nat : n \in S => n + 1 \in S
    PROVE  Nat \subseteq S
<1> DEFINE bad == Nat \ S
<1> SUFFICES ASSUME bad # {} PROVE FALSE
  OBVIOUS
<1>1. IsWellFoundedOn(OpToRel(<, Nat), Nat)
  BY NatLessThanWellFounded
<1>2. PICK n \in bad : \A m \in bad : <<m, n>> \notin OpToRel(<, Nat)
  BY <1>1, WFMin
<1>3. n # 0 /\ n - 1 \in Nat /\ n - 1 < n /\ (n - 1) + 1 = n
  OBVIOUS
<1>4. n - 1 \in S
  BY <1>2, <1>3 DEF OpToRel
<1> QED
  BY <1>3, <1>4

LEMMA SumsExist ==
    ASSUME NEW n \in Nat, NEW c \in [1 .. n -> Nat]
    PROVE  \E t \in [0 .. n -> Nat] : t = [i \in 0 .. n |-> IF i = 0 THEN 0 ELSE t[i - 1] + c[i]]
<1> DEFINE Right(t, m) == \A i \in 0 .. m : t[i] = IF i = 0 THEN 0 ELSE t[i - 1] + c[i]
           S == {m \in Nat : m <= n => \E t \in [0 .. n -> Nat] : Right(t, m)}
<1>1. 0 \in S
  <2>1. [i \in 0 .. n |-> 0] \in [0 .. n -> Nat] /\ Right([i \in 0 .. n |-> 0], 0)
    OBVIOUS
  <2> QED
    BY <2>1
<1>2. ASSUME NEW m \in Nat, m \in S PROVE m + 1 \in S
  <2> SUFFICES ASSUME m + 1 <= n PROVE \E t \in [0 .. n -> Nat] : Right(t, m + 1)
    OBVIOUS
  <2>1. PICK t \in [0 .. n -> Nat] : Right(t, m)
    BY <1>2
  <2> DEFINE u == [t EXCEPT ![m + 1] = t[m] + c[m + 1]]
  <2>2. u \in [0 .. n -> Nat] /\ u[m + 1] = t[m] + c[m + 1]
    OBVIOUS
  <2>3. \A i \in 0 .. n : i # m + 1 => u[i] = t[i]
    OBVIOUS
  <2>4. ASSUME NEW i \in 0 .. m + 1 PROVE u[i] = IF i = 0 THEN 0 ELSE u[i - 1] + c[i]
    <3> HIDE DEF u
    <3>1. CASE i = m + 1
      BY <2>2, <2>3, <3>1
    <3>2. CASE i \in 0 .. m
      BY <2>1, <2>3, <3>2
    <3> QED
      BY <3>1, <3>2
  <2> HIDE DEF u
  <2> QED
    BY <2>2, <2>4
<1>3. n \in S
  <2> HIDE DEF S
  <2> QED
    BY <1>1, <1>2, NumbersUpTo
<1>4. PICK t \in [0 .. n -> Nat] : Right(t, n)
  <2>1. n <= n
    OBVIOUS
  <2>2. \E t \in [0 .. n -> Nat] : Right(t, n)
    <3> HIDE DEF Right
    <3> QED
      BY <1>3, <2>1
  <2> QED
    BY <2>2
<1>5. t = [i \in 0 .. n |-> t[i]]
  OBVIOUS
<1>6. t = [i \in 0 .. n |-> IF i = 0 THEN 0 ELSE t[i - 1] + c[i]]
  BY <1>4, <1>5
<1> QED
  BY <1>6

LEMMA TimesIs ==
    ASSUME NEW s, Len(s) \in Nat, \A i \in 1 .. Len(s) : s[i].glbClk \in Nat
    PROVE  /\ TimesOf(s) \in [0 .. Len(s) -> Nat]
           /\ TimesOf(s)[0] = 0
           /\ \A i \in 1 .. Len(s) : TimesOf(s)[i] = TimesOf(s)[i - 1] + s[i].glbClk
<1> DEFINE Is(t) == t = [i \in 0 .. Len(s) |-> IF i = 0 THEN 0 ELSE t[i - 1] + s[i].glbClk]
           c == [i \in 1 .. Len(s) |-> s[i].glbClk]
           u == CHOOSE t : Is(t)
<1>1. TimesOf(s) = u
  BY DEF TimesOf
<1>2. PICK t \in [0 .. Len(s) -> Nat] :
        t = [i \in 0 .. Len(s) |-> IF i = 0 THEN 0 ELSE t[i - 1] + c[i]]
  BY SumsExist
<1>3. Is(t)
  <2>1. \A i \in 0 .. Len(s) : i # 0 => c[i] = s[i].glbClk
    OBVIOUS
  <2> HIDE DEF c
  <2> QED
    BY <1>2, <2>1
<1>4. Is(u)
  <2> HIDE DEF Is
  <2> QED
    BY <1>3
<1>5. DOMAIN u = 0 .. Len(s) /\ u[0] = 0 /\ \A i \in 1 .. Len(s) : u[i] = u[i - 1] + s[i].glbClk
  <2> HIDE DEF u
  <2> QED
    BY <1>4
<1> HIDE DEF u, Is
<1> DEFINE S == {m \in Nat : m <= Len(s) => u[m] \in Nat}
<1>6. 0 \in S
  BY <1>5
<1>7. ASSUME NEW m \in Nat, m \in S PROVE m + 1 \in S
  <2>1. m + 1 <= Len(s) => m + 1 \in 1 .. Len(s) /\ (m + 1) - 1 = m
    OBVIOUS
  <2> QED
    BY <1>5, <1>7, <2>1
<1>8. \A m \in 0 .. Len(s) : u[m] \in Nat
  <2>1. Nat \subseteq S
    <3> HIDE DEF S
    <3> QED
      BY <1>6, <1>7, NumbersUpTo
  <2> QED
    BY <2>1
<1>9. u = [i \in 0 .. Len(s) |-> u[i]]
  BY <1>4 DEF Is
<1> QED
  BY <1>1, <1>5, <1>8, <1>9

LEMMA TimesAppend ==
    ASSUME NEW S, NEW s \in Seq(S), NEW e \in S, \A x \in S : x.glbClk \in Nat
    PROVE  /\ \A i \in 0 .. Len(s) : TimesOf(Append(s, e))[i] = TimesOf(s)[i]
           /\ TimesOf(Append(s, e))[Len(s) + 1] = TimesOf(s)[Len(s)] + e.glbClk
<1> DEFINE n == Len(s)
           t == TimesOf(s)
           u == TimesOf(Append(s, e))
<1>1. /\ n \in Nat /\ Len(Append(s, e)) = n + 1
      /\ \A i \in 1 .. n : s[i] \in S /\ Append(s, e)[i] = s[i]
      /\ Append(s, e)[n + 1] = e
  OBVIOUS
<1>2. /\ \A i \in 1 .. Len(s) : s[i].glbClk \in Nat
      /\ \A i \in 1 .. Len(Append(s, e)) : Append(s, e)[i].glbClk \in Nat
  BY <1>1
<1>3. t[0] = 0 /\ \A i \in 1 .. n : t[i] = t[i - 1] + s[i].glbClk
  BY <1>1, <1>2, TimesIs
<1>4. u[0] = 0 /\ \A i \in 1 .. n + 1 : u[i] = u[i - 1] + Append(s, e)[i].glbClk
  BY <1>1, <1>2, TimesIs
<1> HIDE DEF t, u, n
<1> DEFINE T == {m \in Nat : m <= n => u[m] = t[m]}
<1>5. 0 \in T
  BY <1>3, <1>4
<1>6. ASSUME NEW m \in Nat, m \in T PROVE m + 1 \in T
  <2>1. m + 1 <= n => m + 1 \in 1 .. n /\ m + 1 \in 1 .. n + 1 /\ (m + 1) - 1 = m
    BY <1>1
  <2>2. m + 1 <= n => Append(s, e)[m + 1] = s[m + 1]
    BY <1>1, <2>1
  <2> QED
    BY <1>1, <1>3, <1>4, <1>6, <2>1, <2>2
<1>7. \A m \in 0 .. n : u[m] = t[m]
  <2>1. Nat \subseteq T
    <3> HIDE DEF T
    <3> QED
      BY <1>5, <1>6, NumbersUpTo
  <2> QED
    BY <2>1, <1>1
<1>8. u[n + 1] = u[n] + e.glbClk
  <2>1. n + 1 \in 1 .. n + 1 /\ (n + 1) - 1 = n
    BY <1>1
  <2> QED
    BY <1>1, <1>4, <2>1
<1>9. u[n] = t[n]
  BY <1>1, <1>7
<1> QED
  BY <1>7, <1>8, <1>9 DEF n, t, u

-----------------------------------------------------------------------------
(* The graph with the storage space as channels: channel n + k bounds      *)
(* channel k, and holds the free space h where channel k holds the tokens f.*)
IsJoin(j, n, f, h) == /\ j = [k \in 1 .. n + n |-> j[k]]
                      /\ \A k \in 1 .. n : j[k] = f[k] /\ j[n + k] = h[k]

LEMMA Join ==
    ASSUME NEW n \in Nat, NEW V, NEW f \in [1 .. n -> V], NEW h \in [1 .. n -> V]
    PROVE  IsJoin(f \o h, n, f, h)
<1>1. f \in Seq(V) /\ h \in Seq(V) /\ Len(f) = n /\ Len(h) = n
  OBVIOUS
<1> DEFINE j == f \o h
<1>2. /\ j \in Seq(V) /\ Len(j) = n + n
      /\ \A k \in 1 .. n + n : j[k] = IF k <= n THEN f[k] ELSE h[k - n]
  BY <1>1, ConcatProperties
<1> HIDE DEF j
<1>3. j = [k \in 1 .. n + n |-> j[k]]
  BY <1>2
<1>4. ASSUME NEW k \in 1 .. n PROVE j[k] = f[k] /\ j[n + k] = h[k]
  <2>1. k \in 1 .. n + n /\ n + k \in 1 .. n + n /\ (n + k) - n = k /\ ~(n + k <= n) /\ k <= n
    OBVIOUS
  <2> QED
    BY <1>2, <2>1
<1> QED
  BY <1>3, <1>4 DEF j, IsJoin

(* A function on twice as many channels is what it is on both halves.      *)
LEMMA JoinEqual ==
    ASSUME NEW n \in Nat, NEW V, NEW f \in [1 .. n -> V], NEW h \in [1 .. n -> V],
           NEW j, IsJoin(j, n, f, h)
    PROVE  j = f \o h
<1> DEFINE u == f \o h
<1>1. j = [k \in 1 .. n + n |-> j[k]] /\ \A k \in 1 .. n : j[k] = f[k] /\ j[n + k] = h[k]
  BY DEF IsJoin
<1>2. u = [k \in 1 .. n + n |-> u[k]] /\ \A k \in 1 .. n : u[k] = f[k] /\ u[n + k] = h[k]
  <2>1. IsJoin(u, n, f, h)
    BY Join, Zenon
  <2> HIDE DEF u
  <2> QED
    BY <2>1 DEF IsJoin
<1> SUFFICES j = u
  OBVIOUS
<1> HIDE DEF u
<1>3. u = [k \in 1 .. n + n |-> u[k]]
  BY <1>2
<1>4. ASSUME NEW k \in 1 .. n + n PROVE j[k] = u[k]
  <2>1. CASE k <= n
    <3>1. k \in 1 .. n
      BY <2>1
    <3> QED
      BY <1>2, <1>1, <3>1
  <2>2. CASE k > n
    <3>1. k - n \in 1 .. n /\ n + (k - n) = k
      BY <2>2
    <3> QED
      BY <1>2, <1>1, <3>1
  <2> QED
    BY <2>1, <2>2
<1> QED
  BY <1>3, <1>4, <1>1

LEMMA JoinInjective ==
    ASSUME NEW n \in Nat, NEW V, NEW f \in [1 .. n -> V], NEW h \in [1 .. n -> V],
           NEW f2 \in [1 .. n -> V], NEW h2 \in [1 .. n -> V], f \o h = f2 \o h2
    PROVE  f = f2 /\ h = h2
<1> DEFINE u == f \o h
<1>1. IsJoin(u, n, f, h) /\ IsJoin(u, n, f2, h2)
  <2>1. IsJoin(f \o h, n, f, h)
    BY Join, Zenon
  <2>2. IsJoin(f2 \o h2, n, f2, h2)
    BY Join, Zenon
  <2> QED
    BY <2>1, <2>2, Zenon
<1> HIDE DEF u
<1>2. \A k \in 1 .. n : f[k] = f2[k] /\ h[k] = h2[k]
  BY <1>1 DEF IsJoin
<1> QED
  BY <1>2

Backward(G, s) == [k \in Channels(G) |->
                     [src |-> G.ch[k].dst, dst |-> G.ch[k].src,
                      p |-> G.ch[k].c, c |-> G.ch[k].p, t |-> Fitted(G, s)[k] - G.ch[k].t]]

(* With space for every channel there is one back for every channel.       *)
LEMMA ModelIs ==
    ASSUME NEW G, IsSDFGraph(G), NEW s \in [Channels(G) -> Nat]
    PROVE  ModelOf(G, s) = [ex |-> G.ex, ch |-> G.ch \o Backward(G, s)]
<1> DEFINE n == Len(G.ch)
           sz == Fitted(G, s)
           bounded == {k \in Channels(G) : sz[k] # -1}
           Nth(i) == CHOOSE k \in bounded : Cardinality({j \in bounded : j <= k}) = i
           Back(k) == [src |-> G.ch[k].dst, dst |-> G.ch[k].src,
                       p |-> G.ch[k].c, c |-> G.ch[k].p, t |-> sz[k] - G.ch[k].t]
<1>1. n \in Nat /\ Channels(G) = 1 .. n
  BY DEF IsSDFGraph, Channels
<1>2. \A k \in Channels(G) : sz[k] \in Nat
  BY ChannelType DEF Fitted
<1>3. bounded = 1 .. n
  BY <1>1, <1>2
<1>4. Cardinality(bounded) = n
  <2>1. Cardinality(1 .. n) = n
    BY <1>1, FS_Interval
  <2> QED
    BY <1>3, <2>1
<1>5. ASSUME NEW k \in 1 .. n PROVE Cardinality({j \in bounded : j <= k}) = k
  <2>1. {j \in bounded : j <= k} = 1 .. k
    BY <1>1, <1>3
  <2>2. Cardinality(1 .. k) = k
    BY FS_Interval
  <2> QED
    BY <2>1, <2>2
<1>6. ASSUME NEW k \in 1 .. n PROVE Nth(k) = k
  <2>1. k \in bounded /\ Cardinality({j \in bounded : j <= k}) = k
    BY <1>3, <1>5
  <2>2. Nth(k) \in bounded /\ Cardinality({j \in bounded : j <= Nth(k)}) = k
    <3> HIDE DEF bounded
    <3> QED
      BY <2>1
  <2>3. Nth(k) \in 1 .. n
    BY <1>3, <2>2
  <2>4. Cardinality({j \in bounded : j <= Nth(k)}) = Nth(k)
    <3> HIDE DEF bounded, Nth
    <3> QED
      BY <1>5, <2>3
  <2> QED
    BY <2>2, <2>4
<1>7. ModelOf(G, s) = [ex |-> G.ex, ch |-> G.ch \o [i \in 1 .. Cardinality(bounded) |-> Back(Nth(i))]]
  BY DEF ModelOf, modelBufferSizeInSDFgraph
<1> HIDE DEF n, sz, bounded, Nth
<1>8. [i \in 1 .. Cardinality(bounded) |-> Back(Nth(i))] = [k \in 1 .. n |-> Back(k)]
  <2>1. \A i \in 1 .. n : Back(Nth(i)) = Back(i)
    BY <1>6
  <2> HIDE DEF Back
  <2> QED
    BY <1>4, <2>1
<1>9. [k \in 1 .. n |-> Back(k)] = Backward(G, s)
  BY <1>1 DEF Backward, sz
<1> QED
  BY <1>7, <1>8, <1>9

(* The ends and rates of both halves                                       *)
IsModel(M, G, s, n) ==
    /\ n \in Nat /\ Channels(G) = 1 .. n /\ Channels(M) = 1 .. n + n
    /\ M.ex = G.ex
    /\ \A k \in 1 .. n :
         /\ M.ch[k] = G.ch[k]
         /\ M.ch[n + k].src = G.ch[k].dst /\ M.ch[n + k].dst = G.ch[k].src
         /\ M.ch[n + k].p = G.ch[k].c /\ M.ch[n + k].c = G.ch[k].p
         /\ M.ch[n + k].t = Fitted(G, s)[k] - G.ch[k].t

LEMMA ModelFields ==
    ASSUME NEW G, IsSDFGraph(G), NEW s \in [Channels(G) -> Nat]
    PROVE  IsModel(ModelOf(G, s), G, s, Len(G.ch))
<1> DEFINE M == ModelOf(G, s)
           n == Len(G.ch)
<1>1. M.ex = G.ex /\ M.ch = G.ch \o Backward(G, s)
  BY ModelIs
<1> HIDE DEF M
<1>2. n \in Nat /\ Channels(G) = 1 .. n /\ G.ch = [k \in 1 .. n |-> G.ch[k]]
  <2>1. PICK R : G.ch \in Seq(R)
    BY DEF IsSDFGraph
  <2>2. Len(G.ch) \in Nat /\ G.ch \in [1 .. Len(G.ch) -> R]
    BY <2>1, LenProperties
  <2> QED
    BY <2>2 DEF Channels
<1> DEFINE V == {G.ch[k] : k \in 1 .. n} \cup {Backward(G, s)[k] : k \in 1 .. n}
<1>3. G.ch \in [1 .. n -> V]
  BY <1>2
<1>4. Backward(G, s) \in [1 .. n -> V]
  BY <1>2 DEF Backward
<1> HIDE DEF V
<1>5. M.ch = [k \in 1 .. n + n |-> M.ch[k]] /\ \A k \in 1 .. n : M.ch[k] = G.ch[k] /\ M.ch[n + k] = Backward(G, s)[k]
  <2>1. IsJoin(G.ch \o Backward(G, s), n, G.ch, Backward(G, s))
    BY <1>2, <1>3, <1>4, Join, Zenon
  <2>2. IsJoin(M.ch, n, G.ch, Backward(G, s))
    BY <1>1, <2>1
  <2> QED
    BY <2>2 DEF IsJoin
<1>6. Channels(M) = 1 .. n + n
  BY <1>5 DEF Channels
<1>7. ASSUME NEW k \in 1 .. n
      PROVE  /\ M.ch[k] = G.ch[k]
             /\ M.ch[n + k].src = G.ch[k].dst /\ M.ch[n + k].dst = G.ch[k].src
             /\ M.ch[n + k].p = G.ch[k].c /\ M.ch[n + k].c = G.ch[k].p
             /\ M.ch[n + k].t = Fitted(G, s)[k] - G.ch[k].t
  <2>1. M.ch[k] = G.ch[k] /\ M.ch[n + k] = Backward(G, s)[k] /\ k \in Channels(G)
    BY <1>2, <1>5
  <2> QED
    BY <2>1 DEF Backward
<1> QED
  BY <1>1, <1>2, <1>6, <1>7 DEF IsModel, M

-----------------------------------------------------------------------------
(* Firings on both halves: claiming space is consuming from the channels   *)
(* back, giving it back is producing on them.                              *)
Claimed(G, h, a) == [k \in Channels(G) |-> IF G.ch[k].src = a THEN h[k] - G.ch[k].p ELSE h[k]]
GivenBack(G, h, a) == [k \in Channels(G) |-> IF G.ch[k].dst = a THEN h[k] + G.ch[k].c ELSE h[k]]

LEMMA ReadyBack ==
    ASSUME NEW G, IsSDFGraph(G), NEW s \in [Channels(G) -> Nat], NEW a \in Actors(G),
           NEW f \in [Channels(G) -> Nat], NEW h \in [Channels(G) -> Nat]
    PROVE  Ready(ModelOf(G, s), f \o h, a) <=>
              Ready(G, f, a) /\ \A k \in OutChannels(G, a) : h[k] >= G.ch[k].p
<1> DEFINE M == ModelOf(G, s)
           n == Len(G.ch)
           u == f \o h
<1>1. /\ n \in Nat /\ Channels(G) = 1 .. n /\ Channels(M) = 1 .. n + n
      /\ \A k \in 1 .. n : /\ M.ch[k] = G.ch[k]
                           /\ M.ch[n + k].dst = G.ch[k].src
                           /\ M.ch[n + k].c = G.ch[k].p
  BY ModelFields DEF IsModel
<1>2. IsJoin(u, n, f, h)
  BY <1>1, Join
<1> HIDE DEF M, n, u
<1>3. ASSUME NEW k \in 1 .. n
      PROVE  k \in 1 .. n + n /\ n + k \in 1 .. n + n /\ u[k] = f[k] /\ u[n + k] = h[k]
  <2>1. k \in 1 .. n + n /\ n + k \in 1 .. n + n
    <3>1. n \in Nat
      BY <1>1
    <3> QED
      BY <3>1
  <2> QED
    BY <2>1, <1>2 DEF IsJoin
<1>4. ASSUME Ready(M, u, a)
      PROVE  Ready(G, f, a) /\ \A k \in OutChannels(G, a) : h[k] >= G.ch[k].p
  <2>1. ASSUME NEW k \in 1 .. n, G.ch[k].dst = a PROVE f[k] >= G.ch[k].c
    BY <1>1, <1>3, <1>4, <2>1 DEF Ready, InChannels
  <2>2. ASSUME NEW k \in 1 .. n, G.ch[k].src = a PROVE h[k] >= G.ch[k].p
    <3>1. n + k \in InChannels(M, a)
      BY <1>1, <1>3, <2>2 DEF InChannels
    <3>2. u[n + k] >= M.ch[n + k].c
      BY <1>4, <3>1 DEF Ready
    <3> QED
      BY <1>1, <1>3, <3>2
  <2> QED
    BY <1>1, <2>1, <2>2 DEF Ready, InChannels, OutChannels
<1>5. ASSUME Ready(G, f, a), \A k \in OutChannels(G, a) : h[k] >= G.ch[k].p
      PROVE  Ready(M, u, a)
  <2> SUFFICES ASSUME NEW k \in 1 .. n + n, M.ch[k].dst = a PROVE u[k] >= M.ch[k].c
    BY <1>1 DEF Ready, InChannels
  <2>1. CASE k \in 1 .. n
    BY <1>1, <1>3, <1>5, <2>1 DEF Ready, InChannels
  <2>2. CASE k \notin 1 .. n
    <3>1. PICK j \in 1 .. n : k = n + j
      <4>1. k - n \in 1 .. n /\ k = n + (k - n)
        BY <1>1, <2>2
      <4> QED
        BY <4>1
    <3>2. j \in OutChannels(G, a)
      BY <1>1, <3>1 DEF OutChannels
    <3> QED
      BY <1>1, <1>3, <1>5, <3>1, <3>2
  <2> QED
    BY <2>1, <2>2
<1> QED
  BY <1>4, <1>5 DEF M, u

LEMMA ConsumeBack ==
    ASSUME NEW G, IsSDFGraph(G), NEW s \in [Channels(G) -> Nat], NEW a \in Actors(G),
           NEW f \in [Channels(G) -> Nat], NEW h \in [Channels(G) -> Nat]
    PROVE  Consume(ModelOf(G, s), f \o h, a) = Consume(G, f, a) \o Claimed(G, h, a)
<1> DEFINE M == ModelOf(G, s)
           n == Len(G.ch)
           u == f \o h
           h2 == Claimed(G, h, a)
           f2 == Consume(G, f, a)
           j == Consume(M, u, a)
<1>1. /\ n \in Nat /\ Channels(G) = 1 .. n /\ Channels(M) = 1 .. n + n
      /\ \A k \in 1 .. n : /\ M.ch[k] = G.ch[k]
                           /\ M.ch[n + k].dst = G.ch[k].src
                           /\ M.ch[n + k].c = G.ch[k].p
  BY ModelFields DEF IsModel
<1>2. IsJoin(u, n, f, h)
  BY <1>1, Join
<1>3. \A k \in 1 .. n : /\ G.ch[k].p \in Nat /\ G.ch[k].c \in Nat
                        /\ f[k] \in Nat /\ h[k] \in Nat
  BY <1>1, ChannelType DEF Positive
<1> HIDE DEF M, n, u
<1>4. ASSUME NEW k \in 1 .. n
      PROVE  k \in 1 .. n + n /\ n + k \in 1 .. n + n /\ u[k] = f[k] /\ u[n + k] = h[k]
  <2>1. k \in 1 .. n + n /\ n + k \in 1 .. n + n
    <3>1. n \in Nat
      BY <1>1
    <3> QED
      BY <3>1
  <2> QED
    BY <2>1, <1>2 DEF IsJoin
<1>5. f2 \in [1 .. n -> Int]
  BY <1>1, <1>3 DEF Consume
<1>6. h2 \in [1 .. n -> Int]
  BY <1>1, <1>3 DEF Claimed
<1>7. j = [k \in 1 .. n + n |-> IF M.ch[k].dst = a THEN u[k] - M.ch[k].c ELSE u[k]]
  BY <1>1 DEF Consume
<1>8. ASSUME NEW k \in 1 .. n PROVE j[k] = f2[k] /\ j[n + k] = h2[k]
  <2>1. j[k] = IF G.ch[k].dst = a THEN f[k] - G.ch[k].c ELSE f[k]
    <3> HIDE DEF j, h2, f2
    <3> QED
      BY <1>1, <1>4, <1>7
  <2>2. j[n + k] = IF G.ch[k].src = a THEN h[k] - G.ch[k].p ELSE h[k]
    <3> HIDE DEF j
    <3> QED
      BY <1>1, <1>4, <1>7
  <2>3. f2[k] = IF G.ch[k].dst = a THEN f[k] - G.ch[k].c ELSE f[k]
    BY <1>1 DEF Consume
  <2>4. h2[k] = IF G.ch[k].src = a THEN h[k] - G.ch[k].p ELSE h[k]
    BY <1>1 DEF Claimed
  <2> QED
    BY <2>1, <2>2, <2>3, <2>4
<1>9. IsJoin(j, n, f2, h2)
  <2>1. j = [k \in 1 .. n + n |-> j[k]]
    BY <1>7
  <2> HIDE DEF j
  <2> QED
    BY <1>8, <2>1 DEF IsJoin
<1> HIDE DEF j, f2, h2
<1>10. j = f2 \o h2
  BY <1>1, <1>5, <1>6, <1>9, JoinEqual
<1> QED
  BY <1>10 DEF j, f2, h2, M, u

LEMMA ProduceBack ==
    ASSUME NEW G, IsSDFGraph(G), NEW s \in [Channels(G) -> Nat], NEW a \in Actors(G),
           NEW f \in [Channels(G) -> Nat], NEW h \in [Channels(G) -> Nat]
    PROVE  Produce(ModelOf(G, s), f \o h, a) = Produce(G, f, a) \o GivenBack(G, h, a)
<1> DEFINE M == ModelOf(G, s)
           n == Len(G.ch)
           u == f \o h
           h2 == GivenBack(G, h, a)
           f2 == Produce(G, f, a)
           j == Produce(M, u, a)
<1>1. /\ n \in Nat /\ Channels(G) = 1 .. n /\ Channels(M) = 1 .. n + n
      /\ \A k \in 1 .. n : /\ M.ch[k] = G.ch[k]
                           /\ M.ch[n + k].src = G.ch[k].dst
                           /\ M.ch[n + k].p = G.ch[k].c
  BY ModelFields DEF IsModel
<1>2. IsJoin(u, n, f, h)
  BY <1>1, Join
<1>3. \A k \in 1 .. n : /\ G.ch[k].p \in Nat /\ G.ch[k].c \in Nat
                        /\ f[k] \in Nat /\ h[k] \in Nat
  BY <1>1, ChannelType DEF Positive
<1> HIDE DEF M, n, u
<1>4. ASSUME NEW k \in 1 .. n
      PROVE  k \in 1 .. n + n /\ n + k \in 1 .. n + n /\ u[k] = f[k] /\ u[n + k] = h[k]
  <2>1. k \in 1 .. n + n /\ n + k \in 1 .. n + n
    <3>1. n \in Nat
      BY <1>1
    <3> QED
      BY <3>1
  <2> QED
    BY <2>1, <1>2 DEF IsJoin
<1>5. f2 \in [1 .. n -> Int]
  BY <1>1, <1>3 DEF Produce
<1>6. h2 \in [1 .. n -> Int]
  BY <1>1, <1>3 DEF GivenBack
<1>7. j = [k \in 1 .. n + n |-> IF M.ch[k].src = a THEN u[k] + M.ch[k].p ELSE u[k]]
  BY <1>1 DEF Produce
<1>8. ASSUME NEW k \in 1 .. n PROVE j[k] = f2[k] /\ j[n + k] = h2[k]
  <2>1. j[k] = IF G.ch[k].src = a THEN f[k] + G.ch[k].p ELSE f[k]
    <3> HIDE DEF j, h2, f2
    <3> QED
      BY <1>1, <1>4, <1>7
  <2>2. j[n + k] = IF G.ch[k].dst = a THEN h[k] + G.ch[k].c ELSE h[k]
    <3> HIDE DEF j
    <3> QED
      BY <1>1, <1>4, <1>7
  <2>3. f2[k] = IF G.ch[k].src = a THEN f[k] + G.ch[k].p ELSE f[k]
    BY <1>1 DEF Produce
  <2>4. h2[k] = IF G.ch[k].dst = a THEN h[k] + G.ch[k].c ELSE h[k]
    BY <1>1 DEF GivenBack
  <2> QED
    BY <2>1, <2>2, <2>3, <2>4
<1>9. IsJoin(j, n, f2, h2)
  <2>1. j = [k \in 1 .. n + n |-> j[k]]
    BY <1>7
  <2> HIDE DEF j
  <2> QED
    BY <1>8, <2>1 DEF IsJoin
<1> HIDE DEF j, f2, h2
<1>10. j = f2 \o h2
  BY <1>1, <1>5, <1>6, <1>9, JoinEqual
<1> QED
  BY <1>10 DEF j, f2, h2, M, u

LEMMA InitialBack ==
    ASSUME NEW G, IsSDFGraph(G), NEW s \in [Channels(G) -> Nat],
           NEW h, h = [k \in Channels(G) |-> Fitted(G, s)[k] - G.ch[k].t]
    PROVE  InitialTokens(ModelOf(G, s)) = InitialTokens(G) \o h
<1> DEFINE M == ModelOf(G, s)
           n == Len(G.ch)
           f == InitialTokens(G)
           j == InitialTokens(M)
<1>1. /\ n \in Nat /\ Channels(G) = 1 .. n /\ Channels(M) = 1 .. n + n
      /\ \A k \in 1 .. n : /\ M.ch[k] = G.ch[k]
                           /\ M.ch[n + k].t = Fitted(G, s)[k] - G.ch[k].t
  BY ModelFields DEF IsModel
<1>2. \A k \in 1 .. n : G.ch[k].t \in Nat /\ Fitted(G, s)[k] \in Nat
  BY <1>1, ChannelType DEF Fitted
<1> HIDE DEF M, n
<1>3. f \in [1 .. n -> Int] /\ h \in [1 .. n -> Int]
  BY <1>1, <1>2 DEF InitialTokens
<1>4. j = [k \in 1 .. n + n |-> M.ch[k].t]
  BY <1>1 DEF InitialTokens
<1>5. ASSUME NEW k \in 1 .. n PROVE j[k] = f[k] /\ j[n + k] = h[k]
  <2>1. k \in 1 .. n + n /\ n + k \in 1 .. n + n
    BY <1>1
  <2>2. f[k] = G.ch[k].t /\ h[k] = Fitted(G, s)[k] - G.ch[k].t
    BY <1>1 DEF InitialTokens
  <2> HIDE DEF j, f
  <2> QED
    BY <1>1, <1>4, <2>1, <2>2
<1>6. IsJoin(j, n, f, h)
  <2>1. j = [k \in 1 .. n + n |-> j[k]]
    BY <1>4
  <2> HIDE DEF j
  <2> QED
    BY <1>5, <2>1 DEF IsJoin
<1> HIDE DEF j, f
<1>7. j = f \o h
  BY <1>1, <1>3, <1>6, JoinEqual
<1> QED
  BY <1>7 DEF j, f, M

-----------------------------------------------------------------------------
(* What holds of the phases: the initial tokens are placed before anything *)
(* else, and nothing is executed with a distribution that does not fit.    *)
PhaseInv ==
    /\ Safe
    /\ phase = "begin" => mode = "exec" /\ thr = [fire |-> 0, time |-> 0]
    /\ ~Fits => phase \in {"begin", "done"} /\ thr.fire = 0

LEMMA PhaseInvNext == PhaseInv /\ [Next]_vars => PhaseInv'
<1> SUFFICES ASSUME PhaseInv, [Next]_vars PROVE PhaseInv'
  OBVIOUS
<1>1. Safe'
  BY NextSafe DEF PhaseInv
<1>2. UNCHANGED <<g, size>>
  BY DEF Next, vars, graph, InitialTokensDoNotFit, PlaceInitialTokens, EndFiring,
         StoreAndEndFiring, RecurrentState, PeriodicIteration, PeriodicState, StartFiring,
         EndsDone, ClockStep, Deadlock, AddState, ReturnThroughput
<1>3. Fits' = Fits
  BY <1>2 DEF Fits, NoRoom
<1>4. phase' = "begin" => phase = "begin" /\ UNCHANGED <<mode, thr>>
  BY DEF Next, vars, result, InitialTokensDoNotFit, PlaceInitialTokens, EndFiring, FirstToEnd,
         StoreAndEndFiring, RecurrentState, PeriodicIteration, PeriodicState, StartFiring,
         EndsDone, ClockStep, StartsDone, Deadlock, AddState, ReturnThroughput
<1>5. phase = "begin" /\ ~Fits =>
         phase' \in {"begin", "done"} /\ (thr'.fire = 0 \/ UNCHANGED thr)
  BY DEF Next, vars, result, Fits, InitialTokensDoNotFit, PlaceInitialTokens, EndFiring, FirstToEnd,
         StoreAndEndFiring, RecurrentState, PeriodicIteration, PeriodicState, StartFiring,
         EndsDone, ClockStep, StartsDone, Deadlock, AddState, ReturnThroughput
<1>6. phase = "done" => phase' = "done" /\ UNCHANGED thr
  BY DEF Next, vars, result, InitialTokensDoNotFit, PlaceInitialTokens, EndFiring, FirstToEnd,
         StoreAndEndFiring, RecurrentState, PeriodicIteration, PeriodicState, StartFiring,
         EndsDone, ClockStep, StartsDone, Deadlock, AddState, ReturnThroughput
<1> QED
  BY <1>1, <1>3, <1>4, <1>5, <1>6 DEF PhaseInv

LEMMA PhaseInvInit == Init => PhaseInv
BY InitSafe DEF Init, Cleared, PhaseInv

(* What SelfTimed sees in the loop, outside the periodic phase             *)
LEMMA InLoop ==
    ASSUME PhaseInv, mode = "exec", phase \in {"end", "start"}
    PROVE  Seen = Current /\ ~NotExecuted /\ ~InPeriodicPhase /\ Fits
BY DEF PhaseInv, Seen, NotExecuted, InPeriodicPhase, Fits

LEMMA Fields ==
    /\ Current.ch = ch /\ Current.sp = sp /\ Current.actClk = actClk /\ Current.glbClk = glbClk
    /\ Modelled(Current).ch = ch \o sp /\ Modelled(Current).actClk = actClk
    /\ Modelled(Current).glbClk = glbClk
BY DEF Current, Modelled

LEMMA ModelledInjective ==
    ASSUME NEW G, IsSDFGraph(G), NEW s \in State(G), NEW t \in State(G), Modelled(s) = Modelled(t)
    PROVE  s = t
<1>1. PICK n \in Nat : Channels(G) = 1 .. n
  BY DEF IsSDFGraph, Channels
<1>2. /\ s = [ch |-> s.ch, sp |-> s.sp, actClk |-> s.actClk, glbClk |-> s.glbClk]
      /\ t = [ch |-> t.ch, sp |-> t.sp, actClk |-> t.actClk, glbClk |-> t.glbClk]
      /\ s.ch \in [1 .. n -> Nat] /\ s.sp \in [1 .. n -> Nat]
      /\ t.ch \in [1 .. n -> Nat] /\ t.sp \in [1 .. n -> Nat]
  BY <1>1 DEF State
<1>3. s.ch \o s.sp = t.ch \o t.sp /\ s.actClk = t.actClk /\ s.glbClk = t.glbClk
  BY DEF Modelled
<1>4. s.ch = t.ch /\ s.sp = t.sp
  <2> DEFINE f == s.ch
             h == s.sp
             f2 == t.ch
             h2 == t.sp
  <2>1. /\ f \in [1 .. n -> Nat] /\ h \in [1 .. n -> Nat]
        /\ f2 \in [1 .. n -> Nat] /\ h2 \in [1 .. n -> Nat]
        /\ f \o h = f2 \o h2
    BY <1>2, <1>3
  <2> HIDE DEF f, h, f2, h2
  <2>2. f = f2 /\ h = h2
    BY <2>1, JoinInjective
  <2> QED
    BY <2>2 DEF f, h, f2, h2
<1> QED
  BY <1>2, <1>3, <1>4

LEMMA StoredModelled ==
    ASSUME NEW S, NEW s \in Seq(S), NEW e \in S
    PROVE  [i \in DOMAIN Append(s, e) |-> Modelled(Append(s, e)[i])] =
              Append([i \in DOMAIN s |-> Modelled(s[i])], Modelled(e))
<1> DEFINE n == Len(s)
           V == {Modelled(x) : x \in S}
           l == [i \in DOMAIN s |-> Modelled(s[i])]
           u == Append(s, e)
           r == Append(l, Modelled(e))
<1>1. /\ n \in Nat /\ DOMAIN s = 1 .. n /\ DOMAIN u = 1 .. n + 1
      /\ \A i \in 1 .. n : s[i] \in S /\ u[i] = s[i]
      /\ u[n + 1] = e
  OBVIOUS
<1>2. l \in [1 .. n -> V] /\ \A i \in 1 .. n : l[i] = Modelled(s[i])
  BY <1>1
<1>3. Modelled(e) \in V
  OBVIOUS
<1> HIDE DEF n, V, l, u
<1>4. l \in Seq(V) /\ Len(l) = n
  BY <1>1, <1>2
<1>5. /\ r \in Seq(V) /\ Len(r) = n + 1 /\ r[n + 1] = Modelled(e)
      /\ \A i \in 1 .. n : r[i] = l[i]
  BY <1>3, <1>4, AppendProperties
<1>6. r = [i \in 1 .. n + 1 |-> r[i]]
  <2> HIDE DEF r
  <2>1. r \in [1 .. Len(r) -> V]
    BY <1>5, LenProperties
  <2> QED
    BY <1>5, <2>1
<1> HIDE DEF r
<1>7. ASSUME NEW i \in 1 .. n + 1 PROVE r[i] = Modelled(u[i])
  <2>1. i = n + 1 \/ i \in 1 .. n
    BY <1>1
  <2> QED
    BY <1>1, <1>2, <1>5, <2>1
<1>8. r = [i \in 1 .. n + 1 |-> Modelled(u[i])]
  BY <1>6, <1>7
<1> QED
  BY <1>1, <1>8 DEF l, r, u

LEMMA StoredTimes ==
    ASSUME NEW S, NEW s \in Seq(S), NEW e \in S, \A x \in S : x.glbClk \in Nat
    PROVE  /\ [i \in DOMAIN Append(s, e) |-> TimesOf(Append(s, e))[i]] =
                 Append([i \in DOMAIN s |-> TimesOf(s)[i]], TimesOf(s)[Len(s)] + e.glbClk)
           /\ TimesOf(Append(s, e))[Len(Append(s, e))] = TimesOf(s)[Len(s)] + e.glbClk
           /\ TimesOf(s)[Len(s)] \in Nat
<1> DEFINE n == Len(s)
           t == TimesOf(s)
           l == [i \in DOMAIN s |-> t[i]]
           x == t[n] + e.glbClk
           u == TimesOf(Append(s, e))
           r == Append(l, x)
<1>1. n \in Nat /\ DOMAIN s = 1 .. n /\ DOMAIN Append(s, e) = 1 .. n + 1 /\ Len(Append(s, e)) = n + 1
  OBVIOUS
<1>2. \A i \in 1 .. Len(s) : s[i].glbClk \in Nat
  OBVIOUS
<1>3. t \in [0 .. n -> Nat]
  BY <1>1, <1>2, TimesIs
<1>4. (\A i \in 0 .. n : u[i] = t[i]) /\ u[n + 1] = x
  BY TimesAppend
<1>5. t[n] \in Nat /\ x \in Nat
  BY <1>1, <1>3
<1>6. l \in [1 .. n -> Nat] /\ \A i \in 1 .. n : l[i] = t[i]
  BY <1>1, <1>3
<1> HIDE DEF n, t, l, x, u
<1>7. l \in Seq(Nat) /\ Len(l) = n
  BY <1>1, <1>6
<1>8. /\ r \in Seq(Nat) /\ Len(r) = n + 1 /\ r[n + 1] = x
      /\ \A i \in 1 .. n : r[i] = l[i]
  BY <1>5, <1>7, AppendProperties
<1>9. r = [i \in 1 .. n + 1 |-> r[i]]
  <2> HIDE DEF r
  <2>1. r \in [1 .. Len(r) -> Nat]
    BY <1>8, LenProperties
  <2> QED
    BY <1>8, <2>1
<1> HIDE DEF r
<1>10. ASSUME NEW i \in 1 .. n + 1 PROVE r[i] = u[i]
  <2>1. \/ i = n + 1
        \/ i \in 1 .. n /\ i \in 0 .. n
    <3>1. n \in Nat
      BY <1>1
    <3> QED
      BY <3>1
  <2> QED
    BY <1>4, <1>6, <1>8, <2>1
<1>11. r = [i \in 1 .. n + 1 |-> u[i]]
  BY <1>9, <1>10
<1> QED
  BY <1>1, <1>4, <1>5, <1>11 DEF l, r, u, x, t, n

-----------------------------------------------------------------------------
(* Steps of the loop, as SelfTimed takes them on the modelled graph        *)
LEMMA Model ==
    ASSUME PhaseInv
    PROVE  /\ IsSDFGraph(g) /\ size \in [Channels(g) -> Nat]
           /\ ModelOf(g, size).ex = g.ex
           /\ ST!Actors(ModelOf(g, size)) = Actors(g)
<1>1. IsSDFGraph(g) /\ size \in [Channels(g) -> Nat]
  BY GraphType DEF PhaseInv, Safe
<1>2. IsModel(ModelOf(g, size), g, size, Len(g.ch))
  BY <1>1, ModelFields
<1>3. ModelOf(g, size).ex = g.ex
  BY <1>2 DEF IsModel
<1> QED
  BY <1>1, <1>3 DEF ST!Actors, Actors

LEMMA EndSeen ==
    ASSUME PhaseInv, NEW a \in Actors(g), endActorFiring(a), UNCHANGED <<g, size>>,
           Seen = Current, Seen' = Current'
    PROVE  ST!endActorFiring(a)
<1>1. /\ Modelled(Seen).ch = ch \o sp /\ Seen.actClk = actClk
      /\ Modelled(Seen').ch = ch' \o sp' /\ (Seen').actClk = actClk'
  BY DEF Current, Modelled
<1>2. IsSDFGraph(g) /\ size \in [Channels(g) -> Nat]
      /\ ch \in [Channels(g) -> Nat] /\ sp \in [Channels(g) -> Nat]
  BY GraphType DEF PhaseInv, Safe
<1>3. /\ ch' = Produce(g, ch, a)
      /\ sp' = [k \in Channels(g) |-> IF g.ch[k].dst = a THEN sp[k] + g.ch[k].c ELSE sp[k]]
      /\ actClk' = [actClk EXCEPT ![a] = Tail(@)]
  BY DEF endActorFiring
<1>4. Produce(ModelOf(g, size), ch \o sp, a) = Produce(g, ch, a) \o sp'
  <2>1. sp' = GivenBack(g, sp, a)
    BY <1>3 DEF GivenBack
  <2>2. Produce(ModelOf(g, size), ch \o sp, a) = Produce(g, ch, a) \o GivenBack(g, sp, a)
    BY <1>2, ProduceBack
  <2> QED
    BY <2>1, <2>2
<1>5. ST!Produce(ModelOf(g, size), ch \o sp, a) = ch' \o sp'
  BY <1>3, <1>4 DEF ST!Produce, Produce, ST!Channels, Channels
<1> QED
  BY <1>1, <1>3, <1>5 DEF ST!endActorFiring

LEMMA StartSeen ==
    ASSUME PhaseInv, NEW a \in Actors(g), startActorFiring(a), UNCHANGED <<g, size>>,
           Seen = Current, Seen' = Current'
    PROVE  ST!startActorFiring(a)
<1>1. /\ Modelled(Seen).ch = ch \o sp /\ Seen.actClk = actClk
      /\ Modelled(Seen').ch = ch' \o sp' /\ (Seen').actClk = actClk'
  BY DEF Current, Modelled
<1>2. IsSDFGraph(g) /\ size \in [Channels(g) -> Nat]
      /\ ch \in [Channels(g) -> Nat] /\ sp \in [Channels(g) -> Nat]
  BY GraphType DEF PhaseInv, Safe
<1>3. /\ ch' = Consume(g, ch, a)
      /\ sp' = [k \in Channels(g) |-> IF g.ch[k].src = a THEN sp[k] - g.ch[k].p ELSE sp[k]]
      /\ actClk' = [actClk EXCEPT ![a] = Append(@, g.ex[a])]
  BY DEF startActorFiring
<1>4. Consume(ModelOf(g, size), ch \o sp, a) = Consume(g, ch, a) \o sp'
  <2>1. sp' = Claimed(g, sp, a)
    BY <1>3 DEF Claimed
  <2>2. Consume(ModelOf(g, size), ch \o sp, a) = Consume(g, ch, a) \o Claimed(g, sp, a)
    BY <1>2, ConsumeBack
  <2> QED
    BY <2>1, <2>2
<1>5. ST!Consume(ModelOf(g, size), ch \o sp, a) = ch' \o sp'
  BY <1>3, <1>4 DEF ST!Consume, Consume, ST!Channels, Channels
<1>6. ModelOf(g, size).ex[a] = g.ex[a]
  BY Model
<1> QED
  BY <1>1, <1>3, <1>5, <1>6 DEF ST!startActorFiring

LEMMA ReadySeen ==
    ASSUME PhaseInv, NEW a \in Actors(g), Seen = Current
    PROVE  /\ ST!Ready(ModelOf(g, size), Modelled(Seen).ch, a) <=> actorReadyToFire(a)
           /\ ST!ReadyToEnd(a) <=> actorReadyToEnd(a)
<1>1. Modelled(Seen).ch = ch \o sp /\ Seen.actClk = actClk
  BY DEF Current, Modelled
<1>2. IsSDFGraph(g) /\ size \in [Channels(g) -> Nat]
      /\ ch \in [Channels(g) -> Nat] /\ sp \in [Channels(g) -> Nat]
  BY GraphType DEF PhaseInv, Safe
<1>3. Ready(ModelOf(g, size), ch \o sp, a) <=> actorReadyToFire(a)
  BY <1>2, ReadyBack DEF actorReadyToFire
<1>4. ST!Ready(ModelOf(g, size), ch \o sp, a) <=> Ready(ModelOf(g, size), ch \o sp, a)
  BY DEF ST!Ready, Ready, ST!InChannels, InChannels, ST!Channels, Channels
<1> QED
  BY <1>1, <1>3, <1>4 DEF ST!ReadyToEnd, actorReadyToEnd

LEMMA EndFiringSeen ==
    ASSUME PhaseInv, NEW a \in Actors(g), EndFiring(a), mode = "exec"
    PROVE  ST!EndFiring(a)
<1>1. /\ phase = "end" /\ phase' = "end" /\ mode' = "exec"
      /\ UNCHANGED <<g, size, outputActor, outputActorRepCnt, stored, recurrent, iter, thr, glbClk>>
  BY DEF EndFiring, FirstToEnd, graph, result
<1>2. Seen = Current /\ ~NotExecuted /\ ~InPeriodicPhase
  BY <1>1, InLoop
<1>3. Seen' = Current' /\ ~NotExecuted' /\ ~InPeriodicPhase'
  BY <1>1, <1>2 DEF Seen, NotExecuted, InPeriodicPhase, NoRoom
<1>4. ST!endActorFiring(a)
  BY <1>1, <1>2, <1>3, EndSeen DEF EndFiring
<1>5. ST!FirstToEnd(a)
  BY <1>1, <1>2, Model, ReadySeen DEF EndFiring, FirstToEnd, ST!FirstToEnd
<1>6. ~ST!CompletesIteration(a)
  BY DEF EndFiring, CompletesIteration, ST!CompletesIteration
<1>7. UNCHANGED ST!graph
  BY <1>1 DEF ST!graph
<1>8. Seen.glbClk = glbClk /\ (Seen').glbClk = glbClk'
  BY <1>2, <1>3 DEF Current
<1> QED
  BY <1>1, <1>2, <1>3, <1>4, <1>5, <1>6, <1>7, <1>8 DEF EndFiring, ST!EndFiring, ST!result

LEMMA StartFiringSeen ==
    ASSUME PhaseInv, NEW a \in Actors(g), StartFiring(a), mode = "exec"
    PROVE  ST!StartFiring(a)
<1>1. /\ phase = "start" /\ phase' = "start" /\ mode' = "exec"
      /\ UNCHANGED <<g, size, outputActor, outputActorRepCnt, stored, recurrent, iter, thr,
                     glbClk, repCnt>>
  BY DEF StartFiring, graph, result
<1>2. Seen = Current /\ ~NotExecuted /\ ~InPeriodicPhase
  BY <1>1, InLoop
<1>3. Seen' = Current' /\ ~NotExecuted' /\ ~InPeriodicPhase'
  BY <1>1, <1>2 DEF Seen, NotExecuted, InPeriodicPhase, NoRoom
<1>4. ST!startActorFiring(a)
  BY <1>1, <1>2, <1>3, StartSeen DEF StartFiring
<1>5. /\ ST!Ready(ModelOf(g, size), Modelled(Seen).ch, a)
      /\ \A b \in Actors(g) : b < a => ~ST!Ready(ModelOf(g, size), Modelled(Seen).ch, b)
  BY <1>2, ReadySeen DEF StartFiring
<1>6. UNCHANGED ST!graph
  BY <1>1 DEF ST!graph
<1>7. Seen.glbClk = glbClk /\ (Seen').glbClk = glbClk'
  BY <1>2, <1>3 DEF Current
<1> QED
  BY <1>1, <1>2, <1>3, <1>4, <1>5, <1>6, <1>7, Model DEF ST!StartFiring, ST!result

(* The end of the ends, a deadlock and the sum                             *)
LEMMA EndsDoneSeen ==
    ASSUME PhaseInv, EndsDone, mode = "exec"
    PROVE  ST!EndsDone
<1>1. /\ phase = "end" /\ phase' = "start" /\ mode' = "exec"
      /\ UNCHANGED <<g, size, outputActor, outputActorRepCnt, stored, recurrent, iter, thr,
                     ch, sp, actClk, glbClk, repCnt>>
  BY DEF EndsDone, graph, result, current
<1>2. Seen = Current /\ ~NotExecuted /\ ~InPeriodicPhase
  BY <1>1, InLoop
<1>3. Seen' = Current' /\ ~NotExecuted' /\ ~InPeriodicPhase'
  BY <1>1, <1>2 DEF Seen, NotExecuted, InPeriodicPhase, NoRoom
<1>4. \A a \in Actors(g) : ~ST!ReadyToEnd(a)
  BY <1>2, ReadySeen DEF EndsDone
<1>5. UNCHANGED ST!graph
  BY <1>1 DEF ST!graph
<1>6. Seen' = Seen
  BY <1>1, <1>2, <1>3 DEF Current
<1> QED
  BY <1>1, <1>2, <1>3, <1>4, <1>5, <1>6, Model DEF ST!EndsDone, ST!result

LEMMA DeadlockSeen ==
    ASSUME PhaseInv, Deadlock
    PROVE  ST!Deadlock
<1>1. /\ phase = "start" /\ phase' = "done" /\ mode = "exec" /\ mode' = "exec"
      /\ thr' = [fire |-> 0, time |-> 1]
      /\ UNCHANGED <<g, size, outputActor, outputActorRepCnt, stored, recurrent, iter,
                     ch, sp, actClk, glbClk, repCnt>>
  BY DEF Deadlock, StartsDone, graph, current
<1>2. Seen = Current /\ ~NotExecuted /\ ~InPeriodicPhase
  BY <1>1, InLoop
<1>3. Seen' = Current' /\ ~NotExecuted' /\ ~InPeriodicPhase'
  BY <1>1, <1>2 DEF Seen, NotExecuted, InPeriodicPhase, NoRoom
<1>4. \A a \in Actors(g) : ~ST!Ready(ModelOf(g, size), Modelled(Seen).ch, a)
  BY <1>2, ReadySeen DEF Deadlock, StartsDone
<1>5. UNCHANGED ST!graph
  BY <1>1 DEF ST!graph
<1>6. Seen' = Seen
  BY <1>1, <1>2, <1>3 DEF Current
<1>7. ST!Active = {}
  <2>1. Seen.actClk = actClk /\ Active = {}
    BY <1>2 DEF Current, Deadlock
  <2> QED
    BY <2>1, Model DEF ST!Active, Active
<1> QED
  BY <1>1, <1>2, <1>3, <1>4, <1>5, <1>6, <1>7, Model DEF ST!Deadlock

LEMMA SumSeen ==
    ASSUME PhaseInv, AddState \/ ReturnThroughput
    PROVE  ST!AddState \/ ST!ReturnThroughput
<1>1. /\ phase = "sum" /\ phase' \in {"sum", "done"} /\ mode # "exec" /\ mode' = mode /\ Fits
      /\ UNCHANGED <<g, size, outputActor, outputActorRepCnt, stored, recurrent,
                     ch, sp, actClk, glbClk, repCnt, periodic>>
  BY DEF AddState, ReturnThroughput, graph, current, result, PhaseInv, Safe
<1>2. Seen = Current /\ ~NotExecuted /\ ~InPeriodicPhase
  BY <1>1 DEF Seen, NotExecuted, InPeriodicPhase, Fits
<1>3. Seen' = Current' /\ ~NotExecuted' /\ ~InPeriodicPhase'
  BY <1>1, <1>2 DEF Seen, NotExecuted, InPeriodicPhase, NoRoom
<1>4. UNCHANGED ST!graph
  BY <1>1 DEF ST!graph
<1>5. Seen' = Seen
  BY <1>1, <1>2, <1>3 DEF Current
<1> DEFINE seq == [i \in DOMAIN stored |-> Modelled(stored[i])]
<1>6. /\ Len(stored) \in Nat /\ DOMAIN stored = 1 .. Len(stored) /\ Len(seq) = Len(stored)
      /\ \A i \in DOMAIN stored : seq[i].glbClk = stored[i].glbClk
  <2>1. Len(stored) \in Nat /\ DOMAIN stored = 1 .. Len(stored)
    BY DEF PhaseInv, Safe, ExecutionTypes
  <2>2. Len(seq) = Len(stored)
    BY <2>1
  <2> QED
    BY <2>1, <2>2 DEF Modelled
<1>7. ASSUME AddState PROVE ST!AddState
  <2>1. iter \in DOMAIN stored
    BY <1>6, <1>7 DEF AddState, PhaseInv, Safe, ExecutionTypes
  <2>2. seq[iter].glbClk = stored[iter].glbClk
    BY <1>6, <2>1
  <2>3. /\ iter <= Len(stored) /\ iter' = iter + 1 /\ phase' = "sum"
        /\ thr' = [fire |-> thr.fire + 1, time |-> thr.time + stored[iter].glbClk]
    BY <1>1, <1>7 DEF AddState
  <2>4. /\ iter <= Len(seq)
        /\ thr' = [fire |-> thr.fire + 1, time |-> thr.time + seq[iter].glbClk]
    BY <1>6, <2>2, <2>3
  <2> HIDE DEF seq
  <2> QED
    BY <1>1, <1>2, <1>3, <1>4, <1>5, <2>3, <2>4 DEF ST!AddState, seq, ST!graph
<1>8. ASSUME ReturnThroughput PROVE ST!ReturnThroughput
  <2>1. iter > Len(stored) /\ phase' = "done" /\ UNCHANGED <<iter, thr>>
    BY <1>8 DEF ReturnThroughput, result
  <2>2. iter > Len(seq)
    BY <1>6, <2>1
  <2> QED
    BY <1>1, <1>2, <1>3, <1>4, <1>5, <2>1, <2>2 DEF ST!ReturnThroughput, ST!result, ST!graph
<1> QED
  BY <1>7, <1>8

(* A clock step, and the time since the start                              *)
LEMMA ClockSeen ==
    ASSUME PhaseInv, ClockStep, mode = "exec"
    PROVE  ST!ClockStep
<1>1. /\ phase = "start" /\ phase' = "end" /\ mode' = "exec"
      /\ UNCHANGED <<g, size, outputActor, outputActorRepCnt, stored, recurrent, iter, thr,
                     ch, sp, repCnt>>
  BY DEF ClockStep, StartsDone, graph, result
<1>2. Seen = Current /\ ~NotExecuted /\ ~InPeriodicPhase
  BY <1>1, InLoop
<1>3. Seen' = Current' /\ ~NotExecuted' /\ ~InPeriodicPhase'
  BY <1>1, <1>2 DEF Seen, NotExecuted, InPeriodicPhase, NoRoom
<1>4. \A a \in Actors(g) : ~ST!Ready(ModelOf(g, size), Modelled(Seen).ch, a)
  BY <1>2, ReadySeen DEF ClockStep, StartsDone
<1>5. UNCHANGED ST!graph
  BY <1>1 DEF ST!graph
<1>6. /\ Seen.actClk = actClk /\ (Seen').actClk = actClk'
      /\ Seen.glbClk = glbClk /\ (Seen').glbClk = glbClk'
      /\ Modelled(Seen').ch = Modelled(Seen).ch
  BY <1>1, <1>2, <1>3 DEF Current, Modelled
<1>7. ST!Active = Active /\ ST!Actors(ModelOf(g, size)) = Actors(g)
  BY <1>6, Model DEF ST!Active, Active
<1>8. PICK first \in Active :
        /\ \A a \in Active : Head(actClk[first]) <= Head(actClk[a])
        /\ actClk' = [a \in Actors(g) |->
                        [i \in DOMAIN actClk[a] |-> actClk[a][i] - Head(actClk[first])]]
        /\ glbClk' = glbClk + Head(actClk[first])
  BY DEF ClockStep
<1>9. Head(actClk[first]) \in Nat /\ glbClk \in Nat
  BY GraphType DEF Active, PhaseInv, Safe
<1>10. TimesOf(stored)[Len(stored)] \in Nat
  <2>1. Len(stored) \in Nat /\ \A i \in 1 .. Len(stored) : stored[i].glbClk \in Nat
    <3>1. stored \in Seq(State(g)) /\ \A x \in State(g) : x.glbClk \in Nat
      BY DEF PhaseInv, Safe, ExecutionTypes, State
    <3> QED
      BY <3>1
  <2>2. TimesOf(stored) \in [0 .. Len(stored) -> Nat]
    BY <2>1, TimesIs
  <2> QED
    BY <2>1, <2>2
<1>11. TimesOf(stored)[Len(stored)] + glbClk' =
          (TimesOf(stored)[Len(stored)] + glbClk) + Head(actClk[first])
  BY <1>8, <1>9, <1>10
<1>12. \E f \in ST!Active :
          LET step == Head(Seen.actClk[f])
          IN  /\ \A a \in ST!Active : step <= Head(Seen.actClk[a])
              /\ (Seen').actClk = [a \in ST!Actors(ModelOf(g, size)) |->
                              [i \in DOMAIN Seen.actClk[a] |-> Seen.actClk[a][i] - step]]
              /\ (Seen').glbClk = Seen.glbClk + step
              /\ TimesOf(stored')[Len(stored')] + (Seen').glbClk =
                    (TimesOf(stored)[Len(stored)] + Seen.glbClk) + step
  <2>1. TimesOf(stored')[Len(stored')] + glbClk' =
          (TimesOf(stored)[Len(stored)] + glbClk) + Head(actClk[first])
    BY <1>1, <1>11
  <2> QED
    BY <1>6, <1>7, <1>8, <2>1
<1>13. \A a \in ST!Actors(ModelOf(g, size)) : ~ST!Ready(ModelOf(g, size), Modelled(Seen).ch, a)
  BY <1>4, <1>7
<1> QED
  BY <1>1, <1>2, <1>3, <1>5, <1>6, <1>12, <1>13 DEF ST!ClockStep, ST!result

(* A state that is stored, with the time of the visit                      *)
LEMMA StoreSeen ==
    ASSUME PhaseInv, NEW a \in Actors(g), StoreAndEndFiring(a)
    PROVE  ST!StoreAndEndFiring(a)
<1>1. /\ phase = "end" /\ phase' = "end" /\ mode = "exec" /\ mode' = "exec"
      /\ stored' = Append(stored, Current) /\ glbClk' = 0 /\ repCnt' = 0
      /\ UNCHANGED <<g, size, outputActor, outputActorRepCnt, recurrent, iter, thr>>
  BY DEF StoreAndEndFiring, NewIteration, FirstToEnd, graph, result
<1>2. Seen = Current /\ ~NotExecuted /\ ~InPeriodicPhase
  BY <1>1, InLoop
<1>3. Seen' = Current' /\ ~NotExecuted' /\ ~InPeriodicPhase'
  BY <1>1, <1>2 DEF Seen, NotExecuted, InPeriodicPhase, NoRoom
<1>4. ST!endActorFiring(a)
  BY <1>1, <1>2, <1>3, EndSeen DEF StoreAndEndFiring, NewIteration
<1>5. ST!FirstToEnd(a)
  BY <1>1, <1>2, Model, ReadySeen DEF StoreAndEndFiring, FirstToEnd, ST!FirstToEnd
<1>6. ST!CompletesIteration(a)
  BY <1>1 DEF StoreAndEndFiring, CompletesIteration, ST!CompletesIteration
<1>7. UNCHANGED ST!graph
  BY <1>1 DEF ST!graph
<1>8. (Seen').glbClk = 0 /\ Seen.glbClk = glbClk
  BY <1>1, <1>2, <1>3 DEF Current
<1>9. ST!Current = Modelled(Seen)
  BY DEF ST!Current, Modelled
<1>10. stored \in Seq(State(g)) /\ Current \in State(g) /\ \A x \in State(g) : x.glbClk \in Nat
  BY DEF PhaseInv, Safe, ExecutionTypes, State
<1>11. [i \in DOMAIN stored' |-> Modelled(stored'[i])] =
          Append([i \in DOMAIN stored |-> Modelled(stored[i])], Modelled(Current))
  <2>1. [i \in DOMAIN Append(stored, Current) |-> Modelled(Append(stored, Current)[i])] =
          Append([i \in DOMAIN stored |-> Modelled(stored[i])], Modelled(Current))
    BY <1>10, StoredModelled, Zenon
  <2> QED
    BY <1>1, <2>1, Zenon
<1>12. /\ [i \in DOMAIN stored' |-> TimesOf(stored')[i]] =
             Append([i \in DOMAIN stored |-> TimesOf(stored)[i]],
                    TimesOf(stored)[Len(stored)] + Current.glbClk)
       /\ TimesOf(stored')[Len(stored')] = TimesOf(stored)[Len(stored)] + Current.glbClk
       /\ TimesOf(stored)[Len(stored)] \in Nat
  <2>1. /\ [i \in DOMAIN Append(stored, Current) |-> TimesOf(Append(stored, Current))[i]] =
             Append([i \in DOMAIN stored |-> TimesOf(stored)[i]],
                    TimesOf(stored)[Len(stored)] + Current.glbClk)
        /\ TimesOf(Append(stored, Current))[Len(Append(stored, Current))] =
             TimesOf(stored)[Len(stored)] + Current.glbClk
        /\ TimesOf(stored)[Len(stored)] \in Nat
    BY <1>10, StoredTimes, Zenon
  <2> QED
    BY <1>1, <2>1, Zenon
<1>13. TimesOf(stored')[Len(stored')] + (Seen').glbClk = TimesOf(stored)[Len(stored)] + Seen.glbClk
  BY <1>2, <1>8, <1>10, <1>12
<1>14. \A i \in DOMAIN stored : Modelled(stored[i]) # ST!Current
  <2> SUFFICES ASSUME NEW i \in DOMAIN stored, Modelled(stored[i]) = Modelled(Current) PROVE FALSE
    BY <1>2, <1>9
  <2>1. stored[i] \in State(g) /\ IsSDFGraph(g)
    BY <1>10, Model
  <2>2. stored[i] = Current
    BY <1>10, <2>1, ModelledInjective
  <2> QED
    BY <2>2 DEF StoreAndEndFiring
<1>15. DOMAIN [i \in DOMAIN stored |-> Modelled(stored[i])] = DOMAIN stored
  OBVIOUS
<1> QED
  BY <1>1, <1>2, <1>3, <1>4, <1>5, <1>6, <1>7, <1>8, <1>9, <1>11, <1>12, <1>13, <1>14
  DEF ST!StoreAndEndFiring, ST!result

(* The recurrent state, at which SelfTimed stops and the periodic phase is *)
(* analysed first                                                          *)
LEMMA RecurrentSeen ==
    ASSUME PhaseInv, NEW a \in Actors(g), RecurrentState(a)
    PROVE  ST!RecurrentState(a)
<1>1. /\ phase = "end" /\ phase' = "end" /\ mode = "exec" /\ mode' = "leftover"
      /\ periodic' = Current /\ repCnt + 1 = outputActorRepCnt /\ iter' = recurrent'
      /\ UNCHANGED <<g, size, outputActor, outputActorRepCnt, stored, thr>>
  BY DEF RecurrentState, CompletesIteration, FirstToEnd, graph
<1>2. Seen = Current /\ ~NotExecuted /\ ~InPeriodicPhase
  BY <1>1, InLoop
<1>3. Seen' = Seen /\ ~NotExecuted' /\ InPeriodicPhase'
  BY <1>1, <1>2 DEF Seen, NotExecuted, InPeriodicPhase, NoRoom
<1>4. ST!FirstToEnd(a)
  BY <1>1, <1>2, Model, ReadySeen DEF RecurrentState, FirstToEnd, ST!FirstToEnd
<1>5. ST!CompletesIteration(a)
  BY <1>1 DEF RecurrentState, CompletesIteration, ST!CompletesIteration
<1>6. UNCHANGED ST!graph
  BY <1>1 DEF ST!graph
<1>7. ST!Current = Modelled(Current)
  BY <1>2 DEF ST!Current, Modelled
<1>8. recurrent' \in DOMAIN stored /\ Modelled(stored[recurrent']) = ST!Current
  BY <1>7 DEF RecurrentState
<1>9. \A i \in DOMAIN stored : Modelled(stored[i]) = ST!Current => recurrent' <= i
  <2> SUFFICES ASSUME NEW i \in DOMAIN stored, Modelled(stored[i]) = Modelled(Current)
               PROVE  recurrent' <= i
    BY <1>7
  <2>1. stored \in Seq(State(g)) /\ Current \in State(g) /\ IsSDFGraph(g)
    BY Model DEF PhaseInv, Safe, ExecutionTypes
  <2>2. stored[i] \in State(g)
    BY <2>1
  <2>3. stored[i] = Current
    BY <2>1, <2>2, ModelledInjective
  <2> QED
    BY <2>3 DEF RecurrentState
<1> QED
  BY <1>1, <1>2, <1>3, <1>4, <1>5, <1>6, <1>8, <1>9 DEF ST!RecurrentState

-----------------------------------------------------------------------------
(* What SelfTimed does not see                                             *)
LEMMA PlacedSeen ==
    ASSUME PhaseInv, InitialTokensDoNotFit \/ PlaceInitialTokens
    PROVE  UNCHANGED ST!vars
<1>1. /\ phase = "begin" /\ mode = "exec" /\ mode' = "exec" /\ NotExecuted /\ ~InPeriodicPhase
      /\ thr = [fire |-> 0, time |-> 0]
      /\ UNCHANGED <<g, size, outputActor, outputActorRepCnt, stored, recurrent, iter,
                     actClk, glbClk, repCnt>>
  BY DEF InitialTokensDoNotFit, PlaceInitialTokens, graph, current, result, PhaseInv,
         NotExecuted, InPeriodicPhase
<1>2. Seen = [ch |-> InitialTokens(g),
              sp |-> [k \in Channels(g) |-> Fitted(g, size)[k] - g.ch[k].t],
              actClk |-> actClk, glbClk |-> glbClk]
  BY <1>1 DEF Seen, Current
<1>3. ~InPeriodicPhase'
  BY <1>1 DEF InPeriodicPhase
<1>4. CASE InitialTokensDoNotFit
  <2>1. NotExecuted'
    BY <1>1, <1>4 DEF InitialTokensDoNotFit, NotExecuted, NoRoom
  <2>2. UNCHANGED <<ch, sp>>
    BY <1>4 DEF InitialTokensDoNotFit, current
  <2>3. Seen' = Seen
    BY <1>1, <2>1, <2>2 DEF Seen, Current, InitialTokens, Fitted
  <2> QED
    BY <1>1, <1>3, <2>1, <2>3 DEF ST!vars
<1>5. CASE PlaceInitialTokens
  <2>1. ~NotExecuted' /\ phase' = "end" /\ thr' = thr
    BY <1>1, <1>5 DEF PlaceInitialTokens, NotExecuted, NoRoom, result
  <2>2. \A k \in Channels(g) : Fitted(g, size)[k] = size[k]
    BY <1>5 DEF PlaceInitialTokens, Fitted, NoRoom
  <2>3. ch' = InitialTokens(g) /\ sp' = [k \in Channels(g) |-> Fitted(g, size)[k] - g.ch[k].t]
    BY <1>5, <2>2 DEF PlaceInitialTokens
  <2>4. Seen' = [ch |-> ch', sp |-> sp', actClk |-> actClk', glbClk |-> glbClk']
    BY <1>3, <2>1 DEF Seen, Current
  <2>5. Seen' = Seen
    BY <1>1, <1>2, <2>3, <2>4
  <2> QED
    BY <1>1, <1>3, <2>1, <2>5 DEF ST!vars
<1> QED
  BY <1>4, <1>5

LEMMA PeriodicSeen ==
    ASSUME PhaseInv, mode # "exec", mode' # "exec",
           phase \in {"end", "start"}, phase' \in {"end", "start"},
           UNCHANGED <<g, size, outputActor, outputActorRepCnt, stored, recurrent, iter, thr, periodic>>
    PROVE  UNCHANGED ST!vars
<1>1. ~NotExecuted /\ InPeriodicPhase
  BY DEF PhaseInv, NotExecuted, InPeriodicPhase, Fits
<1>2. ~NotExecuted' /\ InPeriodicPhase'
  BY <1>1 DEF NotExecuted, InPeriodicPhase, NoRoom
<1>3. Seen' = Seen
  BY <1>1, <1>2 DEF Seen
<1> QED
  BY <1>1, <1>2, <1>3 DEF ST!vars

LEMMA PeriodicStateSeen ==
    ASSUME PhaseInv, NEW a \in Actors(g), PeriodicState(a)
    PROVE  UNCHANGED ST!vars
<1>1. /\ phase = "end" /\ phase' = "sum" /\ mode = "periodic" /\ mode' = mode /\ Current = periodic
      /\ UNCHANGED <<g, size, outputActor, outputActorRepCnt, stored, recurrent, iter, thr, periodic,
                     ch, sp, actClk, glbClk>>
  BY DEF PeriodicState, FirstToEnd, graph, current, result
<1>2. ~NotExecuted /\ InPeriodicPhase
  BY <1>1 DEF PhaseInv, NotExecuted, InPeriodicPhase, Fits
<1>3. ~NotExecuted' /\ ~InPeriodicPhase'
  BY <1>1, <1>2 DEF NotExecuted, InPeriodicPhase, NoRoom
<1>4. Seen' = Seen
  BY <1>1, <1>2, <1>3 DEF Seen, Current
<1> QED
  BY <1>1, <1>2, <1>3, <1>4 DEF ST!vars

LEMMA NextSeen == PhaseInv /\ [Next]_vars => [ST!Next]_ST!vars
<1> SUFFICES ASSUME PhaseInv, [Next]_vars PROVE ST!Next \/ UNCHANGED ST!vars
  OBVIOUS
<1>1. ST!Actors(ModelOf(g, size)) = Actors(g)
  BY Model
<1>2. CASE InitialTokensDoNotFit \/ PlaceInitialTokens
  BY <1>2, PlacedSeen
<1>3. ASSUME NEW a \in Actors(g), mode = "exec",
             \/ EndFiring(a) \/ StoreAndEndFiring(a) \/ RecurrentState(a) \/ StartFiring(a)
      PROVE  ST!Next
  <2>1. \/ ST!EndFiring(a) \/ ST!StoreAndEndFiring(a) \/ ST!RecurrentState(a) \/ ST!StartFiring(a)
    BY <1>3, EndFiringSeen, StoreSeen, RecurrentSeen, StartFiringSeen
  <2> QED
    BY <1>1, <2>1 DEF ST!Next
<1>4. ASSUME NEW a \in Actors(g), mode # "exec",
             EndFiring(a) \/ PeriodicIteration(a) \/ StartFiring(a)
      PROVE  UNCHANGED ST!vars
  <2>1. /\ phase \in {"end", "start"} /\ phase' \in {"end", "start"} /\ mode' = mode
        /\ UNCHANGED <<g, size, outputActor, outputActorRepCnt, stored, recurrent, iter, thr, periodic>>
    BY <1>4 DEF EndFiring, PeriodicIteration, NewIteration, StartFiring, FirstToEnd, graph, result
  <2> QED
    BY <1>4, <2>1, PeriodicSeen
<1>5. CASE EndsDone \/ ClockStep
  <2>1. CASE mode = "exec"
    BY <1>5, <2>1, EndsDoneSeen, ClockSeen DEF ST!Next
  <2>2. CASE mode # "exec"
    <3>1. /\ phase \in {"end", "start"} /\ phase' \in {"end", "start"} /\ mode' # "exec"
          /\ UNCHANGED <<g, size, outputActor, outputActorRepCnt, stored, recurrent, iter, thr, periodic>>
      BY <1>5, <2>2 DEF EndsDone, ClockStep, StartsDone, graph, result
    <3> QED
      BY <2>2, <3>1, PeriodicSeen
  <2> QED
    BY <2>1, <2>2
<1>6. CASE Deadlock
  BY <1>6, DeadlockSeen DEF ST!Next
<1>7. CASE AddState \/ ReturnThroughput
  BY <1>7, SumSeen DEF ST!Next
<1>8. CASE UNCHANGED vars
  <2>1. /\ UNCHANGED <<g, size, outputActor, outputActorRepCnt, ch, sp, actClk, glbClk, repCnt,
                       stored, phase, mode, periodic, recurrent, iter, thr>>
    BY <1>8 DEF vars, graph, current, result
  <2>2. Seen' = Seen /\ NotExecuted' = NotExecuted /\ InPeriodicPhase' = InPeriodicPhase
    BY <2>1 DEF Seen, Current, NotExecuted, InPeriodicPhase, NoRoom
  <2> QED
    BY <2>1, <2>2 DEF ST!vars
<1>9. ASSUME NEW a \in Actors(g), PeriodicState(a) PROVE UNCHANGED ST!vars
  BY <1>9, PeriodicStateSeen
<1>10. \A a \in Actors(g) : /\ StoreAndEndFiring(a) \/ RecurrentState(a) => mode = "exec"
                            /\ PeriodicIteration(a) => mode # "exec"
  BY DEF StoreAndEndFiring, RecurrentState, PeriodicIteration
<1> QED
  BY <1>2, <1>3, <1>4, <1>5, <1>6, <1>7, <1>8, <1>9, <1>10 DEF Next

LEMMA InitSeen == Init => ST!Init
<1> SUFFICES ASSUME Init PROVE ST!Init
  OBVIOUS
<1>1. PhaseInv /\ g \in Graphs /\ size \in Sizes(g)
  BY PhaseInvInit DEF Init
<1>2. IsSDFGraph(g) /\ size \in [Channels(g) -> Nat] /\ ST!Actors(ModelOf(g, size)) = Actors(g)
  BY <1>1, Model
<1>3. /\ phase = "begin" /\ mode = "exec" /\ NotExecuted /\ ~InPeriodicPhase
      /\ actClk = [a \in Actors(g) |-> <<>>] /\ glbClk = 0 /\ stored = <<>>
      /\ repCnt = 0 /\ recurrent = 0 /\ iter = 0
  BY DEF Init, Cleared, NotExecuted, InPeriodicPhase
<1>4. ModelOf(g, size) \in ModelledGraphs
  BY <1>1 DEF ModelledGraphs
<1>5. ST!initOutputActor
  <2>1. RepVec(ModelOf(g, size)) = RepVec(g)
    BY <1>1, ModelledRepVec
  <2>2. initOutputActor
    BY DEF Init
  <2> QED
    BY <1>2, <2>1, <2>2 DEF initOutputActor, ST!initOutputActor
<1> DEFINE space == [k \in Channels(g) |-> Fitted(g, size)[k] - g.ch[k].t]
<1>6. Seen = [ch |-> InitialTokens(g), sp |-> space, actClk |-> actClk, glbClk |-> glbClk]
  BY <1>3 DEF Seen, Current
<1>7. Modelled(Seen).ch = ST!InitialTokens(ModelOf(g, size))
  <2>1. Modelled(Seen).ch = InitialTokens(g) \o space
    BY <1>6 DEF Modelled
  <2>2. InitialTokens(ModelOf(g, size)) = InitialTokens(g) \o space
    BY <1>2, InitialBack
  <2> QED
    BY <2>1, <2>2 DEF ST!InitialTokens, InitialTokens, ST!Channels, Channels
<1>8. Seen.actClk = [a \in ST!Actors(ModelOf(g, size)) |-> <<>>] /\ Seen.glbClk = 0
  BY <1>2, <1>3, <1>6
<1>9. TimesOf(stored)[Len(stored)] = 0
  <2>1. Len(stored) = 0
    BY <1>3
  <2> QED
    BY <2>1, TimesIs
<1>10. [i \in DOMAIN stored |-> Modelled(stored[i])] = <<>> /\ [i \in DOMAIN stored |-> TimesOf(stored)[i]] = <<>>
  BY <1>3
<1> QED
  BY <1>3, <1>4, <1>5, <1>7, <1>8, <1>9, <1>10 DEF ST!Init

(* Executing a graph with claims on storage space is executing, without    *)
(* claims, the graph with the space as channels: every step of the loop is *)
(* the step of SelfTimed, and what is done to find the dependencies is     *)
(* invisible, so that both compute the same throughput.                    *)
THEOREM ExecutesModel == Spec => ImplementsSelfTimed
<1> QED
  BY PhaseInvInit, PhaseInvNext, InitSeen, NextSeen, PTL DEF Spec, ImplementsSelfTimed, ST!Spec


-----------------------------------------------------------------------------
(* The theorems of SelfTimed_proofs, on the modelled graph                 *)
STP == INSTANCE SelfTimed_proofs WITH
        Graphs <- ModelledGraphs,
        g <- ModelOf(g, size),
        ch <- Modelled(Seen).ch,
        actClk <- Seen.actClk,
        glbClk <- Seen.glbClk,
        repCnt <- IF mode = "exec" THEN repCnt ELSE outputActorRepCnt,
        stored <- [i \in DOMAIN stored |-> Modelled(stored[i])],
        phase <- IF InPeriodicPhase THEN "sum" ELSE IF NotExecuted THEN "end" ELSE phase,
        thr <- IF NotExecuted THEN [fire |-> 0, time |-> 0] ELSE thr,
        now <- TimesOf(stored)[Len(stored)] + Seen.glbClk,
        storedAt <- [i \in DOMAIN stored |-> TimesOf(stored)[i]]

LEMMA SameSpec == ST!Spec => STP!Spec
<1>1. ST!Init => STP!Init
  BY Zenon DEF ST!Init, STP!Init, ST!initOutputActor, STP!initOutputActor, ST!InitialTokens,
     STP!InitialTokens, ST!Actors, STP!Actors, ST!Channels, STP!Channels
<1>2. ST!vars = STP!vars
  BY DEF ST!vars, STP!vars
<1>3. (ST!vars)' = (STP!vars)'
  BY DEF ST!vars, STP!vars
<1>4. ST!graph = STP!graph /\ (ST!graph)' = (STP!graph)' /\ ST!result = STP!result /\ (ST!result)' = (STP!result)'
      /\ ST!Current = STP!Current
  BY DEF ST!graph, STP!graph, ST!result, STP!result, ST!Current, STP!Current
<1>5. /\ \A G, t, a : ST!Ready(G, t, a) <=> STP!Ready(G, t, a)
      /\ \A G, t, a : ST!Consume(G, t, a) = STP!Consume(G, t, a)
      /\ \A G, t, a : ST!Produce(G, t, a) = STP!Produce(G, t, a)
  BY DEF ST!Ready, STP!Ready, ST!InChannels, STP!InChannels, ST!Channels, STP!Channels,
         ST!Consume, STP!Consume, ST!Produce, STP!Produce
<1>6. /\ ST!Active = STP!Active
      /\ \A G : ST!Actors(G) = STP!Actors(G)
      /\ \A a : ST!ReadyToEnd(a) <=> STP!ReadyToEnd(a)
      /\ \A a : ST!CompletesIteration(a) <=> STP!CompletesIteration(a)
  BY DEF ST!Active, STP!Active, ST!Actors, STP!Actors, ST!ReadyToEnd, STP!ReadyToEnd,
         ST!CompletesIteration, STP!CompletesIteration
<1>7. \A a : ST!FirstToEnd(a) <=> STP!FirstToEnd(a)
  BY <1>6, Zenon DEF ST!FirstToEnd, STP!FirstToEnd
<1>8. \A a : ST!endActorFiring(a) <=> STP!endActorFiring(a)
  BY <1>5, Zenon DEF ST!endActorFiring, STP!endActorFiring
<1>9. \A a : ST!startActorFiring(a) <=> STP!startActorFiring(a)
  BY <1>5, Zenon DEF ST!startActorFiring, STP!startActorFiring
<1>10. \A a : ST!EndFiring(a) => STP!EndFiring(a)
  BY <1>4, <1>6, <1>7, <1>8, Zenon DEF ST!EndFiring, STP!EndFiring
<1>11. \A a : ST!StoreAndEndFiring(a) => STP!StoreAndEndFiring(a)
  BY <1>4, <1>6, <1>7, <1>8, Zenon DEF ST!StoreAndEndFiring, STP!StoreAndEndFiring
<1>12. \A a : ST!RecurrentState(a) => STP!RecurrentState(a)
  BY <1>4, <1>6, <1>7, Zenon DEF ST!RecurrentState, STP!RecurrentState
<1>13. \A a : ST!StartFiring(a) => STP!StartFiring(a)
  BY <1>4, <1>5, <1>6, <1>9, Zenon DEF ST!StartFiring, STP!StartFiring
<1>14. ST!EndsDone => STP!EndsDone
  BY <1>4, <1>6, Zenon DEF ST!EndsDone, STP!EndsDone
<1>15. ST!ClockStep => STP!ClockStep
  BY <1>4, <1>5, <1>6 DEF ST!ClockStep, STP!ClockStep
<1>16. ST!Deadlock => STP!Deadlock
  BY <1>4, <1>5, <1>6, Zenon DEF ST!Deadlock, STP!Deadlock
<1>17. ST!AddState => STP!AddState
  BY <1>4, Zenon DEF ST!AddState, STP!AddState
<1>18. ST!ReturnThroughput => STP!ReturnThroughput
  BY <1>4, Zenon DEF ST!ReturnThroughput, STP!ReturnThroughput
<1>19. ST!Next => STP!Next
  BY <1>6, <1>10, <1>11, <1>12, <1>13, <1>14, <1>15, <1>16, <1>17, <1>18, Zenon DEF ST!Next, STP!Next
<1>20. [ST!Next]_ST!vars => [STP!Next]_STP!vars
  BY <1>2, <1>3, <1>19
<1> QED
  BY <1>1, <1>20, PTL DEF ST!Spec, STP!Spec

(* What SelfTimed assumes of graphs and repetition vectors holds of the    *)
(* modelled graphs: a channel back has the balance equation of its channel.*)
LEMMA ModelledAssumptions ==
    /\ \A M \in ModelledGraphs : STP!IsSDFGraph(M) /\ M.ex # <<>>
    /\ \A M \in ModelledGraphs : /\ RepVec(M) \in [STP!Actors(M) -> STP!Positive]
                               /\ STP!Balanced(M, RepVec(M))
<1> SUFFICES ASSUME NEW G \in Graphs, NEW s \in Sizes(G), NEW M, M = ModelOf(G, s)
             PROVE  /\ STP!IsSDFGraph(M) /\ M.ex # <<>>
                    /\ RepVec(M) \in [STP!Actors(M) -> STP!Positive] /\ STP!Balanced(M, RepVec(M))
  BY DEF ModelledGraphs
<1>1. /\ IsSDFGraph(G) /\ G.ex # <<>> /\ s \in [Channels(G) -> Nat]
      /\ RepVec(G) \in [Actors(G) -> Positive] /\ Balanced(G, RepVec(G))
      /\ RepVec(M) = RepVec(G)
  BY StorageGraphs, ModelledRepVec
<1>2. PICK n : IsModel(M, G, s, n) /\ M.ch = G.ch \o Backward(G, s)
  BY <1>1, ModelFields, ModelIs
<1>3. n \in Nat /\ Channels(G) = 1 .. n /\ Channels(M) = 1 .. n + n /\ M.ex = G.ex
  BY <1>2 DEF IsModel
<1> DEFINE q == RepVec(G)
           R == [src : Actors(G), dst : Actors(G), p : Positive, c : Positive, t : Nat]
<1>4. ASSUME NEW k \in 1 .. n
      PROVE  /\ G.ch[k] \in R /\ Backward(G, s)[k] \in R
             /\ q[G.ch[k].src] * G.ch[k].p = q[G.ch[k].dst] * G.ch[k].c
  <2>1. G.ch[k] \in R
    BY <1>1, <1>3, ChannelType
  <2>2. Fitted(G, s)[k] - G.ch[k].t \in Nat
    BY <1>1, <1>3, <2>1 DEF Fitted
  <2> QED
    BY <1>1, <1>3, <2>1, <2>2 DEF Backward, Balanced
<1>5. M.ch \in Seq(R)
  <2>1. G.ch \in Seq(R) /\ Backward(G, s) \in Seq(R)
    BY <1>1, <1>3, <1>4 DEF IsSDFGraph, Backward
  <2> QED
    BY <1>2, <2>1, ConcatProperties
<1>6. IsSDFGraph(M)
  BY <1>1, <1>3, <1>5 DEF IsSDFGraph, Actors
<1>7. ASSUME NEW k \in Channels(M)
      PROVE  q[M.ch[k].src] * M.ch[k].p = q[M.ch[k].dst] * M.ch[k].c
  <2>1. CASE k \in 1 .. n
    BY <1>2, <1>4, <2>1 DEF IsModel
  <2>2. CASE k \notin 1 .. n
    <3>1. PICK j \in 1 .. n : k = n + j
      <4>1. k - n \in 1 .. n /\ k = n + (k - n)
        BY <1>3, <2>2
      <4> QED
        BY <4>1
    <3>2. /\ M.ch[k].src = G.ch[j].dst /\ M.ch[k].dst = G.ch[j].src
          /\ M.ch[k].p = G.ch[j].c /\ M.ch[k].c = G.ch[j].p
      BY <1>2, <3>1 DEF IsModel
    <3> QED
      BY <1>4, <3>2
  <2> QED
    BY <2>1, <2>2
<1>8. Balanced(M, RepVec(M))
  BY <1>1, <1>7 DEF Balanced
<1>9. STP!IsSDFGraph(M) /\ STP!Balanced(M, RepVec(M)) /\ STP!Actors(M) = Actors(G)
  BY <1>3, <1>6, <1>8 DEF STP!IsSDFGraph, IsSDFGraph, STP!Balanced, Balanced, STP!Actors, Actors,
     STP!Channels, Channels, STP!Positive, Positive
<1> QED
  BY <1>1, <1>3, <1>9 DEF STP!Positive, Positive

(* The throughput that the exploration works with is that of one period,   *)
(* although the period is replayed between its end and the sum.            *)
THEOREM PeriodOfStorage == Spec => []ThroughputOfPeriod
<1>1. PhaseInv /\ STP!ThroughputIsPeriod => ThroughputOfPeriod
  <2> SUFFICES ASSUME PhaseInv, STP!ThroughputIsPeriod, phase = "done", thr.fire > 0
               PROVE  /\ recurrent \in DOMAIN stored
                      /\ stored[recurrent] = Current
                      /\ thr.fire = Len(stored) - recurrent + 1
                      /\ thr.time = (TimesOf(stored)[Len(stored)] + glbClk) - TimesOf(stored)[recurrent]
    BY DEF ThroughputOfPeriod
  <2>1. ~NotExecuted /\ ~InPeriodicPhase /\ Seen = Current
    BY DEF PhaseInv, Fits, NotExecuted, InPeriodicPhase, Seen
  <2> DEFINE seq == [i \in DOMAIN stored |-> Modelled(stored[i])]
             at == [i \in DOMAIN stored |-> TimesOf(stored)[i]]
  <2>2. /\ recurrent \in DOMAIN seq /\ seq[recurrent] = STP!Current
        /\ thr.fire = Len(seq) - recurrent + 1
        /\ thr.time = (TimesOf(stored)[Len(stored)] + Seen.glbClk) - at[recurrent]
    <3> DEFINE ph == IF InPeriodicPhase THEN "sum" ELSE IF NotExecuted THEN "end" ELSE phase
               th == IF NotExecuted THEN [fire |-> 0, time |-> 0] ELSE thr
    <3>1. ph = "done" /\ th = thr
      BY <2>1
    <3>2. ph = "done" /\ th.fire > 0 =>
            /\ recurrent \in DOMAIN seq /\ seq[recurrent] = STP!Current
            /\ th.fire = Len(seq) - recurrent + 1
            /\ th.time = (TimesOf(stored)[Len(stored)] + Seen.glbClk) - at[recurrent]
      BY DEF STP!ThroughputIsPeriod
    <3> HIDE DEF ph, th, seq, at
    <3> QED
      BY <3>1, <3>2
  <2>3. STP!Current = Modelled(Current) /\ Seen.glbClk = glbClk
    BY <2>1 DEF STP!Current, Modelled, Current
  <2>4. stored \in Seq(State(g)) /\ Current \in State(g) /\ IsSDFGraph(g)
    BY Model DEF PhaseInv, Safe, ExecutionTypes
  <2>5. Len(seq) = Len(stored) /\ DOMAIN seq = DOMAIN stored
    BY <2>4
  <2>6. recurrent \in DOMAIN stored /\ Modelled(stored[recurrent]) = Modelled(Current)
    BY <2>2, <2>3
  <2>7. stored[recurrent] = Current
    BY <2>4, <2>6, ModelledInjective
  <2> HIDE DEF seq
  <2> QED
    BY <2>2, <2>3, <2>5, <2>6, <2>7
<1>2. STP!Spec => []STP!ThroughputIsPeriod
  BY ModelledAssumptions, STP!PeriodTheorem
<1>3. Spec => ST!Spec
  BY ExecutesModel DEF ImplementsSelfTimed
<1> QED
  BY <1>1, <1>2, <1>3, SameSpec, PhaseInvInit, PhaseInvNext, PTL DEF Spec

(* By the two refinements an execution with claims on space is timed       *)
(* dataflow on the graph with the space as channels.                       *)
THEOREM SpaceIsTimedDataflow == Spec => STP!IsTimedDataflow
<1>1. STP!Spec => STP!IsTimedDataflow
  BY ModelledAssumptions, STP!TimedExecution
<1>2. Spec => ST!Spec
  BY ExecutesModel DEF ImplementsSelfTimed
<1> QED
  BY <1>1, <1>2, SameSpec, PTL

-----------------------------------------------------------------------------
(***************************************************************************)
(* The search that executes one distribution after the other (StorageDSE). *)
(* Each is executed from a cleared state, whatever the distribution.       *)
(***************************************************************************)
(* Throughputs: fractions of which not both parts are 0                    *)
Fractions == {x \in [fire : Nat, time : Nat] : x.fire > 0 \/ x.time > 0}

LEMMA ProductOrder ==
    ASSUME NEW a \in Nat, NEW b \in Nat, NEW c \in Nat
    PROVE  /\ a * b \in Nat /\ a * b = b * a
           /\ (a * b) * c = a * (b * c)
           /\ a < b /\ c > 0 => a * c < b * c
           /\ a <= b => a * c <= b * c
OBVIOUS

LEMMA PositiveProduct ==
    ASSUME NEW a \in Nat, NEW b \in Nat
    PROVE  /\ a * b \in Nat /\ a * b = b * a
           /\ a * b > 0 <=> a > 0 /\ b > 0
OBVIOUS

LEMMA CrossProducts ==
    ASSUME NEW a \in Nat, NEW b \in Nat, NEW c \in Nat, NEW e \in Nat, NEW m \in Nat, NEW n \in Nat,
           a > 0 \/ b > 0, c > 0 \/ e > 0, m > 0 \/ n > 0,
           a * e <= c * b, c * n <= m * e, a * e < c * b \/ c * n < m * e
    PROVE  a * n < m * b
<1>1. /\ a * e \in Nat /\ c * b \in Nat /\ c * n \in Nat /\ m * e \in Nat
      /\ a * n \in Nat /\ m * b \in Nat
  BY PositiveProduct
<1>2. /\ a * e > 0 <=> a > 0 /\ e > 0
      /\ c * b > 0 <=> c > 0 /\ b > 0
      /\ c * n > 0 <=> c > 0 /\ n > 0
      /\ m * e > 0 <=> m > 0 /\ e > 0
      /\ a * n > 0 <=> a > 0 /\ n > 0
      /\ m * b > 0 <=> m > 0 /\ b > 0
  BY PositiveProduct
<1>3. CASE n = 0 \/ e = 0 \/ b = 0
  BY <1>1, <1>2, <1>3
<1>4. CASE n > 0 /\ e > 0 /\ b > 0
  <2>1. /\ (a * n) * e = (a * e) * n
        /\ (c * b) * n = (c * n) * b
        /\ (m * e) * b = (m * b) * e
    BY ProductOrder
  <2>2. /\ (a * e) * n <= (c * b) * n
        /\ a * e < c * b => (a * e) * n < (c * b) * n
    BY <1>1, <1>4, ProductOrder
  <2>3. /\ (c * n) * b <= (m * e) * b
        /\ c * n < m * e => (c * n) * b < (m * e) * b
    BY <1>1, <1>4, ProductOrder
  <2>4. (a * e) * n \in Nat /\ (c * b) * n \in Nat /\ (m * e) * b \in Nat
    BY <1>1, ProductOrder
  <2>5. (a * n) * e < (m * b) * e
    BY <2>1, <2>2, <2>3, <2>4
  <2>6. m * b <= a * n => (m * b) * e <= (a * n) * e
    BY <1>1, ProductOrder
  <2>7. (m * b) * e \in Nat /\ (a * n) * e \in Nat
    BY <2>1, <2>4
  <2> QED
    BY <1>1, <2>5, <2>6, <2>7
<1> QED
  BY <1>3, <1>4

LEMMA LessIsOrder ==
    ASSUME NEW x \in Fractions, NEW y \in Fractions, NEW z \in Fractions
    PROVE  /\ ~Less(x, x)
           /\ Less(x, y) => ~Less(y, x)
           /\ Less(x, y) /\ ~Less(z, y) => Less(x, z)
           /\ ~Less(y, x) /\ Less(y, z) => Less(x, z)
<1> DEFINE a == x.fire
           b == x.time
           c == y.fire
           e == y.time
           m == z.fire
           n == z.time
<1>1. /\ a \in Nat /\ b \in Nat /\ c \in Nat /\ e \in Nat /\ m \in Nat /\ n \in Nat
  BY DEF Fractions
<1>2. a > 0 \/ b > 0
  BY DEF Fractions
<1>3. c > 0 \/ e > 0
  BY DEF Fractions
<1>4. m > 0 \/ n > 0
  BY DEF Fractions
<1>5. /\ Less(x, x) <=> a * b < a * b
      /\ Less(x, y) <=> a * e < c * b
      /\ Less(y, x) <=> c * b < a * e
      /\ Less(z, y) <=> m * e < c * n
      /\ Less(y, z) <=> c * n < m * e
      /\ Less(x, z) <=> a * n < m * b
  BY DEF Less
<1> HIDE DEF a, b, c, e, m, n
<1>6. /\ a * b \in Nat /\ a * e \in Nat /\ c * b \in Nat /\ m * e \in Nat /\ c * n \in Nat
      /\ a * n \in Nat /\ m * b \in Nat
  BY <1>1, ProductOrder
<1>7. ASSUME a * e < c * b, c * n <= m * e PROVE a * n < m * b
  BY <1>1, <1>2, <1>3, <1>4, <1>7, CrossProducts
<1>8. ASSUME a * e <= c * b, c * n < m * e PROVE a * n < m * b
  BY <1>1, <1>2, <1>3, <1>4, <1>8, CrossProducts
<1> QED
  BY <1>5, <1>6, <1>7, <1>8

-----------------------------------------------------------------------------
(* Folds                                                                   *)

(* Elements are taken one by one from a set, in an order that pick gives.  *)
Picks(D, pick) == \A s \in SUBSET D : s # {} => pick[s] \in s

KeptBy(D, pick, Q) == \A s \in SUBSET D : s # {} /\ s \ {pick[s]} \in Q => s \in Q

LEMMA SubsetInduction ==
    ASSUME NEW D, IsFiniteSet(D), NEW pick, Picks(D, pick), NEW Q, {} \in Q, KeptBy(D, pick, Q)
    PROVE  SUBSET D \subseteq Q
<1> DEFINE T == {m \in Nat : \A s \in SUBSET D : Cardinality(s) <= m => s \in Q}
<1>1. \A s \in SUBSET D : IsFiniteSet(s) /\ Cardinality(s) \in Nat
  BY FS_Subset, FS_CardinalityType
<1>2. 0 \in T
  BY <1>1, FS_EmptySet
<1>3. ASSUME NEW m \in Nat, m \in T PROVE m + 1 \in T
  <2> SUFFICES ASSUME NEW s \in SUBSET D, Cardinality(s) <= m + 1, s # {} PROVE s \in Q
    OBVIOUS
  <2>1. pick[s] \in s
    BY DEF Picks
  <2>2. Cardinality(s \ {pick[s]}) = Cardinality(s) - 1
    BY <1>1, <2>1, FS_RemoveElement
  <2>3. s \ {pick[s]} \in SUBSET D /\ Cardinality(s \ {pick[s]}) <= m
    BY <1>1, <2>2
  <2>4. s \ {pick[s]} \in Q
    BY <1>3, <2>3
  <2> QED
    BY <2>4 DEF KeptBy
<1>4. Nat \subseteq T
  <2> HIDE DEF T
  <2> QED
    BY <1>2, <1>3, NumbersUpTo
<1>5. ASSUME NEW s \in SUBSET D PROVE s \in Q
  <2>1. Cardinality(s) \in T
    BY <1>1, <1>4
  <2>2. Cardinality(s) \in Nat
    BY <1>1
  <2> QED
    BY <2>1, <2>2
<1> QED
  BY <1>5

(* The equation of a fold has a solution, and its values are in V.         *)
FoldEquation(D, b, pick, step, it) ==
    \A s \in SUBSET D : it[s] = IF s = {} THEN b ELSE step[pick[s]][it[s \ {pick[s]}]]

LEMMA FoldSolution ==
    ASSUME NEW D, IsFiniteSet(D), NEW pick, Picks(D, pick),
           NEW V, NEW b \in V, NEW step, \A x \in D : \A v \in V : step[x][v] \in V
    PROVE  \E it \in [SUBSET D -> V] : FoldEquation(D, b, pick, step, it)
<1> DEFINE Body(it, s) == IF s = {} THEN b ELSE step[pick[s]][it[s \ {pick[s]}]]
           Small(m) == {s \in SUBSET D : Cardinality(s) <= m}
           T == {m \in Nat : \E it \in [SUBSET D -> V] : \A s \in Small(m) : it[s] = Body(it, s)}
<1>1. \A s \in SUBSET D : IsFiniteSet(s) /\ Cardinality(s) \in Nat
  BY FS_Subset, FS_CardinalityType
<1>2. ASSUME NEW s \in SUBSET D, s # {}
      PROVE  /\ s \ {pick[s]} \in SUBSET D /\ pick[s] \in D
             /\ Cardinality(s \ {pick[s]}) = Cardinality(s) - 1
  <2>1. pick[s] \in s
    BY <1>2 DEF Picks
  <2> QED
    BY <1>1, <2>1, FS_RemoveElement
<1>3. \A it \in [SUBSET D -> V] : \A s \in SUBSET D : Body(it, s) \in V
  BY <1>2
<1>4. 0 \in T
  <2> DEFINE none == [s \in SUBSET D |-> b]
  <2>1. \A s \in Small(0) : s = {}
    BY <1>1, FS_EmptySet
  <2>2. none \in [SUBSET D -> V] /\ \A s \in Small(0) : none[s] = Body(none, s)
    BY <2>1
  <2> HIDE DEF none, Body, Small
  <2>3. \E it \in [SUBSET D -> V] : \A s \in Small(0) : it[s] = Body(it, s)
    BY <2>2
  <2> QED
    BY <2>3
<1>5. ASSUME NEW m \in Nat, m \in T PROVE m + 1 \in T
  <2>1. PICK it \in [SUBSET D -> V] : \A s \in Small(m) : it[s] = Body(it, s)
    BY <1>5
  <2> DEFINE ext == [s \in SUBSET D |-> Body(it, s)]
  <2>2. ext \in [SUBSET D -> V]
    <3> HIDE DEF Body
    <3> QED
      BY <1>3
  <2>3. ASSUME NEW s \in Small(m + 1) PROVE ext[s] = Body(ext, s)
    <3>1. s \in SUBSET D /\ Cardinality(s) <= m + 1 /\ Cardinality(s) \in Nat
      BY <1>1
    <3>2. s # {} => s \ {pick[s]} \in Small(m)
      BY <1>2, <3>1
    <3>3. s # {} => ext[s \ {pick[s]}] = it[s \ {pick[s]}]
      <4> SUFFICES ASSUME s # {} PROVE ext[s \ {pick[s]}] = it[s \ {pick[s]}]
        OBVIOUS
      <4>1. s \ {pick[s]} \in SUBSET D
        BY <1>2, <3>1
      <4> HIDE DEF Body, Small
      <4>2. ext[s \ {pick[s]}] = Body(it, s \ {pick[s]})
        BY <4>1
      <4> QED
        BY <2>1, <3>2, <4>2
    <3>4. ext[s] = Body(it, s)
      BY <3>1
    <3> HIDE DEF ext
    <3> QED
      BY <3>3, <3>4
  <2> HIDE DEF ext, Body, Small
  <2>4. \E e \in [SUBSET D -> V] : \A s \in Small(m + 1) : e[s] = Body(e, s)
    BY <2>2, <2>3
  <2>5. m + 1 \in Nat
    OBVIOUS
  <2> QED
    BY <2>4, <2>5
<1>6. Nat \subseteq T
  <2> HIDE DEF T
  <2> QED
    BY <1>4, <1>5, NumbersUpTo
<1>7. Cardinality(D) \in T
  BY <1>1, <1>6
<1>8. PICK it \in [SUBSET D -> V] : \A s \in Small(Cardinality(D)) : it[s] = Body(it, s)
  BY <1>7
<1>9. \A s \in SUBSET D : s \in Small(Cardinality(D))
  BY FS_Subset
<1>10. FoldEquation(D, b, pick, step, it)
  BY <1>8, <1>9 DEF FoldEquation
<1> QED
  BY <1>10

LEMMA Largest ==
    ASSUME NEW n \in Nat, NEW s \in SUBSET (1 .. n), s # {}
    PROVE  Max(s) \in s /\ \A y \in s : y <= Max(s)
<1> DEFINE T == {m \in Nat : \A u \in SUBSET (1 .. m) : u # {} => \E x \in u : \A y \in u : x >= y}
<1>1. 0 \in T
  <2>1. \A u \in SUBSET (1 .. 0) : u = {}
    BY 1 .. 0 = {}
  <2> QED
    BY <2>1
<1>2. ASSUME NEW m \in Nat, m \in T PROVE m + 1 \in T
  <2> SUFFICES ASSUME NEW u \in SUBSET (1 .. m + 1), u # {}
               PROVE  \E x \in u : \A y \in u : x >= y
    OBVIOUS
  <2>1. CASE m + 1 \in u
    BY <2>1
  <2>2. CASE m + 1 \notin u
    <3>1. u \in SUBSET (1 .. m)
      BY <2>2
    <3> QED
      BY <1>2, <3>1
  <2> QED
    BY <2>1, <2>2
<1>3. Nat \subseteq T
  <2> HIDE DEF T
  <2> QED
    BY <1>1, <1>2, NumbersUpTo
<1>4. \E x \in s : \A y \in s : x >= y
  BY <1>3
<1>5. Max(s) \in s /\ \A y \in s : Max(s) >= y
  BY <1>4, Zenon DEF Max
<1> QED
  BY <1>5

-----------------------------------------------------------------------------
(* The size of a distribution: the sum of its spaces                       *)
TotalOf(D, s) == FoldFunctionOnSet(LAMBDA x, y : x + y, 0, s, D)

IsSum(D, s, h) ==
    \A u \in SUBSET D : h[u] = IF u = {} THEN 0
                               ELSE s[CHOOSE x \in u : TRUE] + h[u \ {CHOOSE x \in u : TRUE}]

LEMMA TotalSum ==
    ASSUME NEW D, IsFiniteSet(D), NEW s \in [D -> Nat]
    PROVE  \E h : IsSum(D, s, h) /\ TotalOf(D, s) = h[D]
<1> DEFINE pick == [u \in SUBSET D |-> CHOOSE x \in u : TRUE]
           step == [x \in D |-> [v \in Nat |-> s[x] + v]]
           Fold(it) == it = [u \in SUBSET D |->
                              IF u = {} THEN 0
                              ELSE s[CHOOSE x \in u : TRUE] + it[u \ {CHOOSE x \in u : TRUE}]]
           h == CHOOSE it : Fold(it)
<1>1. Picks(D, pick)
  BY DEF Picks
<1>2. \A x \in D : \A v \in Nat : step[x][v] \in Nat
  OBVIOUS
<1>3. PICK f \in [SUBSET D -> Nat] : FoldEquation(D, 0, pick, step, f)
  <2> HIDE DEF pick, step
  <2> QED
    BY <1>1, <1>2, FoldSolution
<1>4. ASSUME NEW u \in SUBSET D
      PROVE  f[u] = IF u = {} THEN 0 ELSE s[CHOOSE x \in u : TRUE] + f[u \ {CHOOSE x \in u : TRUE}]
  <2>1. CASE u = {}
    BY <1>3, <2>1 DEF FoldEquation
  <2>2. CASE u # {}
    <3> DEFINE x == CHOOSE x \in u : TRUE
    <3>1. pick[u] = x /\ x \in D /\ u \ {x} \in SUBSET D
      BY <2>2
    <3> HIDE DEF x, pick
    <3>2. f[u] = step[x][f[u \ {x}]] /\ f[u \ {x}] \in Nat
      BY <1>3, <2>2, <3>1 DEF FoldEquation
    <3>3. f[u] = s[x] + f[u \ {x}]
      BY <3>1, <3>2
    <3> QED
      BY <2>2, <3>3 DEF x
  <2> QED
    BY <2>1, <2>2
<1>5. Fold(f)
  BY <1>3, <1>4
<1>6. Fold(h)
  <2> HIDE DEF Fold
  <2> QED
    BY <1>5
<1>7. TotalOf(D, s) = h[D]
  BY Zenon DEF TotalOf, FoldFunctionOnSet, MapThenFoldSet
<1>8. IsSum(D, s, h)
  <2> HIDE DEF h
  <2> QED
    BY <1>6 DEF IsSum
<1> QED
  BY <1>7, <1>8

(* One channel larger: the sum is larger by as much.                       *)
LEMMA TotalStep ==
    ASSUME NEW D, IsFiniteSet(D), NEW s \in [D -> Nat], NEW k \in D, NEW e \in Nat
    PROVE  TotalOf(D, [s EXCEPT ![k] = s[k] + e]) = TotalOf(D, s) + e
<1> DEFINE r == [s EXCEPT ![k] = s[k] + e]
           pick == [u \in SUBSET D |-> CHOOSE x \in u : TRUE]
<1>1. r \in [D -> Nat]
  OBVIOUS
<1>2. PICK h : IsSum(D, s, h) /\ TotalOf(D, s) = h[D]
  BY TotalSum
<1>3. PICK f : IsSum(D, r, f) /\ TotalOf(D, r) = f[D]
  <2> HIDE DEF r
  <2> QED
    BY <1>1, TotalSum
<1> DEFINE Q == {u \in SUBSET D : h[u] \in Nat /\ f[u] = IF k \in u THEN h[u] + e ELSE h[u]}
<1>4. {} \in Q
  BY <1>2, <1>3 DEF IsSum
<1>5. Picks(D, pick)
  BY DEF Picks
<1>6. ASSUME NEW u \in SUBSET D, u # {}, u \ {pick[u]} \in Q PROVE u \in Q
  <2> DEFINE x == CHOOSE x \in u : TRUE
  <2>1. pick[u] = x /\ x \in u /\ x \in D
    BY <1>6
  <2>2. /\ h[u] = s[x] + h[u \ {x}]
        /\ f[u] = r[x] + f[u \ {x}]
    BY <1>2, <1>3, <1>6 DEF IsSum
  <2> HIDE DEF x, pick
  <2>3. h[u \ {x}] \in Nat /\ f[u \ {x}] = IF k \in u \ {x} THEN h[u \ {x}] + e ELSE h[u \ {x}]
    BY <1>6, <2>1
  <2>4. s[x] \in Nat /\ r[x] = IF x = k THEN s[x] + e ELSE s[x]
    BY <2>1
  <2> HIDE DEF r
  <2>5. h[u] \in Nat /\ f[u] = IF k \in u THEN h[u] + e ELSE h[u]
    BY <2>1, <2>2, <2>3, <2>4
  <2> QED
    BY <2>5
<1>7. SUBSET D \subseteq Q
  <2> HIDE DEF Q, pick
  <2>1. KeptBy(D, pick, Q)
    BY <1>6 DEF KeptBy
  <2> QED
    BY <1>4, <1>5, <2>1, SubsetInduction
<1>8. D \in Q
  BY <1>7
<1> HIDE DEF r
<1>9. TotalOf(D, r) = TotalOf(D, s) + e
  BY <1>2, <1>3, <1>8
<1> QED
  BY <1>9 DEF r

LEMMA TotalType ==
    ASSUME NEW D, IsFiniteSet(D), NEW s \in [D -> Nat]
    PROVE  /\ TotalOf(D, s) \in Nat
           /\ (\A k \in D : s[k] = 0) => TotalOf(D, s) = 0
<1> DEFINE pick == [u \in SUBSET D |-> CHOOSE x \in u : TRUE]
<1>1. PICK h : IsSum(D, s, h) /\ TotalOf(D, s) = h[D]
  BY TotalSum
<1> DEFINE Q == {u \in SUBSET D : h[u] \in Nat /\ ((\A k \in D : s[k] = 0) => h[u] = 0)}
<1>2. {} \in Q
  BY <1>1 DEF IsSum
<1>3. Picks(D, pick)
  BY DEF Picks
<1>4. ASSUME NEW u \in SUBSET D, u # {}, u \ {pick[u]} \in Q PROVE u \in Q
  <2> DEFINE x == CHOOSE x \in u : TRUE
  <2>1. pick[u] = x /\ x \in u /\ x \in D
    BY <1>4
  <2>2. h[u] = s[x] + h[u \ {x}]
    BY <1>1, <1>4 DEF IsSum
  <2> HIDE DEF x, pick
  <2>3. s[x] \in Nat /\ h[u \ {x}] \in Nat
    BY <1>4, <2>1
  <2> QED
    BY <1>4, <2>1, <2>2, <2>3
<1>5. SUBSET D \subseteq Q
  <2> HIDE DEF Q, pick
  <2>1. KeptBy(D, pick, Q)
    BY <1>4 DEF KeptBy
  <2> QED
    BY <1>2, <1>3, <2>1, SubsetInduction
<1> QED
  BY <1>1, <1>5

-----------------------------------------------------------------------------
(* The list of sets                                                        *)

InsertedAfter(S, L, i, e, r) ==
    /\ r \in Seq(S) /\ Len(r) = Len(L) + 1
    /\ \A j \in 1 .. Len(r) : r[j] = IF j <= i THEN L[j] ELSE IF j = i + 1 THEN e ELSE L[j - 1]

LEMMA Inserted ==
    ASSUME NEW S, NEW L \in Seq(S), NEW i \in 1 .. Len(L), NEW e \in S, NEW r,
           r = InsertAt(L, i + 1, e)
    PROVE  InsertedAfter(S, L, i, e, r)
<1> DEFINE a == SubSeq(L, 1, i)
           c == SubSeq(L, i + 1, Len(L))
<1>1. /\ a \in Seq(S) /\ Len(a) = i /\ \A j \in 1 .. i : a[j] = L[j]
  BY SubSeqProperties
<1>2. /\ c \in Seq(S) /\ Len(c) = Len(L) - i /\ \A j \in 1 .. Len(c) : c[j] = L[i + j]
  <2>1. /\ i + 1 \in 1 .. Len(L) + 1 /\ Len(L) \in i .. Len(L)
        /\ (IF i + 1 <= Len(L) THEN Len(L) - (i + 1) + 1 ELSE 0) = Len(L) - i
    OBVIOUS
  <2>2. c \in Seq(S) /\ Len(c) = Len(L) - i
    BY <2>1, SubSeqProperties
  <2> QED
    BY <2>1, <2>2, SubSeqProperties
<1>3. <<e>> \in Seq(S) /\ Len(<<e>>) = 1 /\ <<e>>[1] = e
  OBVIOUS
<1>4. r = a \o <<e>> \o c
  <2>1. (i + 1) - 1 = i
    OBVIOUS
  <2> QED
    BY <2>1 DEF InsertAt
<1> HIDE DEF a, c
<1>5. a \o <<e>> \in Seq(S) /\ Len(a \o <<e>>) = i + 1
      /\ \A j \in 1 .. i + 1 : (a \o <<e>>)[j] = IF j <= i THEN a[j] ELSE e
  BY <1>1, <1>3, ConcatProperties
<1> DEFINE b == a \o <<e>>
<1>6. /\ r = b \o c /\ b \in Seq(S) /\ Len(b) = i + 1
      /\ \A j \in 1 .. i + 1 : b[j] = IF j <= i THEN L[j] ELSE e
  BY <1>1, <1>4, <1>5
<1> HIDE DEF b
<1>7. /\ r \in Seq(S) /\ Len(r) = Len(b) + Len(c)
      /\ \A j \in 1 .. Len(b) + Len(c) : r[j] = IF j <= Len(b) THEN b[j] ELSE c[j - Len(b)]
  <2>1. b \in Seq(S) /\ c \in Seq(S) /\ r = b \o c
    BY <1>2, <1>6
  <2> QED
    BY <2>1, ConcatProperties, Zenon
<1>8. Len(b) + Len(c) = Len(L) + 1
  BY <1>2, <1>6
<1>9. ASSUME NEW j \in 1 .. Len(r)
      PROVE  r[j] = IF j <= i THEN L[j] ELSE IF j = i + 1 THEN e ELSE L[j - 1]
  <2>1. CASE j <= i + 1
    BY <1>6, <1>7, <1>8, <1>9, <2>1
  <2>2. CASE j > i + 1
    <3>1. j - Len(b) \in 1 .. Len(c) /\ i + (j - Len(b)) = j - 1
      BY <1>2, <1>6, <1>7, <1>8, <2>2
    <3>2. r[j] = c[j - Len(b)]
      BY <1>6, <1>7, <1>8, <2>2
    <3>3. c[j - Len(b)] = L[i + (j - Len(b))]
      BY <1>2, <3>1
    <3> QED
      BY <2>2, <3>1, <3>2, <3>3
  <2> QED
    BY <2>1, <2>2
<1> QED
  BY <1>7, <1>8, <1>9 DEF InsertedAfter

RemovedFrom(S, L, i, r) ==
    /\ r \in Seq(S) /\ Len(r) = Len(L) - 1
    /\ \A j \in 1 .. Len(r) : r[j] = IF j < i THEN L[j] ELSE L[j + 1]

LEMMA Removed ==
    ASSUME NEW S, NEW L \in Seq(S), NEW i \in 1 .. Len(L), NEW r, r = RemoveAt(L, i)
    PROVE  RemovedFrom(S, L, i, r)
<1> DEFINE a == SubSeq(L, 1, i - 1)
           c == SubSeq(L, i + 1, Len(L))
<1>1. /\ a \in Seq(S) /\ Len(a) = i - 1 /\ \A j \in 1 .. i - 1 : a[j] = L[j]
  BY SubSeqProperties
<1>2. /\ c \in Seq(S) /\ Len(c) = Len(L) - i /\ \A j \in 1 .. Len(c) : c[j] = L[i + j]
  <2>1. /\ i + 1 \in 1 .. Len(L) + 1 /\ Len(L) \in i .. Len(L)
        /\ (IF i + 1 <= Len(L) THEN Len(L) - (i + 1) + 1 ELSE 0) = Len(L) - i
    OBVIOUS
  <2>2. c \in Seq(S) /\ Len(c) = Len(L) - i
    BY <2>1, SubSeqProperties
  <2> QED
    BY <2>1, <2>2, SubSeqProperties
<1>3. r = a \o c
  BY DEF RemoveAt
<1> HIDE DEF a, c
<1>4. /\ r \in Seq(S) /\ Len(r) = Len(a) + Len(c)
      /\ \A j \in 1 .. Len(a) + Len(c) : r[j] = IF j <= Len(a) THEN a[j] ELSE c[j - Len(a)]
  <2>1. a \in Seq(S) /\ c \in Seq(S) /\ r = a \o c
    BY <1>1, <1>2, <1>3
  <2> QED
    BY <2>1, ConcatProperties, Zenon
<1>5. Len(a) + Len(c) = Len(L) - 1
  BY <1>1, <1>2
<1>6. ASSUME NEW j \in 1 .. Len(r)
      PROVE  r[j] = IF j < i THEN L[j] ELSE L[j + 1]
  <2>1. CASE j < i
    <3>1. j \in 1 .. i - 1
      BY <2>1
    <3> QED
      BY <1>1, <1>4, <1>5, <2>1, <3>1
  <2>2. CASE j >= i
    <3>1. j - Len(a) \in 1 .. Len(c) /\ i + (j - Len(a)) = j + 1
      BY <1>1, <1>2, <1>4, <1>5, <2>2
    <3>2. r[j] = c[j - Len(a)]
      BY <1>1, <1>4, <1>5, <2>2
    <3>3. c[j - Len(a)] = L[i + (j - Len(a))]
      BY <1>2, <3>1
    <3> QED
      BY <2>2, <3>1, <3>2, <3>3
  <2> QED
    BY <2>1, <2>2
<1> QED
  BY <1>4, <1>5, <1>6 DEF RemovedFrom

(* A list of sets as SetsInOrder has it; the smallest set has one          *)
(* distribution.                                                           *)
Distribution(D) == [sp : [D -> Nat], thr : Fractions]
StorageSet(D) == [sz : Nat, thr : Fractions, distributions : Seq(Distribution(D))]

OfOneSize(D, x) ==
    \A j \in DOMAIN x.distributions :
       /\ TotalOf(D, x.distributions[j].sp) = x.sz
       /\ \A k \in 1 .. j - 1 : x.distributions[k].sp # x.distributions[j].sp

RightSets(D) == {x \in StorageSet(D) : OfOneSize(D, x)}

Ascending(L) == \A i, j \in DOMAIN L : i < j => L[i].sz < L[j].sz

ListOK(D, L) ==
    /\ L \in Seq(RightSets(D))
    /\ L # <<>>
    /\ Ascending(L)
    /\ Len(L[1].distributions) = 1

(* The sets behind the i-th one have still to be explored.                 *)
Unexplored(L, i) ==
    \A j \in DOMAIN L : i < j => L[j].thr = Zero /\ L[j].distributions # <<>>

SameUpTo(L, M, i) == Len(L) <= Len(M) /\ \A j \in 1 .. i : M[j] = L[j]

LEMMA PlaceIs ==
    ASSUME NEW D, NEW L, ListOK(D, L), NEW sz \in Nat
    PROVE  /\ Place(L, sz) \in 1 .. Len(L)
           /\ \A j \in 2 .. Place(L, sz) : L[j].sz <= sz
           /\ \A j \in 1 .. Len(L) : j > Place(L, sz) => L[j].sz > sz
<1> DEFINE n == Len(L)
           At == {i \in 1 .. n : i = 1 \/ L[i].sz <= sz}
           p == Max(At)
           i == Place(L, sz)
<1>1. n \in Nat /\ n >= 1 /\ DOMAIN L = 1 .. n /\ \A j \in 1 .. n : L[j].sz \in Nat
  <2>1. L \in Seq(RightSets(D)) /\ L # <<>>
    BY DEF ListOK
  <2>2. \A j \in 1 .. n : L[j] \in StorageSet(D)
    BY <2>1, ElementType DEF RightSets
  <2> QED
    BY <2>1, <2>2 DEF StorageSet
<1>2. \A j, k \in 1 .. n : j < k => L[j].sz < L[k].sz
  BY <1>1 DEF ListOK, Ascending
<1> HIDE DEF n
<1>3. At \in SUBSET (1 .. n) /\ 1 \in At
  BY <1>1
<1>4. p \in At /\ \A y \in At : y <= p
  <2> HIDE DEF At
  <2> QED
    BY <1>1, <1>3, Largest
<1>5. p \in 1 .. n /\ (p = 1 \/ L[p].sz <= sz) /\ \A y \in 1 .. n : L[y].sz <= sz => y <= p
  BY <1>4
<1> HIDE DEF p, At
<1>6. p \in DOMAIN L /\ \A j \in 2 .. p : L[j].sz <= sz
  <2>1. ASSUME NEW j \in 2 .. p PROVE L[j].sz <= sz
    <3>1. j \in 1 .. n /\ j <= p /\ p # 1
      BY <1>1, <1>5
    <3>2. CASE j = p
      BY <1>5, <3>1, <3>2
    <3>3. CASE j # p
      BY <1>1, <1>2, <1>5, <3>1, <3>3
    <3> QED
      BY <3>2, <3>3
  <2> QED
    BY <1>1, <1>5, <2>1
<1>7. p < Len(L) => L[p + 1].sz > sz
  <2> SUFFICES ASSUME p < n PROVE L[p + 1].sz > sz
    BY DEF n
  <2>1. p + 1 \in 1 .. n
    BY <1>1, <1>5
  <2> QED
    BY <1>1, <1>5, <2>1
<1>8. /\ i \in DOMAIN L /\ \A j \in 2 .. i : L[j].sz <= sz
      /\ i < Len(L) => L[i + 1].sz > sz
  BY <1>6, <1>7, Zenon DEF Place
<1> HIDE DEF i
<1>9. ASSUME NEW j \in 1 .. n, j > i PROVE L[j].sz > sz
  <2>1. i \in 1 .. n /\ i + 1 \in 1 .. n /\ i < n
    BY <1>1, <1>8, <1>9
  <2>2. L[i + 1].sz > sz
    BY <1>8, <2>1 DEF n
  <2>3. CASE j = i + 1
    BY <2>2, <2>3
  <2>4. CASE j > i + 1
    BY <1>1, <1>2, <2>1, <2>2, <2>4
  <2> QED
    BY <1>9, <2>1, <2>3, <2>4
<1>10. i \in 1 .. Len(L) /\ \A j \in 1 .. Len(L) : j > i => L[j].sz > sz
  BY <1>1, <1>8, <1>9 DEF n
<1> QED
  BY <1>8, <1>10 DEF i

LEMMA SetFields ==
    ASSUME NEW D, NEW L, ListOK(D, L)
    PROVE  /\ L \in Seq(RightSets(D)) /\ Len(L) \in Nat /\ Len(L) >= 1 /\ DOMAIN L = 1 .. Len(L)
           /\ \A j \in 1 .. Len(L) : /\ L[j] \in RightSets(D) /\ L[j].sz \in Nat /\ L[j].thr \in Fractions
                                     /\ L[j].distributions \in Seq(Distribution(D))
           /\ \A j, k \in 1 .. Len(L) : j < k => L[j].sz < L[k].sz
<1>1. L \in Seq(RightSets(D)) /\ L # <<>>
  BY DEF ListOK
<1>2. Len(L) \in Nat /\ Len(L) >= 1 /\ DOMAIN L = 1 .. Len(L)
  BY <1>1
<1>3. \A j \in 1 .. Len(L) : L[j] \in RightSets(D)
  BY <1>1, ElementType
<1>4. \A j \in 1 .. Len(L) : /\ L[j].sz \in Nat /\ L[j].thr \in Fractions
                             /\ L[j].distributions \in Seq(Distribution(D))
  BY <1>3 DEF RightSets, StorageSet
<1>5. \A j, k \in 1 .. Len(L) : j < k => L[j].sz < L[k].sz
  BY <1>2 DEF ListOK, Ascending
<1> QED
  BY <1>1, <1>2, <1>3, <1>4, <1>5

LEMMA ZeroFraction == Zero \in Fractions
BY DEF Zero, Fractions

LEMMA NewRight ==
    ASSUME NEW D, NEW s \in [D -> Nat], NEW sz \in Nat, sz = TotalOf(D, s)
    PROVE  NewSet(sz, s) \in RightSets(D)
<1> DEFINE x == [sp |-> s, thr |-> Zero]
           e == [sz |-> sz, thr |-> Zero, distributions |-> <<x>>]
<1>1. x \in Distribution(D) /\ x.sp = s
  BY ZeroFraction DEF Distribution
<1> HIDE DEF x
<1>2. <<x>> \in Seq(Distribution(D)) /\ DOMAIN <<x>> = 1 .. 1 /\ <<x>>[1] = x
  BY <1>1
<1>3. e \in StorageSet(D) /\ e.sz = sz /\ e.distributions = <<x>>
  BY <1>2, ZeroFraction DEF StorageSet
<1> HIDE DEF e
<1>4. OfOneSize(D, e)
  <2> SUFFICES ASSUME NEW j \in 1 .. 1
               PROVE  /\ TotalOf(D, <<x>>[j].sp) = sz
                      /\ \A k \in 1 .. j - 1 : <<x>>[k].sp # <<x>>[j].sp
    BY <1>2, <1>3 DEF OfOneSize
  <2>1. j = 1 /\ 1 .. j - 1 = {}
    OBVIOUS
  <2> QED
    BY <1>1, <1>2, <2>1
<1>5. e = NewSet(sz, s)
  BY DEF e, x, NewSet, NewDistribution
<1> QED
  BY <1>3, <1>4, <1>5 DEF RightSets

LEMMA MergedRight ==
    ASSUME NEW D, NEW x \in RightSets(D), NEW s \in [D -> Nat], x.sz = TotalOf(D, s),
           \A j \in DOMAIN x.distributions : x.distributions[j].sp # s,
           NEW y, y = [x EXCEPT !.distributions = <<NewDistribution(s)>> \o x.distributions]
    PROVE  /\ y \in RightSets(D) /\ y.sz = x.sz /\ y.thr = x.thr
           /\ y.distributions # <<>>
<1> DEFINE e == NewDistribution(s)
           old == x.distributions
           new == <<e>> \o old
<1>1. x \in StorageSet(D) /\ OfOneSize(D, x)
  BY DEF RightSets
<1>2. e \in Distribution(D) /\ e.sp = s
  BY ZeroFraction DEF Distribution, NewDistribution
<1>3. old \in Seq(Distribution(D))
  BY <1>1 DEF StorageSet
<1>4. <<e>> \in Seq(Distribution(D)) /\ Len(<<e>>) = 1 /\ <<e>>[1] = e
  BY <1>2
<1> HIDE DEF e
<1>5. /\ new \in Seq(Distribution(D)) /\ Len(new) = Len(<<e>>) + Len(old)
      /\ \A i \in 1 .. Len(<<e>>) + Len(old) : new[i] = IF i <= Len(<<e>>) THEN <<e>>[i] ELSE old[i - Len(<<e>>)]
  BY <1>3, <1>4, ConcatProperties, Zenon
<1>6. y \in StorageSet(D) /\ y.sz = x.sz /\ y.thr = x.thr /\ y.distributions = new
  BY <1>1, <1>5 DEF StorageSet, e
<1> HIDE DEF new
<1>7. /\ Len(new) = 1 + Len(old) /\ Len(old) \in Nat
      /\ \A i \in 1 .. 1 + Len(old) : new[i] = IF i <= 1 THEN e ELSE old[i - 1]
  BY <1>3, <1>4, <1>5
<1>8. DOMAIN new = 1 .. 1 + Len(old) /\ DOMAIN old = 1 .. Len(old)
  BY <1>3, <1>5, <1>7
<1>9. \A j \in 1 .. Len(old) : /\ TotalOf(D, old[j].sp) = x.sz /\ old[j].sp # s
                               /\ \A k \in 1 .. j - 1 : old[k].sp # old[j].sp
  BY <1>1, <1>8 DEF OfOneSize
<1> HIDE DEF old
<1>10. ASSUME NEW j \in 1 .. 1 + Len(old)
       PROVE  /\ TotalOf(D, new[j].sp) = x.sz
              /\ \A k \in 1 .. j - 1 : new[k].sp # new[j].sp
  <2>1. CASE j = 1
    <3>1. 1 .. j - 1 = {} /\ new[j] = e
      BY <1>7, <2>1
    <3> QED
      BY <1>2, <3>1
  <2>2. CASE j # 1
    <3>1. j - 1 \in 1 .. Len(old) /\ new[j] = old[j - 1]
      BY <1>7, <2>2
    <3>2. ASSUME NEW k \in 1 .. j - 1 PROVE new[k].sp # new[j].sp
      <4>1. CASE k = 1
        BY <1>2, <1>7, <1>9, <3>1, <4>1
      <4>2. CASE k # 1
        <5>1. k - 1 \in 1 .. (j - 1) - 1 /\ k \in 1 .. 1 + Len(old) /\ ~(k <= 1)
          BY <1>7, <3>1, <4>2
        <5>2. new[k] = old[k - 1]
          BY <1>7, <5>1
        <5> QED
          BY <1>9, <3>1, <5>1, <5>2
      <4> QED
        BY <4>1, <4>2
    <3> QED
      BY <1>9, <3>1, <3>2
  <2> QED
    BY <2>1, <2>2
<1>11. OfOneSize(D, y)
  BY <1>6, <1>8, <1>10 DEF OfOneSize
<1>12. new # <<>>
  BY <1>5, <1>7
<1> QED
  BY <1>6, <1>11, <1>12 DEF RightSets

ReplacedAt(D, L, i, x, M) ==
    /\ ListOK(D, M) /\ Len(M) = Len(L) /\ DOMAIN M = 1 .. Len(L)
    /\ \A j \in 1 .. Len(L) : M[j] = IF j = i THEN x ELSE L[j]

LEMMA Replaced ==
    ASSUME NEW D, NEW L, ListOK(D, L), NEW i \in 1 .. Len(L), NEW x \in RightSets(D),
           x.sz = L[i].sz, i = 1 => Len(x.distributions) = 1, NEW M, M = [L EXCEPT ![i] = x]
    PROVE  ReplacedAt(D, L, i, x, M)
<1>1. /\ L \in Seq(RightSets(D)) /\ Len(L) \in Nat /\ Len(L) >= 1 /\ DOMAIN L = 1 .. Len(L)
      /\ \A j, k \in 1 .. Len(L) : j < k => L[j].sz < L[k].sz
  BY SetFields
<1>2. M \in Seq(RightSets(D)) /\ Len(M) = Len(L) /\ DOMAIN M = 1 .. Len(L)
  BY <1>1
<1>3. \A j \in 1 .. Len(L) : M[j] = IF j = i THEN x ELSE L[j]
  BY <1>1
<1>4. Ascending(M)
  BY <1>1, <1>2, <1>3 DEF Ascending
<1>5. M # <<>> /\ Len(M[1].distributions) = 1
  BY <1>1, <1>2, <1>3 DEF ListOK
<1> QED
  BY <1>2, <1>3, <1>4, <1>5 DEF ListOK, ReplacedAt

LEMMA Added ==
    ASSUME NEW D, NEW L, ListOK(D, L), NEW i \in 1 .. Len(L), Unexplored(L, i),
           NEW s \in [D -> Nat], NEW sz \in Nat, sz = TotalOf(D, s), L[i].sz < sz,
           NEW M, M = addStorageDistributionToChecklist(L, sz, s)
    PROVE  ListOK(D, M) /\ Unexplored(M, i) /\ SameUpTo(L, M, i)
<1> DEFINE p == Place(L, sz)
<1>1. /\ L \in Seq(RightSets(D)) /\ Len(L) \in Nat /\ Len(L) >= 1 /\ DOMAIN L = 1 .. Len(L)
      /\ \A j \in 1 .. Len(L) : L[j] \in RightSets(D) /\ L[j].sz \in Nat
      /\ \A j, k \in 1 .. Len(L) : j < k => L[j].sz < L[k].sz
  BY SetFields
<1>2. /\ p \in 1 .. Len(L) /\ \A j \in 2 .. p : L[j].sz <= sz
      /\ \A j \in 1 .. Len(L) : j > p => L[j].sz > sz
  BY PlaceIs
<1>3. M = IF L[p].sz # sz THEN InsertAt(L, p + 1, NewSet(sz, s))
          ELSE IF \E j \in DOMAIN L[p].distributions : L[p].distributions[j].sp = s THEN L
          ELSE [L EXCEPT ![p].distributions = <<NewDistribution(s)>> \o @]
  BY DEF addStorageDistributionToChecklist
<1> HIDE DEF p
<1>4. i <= p /\ \A j \in 1 .. p : L[j].sz <= sz
  <2>1. i <= p
    BY <1>1, <1>2
  <2>2. ASSUME NEW j \in 1 .. p PROVE L[j].sz <= sz
    <3>1. CASE j # 1
      BY <1>2, <2>2, <3>1
    <3>2. CASE j = 1
      BY <1>1, <2>1, <3>2
    <3> QED
      BY <3>1, <3>2
  <2> QED
    BY <2>1, <2>2
<1>5. CASE L[p].sz # sz
  <2>1. NewSet(sz, s) \in RightSets(D)
    BY NewRight
  <2> DEFINE e == NewSet(sz, s)
  <2>2. e.sz = sz /\ e.thr = Zero /\ e.distributions # <<>>
    BY DEF NewSet
  <2>3. M = InsertAt(L, p + 1, e)
    BY <1>3, <1>5
  <2> HIDE DEF e
  <2>4. /\ M \in Seq(RightSets(D)) /\ Len(M) = Len(L) + 1
        /\ \A j \in 1 .. Len(M) : M[j] = IF j <= p THEN L[j] ELSE IF j = p + 1 THEN e ELSE L[j - 1]
    <3>1. L \in Seq(RightSets(D)) /\ p \in 1 .. Len(L) /\ e \in RightSets(D)
      BY <1>1, <1>2, <2>1 DEF e
    <3>2. InsertedAfter(RightSets(D), L, p, e, M)
      BY <2>3, <3>1, Inserted, Zenon
    <3> QED
      BY <3>2 DEF InsertedAfter
  <2>5. DOMAIN M = 1 .. Len(L) + 1 /\ M # <<>>
    BY <1>1, <2>4
  <2>6. \A j \in 1 .. p : L[j].sz < sz
    <3> SUFFICES ASSUME NEW j \in 1 .. p PROVE L[j].sz < sz
      OBVIOUS
    <3>1. j \in 1 .. Len(L) /\ L[j].sz <= sz /\ L[p].sz <= sz
      BY <1>1, <1>2, <1>4
    <3>2. CASE j = p
      BY <1>1, <1>5, <3>1, <3>2
    <3>3. CASE j # p
      BY <1>1, <1>2, <3>1, <3>3
    <3> QED
      BY <3>2, <3>3
  <2>7. ASSUME NEW j \in 1 .. Len(L) + 1, NEW k \in 1 .. Len(L) + 1, j < k PROVE M[j].sz < M[k].sz
    <3>1. CASE k <= p
      <4>1. j <= p /\ M[j] = L[j] /\ M[k] = L[k] /\ j \in 1 .. Len(L) /\ k \in 1 .. Len(L)
        BY <1>1, <1>2, <2>4, <2>7, <3>1
      <4> QED
        BY <1>1, <2>7, <4>1
    <3>2. CASE k = p + 1
      <4>1. j \in 1 .. p /\ M[j] = L[j] /\ M[k] = e
        BY <1>1, <1>2, <2>4, <2>7, <3>2
      <4> QED
        BY <2>2, <2>6, <4>1
    <3>3. CASE k > p + 1
      <4>1. M[k] = L[k - 1] /\ k - 1 \in 1 .. Len(L) /\ k - 1 > p
        BY <1>1, <1>2, <2>4, <3>3
      <4>2. L[k - 1].sz > sz
        BY <1>2, <4>1
      <4>3. CASE j <= p
        <5>1. M[j] = L[j] /\ j \in 1 .. p /\ j \in 1 .. Len(L)
          BY <1>1, <1>2, <2>4, <4>3
        <5> QED
          BY <1>1, <2>6, <4>1, <4>2, <5>1
      <4>4. CASE j = p + 1
        BY <2>2, <2>4, <4>1, <4>2, <4>4, <1>2
      <4>5. CASE j > p + 1
        <5>1. M[j] = L[j - 1] /\ j - 1 \in 1 .. Len(L) /\ j - 1 < k - 1
          BY <1>1, <1>2, <2>4, <2>7, <4>5
        <5> QED
          BY <1>1, <4>1, <5>1
      <4> QED
        BY <1>2, <4>3, <4>4, <4>5
    <3> QED
      BY <1>2, <3>1, <3>2, <3>3
  <2>8. M[1] = L[1]
    BY <1>1, <1>2, <2>4
  <2>9. ListOK(D, M)
    BY <2>4, <2>5, <2>7, <2>8 DEF ListOK, Ascending
  <2>10. SameUpTo(L, M, i)
    BY <1>1, <1>2, <1>4, <2>4 DEF SameUpTo
  <2>11. ASSUME NEW j \in 1 .. Len(L) + 1, i < j
         PROVE  M[j].thr = Zero /\ M[j].distributions # <<>>
    <3>1. CASE j <= p
      <4>1. M[j] = L[j] /\ j \in 1 .. Len(L)
        BY <1>1, <1>2, <2>4, <3>1
      <4> QED
        BY <1>1, <2>11, <4>1 DEF Unexplored
    <3>2. CASE j = p + 1
      BY <1>2, <2>2, <2>4, <3>2
    <3>3. CASE j > p + 1
      <4>1. M[j] = L[j - 1] /\ j - 1 \in 1 .. Len(L) /\ i < j - 1
        BY <1>1, <1>2, <1>4, <2>4, <3>3
      <4> QED
        BY <1>1, <4>1 DEF Unexplored
    <3> QED
      BY <1>2, <3>1, <3>2, <3>3
  <2> QED
    BY <2>5, <2>9, <2>10, <2>11 DEF Unexplored
<1>6. CASE L[p].sz = sz /\ \E j \in DOMAIN L[p].distributions : L[p].distributions[j].sp = s
  <2>1. M = L
    BY <1>3, <1>6
  <2> QED
    BY <1>1, <2>1 DEF SameUpTo
<1>7. CASE L[p].sz = sz /\ \A j \in DOMAIN L[p].distributions : L[p].distributions[j].sp # s
  <2> DEFINE y == [L[p] EXCEPT !.distributions = <<NewDistribution(s)>> \o L[p].distributions]
  <2>1. y \in RightSets(D) /\ y.sz = L[p].sz /\ y.thr = L[p].thr /\ y.distributions # <<>>
    <3>1. L[p] \in RightSets(D) /\ L[p].sz = TotalOf(D, s)
      BY <1>1, <1>2, <1>7
    <3> QED
      BY <1>7, <3>1, MergedRight
  <2>2. M = [L EXCEPT ![p] = y]
    BY <1>3, <1>7
  <2> HIDE DEF y
  <2>3. i < p /\ p # 1
    BY <1>1, <1>2, <1>4, <1>7
  <2>4. /\ ListOK(D, M) /\ Len(M) = Len(L) /\ DOMAIN M = 1 .. Len(L)
        /\ \A j \in 1 .. Len(L) : M[j] = IF j = p THEN y ELSE L[j]
    <3>1. p \in 1 .. Len(L) /\ (p = 1 => Len(y.distributions) = 1)
      BY <1>2, <2>3
    <3>2. ReplacedAt(D, L, p, y, M)
      BY <2>1, <2>2, <3>1, Replaced, Zenon
    <3> QED
      BY <3>2 DEF ReplacedAt
  <2>5. SameUpTo(L, M, i)
    BY <1>1, <2>3, <2>4 DEF SameUpTo
  <2>6. Unexplored(M, i)
    BY <1>1, <1>2, <2>1, <2>3, <2>4 DEF Unexplored
  <2> QED
    BY <2>4, <2>5, <2>6
<1> QED
  BY <1>5, <1>6, <1>7

-----------------------------------------------------------------------------
(* New distributions of a distribution that has been executed              *)

LEMMA DivisorType ==
    ASSUME NEW a \in Positive, NEW b \in Positive
    PROVE  gcd(a, b) \in 1 .. a
<1> DEFINE Divisors == {n \in 1 .. a : a % n = 0 /\ b % n = 0}
           n == Max(Divisors)
<1>1. a \in Nat /\ b \in Nat /\ a >= 1 /\ a % 1 = 0 /\ b % 1 = 0
  BY DEF Positive
<1>2. Divisors \in SUBSET (1 .. a) /\ 1 \in Divisors
  BY <1>1
<1>3. n \in Divisors /\ \A y \in Divisors : y <= n
  <2> HIDE DEF Divisors
  <2> QED
    BY <1>1, <1>2, Largest
<1>4. n \in 1 .. a /\ a % n = 0 /\ b % n = 0
  BY <1>3
<1>5. ASSUME NEW m \in n + 1 .. a PROVE ~(a % m = 0 /\ b % m = 0)
  <2>1. m \in 1 .. a /\ ~(m <= n)
    BY <1>1, <1>4
  <2>2. m \notin Divisors
    BY <1>3, <2>1
  <2> QED
    BY <2>1, <2>2
<1> HIDE DEF n, Divisors
<1> QED
  BY <1>4, <1>5, Zenon DEF gcd

LEMMA StepType ==
    ASSUME IsSDFGraph(g), NEW k \in Channels(g)
    PROVE  /\ minSzStep(k) \in Nat /\ minSzStep(k) > 0
           /\ minSz[k] \in Nat
<1>1. /\ g.ch[k].p \in Positive /\ g.ch[k].c \in Positive /\ g.ch[k].t \in Nat
  BY ChannelType
<1> DEFINE n == gcd(g.ch[k].p, g.ch[k].c)
<1>2. n \in 1 .. g.ch[k].p
  BY <1>1, DivisorType
<1>3. minSzStep(k) = n
  BY DEF minSzStep
<1>4. g.ch[k].t % n \in Nat
  <2> HIDE DEF n
  <2> QED
    BY <1>1, <1>2 DEF Positive
<1>5. minSz[k] = IF SelfEdge(k) THEN g.ch[k].p + Greater(g.ch[k].c, g.ch[k].t)
                     ELSE Greater(g.ch[k].p + g.ch[k].c - n + (g.ch[k].t % n), g.ch[k].t)
  BY DEF minSz
<1> HIDE DEF n
<1> QED
  BY <1>1, <1>2, <1>3, <1>4, <1>5 DEF Greater, Positive

LEMMA FiniteChannels ==
    ASSUME IsSDFGraph(g)
    PROVE  /\ IsFiniteSet(Channels(g))
           /\ \E n \in Nat : Channels(g) = 1 .. n
<1>1. PICK n \in Nat : Channels(g) = 1 .. n
  BY DEF IsSDFGraph, Channels
<1>2. IsFiniteSet(1 .. n)
  BY FS_Interval
<1> QED
  BY <1>1, <1>2

Enlarge(list, k) ==
    IF k \notin dep \/ SelfEdge(k) THEN list
    ELSE addStorageDistributionToChecklist(list, Set.sz + minSzStep(k),
                                               [size EXCEPT ![k] = size[k] + minSzStep(k)])

(* The lists that the exploration may make of a list                       *)
Grown(L, i) ==
    {M \in Seq(RightSets(Channels(g))) :
        ListOK(Channels(g), M) /\ Unexplored(M, i) /\ SameUpTo(L, M, i)}

LEMMA EnlargeGrown ==
    ASSUME IsSDFGraph(g), NEW L, ListOK(Channels(g), L), NEW i \in 1 .. Len(L),
           size \in [Channels(g) -> Nat], Set.sz = L[i].sz, TotalOf(Channels(g), size) = L[i].sz,
           NEW M \in Grown(L, i), NEW k \in Channels(g)
    PROVE  Enlarge(M, k) \in Grown(L, i)
<1> DEFINE D == Channels(g)
           step == minSzStep(k)
           s == [size EXCEPT ![k] = size[k] + step]
           N == Enlarge(M, k)
<1>1. ListOK(D, M) /\ Unexplored(M, i) /\ SameUpTo(L, M, i)
  BY DEF Grown
<1>2. Len(M) \in Nat /\ Len(L) \in Nat /\ L[i].sz \in Nat
  BY <1>1, SetFields
<1>3. i \in 1 .. Len(M) /\ M[i] = L[i]
  BY <1>1, <1>2 DEF SameUpTo
<1>4. CASE k \notin dep \/ SelfEdge(k)
  BY <1>4 DEF Enlarge
<1>5. CASE ~(k \notin dep \/ SelfEdge(k))
  <2>1. step \in Nat /\ step > 0
    BY StepType
  <2>2. N = addStorageDistributionToChecklist(M, L[i].sz + step, s)
    BY <1>5 DEF Enlarge
  <2> HIDE DEF step, N
  <2>3. s \in [D -> Nat]
    BY <2>1
  <2>4. TotalOf(D, s) = L[i].sz + step
    <3>1. IsFiniteSet(D)
      BY FiniteChannels
    <3> HIDE DEF D
    <3>2. size \in [D -> Nat] /\ k \in D /\ TotalOf(D, size) = L[i].sz
      BY DEF D
    <3>3. TotalOf(D, s) = TotalOf(D, size) + step
      BY <2>1, <3>1, <3>2, TotalStep, Zenon DEF s
    <3> QED
      BY <3>2, <3>3
  <2> HIDE DEF s, D
  <2>5. L[i].sz + step \in Nat /\ M[i].sz < L[i].sz + step
    BY <1>2, <1>3, <2>1
  <2>6. ListOK(D, N) /\ Unexplored(N, i) /\ SameUpTo(M, N, i)
    BY <1>1, <1>3, <2>2, <2>3, <2>4, <2>5, Added
  <2>7. SameUpTo(L, N, i)
    <3>1. Len(N) \in Nat
      BY <2>6, SetFields
    <3> QED
      BY <1>1, <1>2, <2>6, <3>1 DEF SameUpTo
  <2>8. N \in Seq(RightSets(D))
    BY <2>6 DEF ListOK
  <2> QED
    BY <2>6, <2>7, <2>8 DEF Grown, N, D
<1> QED
  BY <1>4, <1>5

LEMMA FoldGrown ==
    ASSUME IsSDFGraph(g), NEW L, ListOK(Channels(g), L), NEW i \in 1 .. Len(L), Unexplored(L, i),
           size \in [Channels(g) -> Nat], Set.sz = L[i].sz, TotalOf(Channels(g), size) = L[i].sz
    PROVE  FoldLeft(Enlarge, L, [k \in Channels(g) |-> k]) \in Grown(L, i)
<1> DEFINE D == Channels(g)
           seq == [k \in D |-> k]
           V == Grown(L, i)
           pick == [u \in SUBSET D |-> Max(u)]
           step == [x \in D |-> [v \in V |-> Enlarge(v, x)]]
           Fold(it) == it = [u \in SUBSET DOMAIN seq |->
                              IF u = {} THEN L ELSE Enlarge(it[u \ {Max(u)}], seq[Max(u)])]
           h == CHOOSE it : Fold(it)
<1>1. PICK n \in Nat : D = 1 .. n
  BY FiniteChannels
<1>2. Picks(D, pick)
  <2> SUFFICES ASSUME NEW u \in SUBSET D, u # {} PROVE Max(u) \in u
    BY DEF Picks
  <2> QED
    BY <1>1, Largest
<1>3. L \in V
  BY DEF Grown, ListOK, SameUpTo
<1>4. \A x \in D : \A v \in V : Enlarge(v, x) \in V
  BY EnlargeGrown
<1>5. PICK f \in [SUBSET D -> V] : FoldEquation(D, L, pick, step, f)
  <2>1. \A x \in D : \A v \in V : step[x][v] \in V
    BY <1>4
  <2>2. IsFiniteSet(D)
    BY FiniteChannels
  <2> HIDE DEF pick, step, V, D
  <2> QED
    BY <1>2, <1>3, <2>1, <2>2, FoldSolution
<1> HIDE DEF V
<1>6. ASSUME NEW u \in SUBSET D
      PROVE  f[u] = IF u = {} THEN L ELSE Enlarge(f[u \ {Max(u)}], seq[Max(u)])
  <2>1. CASE u = {}
    BY <1>5, <2>1 DEF FoldEquation
  <2>2. CASE u # {}
    <3> DEFINE x == Max(u)
    <3>1. pick[u] = x /\ x \in D /\ u \ {x} \in SUBSET D /\ seq[x] = x
      BY <1>2, <2>2 DEF Picks
    <3> HIDE DEF x, pick
    <3>2. f[u] = step[x][f[u \ {x}]] /\ f[u \ {x}] \in V
      BY <1>5, <2>2, <3>1 DEF FoldEquation
    <3>3. f[u] = Enlarge(f[u \ {x}], x)
      BY <3>1, <3>2
    <3> HIDE DEF seq
    <3> QED
      BY <2>2, <3>1, <3>3 DEF x
  <2> QED
    BY <2>1, <2>2
<1>7. DOMAIN seq = D
  OBVIOUS
<1> HIDE DEF seq, pick, D
<1>8. Fold(f)
  BY <1>5, <1>6, <1>7
<1>9. Fold(h)
  <2> HIDE DEF Fold
  <2> QED
    BY <1>8
<1>10. FoldLeft(Enlarge, L, seq) = h[D]
  BY <1>7, Zenon DEF FoldLeft, MapThenFoldSet
<1> HIDE DEF h
<1> DEFINE Q == {u \in SUBSET D : h[u] \in V}
<1>11. {} \in Q
  BY <1>3, <1>7, <1>9
<1>12. ASSUME NEW u \in SUBSET D, u # {}, u \ {pick[u]} \in Q PROVE u \in Q
  <2>1. pick[u] = Max(u) /\ pick[u] \in u
    BY <1>2, <1>12 DEF pick, Picks
  <2>2. seq[pick[u]] = pick[u] /\ pick[u] \in D
    BY <2>1 DEF seq
  <2>3. h[u] = Enlarge(h[u \ {pick[u]}], pick[u])
    BY <1>7, <1>9, <1>12, <2>1, <2>2
  <2> QED
    BY <1>4, <1>12, <2>2, <2>3
<1>13. SUBSET D \subseteq Q
  <2>1. IsFiniteSet(D)
    BY FiniteChannels DEF D
  <2> HIDE DEF Q
  <2>2. KeptBy(D, pick, Q)
    BY <1>12 DEF KeptBy
  <2> QED
    BY <1>2, <1>11, <2>1, <2>2, SubsetInduction
<1>14. D \in Q
  BY <1>13
<1> QED
  BY <1>10, <1>14 DEF V, seq, D

(* The distributions of the set that are as fast as the set                *)
Fast(dist, t) ==
    FoldLeft(LAMBDA kept, x : IF Less(x.thr, t) THEN kept ELSE Append(kept, x), <<>>, dist)

FastOf(D, dist, u, r) ==
    /\ r \in Seq(Distribution(D))
    /\ \A j \in DOMAIN r : /\ \E m \in u : r[j] = dist[m]
                           /\ \A k \in 1 .. j - 1 : r[k].sp # r[j].sp

LEMMA FastAppend ==
    ASSUME NEW D, NEW dist \in Seq(Distribution(D)), NEW u \in SUBSET DOMAIN dist, NEW m \in u,
           \A j, k \in DOMAIN dist : j # k => dist[j].sp # dist[k].sp,
           NEW r, FastOf(D, dist, u \ {m}, r)
    PROVE  FastOf(D, dist, u, r) /\ FastOf(D, dist, u, Append(r, dist[m]))
<1> DEFINE q == Append(r, dist[m])
           x == dist[m]
<1>1. x \in Distribution(D) /\ m \in DOMAIN dist
  BY ElementType
<1>2. r \in Seq(Distribution(D)) /\ Len(r) \in Nat /\ DOMAIN r = 1 .. Len(r)
  BY DEF FastOf
<1> HIDE DEF x
<1>3. /\ q \in Seq(Distribution(D)) /\ DOMAIN q = 1 .. Len(r) + 1
      /\ \A j \in 1 .. Len(r) : q[j] = r[j]
      /\ q[Len(r) + 1] = x
  BY <1>1, <1>2 DEF x
<1> HIDE DEF q
<1>4. \A j \in 1 .. Len(r) : /\ \E i \in u \ {m} : r[j] = dist[i]
                             /\ \A k \in 1 .. j - 1 : r[k].sp # r[j].sp
  BY <1>2 DEF FastOf
<1>5. \A j \in 1 .. Len(r) : r[j].sp # x.sp
  <2> SUFFICES ASSUME NEW j \in 1 .. Len(r) PROVE r[j].sp # x.sp
    OBVIOUS
  <2>1. PICK i \in u \ {m} : r[j] = dist[i]
    BY <1>4
  <2>2. i \in DOMAIN dist /\ i # m
    OBVIOUS
  <2> QED
    BY <1>1, <2>1, <2>2 DEF x
<1>6. FastOf(D, dist, u, r)
  BY <1>2, <1>4 DEF FastOf
<1>7. ASSUME NEW j \in 1 .. Len(r) + 1
      PROVE  /\ \E i \in u : q[j] = dist[i]
             /\ \A k \in 1 .. j - 1 : q[k].sp # q[j].sp
  <2>1. CASE j <= Len(r)
    <3>1. j \in 1 .. Len(r) /\ q[j] = r[j]
      BY <1>2, <1>3, <2>1
    <3>2. \A k \in 1 .. j - 1 : q[k] = r[k]
      BY <1>2, <1>3, <3>1
    <3> QED
      BY <1>4, <3>1, <3>2
  <2>2. CASE j = Len(r) + 1
    <3>1. q[j] = x
      BY <1>3, <2>2
    <3>2. ASSUME NEW k \in 1 .. j - 1 PROVE q[k].sp # q[j].sp
      <4>1. k \in 1 .. Len(r) /\ q[k] = r[k]
        BY <1>2, <1>3, <2>2
      <4> QED
        BY <1>5, <3>1, <4>1
    <3>3. \E i \in u : q[j] = dist[i]
      BY <3>1 DEF x
    <3> QED
      BY <3>2, <3>3
  <2> QED
    BY <1>2, <2>1, <2>2
<1>8. FastOf(D, dist, u, q)
  BY <1>3, <1>7 DEF FastOf
<1> QED
  BY <1>6, <1>8 DEF q, x

LEMMA FastFold ==
    ASSUME NEW D, NEW dist \in Seq(Distribution(D)), NEW t,
           \A j, k \in DOMAIN dist : j # k => dist[j].sp # dist[k].sp
    PROVE  /\ FastOf(D, dist, DOMAIN dist, Fast(dist, t))
           /\ Len(dist) = 1 /\ ~Less(dist[1].thr, t) => Fast(dist, t) = <<dist[1]>>
<1> DEFINE I == DOMAIN dist
           V == Seq(Distribution(D))
           Keep(v, x) == IF Less(x.thr, t) THEN v ELSE Append(v, x)
           pick == [u \in SUBSET I |-> Max(u)]
           step == [i \in I |-> [v \in V |-> Keep(v, dist[i])]]
           Fold(it) == it = [u \in SUBSET I |->
                              IF u = {} THEN <<>> ELSE Keep(it[u \ {Max(u)}], dist[Max(u)])]
           h == CHOOSE it : Fold(it)
<1>1. Len(dist) \in Nat /\ I = 1 .. Len(dist) /\ IsFiniteSet(I) /\ \A i \in I : dist[i] \in Distribution(D)
  <2>1. Len(dist) \in Nat /\ I = 1 .. Len(dist) /\ \A i \in I : dist[i] \in Distribution(D)
    BY ElementType
  <2>2. IsFiniteSet(1 .. Len(dist))
    BY <2>1, FS_Interval
  <2> QED
    BY <2>1, <2>2
<1>2. Picks(I, pick)
  <2> SUFFICES ASSUME NEW u \in SUBSET I, u # {} PROVE Max(u) \in u
    BY DEF Picks
  <2> HIDE DEF I
  <2> QED
    BY <1>1, Largest
<1>3. <<>> \in V /\ \A v \in V : \A i \in I : Keep(v, dist[i]) \in V
  <2> SUFFICES ASSUME NEW v \in V, NEW i \in I PROVE Keep(v, dist[i]) \in V
    OBVIOUS
  <2>1. dist[i] \in Distribution(D)
    BY <1>1
  <2>2. Append(v, dist[i]) \in V
    BY <2>1, AppendProperties
  <2> QED
    BY <2>2
<1>4. PICK f \in [SUBSET I -> V] : FoldEquation(I, <<>>, pick, step, f)
  <2>1. \A x \in I : \A v \in V : step[x][v] \in V
    BY <1>3
  <2> HIDE DEF pick, step, V, I
  <2> QED
    BY <1>1, <1>2, <1>3, <2>1, FoldSolution
<1> HIDE DEF V, Keep
<1>5. ASSUME NEW u \in SUBSET I
      PROVE  f[u] = IF u = {} THEN <<>> ELSE Keep(f[u \ {Max(u)}], dist[Max(u)])
  <2>1. CASE u = {}
    BY <1>4, <2>1 DEF FoldEquation
  <2>2. CASE u # {}
    <3> DEFINE x == Max(u)
    <3>1. pick[u] = x /\ x \in I /\ u \ {x} \in SUBSET I
      BY <1>2, <2>2 DEF Picks
    <3> HIDE DEF x, pick
    <3>2. f[u] = step[x][f[u \ {x}]] /\ f[u \ {x}] \in V
      BY <1>4, <2>2, <3>1 DEF FoldEquation
    <3>3. f[u] = Keep(f[u \ {x}], dist[x])
      BY <3>1, <3>2
    <3> QED
      BY <2>2, <3>3 DEF x
  <2> QED
    BY <2>1, <2>2
<1> HIDE DEF pick, I
<1>6. Fold(f)
  BY <1>4, <1>5
<1>7. Fold(h)
  <2> HIDE DEF Fold
  <2> QED
    BY <1>6
<1>8. Fast(dist, t) = h[I]
  BY Zenon DEF Fast, FoldLeft, MapThenFoldSet, I, Keep
<1> HIDE DEF h
<1> DEFINE Q == {u \in SUBSET I : FastOf(D, dist, u, h[u])}
<1>9. h[{}] = <<>>
  BY <1>7
<1>10. {} \in Q
  <2>1. <<>> \in Seq(Distribution(D)) /\ DOMAIN <<>> = {}
    OBVIOUS
  <2>2. FastOf(D, dist, {}, <<>>)
    BY <2>1 DEF FastOf
  <2> QED
    BY <1>9, <2>2
<1>11. ASSUME NEW u \in SUBSET I, u # {}
       PROVE  /\ pick[u] \in u /\ Max(u) = pick[u]
              /\ h[u] = Keep(h[u \ {pick[u]}], dist[pick[u]])
  <2>1. pick[u] = Max(u) /\ pick[u] \in u
    BY <1>2, <1>11 DEF pick, Picks
  <2> QED
    BY <1>7, <1>11, <2>1
<1>12. ASSUME NEW u \in SUBSET I, u # {}, u \ {pick[u]} \in Q PROVE u \in Q
  <2>1. pick[u] \in u /\ FastOf(D, dist, u \ {pick[u]}, h[u \ {pick[u]}])
    BY <1>11, <1>12
  <2> DEFINE r == h[u \ {pick[u]}]
             m == pick[u]
  <2>2. m \in u /\ FastOf(D, dist, u \ {m}, r) /\ h[u] = Keep(r, dist[m])
    BY <1>11, <1>12, <2>1
  <2> HIDE DEF r, m
  <2>3. FastOf(D, dist, u, r) /\ FastOf(D, dist, u, Append(r, dist[m]))
    BY <2>2, FastAppend DEF I
  <2>4. FastOf(D, dist, u, h[u])
    BY <2>2, <2>3 DEF Keep
  <2> QED
    BY <2>4
<1>13. SUBSET I \subseteq Q
  <2> HIDE DEF Q
  <2>1. KeptBy(I, pick, Q)
    BY <1>12 DEF KeptBy
  <2> QED
    BY <1>1, <1>2, <1>10, <2>1, SubsetInduction
<1>14. FastOf(D, dist, I, h[I])
  BY <1>13
<1>15. ASSUME Len(dist) = 1, ~Less(dist[1].thr, t) PROVE h[I] = <<dist[1]>>
  <2>1. I = {1}
    BY <1>1, <1>15
  <2>2. pick[I] = 1 /\ I \ {1} = {}
    BY <1>11, <2>1
  <2>3. h[I] = Keep(h[I \ {pick[I]}], dist[pick[I]])
    <3>1. I \in SUBSET I /\ I # {}
      BY <2>1
    <3> QED
      BY <1>11, <3>1
  <2>4. h[I] = Keep(<<>>, dist[1])
    BY <1>9, <2>2, <2>3
  <2>5. Keep(<<>>, dist[1]) = <<dist[1]>>
    BY <1>15 DEF Keep
  <2> QED
    BY <2>4, <2>5
<1> QED
  BY <1>8, <1>14, <1>15 DEF I

(* Another set of the same size in place of the i-th one                   *)
ChangedAt(D, L, i, M) ==
    /\ ListOK(D, M) /\ Len(M) = Len(L)
    /\ \A j \in 1 .. Len(L) : j # i => M[j] = L[j]
    /\ M[i].sz = L[i].sz

LEMMA DistributionsRight ==
    ASSUME NEW D, NEW x \in RightSets(D), NEW t \in Fractions, NEW dist \in Seq(Distribution(D)),
           \A j \in DOMAIN dist : /\ \E m \in DOMAIN x.distributions : dist[j].sp = x.distributions[m].sp
                                  /\ \A k \in 1 .. j - 1 : dist[k].sp # dist[j].sp
    PROVE  [x EXCEPT !.distributions = dist, !.thr = t] \in RightSets(D)
<1> DEFINE y == [x EXCEPT !.distributions = dist, !.thr = t]
<1>1. x \in StorageSet(D) /\ \A m \in DOMAIN x.distributions : TotalOf(D, x.distributions[m].sp) = x.sz
  BY DEF RightSets, OfOneSize
<1>2. y \in StorageSet(D) /\ y.sz = x.sz /\ y.distributions = dist
  BY <1>1 DEF StorageSet
<1> HIDE DEF y
<1>3. OfOneSize(D, y)
  BY <1>1, <1>2 DEF OfOneSize
<1>4. y \in RightSets(D)
  BY <1>2, <1>3 DEF RightSets
<1> QED
  BY <1>4 DEF y

LEMMA DistinctSpaces ==
    ASSUME NEW D, NEW x \in RightSets(D)
    PROVE  /\ x.distributions \in Seq(Distribution(D))
           /\ \A j, k \in DOMAIN x.distributions :
                 j # k => x.distributions[j].sp # x.distributions[k].sp
<1>1. x \in StorageSet(D) /\ OfOneSize(D, x)
  BY DEF RightSets
<1>2. x.distributions \in Seq(Distribution(D))
  BY <1>1 DEF StorageSet
<1> DEFINE dist == x.distributions
<1>3. Len(dist) \in Nat /\ DOMAIN dist = 1 .. Len(dist)
  BY <1>2
<1>4. \A j \in 1 .. Len(dist) : \A k \in 1 .. j - 1 : dist[k].sp # dist[j].sp
  BY <1>1, <1>3 DEF OfOneSize
<1> HIDE DEF dist
<1>5. ASSUME NEW j \in 1 .. Len(dist), NEW k \in 1 .. Len(dist), j # k PROVE dist[j].sp # dist[k].sp
  <2>1. j \in 1 .. k - 1 \/ k \in 1 .. j - 1
    BY <1>3, <1>5
  <2> QED
    BY <1>4, <2>1
<1> QED
  BY <1>2, <1>3, <1>5 DEF dist

LEMMA Minimized ==
    ASSUME NEW D, NEW L, ListOK(D, L), NEW i \in 1 .. Len(L), NEW M,
           M = minimizeStorageDistributionsSet(L, i),
           i = 1 => ~Less(L[i].distributions[1].thr, L[i].thr)
    PROVE  ChangedAt(D, L, i, M) /\ M[i].thr = L[i].thr
<1> DEFINE x == L[i]
           dist == IF i > 1 /\ Equal(L[i - 1].thr, L[i].thr) THEN <<>> ELSE Fast(x.distributions, x.thr)
           y == [x EXCEPT !.distributions = dist, !.thr = x.thr]
<1>1. /\ x \in RightSets(D) /\ x.thr \in Fractions /\ L \in Seq(RightSets(D)) /\ Len(L) \in Nat
      /\ DOMAIN L = 1 .. Len(L) /\ i \in Nat
  BY SetFields
<1>2. /\ x.distributions \in Seq(Distribution(D))
      /\ \A j, k \in DOMAIN x.distributions : j # k => x.distributions[j].sp # x.distributions[k].sp
  BY <1>1, DistinctSpaces
<1>3. FastOf(D, x.distributions, DOMAIN x.distributions, dist)
  <2>1. CASE i > 1 /\ Equal(L[i - 1].thr, L[i].thr)
    <3>1. dist = <<>> /\ <<>> \in Seq(Distribution(D)) /\ DOMAIN <<>> = {}
      BY <2>1
    <3> QED
      BY <3>1 DEF FastOf
  <2>2. CASE ~(i > 1 /\ Equal(L[i - 1].thr, L[i].thr))
    <3>1. dist = Fast(x.distributions, x.thr)
      BY <2>2
    <3> QED
      BY <1>2, <3>1, FastFold
  <2> QED
    BY <2>1, <2>2
<1>4. i = 1 => dist = <<x.distributions[1]>>
  <2> SUFFICES ASSUME i = 1 PROVE dist = <<x.distributions[1]>>
    OBVIOUS
  <2>1. dist = Fast(x.distributions, x.thr)
    OBVIOUS
  <2>2. Len(x.distributions) = 1 /\ ~Less(x.distributions[1].thr, x.thr)
    BY DEF ListOK
  <2> QED
    BY <1>2, <2>1, <2>2, FastFold
<1>5. M = [L EXCEPT ![i] = y]
  BY <1>1 DEF minimizeStorageDistributionsSet, Fast, RightSets, StorageSet
<1> HIDE DEF dist
<1>6. y \in RightSets(D)
  <2> HIDE DEF x
  <2>1. dist \in Seq(Distribution(D))
    BY <1>3 DEF FastOf
  <2>2. \A j \in DOMAIN dist : /\ \E m \in DOMAIN x.distributions : dist[j].sp = x.distributions[m].sp
                               /\ \A k \in 1 .. j - 1 : dist[k].sp # dist[j].sp
    BY <1>3 DEF FastOf
  <2> QED
    BY <1>1, <2>1, <2>2, DistributionsRight
<1>7. y.sz = x.sz /\ y.thr = x.thr /\ y.distributions = dist
  BY <1>1 DEF RightSets, StorageSet
<1>8. i = 1 => Len(y.distributions) = 1
  BY <1>4, <1>7
<1> HIDE DEF y
<1>9. ReplacedAt(D, L, i, y, M)
  BY <1>5, <1>6, <1>7, <1>8, Replaced, Zenon
<1> QED
  BY <1>1, <1>7, <1>9 DEF ReplacedAt, ChangedAt

(* execStorageDistribution: the throughput of a distribution and of its set*)
WithThroughput(L, i, j, t) ==
    [L EXCEPT ![i].distributions[j].thr = t,
              ![i].thr = IF Less(@, t) THEN t ELSE @]

ExecutedAt(D, L, i, j, t, M) ==
    /\ ChangedAt(D, L, i, M)
    /\ Len(M[i].distributions) = Len(L[i].distributions)
    /\ M[i].distributions[j].thr = t
    /\ M[i].thr = IF Less(L[i].thr, t) THEN t ELSE L[i].thr

LEMMA Executed ==
    ASSUME NEW D, NEW L, ListOK(D, L), NEW i \in 1 .. Len(L), NEW j \in DOMAIN L[i].distributions,
           NEW t \in Fractions
    PROVE  ExecutedAt(D, L, i, j, t, WithThroughput(L, i, j, t))
<1> DEFINE x == L[i]
           old == x.distributions
           u == IF Less(x.thr, t) THEN t ELSE x.thr
           dist == [old EXCEPT ![j] = [old[j] EXCEPT !.thr = t]]
           y == [x EXCEPT !.distributions = dist, !.thr = u]
           M == WithThroughput(L, i, j, t)
<1>1. /\ x \in RightSets(D) /\ x.thr \in Fractions /\ L \in Seq(RightSets(D)) /\ Len(L) \in Nat
      /\ DOMAIN L = 1 .. Len(L) /\ i \in Nat
  BY SetFields
<1>2. /\ old \in Seq(Distribution(D))
      /\ \A m, k \in DOMAIN old : m # k => old[m].sp # old[k].sp
  BY <1>1, DistinctSpaces
<1>3. x \in StorageSet(D)
  BY <1>1 DEF RightSets
<1>4. M = [L EXCEPT ![i] = y]
  BY <1>1, <1>2, <1>3 DEF StorageSet, WithThroughput
<1> HIDE DEF u, x, M
<1>5. u \in Fractions
  BY <1>1 DEF u
<1> HIDE DEF old
<1>6. /\ dist \in Seq(Distribution(D)) /\ Len(dist) = Len(old) /\ DOMAIN dist = DOMAIN old
      /\ dist[j].thr = t
      /\ \A k \in DOMAIN old : dist[k].sp = old[k].sp
  <2>1. j \in DOMAIN old /\ old[j] \in Distribution(D)
    BY <1>2, ElementType DEF old, x
  <2> DEFINE e == [old[j] EXCEPT !.thr = t]
  <2>2. e \in Distribution(D) /\ e.thr = t /\ e.sp = old[j].sp
    BY <2>1 DEF Distribution
  <2> HIDE DEF e
  <2>3. dist = [old EXCEPT ![j] = e]
    BY DEF e
  <2> HIDE DEF dist
  <2> QED
    BY <1>2, <2>1, <2>2, <2>3
<1> HIDE DEF dist
<1>7. y \in RightSets(D)
  <2>1. \A n \in DOMAIN dist : /\ \E m \in DOMAIN x.distributions : dist[n].sp = x.distributions[m].sp
                               /\ \A k \in 1 .. n - 1 : dist[k].sp # dist[n].sp
    <3> SUFFICES ASSUME NEW n \in DOMAIN old PROVE /\ \E m \in DOMAIN old : dist[n].sp = old[m].sp
                                                   /\ \A k \in 1 .. n - 1 : dist[k].sp # dist[n].sp
      BY <1>6 DEF old
    <3>1. Len(old) \in Nat /\ DOMAIN old = 1 .. Len(old)
      BY <1>2
    <3>2. \A k \in 1 .. n - 1 : k \in DOMAIN old /\ k # n
      BY <3>1
    <3> QED
      BY <1>2, <1>6, <3>2
  <2> QED
    BY <1>1, <1>5, <1>6, <2>1, DistributionsRight
<1>8. y.sz = x.sz /\ y.thr = u /\ y.distributions = dist
  BY <1>3 DEF StorageSet
<1>9. i = 1 => Len(y.distributions) = 1
  BY <1>6, <1>8 DEF ListOK, old, x
<1>10. j \in DOMAIN old
  BY DEF old, x
<1> HIDE DEF y
<1>11. ReplacedAt(D, L, i, y, M)
  BY <1>4, <1>7, <1>8, <1>9, Replaced DEF x
<1>12. M[i] = y /\ ChangedAt(D, L, i, M)
  BY <1>1, <1>8, <1>11 DEF ReplacedAt, ChangedAt, x
<1> QED
  BY <1>6, <1>8, <1>10, <1>12 DEF ExecutedAt, old, x, u, M

LEMMA Shortened ==
    ASSUME NEW D, NEW L, ListOK(D, L), NEW i \in 1 .. Len(L), NEW M, M = SubSeq(L, 1, i)
    PROVE  ListOK(D, M) /\ Len(M) = i /\ \A j \in 1 .. i : M[j] = L[j]
<1>1. /\ L \in Seq(RightSets(D)) /\ Len(L) \in Nat /\ DOMAIN L = 1 .. Len(L)
      /\ \A j, k \in 1 .. Len(L) : j < k => L[j].sz < L[k].sz
  BY SetFields
<1>2. M \in Seq(RightSets(D)) /\ Len(M) = i /\ \A j \in 1 .. i : M[j] = L[j]
  BY <1>1, SubSeqProperties
<1>3. DOMAIN M = 1 .. i /\ M # <<>>
  BY <1>2
<1>4. Ascending(M)
  BY <1>1, <1>2, <1>3 DEF Ascending
<1> QED
  BY <1>2, <1>3, <1>4 DEF ListOK

LEMMA Dropped ==
    ASSUME NEW D, NEW L, ListOK(D, L), NEW i \in 1 .. Len(L), i # 1, NEW M, M = RemoveAt(L, i)
    PROVE  /\ ListOK(D, M) /\ Len(M) = Len(L) - 1
           /\ \A j \in 1 .. Len(M) : M[j] = IF j < i THEN L[j] ELSE L[j + 1]
<1>1. /\ L \in Seq(RightSets(D)) /\ Len(L) \in Nat /\ DOMAIN L = 1 .. Len(L)
      /\ \A j, k \in 1 .. Len(L) : j < k => L[j].sz < L[k].sz
  BY SetFields
<1>2. /\ M \in Seq(RightSets(D)) /\ Len(M) = Len(L) - 1
      /\ \A j \in 1 .. Len(M) : M[j] = IF j < i THEN L[j] ELSE L[j + 1]
  <2>1. RemovedFrom(RightSets(D), L, i, M)
    BY <1>1, Removed, Zenon
  <2> QED
    BY <2>1 DEF RemovedFrom
<1>3. DOMAIN M = 1 .. Len(L) - 1 /\ M # <<>> /\ M[1] = L[1]
  BY <1>1, <1>2
<1>4. ASSUME NEW j \in 1 .. Len(L) - 1, NEW k \in 1 .. Len(L) - 1, j < k PROVE M[j].sz < M[k].sz
  <2>1. /\ j \in 1 .. Len(L) /\ k \in 1 .. Len(L) /\ j + 1 \in 1 .. Len(L) /\ k + 1 \in 1 .. Len(L)
        /\ j < k + 1 /\ j + 1 < k + 1
    BY <1>1, <1>4
  <2> QED
    BY <1>1, <1>2, <1>4, <2>1
<1> QED
  BY <1>2, <1>3, <1>4 DEF ListOK, Ascending

LEMMA ZeroedRight ==
    ASSUME IsSDFGraph(g), NEW L, ListOK(Channels(g), L), NEW M, M = Zeroed(L)
    PROVE  /\ ListOK(Channels(g), M) /\ Len(M) = Len(L)
           /\ \A j \in 1 .. Len(L) : /\ M[j].thr = L[j].thr
                                     /\ j # 1 => M[j] = L[j]
<1> DEFINE D == Channels(g)
           x == L[1]
           zero == [k \in D |-> 0]
           dist == [x.distributions EXCEPT ![1] = [x.distributions[1] EXCEPT !.sp = zero]]
           y == [x EXCEPT !.sz = 0, !.distributions = dist]
<1>1. /\ L \in Seq(RightSets(D)) /\ Len(L) \in Nat /\ Len(L) >= 1 /\ DOMAIN L = 1 .. Len(L)
      /\ \A j \in 1 .. Len(L) : L[j].sz \in Nat
      /\ \A j, k \in 1 .. Len(L) : j < k => L[j].sz < L[k].sz
  BY SetFields
<1>2. x \in RightSets(D) /\ Len(x.distributions) = 1
  BY <1>1, SetFields DEF ListOK
<1>3. x \in StorageSet(D) /\ x.distributions \in Seq(Distribution(D))
  BY <1>2 DEF RightSets, StorageSet
<1>4. CASE L[1].thr.fire # 0
  <2>1. M = L
    BY <1>4 DEF Zeroed
  <2> QED
    BY <2>1
<1>5. CASE L[1].thr.fire = 0
  <2>1. M = [L EXCEPT ![1] = y]
    BY <1>1, <1>3, <1>5, FiniteChannels DEF Zeroed, StorageSet
  <2> DEFINE e == [x.distributions[1] EXCEPT !.sp = zero]
  <2>2. zero \in [D -> Nat] /\ TotalOf(D, zero) = 0
    <3>1. zero \in [D -> Nat] /\ \A k \in D : zero[k] = 0
      OBVIOUS
    <3>2. IsFiniteSet(D)
      BY FiniteChannels
    <3> HIDE DEF zero, D
    <3> QED
      BY <3>1, <3>2, TotalType
  <2> HIDE DEF zero, D, x
  <2>3. e \in Distribution(D) /\ e.sp = zero
    <3>1. x.distributions[1] \in Distribution(D)
      BY <1>2, <1>3, ElementType
    <3> QED
      BY <2>2, <3>1 DEF Distribution
  <2> HIDE DEF e
  <2>4. dist \in Seq(Distribution(D)) /\ Len(dist) = 1 /\ dist[1] = e /\ DOMAIN dist = 1 .. 1
    BY <1>2, <1>3, <2>3 DEF e
  <2> HIDE DEF dist
  <2>5. y \in StorageSet(D) /\ y.sz = 0 /\ y.thr = x.thr /\ y.distributions = dist
    BY <1>3, <2>4 DEF StorageSet
  <2> HIDE DEF y
  <2>6. OfOneSize(D, y)
    <3> SUFFICES ASSUME NEW j \in 1 .. 1
                 PROVE  TotalOf(D, dist[j].sp) = 0 /\ \A k \in 1 .. j - 1 : dist[k].sp # dist[j].sp
      BY <2>4, <2>5 DEF OfOneSize
    <3>1. j = 1 /\ 1 .. j - 1 = {}
      OBVIOUS
    <3> QED
      BY <2>2, <2>3, <2>4, <3>1
  <2>7. y \in RightSets(D)
    BY <2>5, <2>6 DEF RightSets
  <2>8. /\ M \in Seq(RightSets(D)) /\ Len(M) = Len(L) /\ DOMAIN M = 1 .. Len(L) /\ M # <<>>
        /\ \A j \in 1 .. Len(L) : M[j] = IF j = 1 THEN y ELSE L[j]
    BY <1>1, <2>1, <2>7
  <2>9. ASSUME NEW j \in 1 .. Len(L), NEW k \in 1 .. Len(L), j < k PROVE M[j].sz < M[k].sz
    <3>1. k # 1 /\ M[k] = L[k] /\ L[j].sz < L[k].sz /\ L[j].sz \in Nat /\ L[k].sz \in Nat
      BY <1>1, <2>8, <2>9
    <3> QED
      BY <2>5, <2>8, <3>1
  <2>10. ListOK(D, M)
    BY <1>1, <2>4, <2>5, <2>8, <2>9 DEF ListOK, Ascending
  <2> QED
    BY <1>1, <2>5, <2>8, <2>10 DEF D, x
<1> QED
  BY <1>4, <1>5

-----------------------------------------------------------------------------
(* The sets that have been returned                                        *)

Points(L) == {i \in DOMAIN L : /\ L[i].thr.fire # 0
                               /\ \A j \in 1 .. i - 1 : Less(L[j].thr, L[i].thr)}

Newer(L, last, i) ==
    IF last = 0 THEN L[i].thr.fire > 0 ELSE Less(L[last].thr, L[i].thr)

(* Of the first n sets the points have been returned, and the last one is  *)
(* the fastest.                                                            *)
SearchedTo(L, n, last, R) ==
    /\ n \in 0 .. Len(L)
    /\ R \subseteq Points(L) /\ R \subseteq 1 .. n
    /\ \A j \in 1 .. n : j \in Points(L) => j \in R
    /\ last = 0 => R = {} /\ \A j \in 1 .. n : L[j].thr.fire = 0
    /\ last # 0 => last \in R /\ \A j \in 1 .. n : ~Less(L[last].thr, L[j].thr)

LEMMA SearchedSame ==
    ASSUME NEW D, NEW L, ListOK(D, L), NEW M, ListOK(D, M), NEW n, n \in 0 .. Len(M),
           NEW last, NEW R, SearchedTo(L, n, last, R), \A j \in 1 .. n : M[j].thr = L[j].thr
    PROVE  SearchedTo(M, n, last, R)
<1>1. /\ Len(L) \in Nat /\ DOMAIN L = 1 .. Len(L)
      /\ Len(M) \in Nat /\ DOMAIN M = 1 .. Len(M) /\ n \in 0 .. Len(L) /\ n \in Nat
  BY SetFields DEF SearchedTo
<1>2. ASSUME NEW i \in 1 .. n PROVE i \in Points(L) <=> i \in Points(M)
  <2>1. i \in DOMAIN L /\ i \in DOMAIN M /\ 1 .. i - 1 \subseteq 1 .. n
    BY <1>1
  <2> QED
    BY <2>1 DEF Points
<1>3. R \subseteq Points(M) /\ \A j \in 1 .. n : j \in Points(M) => j \in R
  BY <1>2 DEF SearchedTo
<1>4. last # 0 => last \in 1 .. n
  BY DEF SearchedTo
<1> QED
  BY <1>3, <1>4 DEF SearchedTo

LEMMA SearchedPast ==
    ASSUME NEW D, NEW L, ListOK(D, L), NEW n \in Nat, n + 1 <= Len(L), NEW last, NEW R,
           SearchedTo(L, n, last, R), ~Newer(L, last, n + 1)
    PROVE  SearchedTo(L, n + 1, last, R)
<1>1. /\ Len(L) \in Nat /\ DOMAIN L = 1 .. Len(L)
      /\ \A j \in 1 .. Len(L) : L[j].thr \in Fractions
  BY SetFields
<1>2. n + 1 \in 1 .. Len(L) /\ L[n + 1].thr.fire \in Nat
  BY <1>1 DEF Fractions
<1>3. last # 0 => last \in 1 .. n /\ last \in R
  BY DEF SearchedTo
<1>4. n + 1 \notin Points(L)
  <2> SUFFICES ASSUME n + 1 \in Points(L) PROVE Newer(L, last, n + 1)
    OBVIOUS
  <2>1. /\ L[n + 1].thr.fire > 0
        /\ \A j \in 1 .. n : Less(L[j].thr, L[n + 1].thr)
    BY <1>2 DEF Points
  <2> QED
    BY <1>3, <2>1 DEF Newer
<1>5. \A j \in 1 .. n + 1 : j \in 1 .. n \/ j = n + 1
  OBVIOUS
<1>6. /\ last = 0 => L[n + 1].thr.fire = 0
      /\ last # 0 => ~Less(L[last].thr, L[n + 1].thr)
  BY <1>2 DEF Newer
<1>7. R \subseteq 1 .. n + 1 /\ \A j \in 1 .. n + 1 : j \in Points(L) => j \in R
  BY <1>4, <1>5 DEF SearchedTo
<1> QED
  BY <1>1, <1>5, <1>6, <1>7 DEF SearchedTo

LEMMA SearchedNew ==
    ASSUME NEW D, NEW L, ListOK(D, L), NEW n \in Nat, n + 1 <= Len(L), NEW last, NEW R,
           SearchedTo(L, n, last, R), Newer(L, last, n + 1)
    PROVE  SearchedTo(L, n + 1, n + 1, R \cup {n + 1})
<1>1. /\ Len(L) \in Nat /\ DOMAIN L = 1 .. Len(L)
      /\ \A j \in 1 .. Len(L) : L[j].thr \in Fractions
  BY SetFields
<1>2. /\ n + 1 \in 1 .. Len(L) /\ 1 .. n \subseteq 1 .. Len(L)
      /\ \A j \in 1 .. n + 1 : j \in 1 .. n \/ j = n + 1
      /\ (n + 1) - 1 = n
  BY <1>1
<1>3. last # 0 => last \in 1 .. n
  BY DEF SearchedTo
<1> DEFINE new == L[n + 1].thr
<1>4. new \in Fractions /\ ~Less(new, new)
  BY <1>1, <1>2, LessIsOrder
<1>5. ASSUME NEW j \in 1 .. n PROVE Less(L[j].thr, new) /\ ~Less(new, L[j].thr)
  <2>1. L[j].thr \in Fractions
    BY <1>1, <1>2
  <2>2. CASE last = 0
    <3>1. L[j].thr.fire = 0 /\ new.fire > 0
      BY <2>2 DEF SearchedTo, Newer
    <3>2. Less(L[j].thr, new)
      <4>1. /\ L[j].thr.time \in Nat /\ L[j].thr.time > 0 /\ new.time \in Nat /\ new.fire \in Nat
        BY <1>4, <2>1, <3>1 DEF Fractions
      <4>2. new.fire * L[j].thr.time > 0
        BY <3>1, <4>1, PositiveProduct
      <4>3. 0 * new.time = 0
        BY <4>1
      <4> HIDE DEF new
      <4> QED
        BY <3>1, <4>2, <4>3 DEF Less
    <3> HIDE DEF new
    <3> QED
      BY <1>4, <2>1, <3>2, LessIsOrder
  <2>3. CASE last # 0
    <3>1. L[last].thr \in Fractions
      BY <1>1, <1>2, <1>3, <2>3
    <3>2. ~Less(L[last].thr, L[j].thr) /\ Less(L[last].thr, new)
      BY <2>3 DEF SearchedTo, Newer
    <3> HIDE DEF new
    <3> QED
      BY <1>4, <2>1, <3>1, <3>2, LessIsOrder
  <2> QED
    BY <2>2, <2>3
<1>6. new.fire # 0
  <2>1. CASE last = 0
    BY <1>4, <2>1 DEF Newer, Fractions
  <2>2. CASE last # 0
    <3>1. Less(L[last].thr, new) /\ L[last].thr \in Fractions
      BY <1>1, <1>2, <1>3, <2>2 DEF Newer
    <3>2. /\ L[last].thr.fire \in Nat /\ L[last].thr.time \in Nat /\ new.fire \in Nat /\ new.time \in Nat
      BY <1>4, <3>1 DEF Fractions
    <3> HIDE DEF new
    <3>3. L[last].thr.fire * new.time \in Nat /\ 0 * L[last].thr.time = 0
      BY <3>2, ProductOrder
    <3> QED
      BY <3>1, <3>3 DEF Less
  <2> QED
    BY <2>1, <2>2
<1>7. n + 1 \in Points(L)
  BY <1>1, <1>2, <1>5, <1>6 DEF Points
<1>8. /\ R \cup {n + 1} \subseteq Points(L) /\ R \cup {n + 1} \subseteq 1 .. n + 1
      /\ \A j \in 1 .. n + 1 : j \in Points(L) => j \in R \cup {n + 1}
  BY <1>2, <1>7 DEF SearchedTo
<1>9. n + 1 # 0 /\ \A j \in 1 .. n + 1 : ~Less(new, L[j].thr)
  BY <1>2, <1>4, <1>5
<1>10. n + 1 \in 0 .. Len(L)
  BY <1>1
<1> QED
  BY <1>8, <1>9, <1>10 DEF SearchedTo

-----------------------------------------------------------------------------
(* The execution of a distribution, as part of the search                  *)

(* A period has a positive number of iterations: the sum starts at a state *)
(* that is stored.                                                         *)
SumInv ==
    /\ phase = "begin" => mode = "exec"
    /\ mode # "exec" => iter <= Len(stored) \/ thr.fire > 0
    /\ phase = "done" => thr \in Fractions

LEMMA SumNext == Safe /\ SumInv /\ Next => SumInv'
<1> SUFFICES ASSUME Safe, SumInv, Next PROVE SumInv'
  OBVIOUS
<1>1. /\ iter \in Nat /\ stored \in Seq(State(g)) /\ Len(stored) \in Nat
      /\ thr \in [fire : Nat, time : Nat] /\ thr.fire \in Nat
  BY DEF Safe, ExecutionTypes
<1>2. CASE InitialTokensDoNotFit
  BY <1>2 DEF InitialTokensDoNotFit, Fractions, SumInv, Safe
<1>3. CASE PlaceInitialTokens
  BY <1>3 DEF PlaceInitialTokens, result, SumInv
<1>4. ASSUME NEW a \in Actors(g), EndFiring(a) \/ PeriodicIteration(a) \/ PeriodicState(a) \/ StartFiring(a)
      PROVE  SumInv'
  BY <1>4 DEF EndFiring, PeriodicIteration, PeriodicState, StartFiring, FirstToEnd, result, SumInv
<1>5. ASSUME NEW a \in Actors(g), StoreAndEndFiring(a) PROVE SumInv'
  BY <1>5 DEF StoreAndEndFiring, FirstToEnd, result, SumInv
<1>6. ASSUME NEW a \in Actors(g), RecurrentState(a) PROVE SumInv'
  <2>1. iter' \in DOMAIN stored /\ stored' = stored /\ phase' = "end"
    BY <1>6 DEF RecurrentState, FirstToEnd
  <2>2. iter' <= Len(stored')
    BY <1>1, <2>1
  <2> QED
    BY <2>1, <2>2 DEF SumInv
<1>7. CASE EndsDone
  BY <1>7 DEF EndsDone, result, SumInv
<1>8. CASE ClockStep
  BY <1>8 DEF ClockStep, result, SumInv
<1>9. CASE Deadlock
  BY <1>9 DEF Deadlock, Fractions, SumInv
<1>10. CASE AddState
  <2>1. thr'.fire = thr.fire + 1 /\ phase' = "sum"
    BY <1>10 DEF AddState
  <2> QED
    BY <1>1, <2>1 DEF SumInv
<1>11. CASE ReturnThroughput
  <2>1. mode # "exec" /\ iter > Len(stored) /\ thr' = thr /\ phase' = "done"
    BY <1>11 DEF ReturnThroughput, result, Safe
  <2>2. thr.fire > 0
    BY <1>1, <2>1 DEF SumInv
  <2> QED
    BY <1>1, <2>1, <2>2 DEF SumInv, Fractions
<1> QED
  BY <1>2, <1>3, <1>4, <1>5, <1>6, <1>7, <1>8, <1>9, <1>10, <1>11 DEF Next

(* What holds of the execution and of the constants of a search            *)
ExecInv ==
    /\ Safe
    /\ SumInv
    /\ initOutputActor
    /\ maxThroughput = MaxThroughput(g)

(* Where in the list the search is                                         *)
Positioned(L, i, j, p, s) ==
    /\ i \in Nat /\ i >= 1
    /\ p \in {"explore", "exec", "explored", "stop", "done"}
    /\ p \in {"explore", "exec"} => /\ i \in 1 .. Len(L)
                                    /\ j \in DOMAIN L[i].distributions
                                    /\ i = 1 => L[1].thr = Zero
    /\ p = "exec" => s = L[i].distributions[j].sp
    /\ p = "explored" => i \in 1 .. Len(L) /\ j = 1
    /\ p = "stop" => i <= Len(L) + 1 /\ j = 1

(* What a search for one set after the other has returned of it            *)
Reported(L, i, p, api, last, R, m) ==
    api = "next" =>
        /\ p # "done" => SearchedTo(L, i - 1, last, R)
        /\ p = "stop" /\ i <= Len(L) => Newer(L, last, i)
        /\ p = "done" => /\ R \subseteq Points(L)
                         /\ \A k \in Points(L) : Less(L[k].thr, m) => k \in R

ListInv ==
    /\ ListOK(Channels(g), minStorageDistributions)
    /\ Unexplored(minStorageDistributions, ds)
    /\ Positioned(minStorageDistributions, ds, d, pc, size)
    /\ Reported(minStorageDistributions, ds, pc, search.api, lastExplored, returned, maxThroughput)

LEMMA ExecInit ==
    ASSUME SearchInit
    PROVE  ExecInv
<1>1. g \in Graphs /\ IsSDFGraph(g)
  BY StorageGraphs DEF SearchInit
<1>2. size \in [Channels(g) -> Nat]
  <2>1. size = minSz
    BY DEF SearchInit
  <2>2. \A k \in Channels(g) : minSz[k] \in Nat
    BY <1>1, StepType
  <2>3. minSz = [k \in Channels(g) |-> minSz[k]]
    BY DEF minSz
  <2> QED
    BY <2>1, <2>2, <2>3
<1>3. initOutputActor /\ Cleared /\ maxThroughput = MaxThroughput(g)
  BY DEF SearchInit
<1>4. Safe
  BY <1>1, <1>2, <1>3, ClearedSafe
<1>5. SumInv
  BY <1>3 DEF Cleared, SumInv
<1> QED
  BY <1>3, <1>4, <1>5 DEF ExecInv

LEMMA ListInit ==
    ASSUME SearchInit
    PROVE  ListInv
<1> DEFINE D == Channels(g)
           L == minStorageDistributions
           s == minSz
           sz == lbDistributionSz
<1>1. IsSDFGraph(g) /\ IsFiniteSet(D)
  BY ExecInit, StorageGraphs, FiniteChannels DEF SearchInit
<1>2. s \in [D -> Nat]
  <2>1. \A k \in D : s[k] \in Nat
    BY <1>1, StepType
  <2>2. s = [k \in D |-> s[k]]
    BY <1>1 DEF minSz
  <2> HIDE DEF s, D
  <2> QED
    BY <2>1, <2>2
<1>3. sz = TotalOf(D, s)
  BY <1>1 DEF lbDistributionSz, TotalOf
<1>4. L = <<NewSet(sz, s)>> /\ ds = 1 /\ d = 1 /\ lastExplored = 0 /\ returned = {} /\ pc = "explore"
  BY DEF SearchInit
<1> HIDE DEF s, sz, D
<1>5. sz \in Nat
  BY <1>1, <1>2, <1>3, TotalType
<1> DEFINE e == NewSet(sz, s)
<1>6. e \in RightSets(D)
  BY <1>2, <1>3, <1>5, NewRight
<1>7. e.thr = Zero /\ e.distributions = <<NewDistribution(s)>> /\ DOMAIN e.distributions = 1 .. 1
      /\ Len(e.distributions) = 1
  BY DEF NewSet
<1>8. L = <<e>>
  BY <1>4
<1> HIDE DEF e, L
<1>9. L \in Seq(RightSets(D)) /\ Len(L) = 1 /\ DOMAIN L = 1 .. 1 /\ L[1] = e
  BY <1>6, <1>8
<1>10. ListOK(D, L)
  <2>1. L # <<>>
    BY <1>9
  <2>2. Len(L[1].distributions) = 1
    BY <1>7, <1>9, Zenon
  <2>3. \A j, k \in DOMAIN L : ~(j < k)
    BY <1>9
  <2> QED
    BY <1>9, <2>1, <2>2, <2>3 DEF ListOK, Ascending
<1>11. Unexplored(L, ds)
  BY <1>4, <1>9 DEF Unexplored
<1>12. Positioned(L, ds, d, pc, size)
  BY <1>4, <1>7, <1>9 DEF Positioned
<1>13. SearchedTo(L, 0, 0, {})
  BY <1>9 DEF SearchedTo
<1>14. Reported(L, ds, pc, search.api, lastExplored, returned, maxThroughput)
  BY <1>4, <1>13 DEF Reported
<1> QED
  BY <1>10, <1>11, <1>12, <1>14 DEF ListInv, L, D

LEMMA ExecNext ==
    ASSUME ExecInv, ListInv, [SearchNext]_searchVars
    PROVE  ExecInv'
<1>1. CASE StartExec
  <2>1. /\ pc = "explore"
        /\ size' = minStorageDistributions[ds].distributions[d].sp
        /\ g' = g /\ outputActor' = outputActor /\ outputActorRepCnt' = outputActorRepCnt
        /\ maxThroughput' = maxThroughput
    BY <1>1 DEF StartExec, Set
  <2>2. g \in Graphs
    BY DEF ExecInv, Safe, ExecutionTypes
  <2>3. size' \in [Channels(g) -> Nat]
    <3> DEFINE D == Channels(g)
               L == minStorageDistributions
    <3>1. ListOK(D, L) /\ ds \in 1 .. Len(L) /\ d \in DOMAIN L[ds].distributions
      BY <2>1 DEF ListInv, Positioned
    <3>2. L[ds].distributions \in Seq(Distribution(D))
      BY <3>1, SetFields
    <3>3. L[ds].distributions[d] \in Distribution(D)
      BY <3>1, <3>2, ElementType
    <3> QED
      BY <2>1, <3>3 DEF Distribution
  <2>4. initOutputActor'
    BY <2>1 DEF ExecInv, initOutputActor
  <2>5. Cleared'
    BY <1>1 DEF StartExec, Cleared, Current
  <2>6. (g \in Graphs)' /\ (size \in [Channels(g) -> Nat])'
    BY <2>1, <2>2, <2>3
  <2>7. Safe'
    BY <2>4, <2>5, <2>6, ClearedSafe, PTL
  <2>8. SumInv'
    BY <2>5 DEF Cleared, SumInv
  <2> QED
    BY <2>1, <2>4, <2>7, <2>8 DEF ExecInv
<1>2. CASE Exec
  <2>1. Next
    BY <1>2 DEF Exec
  <2>2. Safe' /\ SumInv'
    BY <2>1, NextSafe, SumNext DEF ExecInv
  <2>3. graph' = graph
    BY <2>1, GraphStays
  <2>4. maxThroughput' = maxThroughput
    BY <1>2 DEF Exec, dse
  <2> QED
    BY <2>2, <2>3, <2>4 DEF ExecInv, graph, initOutputActor
<1>3. CASE UNCHANGED <<vars, maxThroughput>>
  BY <1>3 DEF vars, graph, current, result, ExecInv, Safe, ExecutionTypes, FiringsInOrder, Current, SumInv, initOutputActor
<1>4. CASE \/ exploreStorageDistribution \/ NextSet \/ Stop \/ ReturnAll
           \/ ReturnNext \/ ReturnNull \/ UNCHANGED searchVars
  <2>1. UNCHANGED <<vars, maxThroughput>>
    BY <1>4 DEF exploreStorageDistribution, NextSet, Stop, ReturnAll,
       ReturnNext, ReturnNull, searchVars, dse
  <2> QED
    BY <1>3, <2>1
<1> QED
  BY <1>1, <1>2, <1>4 DEF SearchNext

LEMMA SameBelow ==
    ASSUME NEW D, NEW L, ListOK(D, L), NEW i \in 1 .. Len(L), NEW M, ListOK(D, M), Len(L) <= Len(M),
           \A j \in 1 .. Len(L) : j < i => M[j] = L[j],
           NEW last, NEW R, SearchedTo(L, i - 1, last, R)
    PROVE  SearchedTo(M, i - 1, last, R)
<1>1. Len(L) \in Nat /\ Len(M) \in Nat
  BY SetFields
<1>2. i - 1 \in 0 .. Len(M) /\ \A j \in 1 .. i - 1 : M[j].thr = L[j].thr
  BY <1>1
<1> QED
  BY <1>2, SearchedSame

(* The list after a distribution has been executed                         *)
ExecutedList == WithThroughput(minStorageDistributions, ds, d, thr)

EnlargedList == FoldLeft(Enlarge, ExecutedList, [k \in Channels(g) |-> k])

LEMMA ExploreStep ==
    ASSUME exploreStorageDistribution
    PROVE  /\ pc = "exec" /\ phase = "done"
           /\ \/ /\ d < Len(Set.distributions)
                 /\ minStorageDistributions' = EnlargedList
                 /\ d' = d + 1 /\ pc' = "explore"
              \/ /\ ~(d < Len(Set.distributions))
                 /\ minStorageDistributions' = minimizeStorageDistributionsSet(EnlargedList, ds)
                 /\ d' = 1 /\ pc' = "explored"
           /\ UNCHANGED <<vars, search, maxThroughput, ds, lastExplored, returned>>
BY Zenon DEF exploreStorageDistribution, EnlargedList, ExecutedList, WithThroughput, Enlarge

LEMMA ExploreKeeps ==
    ASSUME ExecInv, ListInv, exploreStorageDistribution
    PROVE  ListInv'
<1> DEFINE D == Channels(g)
           L == minStorageDistributions
           E == ExecutedList
           M == EnlargedList
<1>1. /\ pc = "exec" /\ phase = "done"
      /\ ds' = ds /\ g' = g /\ size' = size /\ lastExplored' = lastExplored /\ returned' = returned
      /\ search' = search
  BY ExploreStep DEF vars, graph
<1>2. /\ IsSDFGraph(g) /\ thr \in Fractions
  BY <1>1, GraphType DEF ExecInv, Safe, SumInv
<1>3. /\ ListOK(D, L) /\ Unexplored(L, ds)
      /\ ds \in 1 .. Len(L) /\ d \in DOMAIN L[ds].distributions
      /\ ds = 1 => L[1].thr = Zero
      /\ size = L[ds].distributions[d].sp
      /\ search.api = "next" => SearchedTo(L, ds - 1, lastExplored, returned)
  BY <1>1 DEF ListInv, Positioned, Reported
<1>4. /\ Len(L) \in Nat /\ DOMAIN L = 1 .. Len(L) /\ L[ds] \in RightSets(D)
      /\ L[ds].distributions \in Seq(Distribution(D)) /\ L[ds].thr \in Fractions
  BY <1>3, SetFields
<1>5. size \in [D -> Nat] /\ TotalOf(D, size) = L[ds].sz
  <2>1. L[ds].distributions[d] \in Distribution(D)
    BY <1>3, <1>4, ElementType
  <2> QED
    BY <1>3, <1>4, <2>1 DEF Distribution, RightSets, OfOneSize
<1>6. /\ ChangedAt(D, L, ds, E)
      /\ Len(E[ds].distributions) = Len(L[ds].distributions)
      /\ E[ds].distributions[d].thr = thr
      /\ E[ds].thr = IF Less(L[ds].thr, thr) THEN thr ELSE L[ds].thr
  <2> HIDE DEF L, D
  <2>1. ExecutedAt(D, L, ds, d, thr, E)
    BY <1>2, <1>3, Executed DEF ExecutedList, L
  <2> QED
    BY <2>1 DEF ExecutedAt
<1>7. /\ ListOK(D, E) /\ Len(E) = Len(L) /\ E[ds].sz = L[ds].sz
      /\ \A j \in 1 .. Len(L) : j # ds => E[j] = L[j]
  BY <1>6 DEF ChangedAt
<1>8. DOMAIN E = 1 .. Len(L) /\ Unexplored(E, ds)
  <2>1. DOMAIN E = 1 .. Len(L)
    BY <1>7, SetFields
  <2> HIDE DEF E, L
  <2> QED
    BY <1>3, <1>4, <1>7, <2>1 DEF Unexplored
<1>9. ListOK(D, M) /\ Unexplored(M, ds) /\ SameUpTo(E, M, ds)
  <2>1. M \in Grown(E, ds)
    <3>1. ds \in 1 .. Len(E) /\ Set.sz = E[ds].sz /\ TotalOf(D, size) = E[ds].sz
      BY <1>3, <1>5, <1>7 DEF Set
    <3>2. M = FoldLeft(Enlarge, E, [k \in D |-> k])
      BY DEF EnlargedList
    <3> HIDE DEF E, M
    <3> QED
      BY <1>2, <1>5, <1>7, <1>8, <3>1, <3>2, FoldGrown
  <2> QED
    BY <2>1 DEF Grown
<1> HIDE DEF E, M
<1>10. /\ Len(M) \in Nat /\ DOMAIN M = 1 .. Len(M) /\ Len(L) <= Len(M) /\ ds \in 1 .. Len(M)
       /\ M[ds] = E[ds]
       /\ \A j \in 1 .. Len(L) : j < ds => M[j] = L[j]
  <2>1. Len(M) \in Nat /\ DOMAIN M = 1 .. Len(M)
    BY <1>9, SetFields
  <2> QED
    BY <1>3, <1>4, <1>7, <1>9, <2>1 DEF SameUpTo
<1>11. CASE d < Len(L[ds].distributions)
  <2>1. minStorageDistributions' = M /\ d' = d + 1 /\ pc' = "explore"
    BY <1>11, ExploreStep DEF M, Set
  <2>2. ds # 1 /\ d + 1 \in DOMAIN M[ds].distributions
    <3>1. Len(M[ds].distributions) = Len(L[ds].distributions) /\ M[ds].distributions \in Seq(Distribution(D))
      BY <1>6, <1>9, <1>10, SetFields
    <3>2. d \in 1 .. Len(L[ds].distributions) /\ Len(L[ds].distributions) \in Nat
      BY <1>3, <1>4
    <3>3. ds = 1 => Len(L[ds].distributions) = 1
      BY <1>3 DEF ListOK
    <3>4. d + 1 \in 1 .. Len(L[ds].distributions)
      BY <1>11, <3>2
    <3>5. DOMAIN M[ds].distributions = 1 .. Len(L[ds].distributions)
      BY <3>1
    <3>6. ASSUME ds = 1 PROVE FALSE
      <4>1. Len(L[ds].distributions) = 1
        BY <3>3, <3>6
      <4> HIDE DEF L
      <4> QED
        BY <1>11, <3>2, <4>1
    <3> QED
      BY <3>4, <3>5, <3>6
  <2>3. Positioned(M, ds, d + 1, "explore", size)
    BY <1>3, <1>4, <1>10, <2>2 DEF Positioned
  <2>4. search.api = "next" => SearchedTo(M, ds - 1, lastExplored, returned)
    BY <1>3, <1>9, <1>10, SameBelow
  <2>5. Reported(M, ds, "explore", search.api, lastExplored, returned, maxThroughput')
    BY <2>4 DEF Reported
  <2> QED
    BY <1>1, <1>9, <2>1, <2>3, <2>5 DEF ListInv
<1>12. CASE ~(d < Len(L[ds].distributions))
  <2> DEFINE N == minimizeStorageDistributionsSet(M, ds)
  <2>1. minStorageDistributions' = N /\ d' = 1 /\ pc' = "explored"
    BY <1>12, ExploreStep DEF M, Set
  <2>2. ds = 1 => ~Less(M[ds].distributions[1].thr, M[ds].thr)
    <3> SUFFICES ASSUME ds = 1 PROVE ~Less(E[ds].distributions[1].thr, E[ds].thr)
      BY <1>10
    <3>1. d = 1
      BY <1>3, <1>4 DEF ListOK
    <3>2. CASE Less(L[ds].thr, thr)
      BY <1>2, <1>6, <3>1, <3>2, LessIsOrder
    <3>3. CASE ~Less(L[ds].thr, thr)
      <4>1. E[ds].thr = Zero /\ E[ds].distributions[1].thr = thr /\ ~Less(Zero, thr)
        BY <1>3, <1>6, <3>1, <3>3
      <4>2. thr.fire \in Nat /\ thr.time \in Nat
        BY <1>2 DEF Fractions
      <4>3. ~Less(thr, Zero)
        BY <4>1, <4>2 DEF Less, Zero
      <4> QED
        BY <4>1, <4>3
    <3> QED
      BY <3>2, <3>3
  <2>3. ChangedAt(D, M, ds, N)
    BY <1>9, <1>10, <2>2, Minimized
  <2> HIDE DEF N
  <2>4. /\ ListOK(D, N) /\ Len(N) = Len(M) /\ \A j \in 1 .. Len(M) : j # ds => N[j] = M[j]
    BY <2>3 DEF ChangedAt
  <2>5. Unexplored(N, ds)
    <3>1. DOMAIN N = 1 .. Len(M)
      BY <2>4, SetFields
    <3> QED
      BY <1>9, <1>10, <2>4, <3>1 DEF Unexplored
  <2>6. Positioned(N, ds, 1, "explored", size)
    BY <1>10, <2>4 DEF Positioned
  <2>7. search.api = "next" => SearchedTo(N, ds - 1, lastExplored, returned)
    <3>1. Len(L) <= Len(N) /\ \A j \in 1 .. Len(L) : j < ds => N[j] = L[j]
      BY <1>3, <1>4, <1>10, <2>4
    <3> QED
      BY <1>3, <2>4, <3>1, SameBelow
  <2>8. Reported(N, ds, "explored", search.api, lastExplored, returned, maxThroughput')
    BY <2>7 DEF Reported
  <2> QED
    BY <1>1, <2>1, <2>4, <2>5, <2>6, <2>8 DEF ListInv
<1> QED
  BY <1>11, <1>12

LEMMA StartKeepsList ==
    ASSUME ListInv, StartExec
    PROVE  ListInv'
<1>1. /\ pc = "explore" /\ pc' = "exec"
      /\ size' = minStorageDistributions[ds].distributions[d].sp
      /\ g' = g /\ minStorageDistributions' = minStorageDistributions /\ ds' = ds /\ d' = d
      /\ search' = search /\ lastExplored' = lastExplored /\ returned' = returned
  BY DEF StartExec, Set
<1>2. Positioned(minStorageDistributions, ds, d, "exec", size')
  BY <1>1 DEF ListInv, Positioned
<1>3. Reported(minStorageDistributions, ds, "exec", search.api, lastExplored, returned, maxThroughput')
  BY <1>1 DEF ListInv, Reported
<1> QED
  BY <1>1, <1>2, <1>3 DEF ListInv

LEMMA ExecKeepsList ==
    ASSUME ListInv, Exec
    PROVE  ListInv'
<1>1. graph' = graph
  BY GraphStays DEF Exec
<1> QED
  BY <1>1 DEF graph, Exec, dse, ListInv

LEMMA NextSetKeeps ==
    ASSUME ListInv, NextSet
    PROVE  ListInv'
<1> DEFINE D == Channels(g)
           L == minStorageDistributions
<1>1. /\ pc = "explored" /\ ~Ends /\ d' = d
      /\ g' = g /\ size' = size /\ search' = search /\ lastExplored' = lastExplored
      /\ returned' = returned /\ maxThroughput' = maxThroughput
  BY DEF NextSet, vars, graph
<1>2. /\ ListOK(D, L) /\ Unexplored(L, ds) /\ ds \in 1 .. Len(L) /\ d = 1
      /\ search.api = "next" => SearchedTo(L, ds - 1, lastExplored, returned)
  BY <1>1 DEF ListInv, Positioned, Reported
<1>3. /\ Len(L) \in Nat /\ DOMAIN L = 1 .. Len(L)
      /\ \A j \in 1 .. Len(L) : L[j].distributions \in Seq(Distribution(D))
  BY <1>2, SetFields
<1>4. CASE L[ds].distributions = <<>>
  <2> DEFINE M == RemoveAt(L, ds)
  <2>1. /\ minStorageDistributions' = M /\ ds' = ds
        /\ pc' = IF ds > Len(M) THEN "stop" ELSE "explore"
    BY <1>4 DEF NextSet, Set, NextPosition
  <2>2. ds # 1
    <3>1. Len(L[1].distributions) = 1
      BY <1>2 DEF ListOK
    <3> QED
      BY <1>4, <3>1
  <2>3. /\ ListOK(D, M) /\ Len(M) = Len(L) - 1
        /\ \A j \in 1 .. Len(M) : M[j] = IF j < ds THEN L[j] ELSE L[j + 1]
    <3>1. M = RemoveAt(L, ds)
      OBVIOUS
    <3> HIDE DEF M, L, D
    <3> QED
      BY <1>2, <2>2, <3>1, Dropped
  <2> HIDE DEF M
  <2>4. DOMAIN M = 1 .. Len(M) /\ Len(M) \in Nat
    BY <2>3, SetFields
  <2>5. ASSUME NEW j \in 1 .. Len(M), ds <= j PROVE M[j].thr = Zero /\ M[j].distributions # <<>>
    <3>1. M[j] = L[j + 1] /\ j + 1 \in DOMAIN L /\ ds < j + 1
      BY <1>2, <1>3, <2>3, <2>5
    <3> QED
      BY <1>2, <3>1 DEF Unexplored
  <2>6. Unexplored(M, ds)
    BY <1>2, <2>4, <2>5 DEF Unexplored
  <2>7. search.api = "next" => SearchedTo(M, ds - 1, lastExplored, returned)
    <3>1. ds - 1 \in 0 .. Len(M) /\ \A j \in 1 .. ds - 1 : M[j].thr = L[j].thr
      BY <1>2, <1>3, <2>3
    <3> QED
      BY <1>2, <2>3, <3>1, SearchedSame
  <2>8. CASE ds > Len(M)
    <3>1. pc' = "stop" /\ ds <= Len(M) + 1
      BY <1>2, <1>3, <2>1, <2>3, <2>8
    <3>2. Positioned(M, ds, d, "stop", size)
      BY <1>2, <3>1 DEF Positioned
    <3>3. Reported(M, ds, "stop", search.api, lastExplored, returned, maxThroughput)
      BY <1>2, <2>4, <2>7, <2>8 DEF Reported
    <3> QED
      BY <1>1, <2>1, <2>3, <2>6, <3>1, <3>2, <3>3 DEF ListInv
  <2>9. CASE ~(ds > Len(M))
    <3>1. ds \in 1 .. Len(M) /\ M[ds].distributions # <<>>
      BY <1>2, <2>4, <2>5, <2>9
    <3>2. M[ds].distributions \in Seq(Distribution(D))
      BY <2>3, <3>1, SetFields
    <3>3. d \in DOMAIN M[ds].distributions
      BY <1>2, <3>1, <3>2
    <3>4. Positioned(M, ds, d, "explore", size)
      BY <2>2, <3>1, <3>3 DEF Positioned
    <3>5. Reported(M, ds, "explore", search.api, lastExplored, returned, maxThroughput)
      BY <2>7 DEF Reported
    <3> QED
      BY <1>1, <2>1, <2>3, <2>6, <2>9, <3>4, <3>5 DEF ListInv
  <2> QED
    BY <2>8, <2>9
<1>5. CASE L[ds].distributions # <<>>
  <2>1. /\ L' = L /\ ds' = ds + 1
        /\ pc' = IF ds + 1 > Len(L) THEN "stop" ELSE "explore"
    BY <1>5 DEF NextSet, Set, NextPosition
  <2>2. Unexplored(L, ds + 1)
    BY <1>2, <1>3 DEF Unexplored
  <2>3. search.api = "next" => SearchedTo(L, (ds + 1) - 1, lastExplored, returned)
    <3> SUFFICES ASSUME search.api = "next" PROVE SearchedTo(L, (ds + 1) - 1, lastExplored, returned)
      OBVIOUS
    <3>1. ~Newer(L, lastExplored, ds)
      BY <1>1 DEF Ends, NewPoint, Set, Newer
    <3> DEFINE n == ds - 1
    <3>2. n \in Nat /\ n + 1 <= Len(L) /\ n + 1 = ds /\ (ds + 1) - 1 = n + 1
      BY <1>2, <1>3
    <3> HIDE DEF n
    <3>3. SearchedTo(L, n, lastExplored, returned)
      BY <1>2 DEF n
    <3>4. SearchedTo(L, n + 1, lastExplored, returned)
      BY <1>2, <3>1, <3>2, <3>3, SearchedPast
    <3> QED
      BY <3>2, <3>4
  <2>4. CASE ds + 1 > Len(L)
    <3>1. pc' = "stop"
      BY <2>1, <2>4
    <3>2. Positioned(L, ds + 1, d, "stop", size)
      BY <1>2, <1>3 DEF Positioned
    <3>3. Reported(L, ds + 1, "stop", search.api, lastExplored, returned, maxThroughput)
      BY <1>2, <1>3, <2>3, <2>4 DEF Reported
    <3> QED
      BY <1>1, <1>2, <2>1, <2>2, <3>1, <3>2, <3>3 DEF ListInv
  <2>5. CASE ~(ds + 1 > Len(L))
    <3>1. pc' = "explore" /\ ds + 1 \in 1 .. Len(L) /\ ds + 1 # 1
      BY <1>2, <1>3, <2>1, <2>5
    <3>2. L[ds + 1].distributions # <<>> /\ L[ds + 1].distributions \in Seq(Distribution(D))
      BY <1>2, <1>3, <3>1 DEF Unexplored
    <3>3. d \in DOMAIN L[ds + 1].distributions
      BY <1>2, <3>2
    <3>4. Positioned(L, ds + 1, d, "explore", size)
      BY <1>2, <3>1, <3>3 DEF Positioned
    <3>5. Reported(L, ds + 1, "explore", search.api, lastExplored, returned, maxThroughput)
      BY <2>3 DEF Reported
    <3> QED
      BY <1>1, <1>2, <2>1, <2>2, <3>1, <3>4, <3>5 DEF ListInv
  <2> QED
    BY <2>4, <2>5
<1> QED
  BY <1>4, <1>5

LEMMA StopKeeps ==
    ASSUME ListInv, Stop
    PROVE  ListInv'
<1> DEFINE L == minStorageDistributions
<1>1. /\ pc = "explored" /\ pc' = "stop" /\ Ends
      /\ UNCHANGED <<g, size, minStorageDistributions, ds, d, search, lastExplored, returned, maxThroughput>>
  BY DEF Stop, vars, graph
<1>2. /\ ds \in 1 .. Len(L) /\ d = 1 /\ Len(L) \in Nat
      /\ search.api = "next" => SearchedTo(L, ds - 1, lastExplored, returned)
  BY <1>1, SetFields DEF ListInv, Positioned, Reported
<1>3. Positioned(L, ds, d, "stop", size)
  BY <1>2 DEF Positioned
<1>4. search.api = "next" => Newer(L, lastExplored, ds)
  BY <1>1 DEF Ends, NewPoint, Set, Newer
<1>5. Reported(L, ds, "stop", search.api, lastExplored, returned, maxThroughput)
  BY <1>2, <1>4 DEF Reported
<1> QED
  BY <1>1, <1>3, <1>5 DEF ListInv

LEMMA ExploredIs ==
    ASSUME IsSDFGraph(g), ListOK(Channels(g), minStorageDistributions), ds \in Nat, ds >= 1,
           NEW M, M = Zeroed(Explored)
    PROVE  /\ ListOK(Channels(g), M) /\ Unexplored(M, ds)
           /\ Len(M) = IF ds > Len(minStorageDistributions) THEN Len(minStorageDistributions) ELSE ds
           /\ \A j \in 1 .. Len(M) : M[j].thr = minStorageDistributions[j].thr
<1> DEFINE D == Channels(g)
           L == minStorageDistributions
           K == Explored
<1>1. Len(L) \in Nat
  BY SetFields
<1>2. /\ ListOK(D, K) /\ Len(K) = (IF ds > Len(L) THEN Len(L) ELSE ds)
      /\ \A j \in 1 .. Len(K) : K[j] = L[j]
  <2>1. CASE ds > Len(L)
    BY <2>1 DEF Explored
  <2>2. CASE ~(ds > Len(L))
    <3>1. K = SubSeq(L, 1, ds) /\ ds \in 1 .. Len(L)
      BY <1>1, <2>2 DEF Explored
    <3> HIDE DEF K, L, D
    <3>2. ListOK(D, K) /\ Len(K) = ds /\ \A j \in 1 .. ds : K[j] = L[j]
      BY <3>1, Shortened DEF L, D
    <3> QED
      BY <2>2, <3>2
  <2> QED
    BY <2>1, <2>2
<1> HIDE DEF K
<1>3. ListOK(D, M) /\ Len(M) = Len(K) /\ \A j \in 1 .. Len(K) : M[j].thr = K[j].thr
  BY <1>2, ZeroedRight DEF K
<1>4. DOMAIN M = 1 .. Len(M)
  BY <1>3, SetFields
<1>5. Unexplored(M, ds)
  BY <1>1, <1>2, <1>3, <1>4 DEF Unexplored
<1> QED
  BY <1>2, <1>3, <1>5

LEMMA ReturnAllKeeps ==
    ASSUME ExecInv, ListInv, ReturnAll
    PROVE  ListInv'
<1> DEFINE M == Zeroed(Explored)
<1>1. /\ minStorageDistributions' = M /\ pc' = "done" /\ search.api = "analyze"
      /\ UNCHANGED <<g, size, ds, d, search, lastExplored, returned, maxThroughput>>
  BY DEF ReturnAll, vars, graph
<1>2. ListOK(Channels(g), minStorageDistributions) /\ ds \in Nat /\ ds >= 1
  BY DEF ListInv, Positioned
<1>3. ListOK(Channels(g), M) /\ Unexplored(M, ds)
  BY <1>2, GraphType, ExploredIs DEF ExecInv, Safe
<1> HIDE DEF M
<1>4. Positioned(M, ds, d, "done", size)
  BY <1>2 DEF Positioned
<1>5. Reported(M, ds, "done", search.api, lastExplored, returned, maxThroughput)
  BY <1>1 DEF Reported
<1> QED
  BY <1>1, <1>3, <1>4, <1>5 DEF ListInv

LEMMA ReturnNextKeeps ==
    ASSUME ExecInv, ListInv, ReturnNext
    PROVE  ListInv'
<1> DEFINE D == Channels(g)
           L == minStorageDistributions
           M == Zeroed(L)
           R == returned \cup {ds}
<1>1. /\ pc = "stop" /\ search.api = "next" /\ ds <= Len(L) /\ ~CutOff
      /\ L' = M /\ lastExplored' = ds /\ returned' = R
      /\ IF MaxReached THEN pc' = "done" /\ ds' = ds
         ELSE pc' = (IF ds < Len(L) THEN "explore" ELSE "stop") /\ ds' = ds + 1
      /\ UNCHANGED <<g, size, search, maxThroughput, d>>
  BY DEF ReturnNext, vars, graph
<1>2. /\ ListOK(D, L) /\ Unexplored(L, ds) /\ ds \in Nat /\ ds >= 1 /\ d = 1
      /\ SearchedTo(L, ds - 1, lastExplored, returned) /\ Newer(L, lastExplored, ds)
  BY <1>1 DEF ListInv, Positioned, Reported
<1>3. Len(L) \in Nat /\ DOMAIN L = 1 .. Len(L) /\ IsSDFGraph(g)
  BY <1>2, SetFields, GraphType DEF ExecInv, Safe
<1>4. SearchedTo(L, ds, ds, R)
  <2> DEFINE n == ds - 1
  <2>1. n \in Nat /\ n + 1 <= Len(L) /\ n + 1 = ds
    BY <1>1, <1>2, <1>3
  <2> HIDE DEF n
  <2>2. SearchedTo(L, n, lastExplored, returned) /\ Newer(L, lastExplored, n + 1)
    BY <1>2, <2>1 DEF n
  <2>3. SearchedTo(L, n + 1, n + 1, returned \cup {n + 1})
    BY <1>2, <2>1, <2>2, SearchedNew
  <2> QED
    BY <2>1, <2>3
<1>5. /\ ListOK(D, M) /\ Len(M) = Len(L)
      /\ \A j \in 1 .. Len(L) : /\ M[j].thr = L[j].thr
                                /\ j # 1 => M[j] = L[j]
  BY <1>2, <1>3, ZeroedRight
<1> HIDE DEF M, R
<1>6. DOMAIN M = 1 .. Len(L) /\ Unexplored(M, ds)
  <2>1. DOMAIN M = 1 .. Len(L)
    BY <1>5, SetFields
  <2> QED
    BY <1>2, <1>3, <1>5, <2>1 DEF Unexplored
<1>7. SearchedTo(M, ds, ds, R)
  <2>1. ds \in 0 .. Len(M) /\ \A j \in 1 .. ds : M[j].thr = L[j].thr
    BY <1>1, <1>2, <1>3, <1>5
  <2> QED
    BY <1>2, <1>4, <1>5, <2>1, SearchedSame
<1>8. CASE MaxReached
  <2>1. pc' = "done" /\ ds' = ds
    BY <1>1, <1>8
  <2>2. ds = Len(L)
    <3>1. ~(ds < Len(L))
      BY <1>1, <1>8, Zenon DEF CutOff
    <3>2. ds \in Nat /\ ds <= Len(L) /\ Len(L) \in Nat
      BY <1>1, <1>2, <1>3
    <3> HIDE DEF L
    <3> QED
      BY <3>1, <3>2
  <2>3. Positioned(M, ds, d, "done", size)
    BY <1>2 DEF Positioned
  <2>4. R \subseteq Points(M) /\ \A k \in Points(M) : k \in R
    <3>1. Points(M) \subseteq 1 .. ds
      BY <1>6, <2>2 DEF Points
    <3> QED
      BY <1>7, <3>1 DEF SearchedTo
  <2>5. Reported(M, ds, "done", search.api, ds, R, maxThroughput)
    BY <2>4 DEF Reported
  <2> QED
    BY <1>1, <1>5, <1>6, <2>1, <2>3, <2>5 DEF ListInv
<1>9. CASE ~MaxReached
  <2>1. ds' = ds + 1 /\ Unexplored(M, ds + 1) /\ ds + 1 \in Nat /\ ds + 1 > 1
    BY <1>1, <1>2, <1>6, <1>9 DEF Unexplored
  <2>2. SearchedTo(M, (ds + 1) - 1, ds, R)
    <3>1. (ds + 1) - 1 = ds
      BY <1>2
    <3> QED
      BY <1>7, <3>1
  <2>3. CASE ds < Len(L)
    <3>1. pc' = "explore" /\ ds + 1 \in 1 .. Len(M)
      BY <1>1, <1>2, <1>3, <1>5, <1>9, <2>3
    <3>2. M[ds + 1].distributions # <<>> /\ M[ds + 1].distributions \in Seq(Distribution(D))
      <4>1. M[ds + 1].distributions \in Seq(Distribution(D))
        BY <1>5, <3>1, SetFields
      <4>2. ds + 1 \in DOMAIN M /\ ds < ds + 1
        BY <1>2, <1>5, <1>6, <3>1
      <4> QED
        BY <1>6, <4>1, <4>2 DEF Unexplored
    <3>3. d \in DOMAIN M[ds + 1].distributions
      BY <1>2, <3>2
    <3>4. Positioned(M, ds + 1, d, "explore", size)
      BY <2>1, <3>1, <3>3 DEF Positioned
    <3>5. Reported(M, ds + 1, "explore", search.api, ds, R, maxThroughput)
      BY <2>2 DEF Reported
    <3> QED
      BY <1>1, <1>5, <2>1, <3>1, <3>4, <3>5 DEF ListInv
  <2>4. CASE ~(ds < Len(L))
    <3>1. pc' = "stop" /\ ds + 1 <= Len(M) + 1 /\ ~(ds + 1 <= Len(M))
      BY <1>1, <1>2, <1>3, <1>5, <1>9, <2>4
    <3>2. Positioned(M, ds + 1, d, "stop", size)
      BY <1>2, <2>1, <3>1 DEF Positioned
    <3>3. Reported(M, ds + 1, "stop", search.api, ds, R, maxThroughput)
      BY <2>2, <3>1 DEF Reported
    <3> QED
      BY <1>1, <1>5, <2>1, <3>1, <3>2, <3>3 DEF ListInv
  <2> QED
    BY <2>3, <2>4
<1> QED
  BY <1>8, <1>9

LEMMA ReturnNullKeeps ==
    ASSUME ExecInv, ListInv, ReturnNull
    PROVE  ListInv'
<1> DEFINE D == Channels(g)
           L == minStorageDistributions
           M == Zeroed(Explored)
           R == returned
<1>1. /\ pc = "stop" /\ search.api = "next"
      /\ ds > Len(L) \/ CutOff
      /\ L' = M /\ pc' = "done"
      /\ UNCHANGED <<g, size, search, maxThroughput, ds, d, returned>>
  BY DEF ReturnNull, vars, graph
<1>2. /\ ListOK(D, L) /\ ds \in Nat /\ ds >= 1 /\ ds <= Len(L) + 1
      /\ SearchedTo(L, ds - 1, lastExplored, returned)
  BY <1>1 DEF ListInv, Positioned, Reported, ReturnNull
<1>3. Len(L) \in Nat /\ DOMAIN L = 1 .. Len(L) /\ IsSDFGraph(g)
  BY <1>2, SetFields, GraphType DEF ExecInv, Safe
<1>4. /\ ListOK(D, M) /\ Unexplored(M, ds)
      /\ Len(M) = IF ds > Len(L) THEN Len(L) ELSE ds
      /\ \A j \in 1 .. Len(M) : M[j].thr = L[j].thr
  BY <1>2, <1>3, ExploredIs
<1> HIDE DEF M
<1>5. DOMAIN M = 1 .. Len(M)
  BY <1>4, SetFields
<1>6. SearchedTo(M, ds - 1, lastExplored, R)
  <2>1. ds - 1 \in 0 .. Len(M) /\ \A j \in 1 .. ds - 1 : M[j].thr = L[j].thr
    BY <1>2, <1>3, <1>4
  <2> QED
    BY <1>2, <1>4, <2>1, SearchedSame
<1>7. ASSUME ds <= Len(L) PROVE ~Less(M[ds].thr, maxThroughput)
  <2> DEFINE x == M[ds].thr
             m == maxThroughput
  <2>1. Equal(L[ds].thr, m) /\ x = L[ds].thr
    <3>1. ds \in 1 .. Len(M) /\ ~(ds > Len(L))
      BY <1>2, <1>3, <1>4, <1>7
    <3> QED
      BY <1>1, <1>4, <3>1 DEF CutOff, MaxReached, Set, ReturnNull
  <2>2. x \in Fractions
    BY <1>2, <1>3, <1>7, <2>1, SetFields
  <2>3. m \in [fire : Nat, time : Nat]
    BY ThroughputAssumption DEF ExecInv, Safe, ExecutionTypes
  <2>4. Equal(x, m)
    BY <2>1
  <2> HIDE DEF x, m
  <2>5. x.fire \in Nat /\ x.time \in Nat /\ m.fire \in Nat /\ m.time \in Nat
    BY <2>2, <2>3 DEF Fractions
  <2>6. x.fire * m.time \in Nat
    BY <2>5, ProductOrder
  <2>7. x.fire * m.time = m.fire * x.time
    BY <2>4 DEF Equal
  <2>8. ~Less(x, m)
    BY <2>6, <2>7 DEF Less
  <2> QED
    BY <2>8 DEF x, m
<1>8. \A k \in Points(M) : Less(M[k].thr, maxThroughput) => k \in R
  <2> SUFFICES ASSUME NEW k \in Points(M), Less(M[k].thr, maxThroughput) PROVE k \in R
    OBVIOUS
  <2>1. k \in 1 .. Len(M)
    BY <1>5 DEF Points
  <2>2. k # ds
    <3>1. CASE ds <= Len(L)
      BY <1>7, <3>1
    <3>2. CASE ~(ds <= Len(L))
      BY <1>2, <1>3, <1>4, <2>1, <3>2
    <3> QED
      BY <3>1, <3>2
  <2>3. k \in 1 .. ds - 1
    BY <1>2, <1>3, <1>4, <2>1, <2>2
  <2> QED
    BY <1>6, <2>3 DEF SearchedTo
<1>9. R \subseteq Points(M)
  BY <1>6 DEF SearchedTo
<1>10. Reported(M, ds, "done", search.api, lastExplored', R, maxThroughput)
  BY <1>8, <1>9 DEF Reported
<1>11. Positioned(M, ds, d, "done", size)
  BY <1>2 DEF Positioned
<1> QED
  BY <1>1, <1>4, <1>10, <1>11 DEF ListInv

LEMMA ListNext ==
    ASSUME ExecInv, ListInv, [SearchNext]_searchVars
    PROVE  ListInv'
<1>1. CASE UNCHANGED searchVars
  BY <1>1 DEF searchVars, vars, graph, dse, ListInv
<1> QED
  BY <1>1, StartKeepsList, ExecKeepsList, ExploreKeeps, NextSetKeeps, StopKeeps, ReturnAllKeeps,
     ReturnNextKeeps, ReturnNullKeeps DEF SearchNext

LEMMA ListInOrder ==
    ASSUME ExecInv, ListInv
    PROVE  PointsInOrder
<1> DEFINE D == Channels(g)
           L == minStorageDistributions
<1>1. ListOK(D, L)
  BY DEF ListInv
<1>2. DOMAIN L = 1 .. Len(L) /\ \A i \in 1 .. Len(L) : L[i] \in RightSets(D)
  BY <1>1, SetFields
<1>3. \A s : Total(s) = TotalOf(D, s)
  BY <1>1, Zenon DEF Total, TotalOf
<1>4. SetsInOrder
  <2>1. \A i, j \in DOMAIN L : i < j => L[i].sz < L[j].sz
    BY <1>1 DEF ListOK, Ascending
  <2>2. ASSUME NEW i \in DOMAIN L, NEW j \in DOMAIN L[i].distributions
        PROVE  /\ Total(L[i].distributions[j].sp) = L[i].sz
               /\ \A k \in 1 .. j - 1 : L[i].distributions[k].sp # L[i].distributions[j].sp
    BY <1>2, <1>3 DEF RightSets, OfOneSize
  <2> QED
    BY <2>1, <2>2 DEF SetsInOrder, Sets
<1>5. NewPoints = Points(L)
  BY DEF NewPoints, Sets, Points
<1>6. PointsReturned
  BY <1>5 DEF ListInv, Reported, SearchedTo, PointsReturned, Sets
<1> QED
  BY <1>4, <1>6 DEF PointsInOrder

(* The list of sets and what is returned of it, for every set of graphs    *)
(* and every analysis of their throughput.                                 *)
THEOREM SearchInOrder == SearchSpec => []PointsInOrder
<1>1. SearchInit => ExecInv /\ ListInv
  BY ExecInit, ListInit
<1>2. ExecInv /\ ListInv /\ [SearchNext]_searchVars => (ExecInv /\ ListInv)'
  BY ExecNext, ListNext
<1>3. ExecInv /\ ListInv => PointsInOrder
  BY ListInOrder
<1> QED
  BY <1>1, <1>2, <1>3, PTL DEF SearchSpec
=============================================================================
