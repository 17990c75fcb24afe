------------------------------ MODULE SelfTimed ------------------------------
(***************************************************************************)
(* State-space throughput analysis of a timed SDF graph with unbounded     *)
(* channels and auto-concurrency:                                          *)
(* sdf/analysis/throughput/selftimed_throughput.cc, TransitionSystem.      *)
(*                                                                         *)
(* execSDFgraph is one loop of three parts, the phases "end" (end the      *)
(* firings that are due, actor by actor), "start" (start the firings that  *)
(* have their tokens, actor by actor, then the clock step), then "sum"     *)
(* (computeThroughput) and "done" (thr is the value returned).  The code   *)
(* goes through the actors once per part and repeats each as long as it is *)
(* ready; since an end makes no other end ready and a start makes no other *)
(* start ready, this is the order "the lowest actor that is ready".        *)
(*                                                                         *)
(* Two variables are not in the code: now is the time since the start of   *)
(* the execution, of which glbClk keeps the part since the last stored     *)
(* state, and storedAt the times at which the states were stored.          *)
(***************************************************************************)
EXTENDS SDFGraphs

CONSTANTS Graphs,  \* consistent graphs, every actor with an input channel
          RepVec(_)  \* their repetition vectors, computeRepetitionVector

ASSUME GraphsAssumption ==
    \A G \in Graphs : IsSDFGraph(G) /\ G.ex # <<>>

ASSUME RepVecAssumption ==
    \A G \in Graphs : /\ RepVec(G) \in [Actors(G) -> Positive]
                      /\ Balanced(G, RepVec(G))

VARIABLES g,        \* the graph under analysis
          outputActor, outputActorRepCnt,
          ch,       \* currentState.ch: tokens in each channel
          actClk,   \* currentState.actClk: remaining times of active firings
          glbClk,   \* currentState.glbClk
          repCnt,   \* firings of the output actor since the last stored state
          stored,   \* storedStates
          phase,
          recurrent, iter,  \* cycleIter and the iterator of computeThroughput
          thr,      \* nr_fire and time, then the result
          now, storedAt

vars == <<g, outputActor, outputActorRepCnt, ch, actClk, glbClk, repCnt, stored,
          phase, recurrent, iter, thr, now, storedAt>>

result == <<recurrent, iter, thr>>

graph == <<g, outputActor, outputActorRepCnt>>

State(G) == [ch : [Channels(G) -> Nat], actClk : [Actors(G) -> Seq(Nat)], glbClk : Nat]

Current == [ch |-> ch, actClk |-> actClk, glbClk |-> glbClk]

(* The first actor with the least entry in the repetition vector           *)
initOutputActor ==
    LET q == RepVec(g)
    IN  /\ outputActor \in Actors(g)
        /\ \A b \in Actors(g) : \/ q[outputActor] < q[b]
                                \/ q[outputActor] = q[b] /\ outputActor <= b
        /\ outputActorRepCnt = q[outputActor]

Init ==
    /\ g \in Graphs
    /\ initOutputActor
    /\ ch = InitialTokens(g)
    /\ actClk = [a \in Actors(g) |-> <<>>]
    /\ glbClk = 0
    /\ repCnt = 0
    /\ stored = <<>>
    /\ phase = "end"
    /\ recurrent = 0
    /\ iter = 0
    /\ thr = [fire |-> 0, time |-> 0]
    /\ now = 0
    /\ storedAt = <<>>

ReadyToEnd(a) == actClk[a] # <<>> /\ Head(actClk[a]) = 0

(* Faulty variant of endActorFiring: the latest firing is removed.         *)
EndLatest(a) ==
    /\ ch' = Produce(g, ch, a)
    /\ actClk' = [actClk EXCEPT ![a] = SubSeq(@, 1, Len(@) - 1)]

endActorFiring(a) ==
    /\ ch' = Produce(g, ch, a)
    /\ actClk' = [actClk EXCEPT ![a] = Tail(@)]

startActorFiring(a) ==
    /\ ch' = Consume(g, ch, a)
    /\ actClk' = [actClk EXCEPT ![a] = Append(@, g.ex[a])]

FirstToEnd(a) == /\ phase = "end"
                 /\ ReadyToEnd(a)
                 /\ \A b \in Actors(g) : b < a => ~ReadyToEnd(b)

CompletesIteration(a) == a = outputActor /\ repCnt + 1 = outputActorRepCnt

EndFiring(a) ==
    /\ FirstToEnd(a)
    /\ ~CompletesIteration(a)
    /\ repCnt' = IF a = outputActor THEN repCnt + 1 ELSE repCnt
    /\ endActorFiring(a)
    /\ UNCHANGED <<graph, glbClk, stored, phase, result, now, storedAt>>

(* The state is stored before the firing is ended.                         *)
StoreAndEndFiring(a) ==
    /\ FirstToEnd(a)
    /\ CompletesIteration(a)
    /\ \A i \in DOMAIN stored : stored[i] # Current
    /\ stored' = Append(stored, Current)
    /\ glbClk' = 0
    /\ repCnt' = 0
    /\ endActorFiring(a)
    /\ storedAt' = Append(storedAt, now)
    /\ UNCHANGED <<graph, phase, result, now>>

RecurrentState(a) ==
    /\ FirstToEnd(a)
    /\ CompletesIteration(a)
    /\ recurrent' \in DOMAIN stored
    /\ stored[recurrent'] = Current
    /\ \A i \in DOMAIN stored : stored[i] = Current => recurrent' <= i
    /\ iter' = recurrent'
    /\ repCnt' = repCnt + 1
    /\ phase' = "sum"
    /\ UNCHANGED <<graph, ch, actClk, glbClk, stored, thr, now, storedAt>>

(* Faulty variant of AddState: the clock of the current state.             *)
AddCurrentClock ==
    /\ phase = "sum"
    /\ iter <= Len(stored)
    /\ thr' = [fire |-> thr.fire + 1, time |-> thr.time + glbClk]
    /\ iter' = iter + 1
    /\ UNCHANGED <<graph, ch, actClk, glbClk, repCnt, stored, phase, recurrent, now, storedAt>>

(* computeThroughput, one stored state of the cycle at a time              *)
AddState ==
    /\ phase = "sum"
    /\ iter <= Len(stored)
    /\ thr' = [fire |-> thr.fire + 1, time |-> thr.time + stored[iter].glbClk]
    /\ iter' = iter + 1
    /\ UNCHANGED <<graph, ch, actClk, glbClk, repCnt, stored, phase, recurrent, now, storedAt>>

ReturnThroughput ==
    /\ phase = "sum"
    /\ iter > Len(stored)
    /\ phase' = "done"
    /\ UNCHANGED <<graph, ch, actClk, glbClk, repCnt, stored, result, now, storedAt>>

EndsDone ==
    /\ phase = "end"
    /\ \A a \in Actors(g) : ~ReadyToEnd(a)
    /\ phase' = "start"
    /\ UNCHANGED <<graph, ch, actClk, glbClk, repCnt, stored, result, now, storedAt>>

StartFiring(a) ==
    /\ phase = "start"
    /\ Ready(g, ch, a)
    /\ \A b \in Actors(g) : b < a => ~Ready(g, ch, b)
    /\ startActorFiring(a)
    /\ UNCHANGED <<graph, glbClk, repCnt, stored, phase, result, now, storedAt>>

Active == {a \in Actors(g) : actClk[a] # <<>>}

(* clockStep looks only at the front of each list and then lowers every    *)
(* entry; a step of 0 changes nothing and goes round the loop again.       *)
ClockStep ==
    /\ phase = "start"
    /\ \A a \in Actors(g) : ~Ready(g, ch, a)
    /\ \E first \in Active :
          LET step == Head(actClk[first])
          IN  /\ \A a \in Active : step <= Head(actClk[a])
              /\ actClk' = [a \in Actors(g) |->
                              [i \in DOMAIN actClk[a] |-> actClk[a][i] - step]]
              /\ glbClk' = glbClk + step
              /\ now' = now + step
    /\ phase' = "end"
    /\ UNCHANGED <<graph, ch, repCnt, stored, result, storedAt>>

(* Faulty variant of Deadlock: the loop goes on.                           *)
DeadlockIgnored ==
    /\ phase = "start"
    /\ \A a \in Actors(g) : ~Ready(g, ch, a)
    /\ Active = {}
    /\ phase' = "end"
    /\ UNCHANGED <<graph, ch, actClk, glbClk, repCnt, stored, result, now, storedAt>>

Deadlock ==
    /\ phase = "start"
    /\ \A a \in Actors(g) : ~Ready(g, ch, a)
    /\ Active = {}
    /\ thr' = [fire |-> 0, time |-> 1]
    /\ phase' = "done"
    /\ UNCHANGED <<graph, ch, actClk, glbClk, repCnt, stored, recurrent, iter, now, storedAt>>

Next ==
    \/ \E a \in Actors(g) : \/ EndFiring(a)
                            \/ StoreAndEndFiring(a)
                            \/ RecurrentState(a)
                            \/ StartFiring(a)
    \/ EndsDone
    \/ ClockStep
    \/ Deadlock
    \/ AddState
    \/ ReturnThroughput

Spec == Init /\ [][Next]_vars

-----------------------------------------------------------------------------
TypeOK ==
    /\ g \in Graphs
    /\ outputActor \in Actors(g)
    /\ outputActorRepCnt \in Positive
    /\ ch \in [Channels(g) -> Nat]
    /\ actClk \in [Actors(g) -> Seq(Nat)]
    /\ glbClk \in Nat
    /\ repCnt \in Nat
    /\ stored \in Seq(State(g))
    /\ phase \in {"end", "start", "sum", "done"}
    /\ recurrent \in Nat
    /\ iter \in Nat
    /\ thr \in [fire : Nat, time : Nat]
    /\ now \in Nat
    /\ storedAt \in Seq(Nat)

(* The remaining times of every actor are in order.  endActorFiring pops   *)
(* the front and actorReadyToEnd and clockStep look at the front only, so  *)
(* a list out of order would end firings late and make the unsigned        *)
(* subtraction of clockStep wrap below zero.                               *)
FiringsInOrder == \A a \in Actors(g) : Ordered(actClk[a], g.ex[a])

(* The result counts the iterations between two visits to the same state   *)
(* and the time that passed between these visits: the sum of the glbClk of *)
(* the stored states, each a time since the state stored before it, is the *)
(* time of the period, although the first of them reaches back to before   *)
(* the period and the last stretch of it is in no stored state.            *)
ThroughputIsPeriod ==
    phase = "done" /\ thr.fire > 0 =>
        /\ recurrent \in DOMAIN stored
        /\ stored[recurrent] = Current
        /\ thr.fire = Len(stored) - recurrent + 1
        /\ thr.time = now - storedAt[recurrent]

-----------------------------------------------------------------------------
(* The bags of absolute completion times of the firings under way          *)
Due == [a \in Actors(g) |->
          [d \in {now + actClk[a][i] : i \in DOMAIN actClk[a]} |->
             Cardinality({i \in DOMAIN actClk[a] : now + actClk[a][i] = d})]]

Timed == INSTANCE TimedDataflow WITH tok <- ch, due <- Due

(* execSDFgraph is a faithful self-timed execution: with the remaining     *)
(* times turned into absolute completion times, every step is a start, an  *)
(* end at exactly its due time, a jump to the next completion with nothing *)
(* left to do, or invisible.                                               *)
IsTimedDataflow == Timed!TInit /\ [][Timed!TNext]_Timed!tvars
=============================================================================
