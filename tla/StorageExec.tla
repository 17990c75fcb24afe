----------------------------- MODULE StorageExec -----------------------------
(***************************************************************************)
(* Execution of a timed SDF graph under a storage distribution: throughput *)
(* and storage dependencies (sdf/analysis/buffersizing/buffer.cc,          *)
(* TransitionSystem).  A firing claims the space for its output when it    *)
(* starts and gives back the space of its input when it ends; ch counts    *)
(* tokens, sp free space.                                                  *)
(*                                                                         *)
(* execSDFgraph (mode "exec") runs until a state recurs or nothing moves.  *)
(* After a recurrence analyzePeriodicPhase ends the firings that are due   *)
(* (mode "leftover") and runs one more period (mode "periodic") in which   *)
(* every start records what it had to wait for.  The phases are those of   *)
(* SelfTimed; "begin" is the test of the initial tokens.                   *)
(***************************************************************************)
EXTENDS SDFGraphs

CONSTANTS Graphs,         \* consistent graphs
          RepVec(_),      \* their repetition vectors
          Sizes(_),       \* the storage distributions of a graph
          StorageDependencies(_, _)  \* findStorageDependencies: actors, edges

ASSUME StorageGraphs ==
    \A G \in Graphs : /\ IsSDFGraph(G) /\ G.ex # <<>>
                      /\ RepVec(G) \in [Actors(G) -> Positive]
                      /\ Balanced(G, RepVec(G))
                      /\ Sizes(G) \subseteq [Channels(G) -> Nat]

VARIABLES g, size,      \* the graph and its storage distribution (sp in the code)
          outputActor, outputActorRepCnt,
          ch, sp, actClk, glbClk,  \* currentState
          previous,     \* ch and sp of previousState
          repCnt, stored, phase, mode,
          waitsFor,     \* abstractDepGraph as a set of edges
          periodic,     \* periodicState
          dep,          \* channels with a storage dependency
          recurrent, iter, thr

graph == <<g, size, outputActor, outputActorRepCnt>>
current == <<ch, sp, actClk, glbClk>>
result == <<recurrent, iter, thr>>
vars == <<graph, current, previous, repCnt, stored, phase, mode, waitsFor,
          periodic, dep, result>>

Current == [ch |-> ch, sp |-> sp, actClk |-> actClk, glbClk |-> glbClk]

State(G) == [ch : [Channels(G) -> Nat], sp : [Channels(G) -> Nat],
             actClk : [Actors(G) -> Seq(Nat)], glbClk : Nat]

initOutputActor ==
    LET q == RepVec(g)
    IN  /\ outputActor \in Actors(g)
        /\ \A b \in Actors(g) : \/ q[outputActor] < q[b]
                                \/ q[outputActor] = q[b] /\ outputActor <= b
        /\ outputActorRepCnt = q[outputActor]

(* Nothing has been executed yet.                                          *)
Cleared ==
    /\ ch = [k \in Channels(g) |-> 0]
    /\ sp = [k \in Channels(g) |-> 0]
    /\ actClk = [a \in Actors(g) |-> <<>>]
    /\ glbClk = 0
    /\ previous = [ch |-> ch, sp |-> sp]
    /\ repCnt = 0
    /\ stored = <<>>
    /\ phase = "begin"
    /\ mode = "exec"
    /\ waitsFor = {}
    /\ periodic = Current
    /\ dep = {}
    /\ recurrent = 0
    /\ iter = 0
    /\ thr = [fire |-> 0, time |-> 0]

Init ==
    /\ g \in Graphs
    /\ size \in Sizes(g)
    /\ initOutputActor
    /\ Cleared

(* The first channel that cannot hold its initial tokens ends the analysis.*)
NoRoom(k) == size[k] < g.ch[k].t

InitialTokensDoNotFit ==
    /\ phase = "begin"
    /\ \E k \in Channels(g) : /\ NoRoom(k)
                              /\ \A j \in Channels(g) : j < k => ~NoRoom(j)
                              /\ dep' = {k}
    /\ thr' = [fire |-> 0, time |-> 1]
    /\ phase' = "done"
    /\ UNCHANGED <<graph, current, previous, repCnt, stored, mode, waitsFor,
                   periodic, recurrent, iter>>

PlaceInitialTokens ==
    /\ phase = "begin"
    /\ \A k \in Channels(g) : ~NoRoom(k)
    /\ ch' = InitialTokens(g)
    /\ sp' = [k \in Channels(g) |-> size[k] - g.ch[k].t]
    /\ previous' = [ch |-> ch', sp |-> sp']
    /\ phase' = "end"
    /\ UNCHANGED <<graph, actClk, glbClk, repCnt, stored, mode, waitsFor,
                   periodic, dep, result>>

-----------------------------------------------------------------------------
actorReadyToFire(a) ==
    /\ Ready(g, ch, a)
    /\ \A k \in OutChannels(g, a) : sp[k] >= g.ch[k].p

startActorFiring(a) ==
    /\ ch' = Consume(g, ch, a)
    /\ sp' = [k \in Channels(g) |-> IF g.ch[k].src = a THEN sp[k] - g.ch[k].p ELSE sp[k]]
    /\ actClk' = [actClk EXCEPT ![a] = Append(@, g.ex[a])]

actorReadyToEnd(a) == actClk[a] # <<>> /\ Head(actClk[a]) = 0

(* Faulty variant of endActorFiring: space is released at the rate of the  *)
(* source port.                                                            *)
ReleaseAtSrcRate(a) ==
    /\ ch' = Produce(g, ch, a)
    /\ sp' = [k \in Channels(g) |-> IF g.ch[k].dst = a THEN sp[k] + g.ch[k].p ELSE sp[k]]
    /\ actClk' = [actClk EXCEPT ![a] = Tail(@)]

endActorFiring(a) ==
    /\ ch' = Produce(g, ch, a)
    /\ sp' = [k \in Channels(g) |-> IF g.ch[k].dst = a THEN sp[k] + g.ch[k].c ELSE sp[k]]
    /\ actClk' = [actClk EXCEPT ![a] = Tail(@)]

(* Faulty variant of findCausalDependencies: tokens only.                  *)
TokenDependencies(a) ==
    {<<a, g.ch[k].src>> : k \in {k \in InChannels(g, a) : previous.ch[k] < g.ch[k].c}}

(* What the state before the last completions did not have for a start of  *)
(* a: tokens, to be had from the source, or space, from the destination.   *)
findCausalDependencies(a) ==
    {<<a, g.ch[k].src>> : k \in {k \in InChannels(g, a) : previous.ch[k] < g.ch[k].c}}
    \cup
    {<<a, g.ch[k].dst>> : k \in {k \in OutChannels(g, a) : previous.sp[k] < g.ch[k].p}}

(* Every channel that lacks the tokens or the space for one firing         *)
BlockedBy ==
    {<<g.ch[k].dst, g.ch[k].src>> : k \in {k \in Channels(g) : ch[k] < g.ch[k].c}}
    \cup
    {<<g.ch[k].src, g.ch[k].dst>> : k \in {k \in Channels(g) : sp[k] < g.ch[k].p}}

DependentChannels(E) ==
    LET marked == StorageDependencies(Len(g.ex), E)
    IN  {k \in Channels(g) : <<g.ch[k].src, g.ch[k].dst>> \in marked}

-----------------------------------------------------------------------------
FirstToEnd(a) == /\ phase = "end"
                 /\ actorReadyToEnd(a)
                 /\ \A b \in Actors(g) : b < a => ~actorReadyToEnd(b)

CompletesIteration(a) == a = outputActor /\ repCnt + 1 = outputActorRepCnt

EndFiring(a) ==
    /\ FirstToEnd(a)
    /\ ~CompletesIteration(a)
    /\ repCnt' = IF a = outputActor THEN repCnt + 1 ELSE repCnt
    /\ endActorFiring(a)
    /\ UNCHANGED <<graph, glbClk, previous, stored, phase, mode, waitsFor,
                   periodic, dep, result>>

NewIteration(a) ==
    /\ glbClk' = 0
    /\ repCnt' = 0
    /\ endActorFiring(a)

StoreAndEndFiring(a) ==
    /\ FirstToEnd(a)
    /\ CompletesIteration(a)
    /\ mode = "exec"
    /\ \A i \in DOMAIN stored : stored[i] # Current
    /\ stored' = Append(stored, Current)
    /\ NewIteration(a)
    /\ UNCHANGED <<graph, previous, phase, mode, waitsFor, periodic, dep, result>>

(* Faulty variant of RecurrentState: the firing still to be ended counts.  *)
RecurrentStateCounted(a) ==
    /\ FirstToEnd(a)
    /\ CompletesIteration(a)
    /\ mode = "exec"
    /\ recurrent' \in DOMAIN stored
    /\ stored[recurrent'] = Current
    /\ \A i \in DOMAIN stored : stored[i] = Current => recurrent' <= i
    /\ iter' = recurrent'
    /\ periodic' = Current
    /\ glbClk' = 0
    /\ repCnt' = 0
    /\ mode' = "leftover"
    /\ UNCHANGED <<graph, ch, sp, actClk, previous, stored, phase, waitsFor, dep, thr>>

(* analyzePeriodicPhase begins: the firing that completes the iteration is *)
(* still to be ended, hence repCnt = -1.                                   *)
RecurrentState(a) ==
    /\ FirstToEnd(a)
    /\ CompletesIteration(a)
    /\ mode = "exec"
    /\ recurrent' \in DOMAIN stored
    /\ stored[recurrent'] = Current
    /\ \A i \in DOMAIN stored : stored[i] = Current => recurrent' <= i
    /\ iter' = recurrent'
    /\ periodic' = Current
    /\ glbClk' = 0
    /\ repCnt' = -1
    /\ mode' = "leftover"
    /\ UNCHANGED <<graph, ch, sp, actClk, previous, stored, phase, waitsFor, dep, thr>>

(* In the periodic phase an iteration that is not the last; the left-over  *)
(* firings are ended without a look at periodicState.                      *)
PeriodicIteration(a) ==
    /\ FirstToEnd(a)
    /\ CompletesIteration(a)
    /\ mode = "leftover" \/ (mode = "periodic" /\ Current # periodic)
    /\ NewIteration(a)
    /\ UNCHANGED <<graph, previous, stored, phase, mode, waitsFor, periodic, dep, result>>

PeriodicState(a) ==
    /\ FirstToEnd(a)
    /\ CompletesIteration(a)
    /\ mode = "periodic"
    /\ Current = periodic
    /\ dep' = DependentChannels(waitsFor)
    /\ repCnt' = repCnt + 1
    /\ phase' = "sum"
    /\ UNCHANGED <<graph, current, previous, stored, mode, waitsFor, periodic, result>>

EndsDone ==
    /\ phase = "end"
    /\ \A a \in Actors(g) : ~actorReadyToEnd(a)
    /\ phase' = "start"
    /\ mode' = IF mode = "leftover" THEN "periodic" ELSE mode
    /\ UNCHANGED <<graph, current, previous, repCnt, stored, waitsFor, periodic, dep, result>>

StartFiring(a) ==
    /\ phase = "start"
    /\ actorReadyToFire(a)
    /\ \A b \in Actors(g) : b < a => ~actorReadyToFire(b)
    /\ startActorFiring(a)
    /\ waitsFor' = IF mode = "periodic" THEN waitsFor \cup findCausalDependencies(a)
                                        ELSE waitsFor
    /\ UNCHANGED <<graph, glbClk, previous, repCnt, stored, phase, mode, periodic, dep, result>>

StartsDone == phase = "start" /\ \A a \in Actors(g) : ~actorReadyToFire(a)

Active == {a \in Actors(g) : actClk[a] # <<>>}

(* clockStep; the channels as they are now become previousState.           *)
ClockStep ==
    /\ StartsDone
    /\ \E first \in Active :
          LET step == Head(actClk[first])
          IN  /\ \A a \in Active : step <= Head(actClk[a])
              /\ actClk' = [a \in Actors(g) |->
                              [i \in DOMAIN actClk[a] |-> actClk[a][i] - step]]
              /\ glbClk' = glbClk + step
    /\ previous' = [ch |-> ch, sp |-> sp]
    /\ phase' = "end"
    /\ UNCHANGED <<graph, ch, sp, repCnt, stored, mode, waitsFor, periodic, dep, result>>

Deadlock ==
    /\ StartsDone
    /\ mode = "exec"
    /\ Active = {}
    /\ dep' = DependentChannels(BlockedBy)
    /\ thr' = [fire |-> 0, time |-> 1]
    /\ phase' = "done"
    /\ UNCHANGED <<graph, current, previous, repCnt, stored, mode, waitsFor,
                   periodic, recurrent, iter>>

(* computeThroughput                                                       *)
AddState ==
    /\ phase = "sum"
    /\ iter <= Len(stored)
    /\ thr' = [fire |-> thr.fire + 1, time |-> thr.time + stored[iter].glbClk]
    /\ iter' = iter + 1
    /\ UNCHANGED <<graph, current, previous, repCnt, stored, phase, mode, waitsFor,
                   periodic, dep, recurrent>>

ReturnThroughput ==
    /\ phase = "sum"
    /\ iter > Len(stored)
    /\ phase' = "done"
    /\ UNCHANGED <<graph, current, previous, repCnt, stored, mode, waitsFor,
                   periodic, dep, result>>

Next ==
    \/ InitialTokensDoNotFit
    \/ PlaceInitialTokens
    \/ \E a \in Actors(g) : \/ EndFiring(a)
                            \/ StoreAndEndFiring(a)
                            \/ RecurrentState(a)
                            \/ PeriodicIteration(a)
                            \/ PeriodicState(a)
                            \/ StartFiring(a)
    \/ EndsDone
    \/ ClockStep
    \/ Deadlock
    \/ AddState
    \/ ReturnThroughput

Spec == Init /\ [][Next]_vars

(* One sequential program: it always takes its next step.                  *)
FairSpec == Spec /\ WF_vars(Next)

-----------------------------------------------------------------------------
ExecutionTypes ==
    /\ g \in Graphs
    /\ size \in [Channels(g) -> Nat]
    /\ outputActor \in Actors(g)
    /\ outputActorRepCnt \in Positive
    /\ Current \in State(g)
    /\ previous \in [ch : [Channels(g) -> Nat], sp : [Channels(g) -> Nat]]
    /\ repCnt \in Nat \cup {-1}
    /\ stored \in Seq(State(g))
    /\ phase \in {"begin", "end", "start", "sum", "done"}
    /\ mode \in {"exec", "leftover", "periodic"}
    /\ waitsFor \subseteq Actors(g) \X Actors(g)
    /\ periodic \in State(g)
    /\ dep \subseteq Channels(g)
    /\ recurrent \in Nat
    /\ iter \in Nat
    /\ thr \in [fire : Nat, time : Nat]

TypeOK == ExecutionTypes /\ size \in Sizes(g)

(* The remaining times of every actor are in order; a firing that ends and *)
(* a clock step look at the front of each list only.                       *)
FiringsInOrder == \A a \in Actors(g) : Ordered(actClk[a], g.ex[a])

(* Storage is neither lost nor used twice: what a channel holds, its free  *)
(* space, the space claimed by the active firings of its source and the    *)
(* space not yet given back by those of its destination make up its size.  *)
StorageConserved ==
    phase # "begin" /\ (\A k \in Channels(g) : ~NoRoom(k)) =>
        \A k \in Channels(g) :
            size[k] = ch[k] + sp[k] + g.ch[k].p * Len(actClk[g.ch[k].src])
                                    + g.ch[k].c * Len(actClk[g.ch[k].dst])

-----------------------------------------------------------------------------
(* The distribution with at least the space of the initial tokens          *)
Fitted(G, s) == [k \in Channels(G) |-> IF s[k] < G.ch[k].t THEN G.ch[k].t ELSE s[k]]

(* The graph with the storage space as channels                            *)
ModelOf(G, s) == modelBufferSizeInSDFgraph(G, Fitted(G, s))

ModelledGraphs == UNION {{ModelOf(G, s) : s \in Sizes(G)} : G \in Graphs}

(* A channel back has the balance equation of the channel it bounds.       *)
ASSUME ModelledRepVec == \A G \in Graphs : \A s \in Sizes(G) : RepVec(ModelOf(G, s)) = RepVec(G)

(* The execution before the first step of the loop, and while the periodic *)
(* phase is analysed, as SelfTimed sees it: placed tokens, and a recurrent *)
(* state with its throughput still to compute.  A distribution that does   *)
(* not hold the initial tokens is not executed.                            *)
InPeriodicPhase == mode # "exec" /\ phase \in {"end", "start"}
NotExecuted == phase = "begin" \/ \E k \in Channels(g) : NoRoom(k)
Seen == IF NotExecuted
        THEN [Current EXCEPT !.ch = InitialTokens(g),
                             !.sp = [k \in Channels(g) |-> Fitted(g, size)[k] - g.ch[k].t]]
        ELSE IF InPeriodicPhase THEN periodic ELSE Current

Modelled(s) == [ch |-> s.ch \o s.sp, actClk |-> s.actClk, glbClk |-> s.glbClk]

(* The times at which states were stored: glbClk is the time since the     *)
(* state before was stored.                                                *)
TimesOf(states) ==
    LET time[i \in 0 .. Len(states)] == IF i = 0 THEN 0 ELSE time[i - 1] + states[i].glbClk
    IN  time

ST == INSTANCE SelfTimed WITH
        Graphs <- ModelledGraphs,
        g <- ModelOf(g, size),
        ch <- Modelled(Seen).ch,
        actClk <- Seen.actClk,
        glbClk <- Seen.glbClk,
        repCnt <- IF mode = "exec" THEN repCnt ELSE outputActorRepCnt,
        stored <- [i \in DOMAIN stored |-> Modelled(stored[i])],
        phase <- IF InPeriodicPhase THEN "sum" ELSE IF NotExecuted THEN "end" ELSE phase,
        thr <- IF NotExecuted THEN [fire |-> 0, time |-> 0] ELSE thr,
        now <- TimesOf(stored)[Len(stored)] + Seen.glbClk,
        storedAt <- [i \in DOMAIN stored |-> TimesOf(stored)[i]]

(* Executing a graph with claims on storage space is executing, without    *)
(* claims, the graph that modelBufferSizeInSDFgraph makes of it, step by   *)
(* step and to the same throughput: sp is the tokens of the channels back. *)
ImplementsSelfTimed == ST!Spec

(* The throughput is counted over one period, although the period is       *)
(* replayed between the state that ends it and the sum: the iterations and *)
(* the time between two visits to the same state.                          *)
ThroughputOfPeriod ==
    phase = "done" /\ thr.fire > 0 =>
        /\ recurrent \in DOMAIN stored
        /\ stored[recurrent] = Current
        /\ thr.fire = Len(stored) - recurrent + 1
        /\ thr.time = (TimesOf(stored)[Len(stored)] + glbClk) - TimesOf(stored)[recurrent]
=============================================================================
