----------------------------- MODULE MCSelfTimed -----------------------------
(***************************************************************************)
(* Small instances of ThroughputAnalysis and the properties that compare   *)
(* it and the execution with independent references.                       *)
(***************************************************************************)
EXTENDS ThroughputAnalysis, GraphFamilies, RepetitionVector

H == INSTANCE HSDF

(* Strongly connected: cycles of two actors, also with a bound on the      *)
(* simultaneous firings of each, and rings of three                        *)
Connected == Cycles2(0 .. 2, 3, 1, 4)
               \cup {modelAutoConcurrencyInSDFgraph(G, d) :
                       G \in Cycles2({1, 2}, 2, 1, 4), d \in 1 .. 2}
               \cup Rings3({<<1, 2, 0>>, <<2, 1, 3>>}, 2, 1, 3)

(* Of three actors, two in a cycle and the third before or behind them,    *)
(* with or without a self-edge; the actors in three orders                 *)
Split ==
    UNION {LET QChannel(a, b, t) == [QEdge(a, b, q, t) EXCEPT !.src = order[a], !.dst = order[b]]
               loop == IF s = 0 THEN <<>> ELSE <<Edge(order[3], order[3], 1, 1, s)>>
               QEx == [i \in 1 .. 3 |-> 1 + (i % 2)]
           IN  {[ex |-> QEx, ch |-> <<QChannel(1, 2, 0), QChannel(2, 1, t), join>> \o loop] :
                   join \in {QChannel(1, 3, 0), QChannel(3, 2, 1)}, t \in {0, q[2], 3}}
             : q \in [1 .. 3 -> 1 .. 2] \cup {<<2, 3, 3>>, <<4, 2, 1>>},
               order \in {<<1, 2, 3>>, <<3, 1, 2>>, <<2, 3, 1>>}, s \in 0 .. 2}

(* Two actors that are not connected, with self-edges or without channels  *)
Apart == {[ex |-> e, ch |-> SubSeq(<<Edge(1, 1, 1, 1, t), Edge(2, 2, 1, 1, 1)>>, 1, n)] :
            e \in {<<1, 2>>, <<3, 0>>}, t \in 0 .. 2, n \in 0 .. 2}

Parts == UNION {{componentToSDFgraph(G, c) : c \in ToSet(stronglyConnectedComponents(G))} :
                  G \in Split \cup Apart}

(* A part without channels is never executed.                              *)
MCGraphs == Connected \cup Split \cup Apart \cup {G \in Parts : G.ch # <<>>}

Dataflow == INSTANCE TimedDataflow WITH Graphs <- MCGraphs, tok <- ch, due <- Due

(* Every step of analyze is one of a timed dataflow graph, as              *)
(* IsTimedDataflow says of one execution, and the next component starts    *)
(* from its initial state: nothing of the last one is left.                *)
ImplementsTimedDataflow ==
    Dataflow!TInit /\ [][Dataflow!TNext \/ (at = "split" /\ (Dataflow!TInit)')]_Dataflow!tvars

(* The number analyze returns is the throughput set by the critical cycle  *)
(* of the homogeneous graph of the whole graph, however it was split, and  *)
(* 0 exactly when that graph has a cycle without tokens.  TDTIME_MAX is    *)
(* returned when no component has a cycle that takes time.                 *)
ThroughputIsCriticalCycle ==
    at = "returned" =>
        LET cycles == H!CyclesIn(whole, H!HSDFChannels(whole, RepVec(whole)))
            limited == \E c \in cycles : c.ex > 0 \/ c.tok = 0
        IN  H!SameThroughput(least, IF limited \/ isStronglyConnectedGraph(whole)
                                    THEN H!CriticalOf(cycles) ELSE Unlimited)

(* The analysis of a consistent graph always returns, unless it is one     *)
(* actor without channels.                                                 *)
Terminates == <>(at = "returned")
=============================================================================
