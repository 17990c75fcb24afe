----------------------------- MODULE MCStorageDSE -----------------------------
(***************************************************************************)
(* Small instances of StorageDSE, compared with the throughput that the    *)
(* homogeneous graph has under every storage distribution.                 *)
(***************************************************************************)
EXTENDS StorageDSE, GraphFamilies

RV == INSTANCE RepetitionVector
H == INSTANCE HSDF
D == INSTANCE DependencyCycles

MCRepVec(G) == RV!computeRepetitionVector(G)

MCStorageDependencies(n, E) == D!findStorageDependencies(n, E)

(* The search makes its own distributions.                                 *)
MCSizes(G) == {}

MCMaxThroughput(G) == H!CriticalCycle(G, RepVec(G))

DOUBLE_MAX == [fire |-> 1, time |-> 0]

(* All points, any positive throughput, half the maximum, and one by one   *)
MCSearches(G) ==
    {[api |-> "next", thrBound |-> DOUBLE_MAX]}
    \cup {[api |-> "analyze", thrBound |-> b] :
            b \in {DOUBLE_MAX, Zero, [MaxThroughput(G) EXCEPT !.time = 2 * @]}}

SelfEdges == <<Edge(1, 1, 1, 1, 1), Edge(2, 2, 1, 1, 1)>>

(* A producer and a consumer, and the same with a channel back             *)
Pairs == {[ex |-> <<e1, e2>>, ch |-> <<Edge(1, 2, p, c, t)>> \o SelfEdges] :
            e1 \in 1 .. 2, e2 \in 1 .. 2, p \in 1 .. 3, c \in 1 .. 3, t \in 0 .. 1}

Loops == {G \in Cycles2({1, 2}, 2, 1, 3) : MCMaxThroughput(G).fire # 0}

(* Channels of different step sizes: a channel forth of rate 2 and a       *)
(* channel back of rate 3                                                  *)
UnevenSteps == {[ex |-> <<1, e>>, ch |-> <<Edge(1, 2, 2, 2, 0), Edge(2, 1, 3, 3, t)>>] :
                  e \in 1 .. 2, t \in {3, 6, 9}}

(* Self-edges with more than one token                                     *)
TwoAtOnce == {[ex |-> <<e1, e2>>, ch |-> <<Edge(1, 2, 1, 1, 0), Edge(1, 1, 1, 1, s), Edge(2, 2, 1, 1, s)>>] :
                e1 \in 1 .. 2, e2 \in 1 .. 2, s \in 1 .. 2}

(* Three actors, each waiting for both others when the throughput is 1/2   *)
Triangle == {[ex |-> <<2, 1, 2>>, ch |-> <<Edge(1, 2, 1, 1, 1), Edge(1, 3, 1, 1, 0),
                                           Edge(2, 3, 1, 1, 0), Edge(3, 1, 1, 1, 3)>>]}

MCGraphs == Pairs \cup Loops \cup UnevenSteps \cup TwoAtOnce

-----------------------------------------------------------------------------
(* Every distribution of at most sz, with self-edges at their fixed size   *)
Free == {k \in Channels(g) : ~SelfEdge(k)}

Distributions(sz) ==
    {s \in {[k \in Channels(g) |-> IF k \in Free THEN f[k] ELSE minSz[k]] :
                f \in [Free -> 0 .. sz]} : Total(s) <= sz}

Throughput(s) ==
    IF \E k \in Channels(g) : s[k] < g.ch[k].t THEN Zero
    ELSE H!CriticalCycle(modelBufferSizeInSDFgraph(g, s), RepVec(g))

Final == Sets[Len(Sets)]

(* No trade-off is missed: whatever throughput a distribution can give     *)
(* below the size where the search ended, a listed set of no larger size   *)
(* gives too.  Only channels with a storage dependency are ever enlarged,  *)
(* one step at a time and from the lower bounds.                           *)
NothingMissed ==
    pc = "done" =>
        \A s \in Distributions(Final.sz) :
            LET t == Throughput(s)
            IN  t.fire # 0 => \E i \in DOMAIN Sets : /\ Sets[i].sz <= Total(s)
                                                     /\ ~Less(Sets[i].thr, t)

EvenSteps == \A j, k \in Channels(g) : SelfEdge(j) \/ SelfEdge(k) \/ minSzStep(j) = minSzStep(k)

(* What is listed is a trade-off: a distribution has the throughput of its *)
(* set, and no smaller distribution has as much, whatever the order in     *)
(* which sets were found, merged and dropped.  The comment at              *)
(* minimizeStorageDistributionsSet claims that for all graphs ("removes    *)
(* all storage distributions ... which are non-minimal"); it holds where   *)
(* all channels grow by the same step, so that a set never has a lower     *)
(* throughput than the one before it.  And the search goes on up to the    *)
(* bound it was given ("to find the complete pareto-space, the throughput  *)
(* bound should be set to DOUBLE_MAX") where every self-edge has the space *)
(* for all its firings.                                                    *)
OnlyTradeOffs ==
    pc = "done" =>
        /\ \A i \in DOMAIN Sets :
              /\ \A j \in DOMAIN Sets[i].distributions :
                    Equal(Throughput(Sets[i].distributions[j].sp), Sets[i].thr)
              /\ EvenSteps => \A s \in Distributions(Sets[i].sz - 1) : Less(Throughput(s), Sets[i].thr)
        /\ (\A k \in Channels(g) : SelfEdge(k) => g.ch[k].t = 1) =>
              \/ Equal(Final.thr, maxThroughput)
              \/ search.api = "analyze" /\ ~Less(Final.thr, search.thrBound)

(* The search ends.                                                        *)
Terminates == <>(pc = "done")
=============================================================================
