---------------------------- MODULE MCStorageExec ----------------------------
(***************************************************************************)
(* Small instances of StorageExec, against SelfTimed on the graph that     *)
(* models the storage space and against the homogeneous graph.             *)
(***************************************************************************)
EXTENDS StorageExec, GraphFamilies

RV == INSTANCE RepetitionVector
H == INSTANCE HSDF
D == INSTANCE DependencyCycles

MCRepVec(G) == RV!computeRepetitionVector(G)

MCStorageDependencies(n, E) == D!findStorageDependencies(n, E)

(* The lower bound of initMinimalChannelSz, one less and up to two more    *)
MCSizes(G) ==
    LET lb(k) == LET c == G.ch[k]
                 IN  IF c.src = c.dst THEN c.p + (IF c.c > c.t THEN c.c ELSE c.t)
                     ELSE c.p + c.c - 1
    IN  {s \in [Channels(G) -> 0 .. 8] :
            \A k \in Channels(G) : s[k] \in IF G.ch[k].src = G.ch[k].dst THEN {lb(k)}
                                            ELSE lb(k) - 1 .. lb(k) + 2}

MCGraphs == Cycles2({1, 2}, 2, 1, 3)
    \cup {[ex |-> <<e1, e2>>, ch |-> <<Edge(1, 2, p, c, t), Edge(1, 1, 1, 1, 1), Edge(2, 2, 1, 1, 1)>>] :
            e1 \in 0 .. 2, e2 \in 1 .. 2, p \in 1 .. 3, c \in 1 .. 3, t \in 0 .. 1}

(* The analysis ends: in particular the periodic phase comes back to the   *)
(* state it started from, although it starts with the left-over firings    *)
(* ended and a count of its own.                                           *)
Terminates == <>(phase = "done")

Larger(s) == {t \in [Channels(g) -> 0 .. 12] : \A k \in Channels(g) : t[k] \in s[k] .. s[k] + 2}

Throughput(s) == H!CriticalCycle(modelBufferSizeInSDFgraph(g, s), RepVec(g))

(* The storage dependencies are complete: with the dependent channels left *)
(* as they are, no larger distribution has a higher throughput.            *)
DependenciesComplete ==
    phase = "done" /\ (\A k \in Channels(g) : ~NoRoom(k)) =>
        \A s \in Larger(size) :
            (\A k \in dep : s[k] = size[k]) => H!SameThroughput(thr, Throughput(s))
=============================================================================
