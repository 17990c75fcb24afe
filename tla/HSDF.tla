-------------------------------- MODULE HSDF --------------------------------
(***************************************************************************)
(* The homogeneous graph of an SDF graph (sdf/transform/hsdf/hsdf.cc): one *)
(* actor per firing of an iteration, one channel per token produced in an  *)
(* iteration.  Its critical cycle, the one with the largest ratio of       *)
(* execution time to tokens, is the reference for the results of the       *)
(* state-space analyses: an independent account of how fast the graph can  *)
(* run.                                                                    *)
(***************************************************************************)
EXTENDS SDFGraphs, SequencesExt

(* Token n of firing i on channel k, firings counted from 1 and written     *)
(* <<actor, i>>: the firing that consumes it and                            *)
(* the iterations it waits, after the t initial tokens.                    *)
HSDFChannel(G, q, k, i, n) ==
    LET c == G.ch[k]
        token == c.t + (i - 1) * c.p + n - 1
        period == c.c * q[c.dst]
    IN  [src |-> <<c.src, i>>,
         dst |-> <<c.dst, 1 + (token % period) \div c.c>>,
         t   |-> token \div period]

HSDFChannels(G, q) ==
    UNION {{HSDFChannel(G, q, k, i, n) : i \in 1 .. q[G.ch[k].src], n \in 1 .. G.ch[k].p}
             : k \in Channels(G)}

-----------------------------------------------------------------------------
(* Simple cycles, as the summed execution times and tokens along them: a   *)
(* path from its least firing, extended until it closes.  Of parallel      *)
(* channels the one with the fewest tokens is the critical one.            *)
Least(x, y) == x[1] < y[1] \/ (x[1] = y[1] /\ x[2] <= y[2])

RECURSIVE CyclesFrom(_, _, _, _)
CyclesFrom(G, E, path, w) ==
    UNION {LET v == [ex |-> w.ex + G.ex[e.src[1]], tok |-> w.tok + e.t]
           IN  IF e.dst = path[1] THEN {v}
               ELSE CyclesFrom(G, E, Append(path, e.dst), v)
             : e \in {e \in E : /\ e.src = path[Len(path)]
                                /\ Least(path[1], e.dst)
                                /\ \A i \in 2 .. Len(path) : path[i] # e.dst}}

CyclesIn(G, all) ==
    LET E == {e \in all : \A f \in all : f.src = e.src /\ f.dst = e.dst => e.t <= f.t}
    IN  UNION {CyclesFrom(G, E, <<n>>, [ex |-> 0, tok |-> 0]) : n \in {e.src : e \in E}}

(* Iterations per time: tokens over execution time of the critical cycle,  *)
(* and 0 when a cycle without tokens blocks the graph.  A cycle that takes *)
(* no time bounds nothing (time 0 stands for an infinite throughput).      *)
CriticalOf(C) ==
    IF \E w \in C : w.tok = 0 THEN [fire |-> 0, time |-> 1]
    ELSE LET w == CHOOSE w \in C : \A v \in C : w.tok * v.ex <= v.tok * w.ex
         IN  [fire |-> w.tok, time |-> w.ex]

CriticalCycle(G, q) == CriticalOf(CyclesIn(G, HSDFChannels(G, q)))

SameThroughput(x, y) == /\ x.fire * y.time = y.fire * x.time
                        /\ (x.fire = 0) = (y.fire = 0)
                        /\ (x.time = 0) = (y.time = 0)
=============================================================================
