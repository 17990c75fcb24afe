---------------------------- MODULE GraphFamilies ----------------------------
(***************************************************************************)
(* The small graphs on which TLC runs the analyses.                        *)
(***************************************************************************)
EXTENDS SDFGraphs

Edge(a, b, p, c, t) == [src |-> a, dst |-> b, p |-> p, c |-> c, t |-> t]

(* A channel that agrees with the repetition vector q                      *)
QEdge(a, b, q, t) == Edge(a, b, q[b], q[a], t)

(* Two actors in a cycle, every pair of rates up to maxRate, up to maxT    *)
(* tokens forth and maxBack tokens back                                    *)
Cycles2(ex, maxRate, maxT, maxBack) ==
    {[ex |-> <<e1, e2>>, ch |-> <<Edge(1, 2, p, c, t), Edge(2, 1, c, p, u)>>] :
        e1 \in ex, e2 \in ex, p \in 1 .. maxRate, c \in 1 .. maxRate,
        t \in 0 .. maxT, u \in 0 .. maxBack}

(* The same with a self-edge on the second actor                           *)
Looped2(ex, maxRate, maxT, maxBack, maxSelf) ==
    {[ex |-> G.ex, ch |-> Append(G.ch, Edge(2, 2, 1, 1, s))] :
        G \in Cycles2(ex, maxRate, maxT, maxBack), s \in 1 .. maxSelf}

(* Three actors in a ring, with a second cycle through the first two       *)
Rings3(exs, maxQ, maxT, maxBack) ==
    {[ex |-> e, ch |-> <<QEdge(1, 2, q, t), QEdge(2, 3, q, 0), QEdge(3, 1, q, u),
                         QEdge(2, 1, q, v)>>] :
        e \in exs, q \in [1 .. 3 -> 1 .. maxQ], t \in 0 .. maxT,
        u \in 1 .. maxBack, v \in 1 .. maxBack}
=============================================================================
