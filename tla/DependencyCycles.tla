--------------------------- MODULE DependencyCycles ---------------------------
(***************************************************************************)
(* The search for cycles in the abstract dependency graph                  *)
(* (sdf/analysis/buffersizing/buffer.cc, dfsVisitDependencies and          *)
(* findStorageDependencies).  Nodes 1..n are actors, E the edges           *)
(* abstractDepGraph; the result is the set of marked edges, from which a   *)
(* channel with this source and destination gets a storage dependency.     *)
(* color = 1 holds for the nodes on path, whose predecessors are pi.       *)
(***************************************************************************)
EXTENDS Integers, Sequences, SequencesExt

LOCAL Position(path, b) == CHOOSE i \in DOMAIN path : path[i] = b

(* Faulty variant of CycleEdges: without the edge that closes the cycle.   *)
OpenPathEdges(path, b) ==
    {<<path[i], path[i + 1]>> : i \in Position(path, b) .. Len(path) - 1}

(* The edges from b along the path, and back from its end to b             *)
CycleEdges(path, b) ==
    {<<path[i], path[i + 1]>> : i \in Position(path, b) .. Len(path) - 1}
        \cup {<<path[Len(path)], b>>}

(* Visits the last node of path; the edges of a node are removed when the  *)
(* search leaves it.                                                       *)
RECURSIVE dfsVisitDependencies(_, _, _, _)
dfsVisitDependencies(n, path, E, marked) ==
    LET a == path[Len(path)]
        visit(s, b) ==
            IF <<a, b>> \notin s.E THEN s
            ELSE IF b \in ToSet(path) THEN [s EXCEPT !.marked = @ \cup CycleEdges(path, b)]
            ELSE dfsVisitDependencies(n, Append(path, b), s.E, s.marked)
        visited == FoldLeft(visit, [E |-> E, marked |-> marked], [b \in 1 .. n |-> b])
    IN  [visited EXCEPT !.E = {e \in @ : a \notin {e[1], e[2]}}]

findStorageDependencies(n, E) ==
    FoldLeft(LAMBDA s, a : dfsVisitDependencies(n, <<a>>, s.E, s.marked),
             [E |-> E, marked |-> {}], [a \in 1 .. n |-> a]).marked

-----------------------------------------------------------------------------
(* Reference: the edges of E that lie on a cycle                           *)
Reachable(n, E) ==
    FoldLeft(LAMBDA R, m : R \cup {<<e[1], f[2]>> : e \in {e \in R : e[2] = m},
                                                   f \in {f \in R : f[1] = m}},
             E, [m \in 1 .. n |-> m])

OnCycle(n, E) == {e \in E : e[1] = e[2] \/ <<e[2], e[1]>> \in Reachable(n, E)}
=============================================================================
