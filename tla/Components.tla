------------------------------ MODULE Components ------------------------------
(***************************************************************************)
(* Strongly connected components of an SDF graph: two depth-first walks    *)
(* (sdf/base/algo/components.cc, dfs.cc), the second over the transposed   *)
(* graph in decreasing order of the finish times of the first.  Colours    *)
(* grey and black are one here: the walk asks only whether an actor is     *)
(* white.  pi is 0 for NULL; ports come in the order of the channels.      *)
(***************************************************************************)
EXTENDS SDFGraphs, SequencesExt

getAdjacentActors(G, a, transpose) ==
    IF transpose
    THEN LET in == SelectSeq(G.ch, LAMBDA k : k.dst = a) IN [i \in DOMAIN in |-> in[i].src]
    ELSE LET out == SelectSeq(G.ch, LAMBDA k : k.src = a) IN [i \in DOMAIN out |-> out[i].dst]

(* The time, the white actors, the finish times and the predecessors after *)
(* a visit of u                                                            *)
RECURSIVE dfsVisit(_, _, _, _)
dfsVisit(G, u, w, transpose) ==
    LET discovered == [w EXCEPT !.white = @ \ {u}, !.time = @ + 1]
        explored == FoldLeft(LAMBDA x, v :
                        IF v \in x.white THEN dfsVisit(G, v, [x EXCEPT !.pi[v] = u], transpose) ELSE x,
                        discovered, getAdjacentActors(G, u, transpose))
    IN  [explored EXCEPT !.time = @ + 1, !.f[u] = explored.time + 1]

(* The actors as getNextActor hands them out                               *)
InOrder(G, order) ==
    SortSeq([a \in Actors(G) |-> a], LAMBDA a, b : order[a] > order[b] \/ (order[a] = order[b] /\ a < b))

dfs(G, f, transpose) ==
    FoldLeft(LAMBDA x, a : IF a \in x.white THEN dfsVisit(G, a, x, transpose) ELSE x,
             [time |-> 0, white |-> Actors(G), f |-> f, pi |-> [a \in Actors(G) |-> 0]],
             InOrder(G, f))

(* Actor u and the tree below it                                           *)
RECURSIVE treeVisitChildren(_, _)
treeVisitChildren(pi, u) ==
    <<u>> \o FlattenSeq([i \in DOMAIN pi |-> IF pi[i] = u THEN treeVisitChildren(pi, i) ELSE <<>>])

getComponents(pi) ==
    LET roots == SelectSeq([a \in DOMAIN pi |-> a], LAMBDA a : pi[a] = 0)
    IN  [i \in DOMAIN roots |-> treeVisitChildren(pi, roots[i])]

stronglyConnectedComponents(G) ==
    LET first == dfs(G, [a \in Actors(G) |-> 0], FALSE)
    IN  getComponents(dfs(G, first.f, TRUE).pi)

isStronglyConnectedGraph(G) == Len(stronglyConnectedComponents(G)) = 1

(* The actors and channels inside the component, in the order of the       *)
(* graph.  They get their ids anew, as the throughput analysis does next.  *)
componentToSDFgraph(G, component) ==
    LET id(a) == Cardinality({b \in Actors(G) : Contains(component, b) /\ b <= a})
        inside(k) == Contains(component, k.src) /\ Contains(component, k.dst)
    IN  [ex |-> FoldLeft(LAMBDA ex, a : IF Contains(component, a) THEN Append(ex, G.ex[a]) ELSE ex,
                         <<>>, [a \in Actors(G) |-> a]),
         ch |-> FoldLeft(LAMBDA ch, k : IF inside(k) THEN Append(ch, [k EXCEPT !.src = id(@), !.dst = id(@)])
                                        ELSE ch,
                         <<>>, G.ch)]
=============================================================================
