--------------------------- MODULE YoungTarjanOrlin ---------------------------
(***************************************************************************)
(* The maximum cycle mean by the algorithm of Young, Tarjan and Orlin      *)
(* (mmcycle in sdf/analysis/mcm/mcmyto.cc).  A tree from an extra source   *)
(* to every node changes arc by arc while the parameter lambda falls, from *)
(* one key of an arc to the next; it ends with an arc that closes a cycle. *)
(* The heap holds for every node the arc into it with the largest key, its *)
(* vertex key: the model keeps vkey and takes the maximum.  Keys of arcs   *)
(* outside the tree follow from the levels and costs of their ends.        *)
(*                                                                         *)
(* An arc is named by its place in arcs; 0 stands for the arc from the     *)
(* source, and for NILA.                                                   *)
(***************************************************************************)
EXTENDS CycleMeans

VARIABLES V, arcs,        \* the graph
          parent,         \* arc of the tree into each node
          level, cost_t,  \* number of arcs and cost of the path to it
          vkey,           \* its vertex key
          lambda,
          state           \* "pivot", "done" or "assert"

tree == <<parent, level, cost_t>>
ytoVars == <<V, arcs, tree, vkey, lambda, state>>

NILA == 0
infty == Fraction(0, 1)  \* DBL_MIN: the key of an arc that has none

tail(i) == arcs[i].src
head(i) == arcs[i].dst

key(i, lev, ct) ==
    LET steps == lev[tail(i)] + arcs[i].d - lev[head(i)]
    IN  IF steps > 0 THEN Fraction(ct[tail(i)] + arcs[i].w - ct[head(i)], steps) ELSE infty

(* Of the arcs in S one with the largest key, if any has a key             *)
Largest(S, lev, ct) ==
    LET keyed == {i \in S : LessThan(infty, key(i, lev, ct))}
    IN  IF keyed = {} THEN NILA
        ELSE CHOOSE i \in keyed : \A j \in keyed : ~LessThan(key(i, lev, ct), key(j, lev, ct))

Into(v, par) == {i \in DOMAIN arcs : head(i) = v /\ par[v] # i}

(* The tree of the arcs from the source                                    *)
Start(graph) ==
    /\ V = graph.V /\ arcs = graph.E
    /\ parent = [v \in V |-> NILA] /\ level = [v \in V |-> 1] /\ cost_t = [v \in V |-> 0]
    /\ vkey = [v \in V |-> Largest(Into(v, parent), level, cost_t)]
    /\ lambda = infty
    /\ state = "pivot"

Heap == {vkey[v] : v \in V} \ {NILA}

GET_MAX == {i \in Heap : \A j \in Heap : ~LessThan(key(i, level, cost_t), key(j, level, cost_t))}

RECURSIVE Ancestors(_)
Ancestors(v) == IF parent[v] = NILA THEN {} ELSE {tail(parent[v])} \cup Ancestors(tail(parent[v]))

ClosesCycle(i) == tail(i) = head(i) \/ head(i) \in Ancestors(tail(i))

(* ASSERT: no element on the heap                                          *)
HeapEmpty ==
    /\ state = "pivot" /\ Heap = {}
    /\ state' = "assert"
    /\ UNCHANGED <<V, arcs, tree, vkey, lambda>>

FoundCycle ==
    /\ state = "pivot"
    /\ \E i \in GET_MAX : ClosesCycle(i) /\ lambda' = key(i, level, cost_t)
    /\ state' = "done"
    /\ UNCHANGED <<V, arcs, tree, vkey>>

(* Level and cost of v below arc i                                         *)
RECURSIVE LevelFrom(_, _)
LevelFrom(i, v) == 1 + (IF v = head(i) THEN level[tail(i)] ELSE LevelFrom(i, tail(parent[v])))

RECURSIVE CostFrom(_, _)
CostFrom(i, v) ==
    IF v = head(i) THEN cost_t[tail(i)] + arcs[i].w
    ELSE CostFrom(i, tail(parent[v])) + arcs[parent[v]].w

(* Faulty variant of update_subtree: the nodes below the moved node keep   *)
(* their level.                                                            *)
update_node(i, subtree) ==
    /\ level' = [v \in V |-> IF v = head(i) THEN LevelFrom(i, v) ELSE level[v]]
    /\ cost_t' = [v \in V |-> IF v \in subtree THEN CostFrom(i, v) ELSE cost_t[v]]

update_subtree(i, subtree) ==
    /\ level' = [v \in V |-> IF v \in subtree THEN LevelFrom(i, v) ELSE level[v]]
    /\ cost_t' = [v \in V |-> IF v \in subtree THEN CostFrom(i, v) ELSE cost_t[v]]

(* New vertex keys in the subtree; arcs out of it raise those of the nodes *)
(* they lead to, if these have one                                         *)
update_keys(subtree) ==
    vkey' = [v \in V |->
        IF v \in subtree THEN Largest(Into(v, parent'), level', cost_t')
        ELSE IF vkey[v] = NILA THEN NILA
        ELSE Largest({vkey[v]} \cup {i \in Into(v, parent') : tail(i) \in subtree}, level', cost_t')]

Pivot ==
    /\ state = "pivot"
    /\ \E i \in GET_MAX :
          LET subtree == {v \in V : head(i) \in {v} \cup Ancestors(v)}
          IN  /\ ~ClosesCycle(i)
              /\ lambda' = key(i, level, cost_t)
              /\ parent' = [parent EXCEPT ![head(i)] = i]
              /\ update_subtree(i, subtree)
              /\ update_keys(subtree)
    /\ UNCHANGED <<V, arcs, state>>

Next == HeapEmpty \/ FoundCycle \/ Pivot

-----------------------------------------------------------------------------
(* Every node into which an arc with a key leads has a vertex key.         *)
KeysComplete ==
    \A v \in V : vkey[v] = NILA => Largest(Into(v, parent), level, cost_t) = NILA
=============================================================================
