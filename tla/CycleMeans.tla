------------------------------ MODULE CycleMeans ------------------------------
(***************************************************************************)
(* The maximum cycle mean of a homogeneous graph (sdf/analysis/mcm): the   *)
(* largest ratio of execution time to tokens of a cycle, by enumeration of *)
(* the simple cycles, and by the algorithms of Karp, Dasdan and Gupta, and *)
(* Howard on a graph whose edges all have one token (mcmgraph.cc).         *)
(*                                                                         *)
(* A fraction [num, den] stands for a double.  An MCM graph has nodes      *)
(* 1 .. nodes and edges with src, dst, weight w and delay d; its visible   *)
(* part is [V, E].                                                         *)
(***************************************************************************)
EXTENDS Components

CONSTANTS INT_MAX,         \* the mean of a cycle without tokens
          MAX_NIterations  \* of Howard's algorithm

Fraction(n, d) == [num |-> n, den |-> d]

LessThan(x, y) == x.num * y.den < y.num * x.den

Greatest(S) == CHOOSE x \in S : \A y \in S : ~LessThan(x, y)
Smallest(S) == CHOOSE x \in S : \A y \in S : ~LessThan(y, x)

-----------------------------------------------------------------------------
(* The mean of a cycle; the sum of its execution times over the least      *)
(* tokens of the channels between each two of its actors                   *)
maximumCycleMeanCycle(G, cycle) ==
    LET next(i) == cycle[1 + (i % Len(cycle))]
        tokensCh(i) == Min({k.t : k \in {k \in ToSet(G.ch) : k.src = cycle[i] /\ k.dst = next(i)}})
        tokens == FoldFunction(+, 0, [i \in DOMAIN cycle |-> tokensCh(i)])
    IN  IF tokens = 0 THEN Fraction(INT_MAX, 1)
        ELSE Fraction(FoldFunction(+, 0, [i \in DOMAIN cycle |-> G.ex[cycle[i]]]), tokens)

(* The means of the cycles closed by a walk on from the end of a path      *)
RECURSIVE mcmSimpleCycleVisit(_, _, _)
mcmSimpleCycleVisit(G, component, path) ==
    LET a == Last(path)
        adjacent == {k.dst : k \in {k \in ToSet(G.ch) : k.src = a}} \cap ToSet(component)
        cycle(b) == SubSeq(path, CHOOSE i \in DOMAIN path : path[i] = b, Len(path))
    IN  {maximumCycleMeanCycle(G, cycle(b)) : b \in adjacent \cap ToSet(path)}
        \cup UNION {mcmSimpleCycleVisit(G, component, Append(path, b)) : b \in adjacent \ ToSet(path)}

mcmSimpleCycles(G) ==
    LET components == ToSet(stronglyConnectedComponents(G))
    IN  Greatest({Fraction(0, 1)} \cup UNION {mcmSimpleCycleVisit(G, c, <<c[1]>>) : c \in components})

-----------------------------------------------------------------------------
(* From a homogeneous graph to an MCM graph                                *)
MCMedge(a, b, w, d) == [src |-> a, dst |-> b, w |-> w, d |-> d]

createInitialMCMgraph(G) ==
    [nodes |-> Len(G.ex),
     edges |-> [i \in DOMAIN G.ch |->
                   MCMedge(G.ch[i].src, G.ch[i].dst, G.ex[G.ch[i].src], G.ch[i].t)]]

(* Edge i with more than one token becomes a sequence of edges with one    *)
(* token each over new nodes; the weight stays on the last of them         *)
splitMCMedgeToSequence(m, i) ==
    LET e == m.edges[i]
        dummy(j) == IF j = e.d THEN e.src ELSE m.nodes + j
    IN  [nodes |-> m.nodes + e.d - 1,
         edges |-> [k \in DOMAIN m.edges |-> IF k = i THEN MCMedge(dummy(1), e.dst, e.w, 1) ELSE m.edges[k]]
                       \o [j \in 1 .. e.d - 1 |-> MCMedge(dummy(j + 1), dummy(j), 0, 1)]]

(* Longest distances over edges without delay, from the nodes of Q on: of  *)
(* these the farthest goes first, and nodes whose distance grows are       *)
(* checked (again).  It does not end when such edges form a cycle.         *)
RECURSIVE longest(_, _, _)
longest(m, d, Q) ==
    IF Q = {} THEN d
    ELSE LET u == CHOOSE u \in Q : \A v \in Q : d[u] >= d[v]
             nearer == {e \in ToSet(m.edges) : e.src = u /\ e.d = 0 /\ d[e.dst] < d[u] + e.w}
             farther == {e.dst : e \in nearer}
         IN  longest(m, [v \in DOMAIN d |-> IF v \in farther THEN d[u] + (CHOOSE e \in nearer : e.dst = v).w
                                            ELSE d[v]],
                     (Q \ {u}) \cup farther)

EdgesTo(m, e, d) ==
    LET reached == SelectSeq([v \in 1 .. m.nodes |-> v], LAMBDA v : v # e.dst /\ d[v] > 0)
    IN  [i \in DOMAIN reached |-> MCMedge(e.src, reached[i], d[reached[i]], e.d)]

(* Faulty variant of addLongestDelayEdgeForNode: the weight of e itself is *)
(* left out.                                                               *)
addEdgesFromItsEnd(m, e) ==
    EdgesTo(m, e, longest(m, [v \in 1 .. m.nodes |-> IF v \in {e.src, e.dst} THEN 0 ELSE -1], {e.dst}))

(* An edge to every node that edges without delay reach from the end of e, *)
(* but that end                                                            *)
addLongestDelayEdgeForNode(m, e) ==
    EdgesTo(m, e, longest(m, [v \in 1 .. m.nodes |-> IF v = e.dst THEN e.w ELSE IF v = e.src THEN 0 ELSE -1],
                          {e.dst}))

addLongestDelayEdgesToMCMgraph(m) ==
    LET split == FoldLeft(LAMBDA x, i : IF x.edges[i].d > 1 THEN splitMCMedgeToSequence(x, i) ELSE x,
                          m, [i \in DOMAIN m.edges |-> i])
        delays == SelectSeq(split.edges, LAMBDA e : e.d # 0)
    IN  [split EXCEPT !.edges =
            delays \o FlattenSeq([i \in DOMAIN delays |-> addLongestDelayEdgeForNode(split, delays[i])])]

transformHSDFtoMCMgraph(G) == addLongestDelayEdgesToMCMgraph(createInitialMCMgraph(G))

(* The strongly connected components with at least one edge.  The copy of  *)
(* a component has the root of its tree as last node.                      *)
Inside(V, e) == e.src \in V /\ e.dst \in V

stronglyConnectedMCMgraph(m) ==
    LET trees == stronglyConnectedComponents([ex |-> [v \in 1 .. m.nodes |-> 0], ch |-> m.edges])
        comp(c) == [nodes |-> Append(Tail(c), Head(c)), V |-> ToSet(c),
                    E |-> SelectSeq(m.edges, LAMBDA e : Inside(ToSet(c), e))]
    IN  SelectSeq([i \in DOMAIN trees |-> comp(trees[i])], LAMBDA c : c.E # <<>>)

(* What stays of the graph itself: all edges between nodes of components   *)
relabelMCMgraph(m) ==
    LET V == UNION {c.V : c \in ToSet(stronglyConnectedMCMgraph(m))}
    IN  [V |-> V, E |-> SelectSeq(m.edges, LAMBDA e : Inside(V, e))]

-----------------------------------------------------------------------------
(* Karp: the heaviest walks of k edges that end in v                       *)
Heaviest(E, d, v) == Max({d[e.src] + e.w : e \in {e \in ToSet(E) : e.dst = v /\ e.src \in DOMAIN d}})

mcmKarp(m) ==
    LET n == Cardinality(m.V)
        d == FoldLeft(LAMBDA x, k : Append(x, [v \in m.V |-> Heaviest(m.E, Last(x), v)]),
                      <<[v \in m.V |-> 0]>>, [k \in 1 .. n |-> k])
    IN  Greatest({Smallest({Fraction(d[n + 1][v] - d[k + 1][v], n - k) : k \in 0 .. n - 1}) : v \in m.V})

(* Dasdan and Gupta: walks from the first node of a component, that at     *)
(* level k are known for the nodes that k edges reach                      *)
mcmDG(c) ==
    LET n == Len(c.nodes)
        succ(d) == {e.dst : e \in {e \in ToSet(c.E) : e.src \in DOMAIN d}}
        d == FoldLeft(LAMBDA x, k : Append(x, [v \in succ(Last(x)) |-> Heaviest(c.E, Last(x), v)]),
                      <<[v \in {c.nodes[1]} |-> 0]>>, [k \in 1 .. n |-> k])
        earlier(v) == {k \in 0 .. n - 1 : v \in DOMAIN d[k + 1]}
    IN  Greatest({Smallest({Fraction(d[n + 1][v] - d[k + 1][v], n - k) : k \in earlier(v)}) :
                     v \in DOMAIN d[n + 1]})

mcmDasdanGupta(m) ==
    Greatest({Fraction(0, 1)} \cup {mcmDG(c) : c \in ToSet(stronglyConnectedMCMgraph(m))})

-----------------------------------------------------------------------------
(* Howard: a policy pi has an edge for every node; its value are the mean  *)
(* chi of the cycle it leads to and a bias v.  Weights are scaled so that  *)
(* means of cycles of up to n edges are integers.                          *)
Scale(n) == Min({s \in 1 .. 60 : \A k \in 1 .. n : s % k = 0})

Initial_Policy(m) ==
    FoldLeft(LAMBDA pi, e : IF e.src \in DOMAIN pi /\ pi[e.src].w > e.w THEN pi
                            ELSE [v \in DOMAIN pi \cup {e.src} |-> IF v = e.src THEN e ELSE pi[v]],
             <<>>, m.E)

RECURSIVE Walk(_, _)
Walk(pi, path) ==
    LET v == pi[Last(path)].dst
    IN  IF v \in ToSet(path) THEN [path |-> path, cycle |-> SubSeq(path, CHOOSE i \in DOMAIN path : path[i] = v, Len(path))]
        ELSE Walk(pi, Append(path, v))

(* The biases of all nodes that lead to those of x                         *)
RECURSIVE New_Depth_First_Label(_, _, _)
New_Depth_First_Label(pi, lambda, x) ==
    LET next == {u \in DOMAIN pi \ DOMAIN x : pi[u].dst \in DOMAIN x}
    IN  IF next = {} THEN x
        ELSE New_Depth_First_Label(pi, lambda,
                [u \in DOMAIN x \cup next |-> IF u \in next THEN pi[u].w - lambda + x[pi[u].dst] ELSE x[u]])

Visit_From(pi, vaux, initialpoint) ==
    LET walk == Walk(pi, <<initialpoint>>)
        lambda == FoldFunction(+, 0, [i \in DOMAIN walk.cycle |-> pi[walk.cycle[i]].w]) \div Len(walk.cycle)
        index == Last(walk.path)
        v == New_Depth_First_Label(pi, lambda, [u \in {index} |-> vaux[index]])
    IN  [chi |-> [u \in DOMAIN v |-> lambda], v |-> v]

(* The value of every node, and the number of components of the policy     *)
Value(pi, vaux) ==
    FoldLeft(LAMBDA x, u :
                IF u \notin DOMAIN pi \ DOMAIN x.v THEN x
                ELSE LET y == Visit_From(pi, vaux, u)
                     IN  [chi |-> x.chi @@ y.chi, v |-> x.v @@ y.v, components |-> x.components + 1],
             [chi |-> <<>>, v |-> <<>>, components |-> 0], [u \in 1 .. Max(DOMAIN pi) |-> u])

(* An edge to a node with a better mean                                    *)
First_Order_Improvement(m, pi, x) ==
    FoldLeft(LAMBDA y, e : IF x.chi[e.dst] <= y.chi[e.src] THEN y
                           ELSE [pi |-> [y.pi EXCEPT ![e.src] = e], chi |-> [y.chi EXCEPT ![e.src] = x.chi[e.dst]]],
             [pi |-> pi, chi |-> x.chi], m.E).pi

(* An edge to a node with a better bias, of the same mean                  *)
Second_Order_Improvement(m, pi, x) ==
    LET bias(e) == e.w + x.v[e.dst] - x.chi[e.dst]
    IN  FoldLeft(LAMBDA y, e : IF (x.components > 1 /\ x.chi[e.dst] # x.chi[e.src]) \/ bias(e) <= y.v[e.src] THEN y
                               ELSE [pi |-> [y.pi EXCEPT ![e.src] = e], v |-> [y.v EXCEPT ![e.src] = bias(e)]],
                 [pi |-> pi, v |-> x.v], m.E).pi

Improve(m, pi, x) ==
    LET first == IF x.components > 1 THEN First_Order_Improvement(m, pi, x) ELSE pi
    IN  IF first # pi THEN first ELSE Second_Order_Improvement(m, pi, x)

(* The means under the last policy, -1 for the exception after             *)
(* MAX_NIterations                                                         *)
RECURSIVE Howard(_, _, _, _)
Howard(m, pi, vaux, iterations) ==
    LET x == Value(pi, vaux)
        better == Improve(m, pi, x)
    IN  IF iterations + 1 = MAX_NIterations THEN {-1}
        ELSE IF better = pi THEN {x.chi[v] : v \in DOMAIN x.chi}
        ELSE Howard(m, better, x.v, iterations + 1)

mcmHoward(m) ==
    LET s == Scale(Cardinality(m.V))
        scaled == [m EXCEPT !.E = [i \in DOMAIN m.E |-> [m.E[i] EXCEPT !.w = s * @]]]
        pi == Initial_Policy(scaled)
    IN  Fraction(Max(Howard(scaled, pi, [v \in m.V |-> pi[v].w], 0)), s)
=============================================================================
