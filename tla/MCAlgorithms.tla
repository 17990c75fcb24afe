----------------------------- MODULE MCAlgorithms -----------------------------
(***************************************************************************)
(* The algorithms that are functions of a graph, each on every small graph:*)
(* computeRepetitionVector on graphs of up to three actors with a few      *)
(* channels (consistent and inconsistent, connected and not, with parallel *)
(* channels and self-edges), the search for cycles on every dependency     *)
(* graph of up to four actors, minimize on every short schedule, and the   *)
(* maximum cycle mean on homogeneous graphs; the deadlock test and the     *)
(* algorithm of Young, Tarjan and Orlin step by step.                      *)
(***************************************************************************)
EXTENDS DeadlockCheck, RepetitionVector, GraphFamilies, DependencyCycles, StaticOrder

CONSTANTS N,
          MaxLength,  \* of a schedule
          INT_MAX, MAX_NIterations, HomogeneousGraphs

VARIABLES input,  \* a graph g for the vector, n nodes with edges E, a schedule, or a
                  \* homogeneous graph h
          output, \* the vector q, the edges found, the minimized schedule, or cycle means
          V, arcs, parent, level, cost_t, vkey, lambda, state  \* of YoungTarjanOrlin

H == INSTANCE HSDF
M == INSTANCE YoungTarjanOrlin

yto == <<V, arcs, parent, level, cost_t, vkey, lambda, state>>
allVars == <<vars, input, output, yto>>

Consistent == Cycles2({1}, 3, 2, 4) \cup Looped2({1}, 3, 1, 3, 2)
                \cup Rings3({<<1, 1, 1>>}, 2, 2, 3)

(* For the deadlock test also a forward and a backward channel whose rates *)
(* need not agree                                                          *)
TestedGraphs == Consistent
    \cup {[ex |-> <<1, 1>>, ch |-> <<Edge(1, 2, p, c, t), Edge(2, 1, r, 1, u)>>] :
            p \in 1 .. 2, c \in 1 .. 2, r \in 1 .. 2, t \in 0 .. 2, u \in 0 .. 1}

(* The graph of the deadlock test while the others compute                 *)
AnyGraph == CHOOSE G \in Graphs : TRUE

(* Every graph with n actors and m channels of rates up to maxRate         *)
AllGraphs(n, m, maxRate) ==
    LET edges == {Edge(a, b, p, c, 0) : a \in 1 .. n, b \in 1 .. n,
                                        p \in 1 .. maxRate, c \in 1 .. maxRate}
    IN  {[ex |-> [a \in 1 .. n |-> 1], ch |-> chs] : chs \in [1 .. m -> edges]}

MCGraphs == AllGraphs(2, 2, 4) \cup AllGraphs(3, 2, 3) \cup AllGraphs(3, 3, 2)

(* Every edge of rates 1 between n actors with up to maxT tokens           *)
Edges1(n, maxT) == {Edge(a, b, 1, 1, t) : a \in 1 .. n, b \in 1 .. n, t \in 0 .. maxT}

(* Two actors with three channels, and a ring of three actors with two     *)
(* channels more                                                           *)
Homogeneous ==
    {[ex |-> ex, ch |-> chs] : ex \in {<<1, 1>>, <<2, 3>>}, chs \in [1 .. 3 -> Edges1(2, 2)]}
    \cup {[ex |-> ex, ch |-> <<Edge(1, 2, 1, 1, t), Edge(2, 3, 1, 1, u), Edge(3, 1, 1, 1, v), x, y>>] :
            ex \in {<<1, 1, 1>>, <<5, 1, 2>>}, t \in 0 .. 1, u \in 0 .. 1, v \in 0 .. 1,
            x \in Edges1(3, 1), y \in Edges1(3, 1)}

(* Two actors in a cycle with two tokens                                   *)
TwoTokens == {[ex |-> <<1, 1>>, ch |-> <<Edge(1, 2, 1, 1, 0), Edge(2, 1, 1, 1, 2)>>],
              [ex |-> <<2, 3>>, ch |-> <<Edge(1, 2, 1, 1, 2), Edge(2, 1, 1, 1, 0), Edge(1, 1, 1, 1, 1)>>]}

(* The cycles of the homogeneous graph, and its largest cycle mean         *)
Cycles(G) == H!CyclesIn(G, H!HSDFChannels(G, [a \in Actors(G) |-> 1]))

MaximumCycleMean(C) ==
    LET w == H!CriticalOf(C)
    IN  IF C = {} THEN M!Fraction(0, 1)
        ELSE IF w.fire = 0 THEN M!Fraction(INT_MAX, 1) ELSE M!Fraction(w.time, w.fire)

(* Callers of the algorithms on MCM graphs test the connection; on a cycle *)
(* without tokens the search for longest paths does not end.               *)
HasMCMgraph(G) ==
    M!isStronglyConnectedGraph(G) /\ ~ \E w \in Cycles(G) : w.tok = 0

MCMgraphOf(G) == M!transformHSDFtoMCMgraph(G)

MCInit ==
    /\ Init
    /\ \/ input = [tested |-> g]
       \/ /\ g = AnyGraph
          /\ \/ \E G \in MCGraphs : input = [g |-> G]
             \/ \E n \in 1 .. N : \E E \in SUBSET ((1 .. n) \X (1 .. n)) : input = [n |-> n, E |-> E]
             \/ \E l \in 1 .. MaxLength : \E e \in [1 .. l -> 1 .. 2], i \in 1 .. l :
                   input = [entries |-> e, start |-> i]
             \/ \E G \in HomogeneousGraphs : input = [h |-> G]
    /\ output = [started |-> FALSE]
    /\ IF "h" \in DOMAIN input /\ HasMCMgraph(input.h)
       THEN M!Start(M!relabelMCMgraph(MCMgraphOf(input.h)))
       ELSE M!Start([V |-> {}, E |-> <<>>])

CycleMeans(G) ==
    LET m == MCMgraphOf(G)
        visible == M!relabelMCMgraph(m)
    IN  [simpleCycles |-> M!mcmSimpleCycles(G),
         others |-> IF HasMCMgraph(G)
                    THEN {M!mcmKarp(visible), M!mcmDasdanGupta(m), M!mcmHoward(visible)} ELSE {}]

Has(field) == field \in DOMAIN input

Compute == /\ "started" \in DOMAIN output
           /\ \/ Has("g") /\ output' = [q |-> computeRepetitionVector(input.g)]
              \/ Has("E") /\ output' = [found |-> findStorageDependencies(input.n, input.E)]
              \/ Has("entries") /\ output' = [minimized |-> minimize(input)]
              \/ Has("h") /\ output' = [means |-> CycleMeans(input.h)]
           /\ UNCHANGED <<vars, input, yto>>

Test == Has("tested") /\ Next /\ UNCHANGED <<input, output, yto>>

mmcycle == V # {} /\ M!Next /\ UNCHANGED <<vars, input, output>>

MCSpec == MCInit /\ [][Compute \/ Test \/ mmcycle]_allVars

Vector == "q" \in DOMAIN output
Found == "found" \in DOMAIN output

(* No entry of a smallest solution of these graphs is larger than this.    *)
MaxEntry == 16

Solvable == \E r \in [Actors(input.g) -> {1, 2, 3, 4, 6, 8, 9, 12, 16}] : Balanced(input.g, r)

(* The vector solves the balance equations with every actor at least once, *)
(* and is no multiple of a smaller solution: an iteration is counted       *)
(* neither too long nor, across unconnected parts, out of step.  It is     *)
(* zero exactly for the inconsistent graphs: an inconsistency found        *)
(* anywhere in the recursion over the ports survives the rest of the       *)
(* recursion and the other parts of the graph.                             *)
SmallestOrZero ==
    Vector =>
        /\ output.q[1] = 0 <=> ~Solvable
        /\ (\E a \in Actors(input.g) : output.q[a] # 0) =>
              /\ \A a \in Actors(input.g) : output.q[a] \in 1 .. MaxEntry
              /\ Balanced(input.g, output.q)
              /\ ~ \E d \in 2 .. MaxEntry : \A a \in Actors(input.g) : output.q[a] % d = 0

(* Only edges on a cycle are marked as dependencies, and no knot of cycles *)
(* goes unnoticed: whenever edges lie on a cycle, some edge of the same    *)
(* strongly connected part is marked, so the exploration always finds a    *)
(* channel to enlarge there, although nodes are taken out of the graph     *)
(* while the search still goes on above them.                              *)
MarksEveryKnot ==
    Found =>
        /\ output.found \subseteq OnCycle(input.n, input.E)
        /\ \A e \in OnCycle(input.n, input.E) : \E f \in output.found :
              e[1] = f[1] \/ {<<e[1], f[1]>>, <<f[1], e[1]>>} \subseteq Reachable(input.n, input.E)

(* A minimized schedule stands for the same endless sequence of firings,   *)
(* although entries are taken from its transient and its periodic part and *)
(* the loop-back moves; it is never longer.  (Both sequences are periodic  *)
(* from entry MaxLength on, with periods of at most MaxLength.)            *)
MinimizeKeepsSequence ==
    "minimized" \in DOMAIN output =>
        /\ Len(output.minimized.entries) <= Len(input.entries)
        /\ \A n \in 1 .. 3 * MaxLength : Firing(output.minimized, n) = Firing(input, n)

(* A consistent graph is declared deadlock free exactly when the           *)
(* homogeneous graph has no cycle without tokens: firing in rounds and in  *)
(* actor order loses no schedule.                                          *)
FreeIffNoTokenFreeCycle ==
    answer # "none" /\ isSDFgraphConsistent(g) =>
        ((answer = "free") <=> (H!CriticalCycle(g, q).fire # 0))

Same(x, y) == x.num * y.den = y.num * x.den

(* On every homogeneous graph the enumeration of its simple cycles, by one *)
(* walk from the first actor of each component with actors made white      *)
(* again behind it, finds the largest cycle mean, or the cycle without     *)
(* tokens.  The algorithms of Karp, Dasdan and Gupta, and Howard return    *)
(* the same, although they see a graph from which actors have disappeared, *)
(* in which tokens have become nodes and paths without tokens edges.       *)
CycleMeansAgree ==
    "means" \in DOMAIN output =>
        \A mean \in {output.means.simpleCycles} \cup output.means.others :
            Same(mean, MaximumCycleMean(Cycles(input.h)))

(* The algorithm of Young, Tarjan and Orlin never returns more than the    *)
(* maximum, whatever the order of its pivots; it returns less, or finds    *)
(* its heap empty, only when a node into which an arc with a key leads is  *)
(* left without a vertex key.                                              *)
ReturnsCycleMean ==
    state # "pivot" =>
        \E maximum \in {MaximumCycleMean(Cycles(input.h))} :
            /\ state = "done" => ~M!LessThan(maximum, lambda)
            /\ M!KeysComplete => state = "done" /\ Same(lambda, maximum)

-----------------------------------------------------------------------------
(* lambda is the maximum cycle mean: "Determines maximum mean cycle in a   *)
(* directed graph", says the comment of mmcycle.  Run yto refutes it.      *)
ReturnsMaximum ==
    state = "done" => Same(lambda, MaximumCycleMean(Cycles(input.h)))
=============================================================================
