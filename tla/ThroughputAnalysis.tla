-------------------------- MODULE ThroughputAnalysis --------------------------
(***************************************************************************)
(* analyze of the state-space throughput analysis                          *)
(* (sdf/analysis/throughput/selftimed_throughput.cc): a strongly connected *)
(* graph is executed; of any other graph every component that has a        *)
(* channel is executed by itself, and the least of their throughputs,      *)
(* scaled to iterations of the whole graph, is returned.  The execution is *)
(* SelfTimed, of which this module extends the variables.                  *)
(*                                                                         *)
(* Graphs holds the graphs given to analyze and their components, to which *)
(* the code applies analyze again.                                         *)
(*                                                                         *)
(* Fractions stand for the doubles of the code: time 0 is infinity.        *)
(***************************************************************************)
EXTENDS SelfTimed, Components

CONSTANT TDTIME_MAX  \* the throughput the search for the least starts from

VARIABLES whole,       \* the graph given to analyze
          repVec,      \* its repetition vector
          components,  \* those still to analyze, the present one first
          least,       \* thr of analyze
          at           \* "whole" or "part" (of which the transition system runs),
                       \* "split" (between two parts) or "returned"

analysis == <<whole, repVec, components, least, at>>

allVars == <<vars, analysis>>

Unlimited == [fire |-> TDTIME_MAX, time |-> 1]

Less(x, y) == x.fire * y.time < y.fire * x.time

(* A component: its graph and its repetition vector, and the id of its     *)
(* first actor before the actors are relabelled, the least of the ids      *)
Part(component) ==
    [gc |-> componentToSDFgraph(g, component),
     repVecGC |-> RepVec(componentToSDFgraph(g, component)),
     idFirstActor |-> CHOOSE a \in ToSet(component) : \A b \in ToSet(component) : a <= b]

AnalyzeInit ==
    /\ Init
    /\ whole = g
    /\ repVec = RepVec(g)
    /\ components = FoldLeft(LAMBDA parts, c : Append(parts, Part(c)),
                             <<>>, stronglyConnectedComponents(g))
    /\ least = Unlimited
    /\ at = IF isStronglyConnectedGraph(g) THEN "whole" ELSE "split"

SkipComponent ==
    /\ at = "split"
    /\ components # <<>>
    /\ Head(components).gc.ch = <<>>
    /\ components' = Tail(components)
    /\ UNCHANGED <<vars, whole, repVec, least, at>>

(* A new transition system for the component                               *)
AnalyzeComponent ==
    /\ at = "split"
    /\ components # <<>>
    /\ Head(components).gc.ch # <<>>
    /\ g' = Head(components).gc
    /\ LET q == Head(components).repVecGC
       IN  /\ outputActor' \in Actors(g')
           /\ \A b \in Actors(g') : \/ q[outputActor'] < q[b]
                                    \/ q[outputActor'] = q[b] /\ outputActor' <= b
           /\ outputActorRepCnt' = q[outputActor']
    /\ ch' = InitialTokens(g')
    /\ actClk' = [a \in Actors(g') |-> <<>>]
    /\ glbClk' = 0
    /\ repCnt' = 0
    /\ stored' = <<>>
    /\ phase' = "end"
    /\ recurrent' = 0
    /\ iter' = 0
    /\ thr' = [fire |-> 0, time |-> 0]
    /\ now' = 0
    /\ storedAt' = <<>>
    /\ at' = "part"
    /\ UNCHANGED <<whole, repVec, components, least>>

Exec == at \in {"whole", "part"} /\ Next /\ UNCHANGED analysis

(* Faulty variant of Scaled: the id of the actor after relabelling.        *)
ScaledByNewId == [fire |-> thr.fire * Head(components).repVecGC[1], time |-> thr.time * repVec[1]]

(* In iterations of the whole graph                                        *)
Scaled == [fire |-> thr.fire * Head(components).repVecGC[1],
           time |-> thr.time * repVec[Head(components).idFirstActor]]

ComponentDone ==
    /\ at = "part"
    /\ phase = "done"
    /\ least' = IF Less(Scaled, least) THEN Scaled ELSE least
    /\ components' = Tail(components)
    /\ at' = "split"
    /\ UNCHANGED <<vars, whole, repVec>>

ReturnLeast ==
    /\ at = "split"
    /\ components = <<>>
    /\ at' = "returned"
    /\ UNCHANGED <<vars, whole, repVec, components, least>>

ReturnWhole ==
    /\ at = "whole"
    /\ phase = "done"
    /\ least' = thr
    /\ at' = "returned"
    /\ UNCHANGED <<vars, whole, repVec, components>>

AnalyzeNext == \/ SkipComponent
               \/ AnalyzeComponent
               \/ Exec
               \/ ComponentDone
               \/ ReturnLeast
               \/ ReturnWhole

(* The analysis is one sequential computation.                             *)
AnalyzeSpec == AnalyzeInit /\ [][AnalyzeNext]_allVars /\ WF_allVars(AnalyzeNext)
=============================================================================
