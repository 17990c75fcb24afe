------------------------------ MODULE StorageDSE ------------------------------
(***************************************************************************)
(* Exploration of the trade-off between storage space and throughput       *)
(* (sdf/analysis/buffersizing/buffer.cc, SDFstateSpaceBufferAnalysis): the *)
(* list of sets of storage distributions, ordered by size, is explored     *)
(* from the smallest set on; every distribution is executed (StorageExec,  *)
(* of which this module extends the variables) and its dependent channels  *)
(* are enlarged into new distributions.  A search is one call of analyze   *)
(* with a throughput bound, or initSearch and repeated calls of            *)
(* findNextStorageDistributionSet (api "next").                            *)
(*                                                                         *)
(* Pointers into the linked list are positions.  Sets are removed and      *)
(* inserted only behind the last explored one, so these stay valid.  Of a  *)
(* distribution the list keeps sp and thr; its sz is that of its set.      *)
(* Throughputs are exact fractions (doubles in the code).                  *)
(***************************************************************************)
EXTENDS StorageExec, SequencesExt

CONSTANTS Searches(_),      \* the searches of a graph: api and thrBound
          MaxThroughput(_)  \* the throughput analysis of the graph

ASSUME ThroughputAssumption ==
    \A G \in Graphs : MaxThroughput(G) \in [fire : Nat, time : Nat]

VARIABLES search,       \* [api, thrBound]
          maxThroughput,
          minStorageDistributions,
          ds, d,        \* the set and the distribution being explored
          lastExplored, \* lastExploredStorageDistributionSet, 0 for NULL
          returned,     \* history: the sets that were returned one by one
          pc            \* "explore", "exec", "explored", "stop", "done"

dse == <<search, maxThroughput, minStorageDistributions, ds, d, lastExplored, returned, pc>>
searchVars == <<vars, dse>>

-----------------------------------------------------------------------------
gcd(a, b) == CHOOSE n \in 1 .. a : /\ a % n = 0 /\ b % n = 0
                                   /\ \A m \in n + 1 .. a : ~(a % m = 0 /\ b % m = 0)

Greater(a, b) == IF a > b THEN a ELSE b

SelfEdge(k) == g.ch[k].src = g.ch[k].dst

(* Faulty variant of minSzStep: the rate of the source port.               *)
RateAsStep(k) == g.ch[k].p

minSzStep(k) == gcd(g.ch[k].p, g.ch[k].c)

minSz == [k \in Channels(g) |->
            LET c == g.ch[k]
                n == gcd(c.p, c.c)
            IN  IF SelfEdge(k) THEN c.p + Greater(c.c, c.t)
                ELSE Greater(c.p + c.c - n + (c.t % n), c.t)]

lbDistributionSz == FoldFunctionOnSet(LAMBDA x, y : x + y, 0, minSz, Channels(g))

Zero == [fire |-> 0, time |-> 1]

Less(x, y) == x.fire * y.time < y.fire * x.time
Equal(x, y) == x.fire * y.time = y.fire * x.time

NewDistribution(s) == [sp |-> s, thr |-> Zero]

NewSet(sz, s) == [sz |-> sz, thr |-> Zero, distributions |-> <<NewDistribution(s)>>]

(* Behind the last set, other than the first, that is not larger than sz   *)
Place(list, sz) ==
    CHOOSE i \in DOMAIN list : /\ \A j \in 2 .. i : list[j].sz <= sz
                               /\ i < Len(list) => list[i + 1].sz > sz

addStorageDistributionToChecklist(list, sz, s) ==
    LET i == Place(list, sz)
    IN  IF list[i].sz # sz THEN InsertAt(list, i + 1, NewSet(sz, s))
        ELSE IF \E j \in DOMAIN list[i].distributions : list[i].distributions[j].sp = s
             THEN list
        ELSE [list EXCEPT ![i].distributions = <<NewDistribution(s)>> \o @]

(* Faulty variant of minimizeStorageDistributionsSet: slow ones stay.      *)
MinimizeWholeSets(list, i) ==
    [list EXCEPT ![i].distributions =
        IF i > 1 /\ Equal(list[i - 1].thr, list[i].thr) THEN <<>> ELSE @]

minimizeStorageDistributionsSet(list, i) ==
    [list EXCEPT ![i].distributions =
        IF i > 1 /\ Equal(list[i - 1].thr, list[i].thr) THEN <<>>
        ELSE FoldLeft(LAMBDA kept, x : IF Less(x.thr, list[i].thr) THEN kept ELSE Append(kept, x),
                      <<>>, @)]

-----------------------------------------------------------------------------
Set == minStorageDistributions[ds]

SearchInit ==
    /\ g \in Graphs
    /\ size = minSz
    /\ initOutputActor
    /\ Cleared
    /\ search \in Searches(g)
    /\ maxThroughput = MaxThroughput(g)
    /\ minStorageDistributions = <<NewSet(lbDistributionSz, minSz)>>
    /\ ds = 1
    /\ d = 1
    /\ lastExplored = 0
    /\ returned = {}
    /\ pc = "explore"

(* execStorageDistribution, and execSDFgraph up to the initial tokens      *)
StartExec ==
    /\ pc = "explore"
    /\ size' = Set.distributions[d].sp
    /\ ch' = [k \in Channels(g) |-> 0]
    /\ sp' = [k \in Channels(g) |-> 0]
    /\ actClk' = [a \in Actors(g) |-> <<>>]
    /\ glbClk' = 0
    /\ previous' = [ch |-> ch', sp |-> sp']
    /\ repCnt' = 0
    /\ stored' = <<>>
    /\ phase' = "begin"
    /\ mode' = "exec"
    /\ waitsFor' = {}
    /\ periodic' = [ch |-> ch', sp |-> sp', actClk |-> actClk', glbClk |-> 0]
    /\ dep' = {}
    /\ recurrent' = 0
    /\ iter' = 0
    /\ thr' = [fire |-> 0, time |-> 0]
    /\ pc' = "exec"
    /\ UNCHANGED <<g, outputActor, outputActorRepCnt, search, maxThroughput,
                   minStorageDistributions, ds, d, lastExplored, returned>>

Exec == pc = "exec" /\ Next /\ UNCHANGED dse

(* The rest of exploreStorageDistribution: every channel with a storage    *)
(* dependency, except self-edges, gives a new distribution.  After the     *)
(* last distribution the set is minimized.                                 *)
exploreStorageDistribution ==
    /\ pc = "exec"
    /\ phase = "done"
    /\ LET explored == [minStorageDistributions EXCEPT
                          ![ds].distributions[d].thr = thr,
                          ![ds].thr = IF Less(@, thr) THEN thr ELSE @]
           enlarge(list, k) ==
               IF k \notin dep \/ SelfEdge(k) THEN list
               ELSE addStorageDistributionToChecklist(list, Set.sz + minSzStep(k),
                                                      [size EXCEPT ![k] = @ + minSzStep(k)])
           list == FoldLeft(enlarge, explored, [k \in Channels(g) |-> k])
       IN  IF d < Len(Set.distributions)
           THEN /\ minStorageDistributions' = list
                /\ d' = d + 1
                /\ pc' = "explore"
           ELSE /\ minStorageDistributions' = minimizeStorageDistributionsSet(list, ds)
                /\ d' = 1
                /\ pc' = "explored"
    /\ UNCHANGED <<vars, search, maxThroughput, ds, lastExplored, returned>>

MaxReached == Equal(Set.thr, maxThroughput)

(* The loop of findMinimalStorageDistributions ends with this set; a bound *)
(* of 0 asks for any positive throughput.                                  *)
BoundReached ==
    /\ ~Less(Set.thr, search.thrBound) \/ MaxReached
    /\ search.thrBound.fire = 0 => Set.thr.fire > 0

(* Faulty variant of NewPoint: as fast as the last one is enough.          *)
AnyFurther == IF lastExplored = 0 THEN Set.thr.fire > 0
              ELSE ~Less(Set.thr, minStorageDistributions[lastExplored].thr)

(* A new Pareto point, for findNextStorageDistributionSet                  *)
NewPoint == IF lastExplored = 0 THEN Set.thr.fire > 0
            ELSE Less(minStorageDistributions[lastExplored].thr, Set.thr)

Ends == IF search.api = "analyze" THEN BoundReached ELSE NewPoint

(* Faulty variant of NextPosition: the pointer stays.                      *)
SamePosition == ds

NextPosition == IF Set.distributions = <<>> THEN ds ELSE ds + 1

(* On to the next set; a set without distributions is removed.  ds beyond  *)
(* the list is NULL.                                                       *)
NextSet ==
    /\ pc = "explored"
    /\ ~Ends
    /\ LET list == IF Set.distributions = <<>> THEN RemoveAt(minStorageDistributions, ds)
                   ELSE minStorageDistributions
       IN  /\ minStorageDistributions' = list
           /\ ds' = NextPosition
           /\ pc' = IF NextPosition > Len(list) THEN "stop" ELSE "explore"
    /\ UNCHANGED <<vars, search, maxThroughput, d, lastExplored, returned>>

Stop ==
    /\ pc = "explored"
    /\ Ends
    /\ pc' = "stop"
    /\ UNCHANGED <<vars, search, maxThroughput, minStorageDistributions, ds, d,
                   lastExplored, returned>>

(* A first set without throughput becomes the distribution of size 0.      *)
Zeroed(list) ==
    IF list[1].thr.fire # 0 THEN list
    ELSE [list EXCEPT ![1].sz = 0,
                      ![1].distributions[1].sp = [k \in Channels(g) |-> 0]]

(* The list without the sets that are not explored                         *)
Explored == IF ds > Len(minStorageDistributions) THEN minStorageDistributions
            ELSE SubSeq(minStorageDistributions, 1, ds)

ReturnAll ==
    /\ pc = "stop"
    /\ search.api = "analyze"
    /\ minStorageDistributions' = Zeroed(Explored)
    /\ pc' = "done"
    /\ UNCHANGED <<vars, search, maxThroughput, ds, d, lastExplored, returned>>

(* findNextStorageDistributionSet has found a set of maximal throughput    *)
(* and removes the ones behind it: its pointer walks to the end with them. *)
CutOff == ds < Len(minStorageDistributions) /\ MaxReached

(* It returns ds, and the caller asks for the next one.  The call returns  *)
(* NULL at once when ds has the maximal throughput.                        *)
ReturnNext ==
    /\ pc = "stop"
    /\ search.api = "next"
    /\ ds <= Len(minStorageDistributions)
    /\ ~CutOff
    /\ minStorageDistributions' = Zeroed(minStorageDistributions)
    /\ lastExplored' = ds
    /\ returned' = returned \cup {ds}
    /\ IF MaxReached THEN pc' = "done" /\ ds' = ds
       ELSE /\ pc' = IF ds < Len(minStorageDistributions) THEN "explore" ELSE "stop"
            /\ ds' = ds + 1
    /\ UNCHANGED <<vars, search, maxThroughput, d>>

(* It returns NULL: the list has come to its end, or is cut off.           *)
ReturnNull ==
    /\ pc = "stop"
    /\ search.api = "next"
    /\ ds > Len(minStorageDistributions) \/ CutOff
    /\ minStorageDistributions' = Zeroed(Explored)
    /\ lastExplored' = 0
    /\ pc' = "done"
    /\ UNCHANGED <<vars, search, maxThroughput, ds, d, returned>>

SearchNext ==
    \/ StartExec
    \/ Exec
    \/ exploreStorageDistribution
    \/ NextSet
    \/ Stop
    \/ ReturnAll
    \/ ReturnNext
    \/ ReturnNull

SearchSpec == SearchInit /\ [][SearchNext]_searchVars

(* One sequential program: it always takes its next step.                  *)
FairSearchSpec == SearchSpec /\ WF_searchVars(SearchNext)

-----------------------------------------------------------------------------
Sets == minStorageDistributions

Total(s) == FoldFunctionOnSet(LAMBDA x, y : x + y, 0, s, Channels(g))

(* Sets come in order of size, distributions have the size of their set    *)
(* and none is listed twice.                                               *)
SetsInOrder ==
    /\ \A i, j \in DOMAIN Sets : i < j => Sets[i].sz < Sets[j].sz
    /\ \A i \in DOMAIN Sets : \A j \in DOMAIN Sets[i].distributions :
          /\ Total(Sets[i].distributions[j].sp) = Sets[i].sz
          /\ \A k \in 1 .. j - 1 : Sets[i].distributions[k].sp # Sets[i].distributions[j].sp

(* The Pareto points: sets faster than all smaller ones                    *)
NewPoints == {i \in DOMAIN Sets : /\ Sets[i].thr.fire # 0
                                   /\ \A j \in 1 .. i - 1 : Less(Sets[j].thr, Sets[i].thr)}

(* The sets that were returned one by one are Pareto points, whatever is   *)
(* listed or removed after, and in the end none below the maximal          *)
(* throughput is left out.  (For the maximum the call may return NULL and  *)
(* forget the set, although it "returns the newly discovered storage       *)
(* distribution set or NULL when no new set was found".)                   *)
PointsReturned ==
    search.api = "next" =>
        /\ returned \subseteq NewPoints
        /\ pc = "done" => \A i \in NewPoints : Less(Sets[i].thr, maxThroughput) => i \in returned

(* The list stays in order, wherever new sets are put in, merged or        *)
(* dropped, and what the search has returned of it stays right.            *)
PointsInOrder == SetsInOrder /\ PointsReturned
=============================================================================
