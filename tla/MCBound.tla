------------------------------- MODULE MCBound -------------------------------
(***************************************************************************)
(* Small instances of BoundFlow: pipelines, cycles and forks of two and    *)
(* three actors on one or two tiles, in both flows, analysed with half of  *)
(* the wheels and with all of them.                                        *)
(***************************************************************************)
EXTENDS BoundFlow

H == INSTANCE HSDF

(* A channel with memory for mem tokens, at either end when the channel    *)
(* crosses tiles                                                           *)
Channel(a, b, q, t, mem, latency) ==
    [src |-> a, dst |-> b, p |-> q[b], c |-> q[a], t |-> t, mem |-> mem,
     bufSrc |-> mem, bufDst |-> mem, delay |-> 2, minLatency |-> latency]

App(flow, exs, chs, tile) ==
    [flow |-> flow, ex |-> exs, ch |-> chs, tile |-> tile, wheel |-> <<4, 4>>]

Flows == {"NSoC", "MP"}

(* Actors 1 and 2 in a cycle, with 2 iterations of tokens on the way back  *)
Pairs ==
    {App(f, e, <<Channel(1, 2, q, 0, 2 * q[1] * q[2], 0),
                 Channel(2, 1, q, 2 * q[1] * q[2], 3 * q[1] * q[2], 0)>>, tile) :
        f \in Flows, e \in {<<1, 2>>, <<3, 1>>, <<2, 5>>},
        q \in {<<1, 1>>, <<1, 2>>, <<2, 1>>, <<2, 3>>}, tile \in {<<1, 1>>, <<1, 2>>}}

(* Actor 1 feeds actors 2 and 3.                                           *)
Forks ==
    {App(f, e, <<Channel(1, 2, q, 0, 2 * q[1] * q[2], 0),
                 Channel(1, 3, q, 0, 2 * q[1] * q[3], l)>>, tile) :
        f \in Flows, e \in {<<8, 1, 1>>, <<1, 2, 1>>}, q \in {<<1, 1, 1>>, <<1, 2, 1>>},
        l \in {0, 3}, tile \in {<<1, 2, 2>>, <<1, 1, 2>>}}

(* With a self-edge, and with too little memory to run                     *)
Singular ==
    {App(f, <<1, 2>>, <<Channel(1, 1, <<1, 1>>, 1, 1, 0), Channel(1, 2, <<1, 1>>, 0, 1, 0)>>, <<1, 1>>) :
        f \in Flows}
    \cup {App(f, <<1, 1>>, <<Channel(1, 2, <<2, 3>>, 0, 3, 0)>>, <<1, 1>>) : f \in Flows}

MCApps == Pairs \cup Forks \cup Singular

MCSlices(a) == {HalfSlices(a), a.wheel}

(* The smallest solution of the balance equations of a connected graph,    *)
(* whose entries divide MaxEntry: from actor 1 along the channels.  A      *)
(* table of all graphs, computed once.                                     *)
MaxEntry == 12

Along(G, known) ==
    UNION {v \cup {<<G.ch[y[1]].dst, (y[2][2] * G.ch[y[1]].p) \div G.ch[y[1]].c>> :
                      y \in {z \in Channels(G) \X v : z[2][1] = G.ch[z[1]].src}} : v \in {known}}

SmallestVector(G) ==
    CHOOSE r \in {LET d == CHOOSE d \in 1 .. MaxEntry :
                             /\ \A x \in v : x[2] % d = 0
                             /\ \A e \in d + 1 .. MaxEntry : \E x \in v : x[2] % e # 0
                  IN  [a \in Actors(G) |-> (CHOOSE x \in v : x[1] = a)[2] \div d]
                    : v \in {FoldLeft(LAMBDA w, i : Along(G, w), {<<1, MaxEntry>>}, G.ex)}} : TRUE

AllBound ==
    {modelBinding(a, slice, NoSchedules(a)).g : a \in MCApps, slice \in {<<2, 2>>, <<4, 4>>}}

RepVecs == [G \in AllBound |-> SmallestVector(G)]

MCRepVec(G) == RepVecs[G]

-----------------------------------------------------------------------------
Analyzed == stage = "analyze" /\ phase = "done"

InUse == {p \in Tiles(g) : BoundTo(g, p) # {}}

FiringsOn(p) == MapThenSumSet(LAMBDA a : repVec[a], BoundTo(g, p))

(* The periodic part has the actors of the tile in the proportions of the  *)
(* repetition vector.                                                      *)
IsPeriodic(p) ==
    \A a \in BoundTo(g, p) :
        LS!Occurrences(PeriodicPart(sos[p]), a) * FiringsOn(p)
            = repVec[a] * Len(PeriodicPart(sos[p]))

(* The order that schedule s imposes on n firings from its periodic part   *)
(* on, as channels of the homogeneous graph of v: the n-th firing of the   *)
(* schedule is the i-th of its actor, in iteration (i - 1) \div v.         *)
OrderChannels(s, n, v) ==
    LET earlier(i) == LS!Occurrences([j \in 1 .. i - 1 |-> Firing(s, j)], Firing(s, i))
        firing(i) == <<Firing(s, i), 1 + (earlier(i) % v[Firing(s, i)])>>
        iteration(i) == earlier(i) \div v[Firing(s, i)]
    IN  {[src |-> firing(i), dst |-> firing(i + 1), t |-> iteration(i + 1) - iteration(i)] :
            i \in s.start .. s.start + n - 1}

(* The throughput the channels and the schedules allow: the critical cycle *)
(* of the homogeneous graph of as many iterations as the schedules take to *)
(* come to their ends together, with their order as channels               *)
ScheduledCycle ==
    LET together(k) == \A p \in InUse : (k * FiringsOn(p)) % Len(PeriodicPart(sos[p])) = 0
        k == CHOOSE k \in 1 .. MaxEntry : together(k) /\ \A j \in 1 .. k - 1 : ~together(j)
        v == [a \in Actors(g) |-> k * repVec[a]]
        w == H!CriticalOf(H!CyclesIn(g, H!HSDFChannels(g, v) \cup
                UNION {OrderChannels(sos[p], k * FiringsOn(p), v) : p \in InUse}))
    IN  [w EXCEPT !.fire = k * @]

(* With whole wheels and periodic parts that hold every actor in its       *)
(* proportion, the analysis returns the throughput that channels and       *)
(* schedules allow, computed without executing the graph; with smaller     *)
(* slices no more than that.                                               *)
ThroughputIsScheduledCycle ==
    Analyzed /\ (\A p \in InUse : IsPeriodic(p)) =>
        \E w \in {ScheduledCycle} :
            IF g.slice = g.wheel THEN H!SameThroughput(thr, w)
            ELSE thr.fire * w.time <= w.fire * thr.time

(* Schedules are constructed, or the graph is found to deadlock, and the   *)
(* analysis of an allocation returns, also when an actor is lost from a    *)
(* schedule or never gets its turn.                                        *)
Terminates == <>(phase = "done" /\ (stage = "analyze" \/ recurrent = 0))

-----------------------------------------------------------------------------
(* Every schedule of a tile in use becomes a complete cycle: the comment   *)
(* "Complete cycle in each processor schedule" says so of the code that    *)
(* takes off the last entry and loops back to the position in the          *)
(* recurrent state.  Run MCBoundOrder refutes it.                          *)
CompleteCycles ==
    stage = "construct" /\ recurrent # 0 =>
        \A p \in InUse : LS!HoldsIterations(p, thr.fire)
=============================================================================
