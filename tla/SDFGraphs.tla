------------------------------ MODULE SDFGraphs ------------------------------
(***************************************************************************)
(* Timed synchronous dataflow graphs (sdf/base): actors 1..Len(G.ex) with  *)
(* an execution time each, channels 1..Len(G.ch) with a source and a       *)
(* destination actor, the rate p of the source port, the rate c of the     *)
(* destination port and t initial tokens.  Actor and channel ids of the    *)
(* code start at 0, here at 1.  The port lists of an actor are the sets    *)
(* InChannels and OutChannels: the code visits ports in list order, but    *)
(* every visit touches a different channel, so the order is not visible.   *)
(***************************************************************************)
EXTENDS Integers, Sequences, FiniteSets

Actors(G) == DOMAIN G.ex

Channels(G) == DOMAIN G.ch

Positive == Nat \ {0}

IsSDFGraph(G) ==
    /\ G.ex \in Seq(Nat)
    /\ G.ch \in Seq([src : Actors(G), dst : Actors(G),
                     p : Positive, c : Positive, t : Nat])

InChannels(G, a) == {k \in Channels(G) : G.ch[k].dst = a}

OutChannels(G, a) == {k \in Channels(G) : G.ch[k].src = a}

InitialTokens(G) == [k \in Channels(G) |-> G.ch[k].t]

(* actorReadyToFire: the same test in every transition system of sdf/      *)
Ready(G, tok, a) == \A k \in InChannels(G, a) : tok[k] >= G.ch[k].c

(* CONSUME and PRODUCE over all ports of an actor                          *)
Consume(G, tok, a) ==
    [k \in Channels(G) |-> IF G.ch[k].dst = a THEN tok[k] - G.ch[k].c ELSE tok[k]]

Produce(G, tok, a) ==
    [k \in Channels(G) |-> IF G.ch[k].src = a THEN tok[k] + G.ch[k].p ELSE tok[k]]

(* q solves the balance equations of G: one firing of every actor a, q[a]  *)
(* times, returns every channel to its number of tokens.                   *)
Balanced(G, q) == \A k \in Channels(G) :
                     q[G.ch[k].src] * G.ch[k].p = q[G.ch[k].dst] * G.ch[k].c

(* Every actor can be reached from every other: what is closed under the   *)
(* channels is empty or the whole graph.                                   *)
StronglyConnected(G) ==
    \A S \in SUBSET Actors(G) :
        S # {} /\ (\A k \in Channels(G) : G.ch[k].src \in S => G.ch[k].dst \in S) => S = Actors(G)

(* A list of remaining times in order, none longer than the execution time *)
Ordered(list, ex) ==
    \A i \in DOMAIN list : /\ list[i] <= ex
                           /\ \A j \in DOMAIN list : i <= j => list[i] <= list[j]

-----------------------------------------------------------------------------
(* Graph transformations that make a resource explicit                     *)
(* (sdf/transform/model/buffersize.cc and autoconc.cc)                     *)

(* Storage space of a channel as a channel back from its destination to    *)
(* its source, with the free space as initial tokens.  sz[k] = -1 is a     *)
(* channel without bound; the new channels follow those of the graph in    *)
(* the order of the channels they bound.                                   *)
modelBufferSizeInSDFgraph(G, sz) ==
    LET bounded == {k \in Channels(G) : sz[k] # -1}
        Nth(i) == CHOOSE k \in bounded : Cardinality({j \in bounded : j <= k}) = i
        Back(k) == [src |-> G.ch[k].dst, dst |-> G.ch[k].src,
                    p |-> G.ch[k].c, c |-> G.ch[k].p, t |-> sz[k] - G.ch[k].t]
    IN  [ex |-> G.ex, ch |-> G.ch \o [i \in 1 .. Cardinality(bounded) |-> Back(Nth(i))]]

(* At most maxDegree simultaneous firings of each actor                    *)
modelAutoConcurrencyInSDFgraph(G, maxDegree) ==
    [ex |-> G.ex,
     ch |-> G.ch \o [a \in Actors(G) |->
                       [src |-> a, dst |-> a, p |-> 1, c |-> 1, t |-> maxDegree]]]
=============================================================================
