----------------------------- MODULE BoundGraphs -----------------------------
(***************************************************************************)
(* Graphs whose actors are bound to tiles: an SDF graph with, for every    *)
(* actor, its tile (0: ACTOR_NOT_BOUND) and, for every tile, the size of   *)
(* its TDMA wheel and of the slice reserved on it (BindingAwareSDFG).  The *)
(* slice lies at the end of the wheel.                                     *)
(***************************************************************************)
EXTENDS SDFGraphs, StaticOrder

Tiles(G) == DOMAIN G.wheel

IsBound(G, a) == G.tile[a] # 0

BoundTo(G, p) == {a \in Actors(G) : G.tile[a] = p}

(* A self-edge with one token, which BindingAwareSDFG gives every actor it *)
(* binds, or, for the communication actors of the MP flow, a cycle with    *)
(* another actor that has the tokens of one firing.                        *)
OneAtATime(G, k, l) ==
    LET c == G.ch[k]
        d == G.ch[l]
    IN  /\ c.dst = d.src /\ d.dst = c.src
        /\ {c.p, c.c, d.p, d.c} = {c.p}
        /\ c.t + (IF k = l THEN 0 ELSE d.t) = c.p

IsBoundGraph(G) ==
    /\ IsSDFGraph(G)
    /\ G.wheel \in Seq(Positive)
    /\ G.slice \in [Tiles(G) -> Positive]
    /\ \A p \in Tiles(G) : G.slice[p] <= G.wheel[p]
    /\ G.tile \in [Actors(G) -> Tiles(G) \cup {0}]
    /\ \A a \in Actors(G) : IsBound(G, a) => /\ G.ex[a] > 0
                                             /\ \E k \in OutChannels(G, a), l \in Channels(G) :
                                                   OneAtATime(G, k, l)

CeilDiv(x, y) == (x + y - 1) \div y

(* The time outside the slice                                              *)
Rest(G, p) == G.wheel[p] - G.slice[p]

(* Faulty variant of completionTime: a rotation too many when the slices   *)
(* are used up completely.                                                 *)
completionTimeFloor(G, pos, a) ==
    LET p == G.tile[a]
        over == G.ex[a] - G.wheel[p] + pos[p]
    IN  IF ~IsBound(G, a) THEN G.ex[a]
        ELSE IF pos[p] < Rest(G, p)
        THEN (Rest(G, p) - pos[p]) + G.ex[a] + Rest(G, p) * (G.ex[a] \div G.slice[p])
        ELSE G.ex[a] + (IF over < 0 THEN 0 ELSE (over \div G.slice[p]) * Rest(G, p))

(* The time to complete a firing of a with the wheels at pos: before the   *)
(* slice, the wait for it and the rotations between the slices it takes;   *)
(* in the slice, the rotations after this slice, a division of integers.   *)
completionTime(G, pos, a) ==
    LET p == G.tile[a]
        over == G.ex[a] - G.wheel[p] + pos[p]
    IN  IF ~IsBound(G, a) THEN G.ex[a]
        ELSE IF pos[p] < Rest(G, p)
        THEN (Rest(G, p) - pos[p]) + G.ex[a] + Rest(G, p) * (CeilDiv(G.ex[a], G.slice[p]) - 1)
        ELSE G.ex[a] + (IF over < 0 THEN 0 ELSE (over \div G.slice[p]) * Rest(G, p))

(* The time units inside the slice of tile p among the first n from pos    *)
Served(G, p, pos, n) == Cardinality({t \in pos .. pos + n - 1 : t % G.wheel[p] >= Rest(G, p)})
=============================================================================
