--------------------------- MODULE MCTileAllocation ---------------------------
(***************************************************************************)
(* A chain of three actors, the middle one with a self-edge, on two tiles: *)
(* platforms on which claims fail, with small wheels, and platforms of     *)
(* larger wheels on which every actor has its tile and the search for time *)
(* slices has much to try.                                                 *)
(***************************************************************************)
EXTENDS TileAllocation

MCActors == {"a", "b", "c"}
MCChannels == {"ab", "bc", "bb"}
MCSrc == [x \in MCChannels |-> IF x = "ab" THEN "a" ELSE "b"]
MCDst == [x \in MCChannels |-> IF x = "bc" THEN "c" ELSE "b"]
MCTiles == {"t", "u"}

Both(n, m) == [x \in MCTiles |-> IF x = "t" THEN n ELSE m]

Roomy == [runs |-> MCActors \X MCTiles, load |-> [a \in MCActors |-> Both(1, 2)],
          state |-> [a \in MCActors |-> 1], memory |-> Both(9, 7), conns |-> Both(2, 2),
          inBw |-> Both(2, 2), outBw |-> Both(2, 2), wheel |-> Both(1, 2)]

(* Tight in one kind of resource at a time                                  *)
Tight ==
    {[Roomy EXCEPT !.memory = Both(m, n)] : m \in {5, 9}, n \in {4, 6}}
    \cup {[Roomy EXCEPT !.conns = Both(n, 1), !.state["b"] = 3] : n \in {0, 1}}
    \cup {[Roomy EXCEPT !.state["c"] = 6, !.memory = Both(9, 5)]}
    \cup {[Roomy EXCEPT !.inBw = Both(1, 2), !.outBw = Both(2, n)] : n \in {0, 1}}
    \cup {[Roomy EXCEPT !.wheel = Both(0, 1)],
          [Roomy EXCEPT !.runs = {<<"a", "t">>, <<"b", "u">>, <<"c", "t">>, <<"c", "u">>}]}

(* One binding, without connections or with two                            *)
Wheels == {Both(16, 12), Both(5, 9), Both(25, 20)}

OneBinding ==
    {[Roomy EXCEPT !.runs = {<<"a", x>>, <<"b", "u">>, <<"c", x>>}, !.load["b"] = Both(1, n),
                   !.memory = Both(4, 5), !.wheel = w] :
        x \in MCTiles, w \in Wheels, n \in {1, 2}}

MCPlatforms == Tight \cup OneBinding

Sized(m, s, d, w) == [mem |-> [x \in MCChannels |-> m], src |-> [x \in MCChannels |-> s],
                      dst |-> [x \in MCChannels |-> d], bw |-> [x \in MCChannels |-> w]]

MCDemands == {Sized(1, 1, 1, 1), Sized(2, 1, 2, 2)}
=============================================================================
