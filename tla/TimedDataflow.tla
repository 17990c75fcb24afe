---------------------------- MODULE TimedDataflow ----------------------------
(***************************************************************************)
(* What a self-timed execution of a timed SDF graph promises, without any  *)
(* of the bookkeeping of the analyses: a firing that starts at time T      *)
(* takes its input tokens at T and gives its output tokens exactly at      *)
(* T + ex, every firing starts as soon as its tokens are there (time does  *)
(* not pass while a firing can start or has to end), and an actor may have *)
(* any number of simultaneous firings.  due[a] is the bag of the absolute  *)
(* completion times of the firings of a that are under way.                *)
(***************************************************************************)
EXTENDS SDFGraphs, Bags

CONSTANT Graphs  \* a set of graphs, IsSDFGraph

VARIABLES g, tok, due, now

tvars == <<g, tok, due, now>>

AllDue == UNION {BagToSet(due[a]) : a \in Actors(g)}

TInit ==
    /\ g \in Graphs
    /\ tok = InitialTokens(g)
    /\ due = [a \in Actors(g) |-> EmptyBag]
    /\ now = 0

TStart(a) ==
    /\ Ready(g, tok, a)
    /\ tok' = Consume(g, tok, a)
    /\ due' = [due EXCEPT ![a] = @ (+) SetToBag({now + g.ex[a]})]
    /\ UNCHANGED <<g, now>>

TEnd(a) ==
    /\ BagIn(now, due[a])
    /\ tok' = Produce(g, tok, a)
    /\ due' = [due EXCEPT ![a] = @ (-) SetToBag({now})]
    /\ UNCHANGED <<g, now>>

(* Maximal progress: time jumps to the first completion, and only when     *)
(* nothing is left to do at the present time.                              *)
TTick ==
    /\ \A a \in Actors(g) : ~Ready(g, tok, a)
    /\ \E d \in AllDue :
          /\ d > now
          /\ \A e \in AllDue : d <= e
          /\ now' = d
    /\ UNCHANGED <<g, tok, due>>

TNext == (\E a \in Actors(g) : TStart(a) \/ TEnd(a)) \/ TTick

TSpec == TInit /\ [][TNext]_tvars
=============================================================================
