---------------------------- MODULE DeadlockCheck ----------------------------
(***************************************************************************)
(* The deadlock test of an SDF graph                                       *)
(* (sdf/analysis/throughput/deadlock.cc): fire the actors in rounds, each  *)
(* as often as it can but never more than its entry in the repetition      *)
(* vector, until a round fires nothing.  Other than in the timed analyses  *)
(* a firing is one step.  An inconsistent graph has the zero vector.       *)
(***************************************************************************)
EXTENDS SDFGraphs

CONSTANTS Graphs,    \* consistent and inconsistent graphs
          RepVec(_)  \* computeRepetitionVector

ASSUME DeadlockGraphs ==
    \A G \in Graphs : /\ IsSDFGraph(G)
                      /\ RepVec(G) \in [Actors(G) -> Nat]
                      /\ Balanced(G, RepVec(G))

VARIABLES g,
          q,              \* the repetition vector of g
          ch,             \* currentState
          repVec,         \* firings each actor still has to do
          actor,          \* the actor the round has come to
          firedSomeActor,
          answer          \* "none", or what isDeadlockFree returns

vars == <<g, q, ch, repVec, actor, firedSomeActor, answer>>

Init ==
    /\ g \in Graphs
    /\ q = RepVec(g)
    /\ ch = InitialTokens(g)
    /\ repVec = q
    /\ actor = 1
    /\ firedSomeActor = FALSE
    /\ answer = "none"

CanFire(a) == repVec[a] # 0 /\ Ready(g, ch, a)

fireActor ==
    /\ answer = "none"
    /\ actor \in Actors(g)
    /\ CanFire(actor)
    /\ ch' = Produce(g, Consume(g, ch, actor), actor)
    /\ repVec' = [repVec EXCEPT ![actor] = @ - 1]
    /\ firedSomeActor' = TRUE
    /\ UNCHANGED <<g, q, actor, answer>>

NextActor ==
    /\ answer = "none"
    /\ actor \in Actors(g)
    /\ ~CanFire(actor)
    /\ actor' = actor + 1
    /\ UNCHANGED <<g, q, ch, repVec, firedSomeActor, answer>>

NextRound ==
    /\ answer = "none"
    /\ actor > Len(g.ex)
    /\ firedSomeActor
    /\ actor' = 1
    /\ firedSomeActor' = FALSE
    /\ UNCHANGED <<g, q, ch, repVec, answer>>

AllFired == \A a \in Actors(g) : repVec[a] = 0

(* Faulty variant of Answer: no look at the firings still to do.           *)
AnswerFromTokens ==
    /\ answer = "none"
    /\ actor > Len(g.ex)
    /\ ~firedSomeActor
    /\ answer' = IF ch = InitialTokens(g) THEN "free" ELSE "deadlock"
    /\ UNCHANGED <<g, q, ch, repVec, actor, firedSomeActor>>

Answer ==
    /\ answer = "none"
    /\ actor > Len(g.ex)
    /\ ~firedSomeActor
    /\ answer' = IF AllFired /\ ch = InitialTokens(g) THEN "free" ELSE "deadlock"
    /\ UNCHANGED <<g, q, ch, repVec, actor, firedSomeActor>>

Next == fireActor \/ NextActor \/ NextRound \/ Answer

Spec == Init /\ [][Next]_vars

-----------------------------------------------------------------------------
TypeOK ==
    /\ g \in Graphs
    /\ q = RepVec(g)
    /\ ch \in [Channels(g) -> Nat]
    /\ repVec \in [Actors(g) -> Nat]
    /\ actor \in 1 .. Len(g.ex) + 1
    /\ firedSomeActor \in BOOLEAN
    /\ answer \in {"none", "free", "deadlock"}

Fired(a) == q[a] - repVec[a]

(* The tokens of every channel are those of the firings counted down so    *)
(* far, and no actor is counted below zero.                                *)
TokensAreFirings ==
    \A k \in Channels(g) :
        ch[k] = g.ch[k].t + g.ch[k].p * Fired(g.ch[k].src) - g.ch[k].c * Fired(g.ch[k].dst)

(* Once every actor has fired its share the graph is back in its initial   *)
(* state: the comparison of states that the code makes last never decides  *)
(* the answer.                                                             *)
AllFiredIsBack == AllFired => ch = InitialTokens(g)

=============================================================================
