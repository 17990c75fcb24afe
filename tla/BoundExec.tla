------------------------------ MODULE BoundExec ------------------------------
(***************************************************************************)
(* What the two executions of a bound graph share: the list scheduler      *)
(* (sdf/resource_allocation/scheduling/list_scheduler.cc) and the          *)
(* throughput analysis with TDMA and static-order schedules                *)
(* (sdf/analysis/throughput/tdma_schedule.cc) repeat the same code, which  *)
(* is modelled from the latter.                                            *)
(*                                                                         *)
(* As in SelfTimed, the loop of execSDFgraph is a sequence of phases, and  *)
(* within a phase the actors come in order: "end" (end the firings that    *)
(* are due), "list" (the list scheduler's update of its ready lists),      *)
(* "start" (start firings, then the clock step) and "done".                *)
(***************************************************************************)
EXTENDS BoundGraphs

CONSTANT RepVec(_)  \* computeRepetitionVector

VARIABLES g,        \* bindingAwareSDFG
          repVec,   \* its repetition vector, which initOutputActor computes
          sos,      \* its schedules, one per tile
          ch, actClk, glbClk,  \* currentState
          sosPos,   \* currentState.schedulePos
          tdmaPos,  \* currentState.tdmaPos
          repCnt,   \* firings of the output actor since the last stored state
          stored,   \* storedStates
          phase,
          thr       \* the result: iterations in the period and its length

execVars == <<g, repVec, sos, ch, actClk, glbClk, sosPos, tdmaPos, repCnt, stored, phase, thr>>

State(G) == [ch : [Channels(G) -> Nat], actClk : [Actors(G) -> Seq(Nat)], glbClk : Nat,
             sosPos : [Tiles(G) -> Nat], tdmaPos : [Tiles(G) -> Nat]]

Current == [ch |-> ch, actClk |-> actClk, glbClk |-> glbClk,
            sosPos |-> sosPos, tdmaPos |-> tdmaPos]

(* The first actor with the least entry in the repetition vector           *)
IsOutputActor(a) ==
    \A b \in Actors(g) : repVec[a] < repVec[b] \/ (repVec[a] = repVec[b] /\ a <= b)

(* The start of execSDFgraph: the empty state, with the initial tokens     *)
NotStarted ==
    /\ repVec = RepVec(g)
    /\ ch = InitialTokens(g)
    /\ actClk = [a \in Actors(g) |-> <<>>]
    /\ glbClk = 0
    /\ sosPos = [p \in Tiles(g) |-> 1]
    /\ tdmaPos = [p \in Tiles(g) |-> 0]
    /\ repCnt = 0
    /\ stored = <<>>
    /\ thr = [fire |-> 0, time |-> 0]
    /\ phase = "end"

(* The same for graph G, in the next state                                 *)
Restart(G) ==
    /\ g' = G
    /\ repVec' = RepVec(G)
    /\ ch' = InitialTokens(G)
    /\ actClk' = [a \in Actors(G) |-> <<>>]
    /\ glbClk' = 0
    /\ sosPos' = [p \in Tiles(G) |-> 1]
    /\ tdmaPos' = [p \in Tiles(G) |-> 0]
    /\ repCnt' = 0
    /\ stored' = <<>>
    /\ thr' = [fire |-> 0, time |-> 0]
    /\ phase' = "end"

ReadyToEnd(a) == actClk[a] # <<>> /\ Head(actClk[a]) = 0

FirstToEnd(a) == /\ phase = "end"
                 /\ ReadyToEnd(a)
                 /\ \A b \in Actors(g) : b < a => ~ReadyToEnd(b)

CompletesIteration(a) == IsOutputActor(a) /\ repCnt + 1 = repVec[a]

CountFiring(a) ==
    /\ ~CompletesIteration(a)
    /\ repCnt' = IF IsOutputActor(a) THEN repCnt + 1 ELSE repCnt
    /\ UNCHANGED <<glbClk, stored>>

(* The state is stored before the firing is ended.                         *)
StoreState(a) ==
    /\ CompletesIteration(a)
    /\ stored' = Append(stored, Current)
    /\ glbClk' = 0
    /\ repCnt' = 0

(* computeThroughput over the stored states from r on                      *)
computeThroughput(r) ==
    [fire |-> Len(stored) - r + 1,
     time |-> FoldLeft(LAMBDA t, s : t + s.glbClk, 0, SubSeq(stored, r, Len(stored)))]

Active == {a \in Actors(g) : actClk[a] # <<>>}

(* The step to the first completion; every wheel turns by that step.  A    *)
(* step of 0 changes nothing.                                              *)
clockStep ==
    \E first \in Active :
        LET step == Head(actClk[first])
        IN  /\ \A a \in Active : step <= Head(actClk[a])
            /\ actClk' = [a \in Actors(g) |-> [i \in DOMAIN actClk[a] |-> actClk[a][i] - step]]
            /\ glbClk' = glbClk + step
            /\ tdmaPos' = [p \in Tiles(g) |-> (tdmaPos[p] + step) % g.wheel[p]]

(* The entry of its schedule at which a tile is                            *)
Scheduled(p) == sos[p].entries[sosPos[p]]

-----------------------------------------------------------------------------
ExecTypeOK ==
    /\ repVec \in [Actors(g) -> Nat]
    /\ ch \in [Channels(g) -> Nat]
    /\ actClk \in [Actors(g) -> Seq(Nat)]
    /\ glbClk \in Nat
    /\ sosPos \in [Tiles(g) -> Positive]
    /\ tdmaPos \in [Tiles(g) -> Nat]
    /\ repCnt \in Nat
    /\ stored \in Seq(State(g))
    /\ phase \in {"end", "list", "start", "done"}
    /\ thr \in [fire : Nat, time : Nat]

(* A tile works on one firing at a time, of the actor its schedule points  *)
(* at: startActorFiring of the analysis leaves the schedule where it is,   *)
(* so an actor could start twice for one entry; only the self-edges of     *)
(* BindingAwareSDFG and the move at the end of a firing prevent that.      *)
OneFiringPerTile ==
    phase # "done" => \A a \in Active : IsBound(g, a) => /\ Len(actClk[a]) = 1
                                                        /\ Scheduled(g.tile[a]) = a
=============================================================================
