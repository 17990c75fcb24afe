---------------------------- MODULE TDMASchedule ----------------------------
(***************************************************************************)
(* Throughput of a graph bound to tiles that share their processors by     *)
(* TDMA and order their firings by a static-order schedule:                *)
(* sdf/analysis/throughput/tdma_schedule.cc.                               *)
(***************************************************************************)
EXTENDS BoundExec

(* checkBindingAwareSDFG asks for a schedule on every tile in use.  The    *)
(* list scheduler gives it a periodic part over the actors of the tile.    *)
IsScheduled ==
    /\ IsBoundGraph(g)
    /\ sos \in [Tiles(g) -> Schedule(Actors(g))]
    /\ \A p \in Tiles(g) :
          /\ BoundTo(g, p) # {} => sos[p].entries # <<>>
          /\ sos[p].entries # <<>> => sos[p].start \in DOMAIN sos[p].entries

Init == IsScheduled /\ NotStarted

actorReadyToFire(a) ==
    /\ IsBound(g, a) => Scheduled(g.tile[a]) = a
    /\ Ready(g, ch, a)

startActorFiring(a) ==
    /\ ch' = Consume(g, ch, a)
    /\ actClk' = [actClk EXCEPT ![a] = Append(@, completionTime(g, tdmaPos, a))]

(* The end of a firing moves the tile to the next entry of its schedule.   *)
endActorFiring(a) ==
    /\ ch' = Produce(g, ch, a)
    /\ actClk' = [actClk EXCEPT ![a] = Tail(@)]
    /\ sosPos' = IF IsBound(g, a)
                 THEN [sosPos EXCEPT ![g.tile[a]] = next(sos[g.tile[a]], @)]
                 ELSE sosPos

EndFiring(a) ==
    /\ FirstToEnd(a)
    /\ CountFiring(a)
    /\ endActorFiring(a)
    /\ UNCHANGED <<g, repVec, sos, tdmaPos, phase, thr>>

Recurs(i) == stored[i] = Current

StoreAndEndFiring(a) ==
    /\ FirstToEnd(a)
    /\ \A i \in DOMAIN stored : ~Recurs(i)
    /\ StoreState(a)
    /\ endActorFiring(a)
    /\ UNCHANGED <<g, repVec, sos, tdmaPos, phase, thr>>

(* Faulty variant of RecurrentState: the first state is left out.          *)
RecurrentLessOne(a) ==
    /\ FirstToEnd(a)
    /\ CompletesIteration(a)
    /\ \E i \in DOMAIN stored :
          /\ Recurs(i)
          /\ thr' = [computeThroughput(i) EXCEPT !.time = @ - stored[i].glbClk]
    /\ phase' = "done"
    /\ UNCHANGED <<g, repVec, sos, ch, actClk, glbClk, sosPos, tdmaPos, repCnt, stored>>

(* No two stored states are the same, so the first one found is the only.  *)
RecurrentState(a) ==
    /\ FirstToEnd(a)
    /\ CompletesIteration(a)
    /\ \E i \in DOMAIN stored :
          /\ Recurs(i)
          /\ thr' = computeThroughput(i)
    /\ phase' = "done"
    /\ UNCHANGED <<g, repVec, sos, ch, actClk, glbClk, sosPos, tdmaPos, repCnt, stored>>

EndsDone ==
    /\ phase = "end"
    /\ \A a \in Actors(g) : ~ReadyToEnd(a)
    /\ phase' = "start"
    /\ UNCHANGED <<g, repVec, sos, ch, actClk, glbClk, sosPos, tdmaPos, repCnt, stored, thr>>

StartFiring(a) ==
    /\ phase = "start"
    /\ actorReadyToFire(a)
    /\ \A b \in Actors(g) : b < a => ~actorReadyToFire(b)
    /\ startActorFiring(a)
    /\ UNCHANGED <<g, repVec, sos, glbClk, sosPos, tdmaPos, repCnt, stored, phase, thr>>

ClockStep ==
    /\ phase = "start"
    /\ \A a \in Actors(g) : ~actorReadyToFire(a)
    /\ clockStep
    /\ phase' = "end"
    /\ UNCHANGED <<g, repVec, sos, ch, sosPos, repCnt, stored, thr>>

(* Faulty variant of Deadlock: the loop goes on.                           *)
DeadlockIgnored ==
    /\ phase = "start"
    /\ \A a \in Actors(g) : ~actorReadyToFire(a)
    /\ Active = {}
    /\ phase' = "end"
    /\ UNCHANGED <<g, repVec, sos, ch, actClk, glbClk, sosPos, tdmaPos, repCnt, stored, thr>>

Deadlock ==
    /\ phase = "start"
    /\ \A a \in Actors(g) : ~actorReadyToFire(a)
    /\ Active = {}
    /\ thr' = [fire |-> 0, time |-> 1]
    /\ phase' = "done"
    /\ UNCHANGED <<g, repVec, sos, ch, actClk, glbClk, sosPos, tdmaPos, repCnt, stored>>

Next ==
    \/ \E a \in Actors(g) : \/ EndFiring(a)
                            \/ StoreAndEndFiring(a)
                            \/ RecurrentState(a)
                            \/ StartFiring(a)
    \/ EndsDone
    \/ ClockStep
    \/ Deadlock

Spec == Init /\ [][Next]_execVars

(* The analysis is one sequential loop: it always takes its next step.     *)
FairSpec == Spec /\ WF_execVars(Next)

-----------------------------------------------------------------------------
TypeOK == IsScheduled /\ ExecTypeOK

(* A firing that starts before the slice of its tile gets, until it ends,  *)
(* exactly its execution time inside the slices, to the last time unit.    *)
(* (One that starts inside may get less: the rotations are rounded down.)  *)
ServedFromBefore ==
    \A a \in Actors(g) :
        LET p == g.tile[a]
            n == completionTime(g, tdmaPos, a)
        IN  IsBound(g, a) /\ phase = "start" /\ actorReadyToFire(a) /\ tdmaPos[p] < Rest(g, p) =>
                /\ Served(g, p, tdmaPos[p], n) = g.ex[a]
                /\ (tdmaPos[p] + n - 1) % g.wheel[p] >= Rest(g, p)
=============================================================================
