------------------------------ MODULE BoundFlow ------------------------------
(***************************************************************************)
(* From an application bound to tiles to the throughput of its allocation  *)
(* (sdf/resource_allocation/tile_allocation/loadbalance.cc and binding.cc):*)
(* constructStaticOrderSchedules runs the list scheduler with half of      *)
(* every wheel reserved and hands its schedules, without the actors that   *)
(* only model the binding, to the processors; minimizeStaticOrderSchedules *)
(* shortens them; analyzeThroughput builds the graph again, with the       *)
(* slices reserved by then, and executes it.                               *)
(***************************************************************************)
EXTENDS BindingAware, BoundExec

CONSTANTS Apps,      \* applications, bound to tiles
          Slices(_)  \* the slices with which an application is analysed

VARIABLES app,
          stage,    \* "construct" or "analyze"
          previousCh, readyList, idle, recurrent, lenAt  \* of the list scheduler

listVars == <<previousCh, readyList, idle, recurrent, lenAt>>

vars == <<app, stage, execVars, listVars>>

NoSchedules(a) == [p \in DOMAIN a.wheel |-> EmptySchedule]

(* reserveTimeSlices(0.5) on empty wheels: at least one slot               *)
HalfSlices(a) ==
    [p \in DOMAIN a.wheel |-> IF a.wheel[p] < 2 THEN 1 ELSE a.wheel[p] \div 2]

Constructed(a) == modelBinding(a, HalfSlices(a), NoSchedules(a)).g

(* What the stages test: every actor has a tile, every used tile a slice,  *)
(* and schedule of the list scheduler throws on a graph that is not        *)
(* strongly connected.  computeRepetitionVector solves the balance         *)
(* equations.                                                              *)
ASSUME BoundFlowAssumption ==
    \A a \in Apps :
        /\ IsApplication(a)
        /\ \A slice \in Slices(a) : IsReservation(a, slice)
        /\ HoldsInitialTokens(a) =>
              LET G == Constructed(a)
              IN  /\ StronglyConnected(G)
                  /\ RepVec(G) \in [Actors(G) -> Positive]
                  /\ Balanced(G, RepVec(G))

LS == INSTANCE ListScheduler WITH Bindings <- {Constructed(a) : a \in Apps}
TS == INSTANCE TDMASchedule

Init ==
    /\ app \in {a \in Apps : HoldsInitialTokens(a)}
    /\ stage = "construct"
    /\ g = Constructed(app)
    /\ sos = NoSchedules(app)
    /\ NotStarted
    /\ previousCh = [k \in Channels(g) |-> 0]
    /\ readyList = [p \in Tiles(g) |-> <<>>]
    /\ idle = [p \in Tiles(g) |-> TRUE]
    /\ recurrent = 0
    /\ lenAt = <<>>

Construct ==
    /\ stage = "construct"
    /\ LS!Next
    /\ UNCHANGED <<app, stage>>

(* Setting the schedule of a processor and minimizing it                   *)
ProcessorSchedule(p) == minimize(changeActorAssociations(sos[p], Actors(app)))

(* The binding-aware graphs and schedules to analyse                       *)
Allocations == {modelBinding(app, slice, [p \in Tiles(g) |-> ProcessorSchedule(p)]) :
                  slice \in Slices(app)}

SchedulesReady == stage = "construct" /\ phase = "done" /\ recurrent # 0

analyzeThroughput ==
    /\ SchedulesReady
    /\ \E b \in Allocations :
          /\ Restart(b.g)
          /\ sos' = b.sos
    /\ stage' = "analyze"
    /\ UNCHANGED <<app, listVars>>

Analyze ==
    /\ stage = "analyze"
    /\ TS!Next
    /\ UNCHANGED <<app, stage, listVars>>

Next == Construct \/ analyzeThroughput \/ Analyze

Spec == Init /\ [][Next]_vars

(* One sequential program: it always takes its next step.  The last part   *)
(* is WF_vars(analyzeThroughput), with what enables it spelled out.        *)
FairSpec ==
    /\ Spec
    /\ WF_vars(Construct)
    /\ WF_vars(Analyze)
    /\ []<>~SchedulesReady

-----------------------------------------------------------------------------
TypeOK ==
    /\ app \in Apps
    /\ stage \in {"construct", "analyze"}
    /\ IF stage = "construct" THEN LS!TypeOK ELSE TS!TypeOK

(* The properties of the two stages                                        *)
PeriodicPartComplete == LS!PeriodicPartComplete
ReadyListsExact == stage = "construct" => LS!ReadyListsExact

(* A tile in use gives its slices to one firing at a time: no two firings  *)
(* share them (see BoundExec), and the one that starts before the slice    *)
(* gets exactly its execution time inside the slices (see TDMASchedule).   *)
TilesServeOneFiring == OneFiringPerTile /\ (stage = "analyze" => TS!ServedFromBefore)
=============================================================================
