--------------------------------- MODULE Flow ---------------------------------
(***************************************************************************)
(* The resource-allocation flow (sdf/resource_allocation/flow, SDF3Flow):  *)
(* a distribution of storage space is selected, the application is bound   *)
(* and scheduled with it, and when that fails the next distribution is     *)
(* selected.  One action per handler.                                      *)
(*                                                                         *)
(* The exploration (StorageDSE, entered at findNextStorageDistributionSet) *)
(* is seen from its caller: each call returns a larger and faster set than *)
(* the one before, or NULL; the self-edges it counts in a size, which the  *)
(* flow takes out, are left out.  The algorithms for tiles and network     *)
(* succeed or fail at will; what a handler leaves behind is recorded as    *)
(* the distribution it was made for.                                       *)
(***************************************************************************)
EXTENDS Naturals, Sequences

CONSTANTS Constraint, \* the throughput constraint of the application
          Points      \* what the exploration can find: sets of n distributions
                      \* with the same space and throughput

ASSUME FlowAssumption ==
    /\ Constraint \in Nat
    /\ Points \subseteq [space : Nat, thr : Nat \ {0}, n : Nat \ {0}]

VARIABLES flowType,
          algorithms, \* are tile mapping and network mapping given?
          slotTable,  \* has the network a slot table?
          state,      \* stateOfFlow
          sets,       \* the sets returned, minStorageDistributions first
          set, distr, \* the selected set and distribution, 0 for NULL
          made,       \* the distribution each result was made for
          tried       \* history: the distributions selected

chosen == <<sets, set, distr, tried>>
config == <<flowType, algorithms, slotTable>>
vars == <<config, state, chosen, made>>

Results == {"bufferSize", "minLatency", "minBandwidth", "binding", "schedule",
            "timeSlice", "storage", "messages", "commSchedule", "bandwidth"}

None == <<0, 0>>
Current == <<set, distr>>

Init ==
    /\ flowType \in {"NSoC", "MPFlow"}
    /\ algorithms \in BOOLEAN
    /\ slotTable \in BOOLEAN
    /\ state = "Start"
    /\ sets = <<>>
    /\ set = 0
    /\ distr = 0
    /\ made = [x \in Results |-> None]
    /\ tried = {}

Goto(s) == state' = s /\ UNCHANGED config

(* Exceptions end the flow.                                                *)
checkInputDesignFlow ==
    /\ state = "Start"
    /\ Goto(IF algorithms THEN "ModelNonLocalMemory" ELSE "Exception")
    /\ UNCHANGED <<chosen, made>>

modelNonLocalMemoryAccesses ==
    /\ state = "ModelNonLocalMemory"
    /\ Goto("ComputeStorageDist")
    /\ UNCHANGED <<chosen, made>>

-----------------------------------------------------------------------------
IsNext(p) == sets # <<>> => /\ p.thr > sets[Len(sets)].thr
                            /\ p.space > sets[Len(sets)].space

(* The next set is larger and faster than those found before.              *)
findNextStorageDistributionSet ==
    \E p \in Points : /\ IsNext(p)
                      /\ sets' = Append(sets, p)
                      /\ set' = Len(sets')

NoSetLeft == set' = 0 /\ sets' = sets /\ Goto("Failed")

FastEnough == sets'[set'].thr >= Constraint

(* One round of the loop for the first set that meets the constraint       *)
computeStorageDistributions ==
    /\ state = "ComputeStorageDist"
    /\ \/ /\ findNextStorageDistributionSet
          /\ Goto(IF FastEnough THEN "SelectStorageDist" ELSE "ComputeStorageDist")
       \/ NoSetLeft
    /\ distr' = 0
    /\ UNCHANGED <<made, tried>>

(* Faulty variant of OneMore: the first of a set only.                     *)
FirstOnly == distr = 0

(* Another distribution in the selected set                                *)
OneMore == distr = 0 \/ distr < sets[set].n

selectStorageDistribution ==
    /\ state = "SelectStorageDist"
    /\ \/ /\ OneMore
          /\ distr' = distr + 1
          /\ UNCHANGED <<sets, set>>
          /\ Goto("EstimateStorageDist")
       \/ /\ ~OneMore
          /\ findNextStorageDistributionSet
          /\ distr' = 1
          /\ Goto("EstimateStorageDist")
       \/ /\ ~OneMore
          /\ NoSetLeft
          /\ distr' = 0
    /\ tried' = IF distr' = 0 THEN tried ELSE tried \cup {<<set', distr'>>}
    /\ UNCHANGED made

-----------------------------------------------------------------------------
Make(x) == made' = [made EXCEPT ![x] = Current]

(* Setting the sizes undoes an earlier optimization of the storage space.  *)
estimateStorageConstraints ==
    /\ state = "EstimateStorageDist"
    /\ made' = [made EXCEPT !["bufferSize"] = Current, !["storage"] = None]
    /\ Goto("EstimateLatencyConstraint")
    /\ UNCHANGED chosen

estimateLatencyConstraints ==
    /\ state = "EstimateLatencyConstraint"
    /\ Make("minLatency")
    /\ Goto("EstimateBandwidthConstraint")
    /\ UNCHANGED chosen

estimateBandwidthConstraints ==
    /\ state = "EstimateBandwidthConstraint"
    /\ Make("minBandwidth")
    /\ Goto("BindSDFGtoTile")
    /\ UNCHANGED chosen

(* Releases what an earlier attempt claimed; after a failure nothing is    *)
(* claimed.                                                                *)
bindSDFGtoTiles ==
    /\ state = "BindSDFGtoTile"
    /\ \/ /\ made' = [made EXCEPT !["binding"] = Current, !["timeSlice"] = None]
          /\ Goto("StaticOrderScheduleTiles")
       \/ /\ made' = [made EXCEPT !["binding"] = None, !["timeSlice"] = None]
          /\ Goto("SelectStorageDist")
    /\ UNCHANGED chosen

(* Slices are reserved for the time of the construction only.              *)
constructStaticOrderScheduleTiles ==
    /\ state = "StaticOrderScheduleTiles"
    /\ \/ /\ made' = [made EXCEPT !["schedule"] = Current, !["timeSlice"] = None]
          /\ Goto("AllocateTDMAtimeSlices")
       \/ Goto("Failed") /\ UNCHANGED made
    /\ UNCHANGED chosen

(* Faulty variants of NextAttempt: the same binding or the same            *)
(* distribution again.                                                     *)
SameBinding == "AllocateTDMAtimeSlices"
SameDistribution == "BindSDFGtoTile"

NextAttempt == "SelectStorageDist"

allocateTDMAtimeSlices ==
    /\ state = "AllocateTDMAtimeSlices"
    /\ \/ Make("timeSlice") /\ Goto("OptimizeStorageSpaceAllocations")
       \/ /\ made' = [made EXCEPT !["binding"] = None, !["timeSlice"] = None]
          /\ Goto(NextAttempt)
    /\ UNCHANGED chosen

optimizeStorageSpaceAllocations ==
    /\ state = "OptimizeStorageSpaceAllocations"
    /\ \/ /\ Make("storage")
          /\ Goto(IF flowType = "MPFlow" THEN "Completed" ELSE "ExtractCommunicationConstraints")
       \/ Goto("Failed") /\ UNCHANGED made
    /\ UNCHANGED chosen

extractCommunicationConstraints ==
    /\ state = "ExtractCommunicationConstraints"
    /\ \/ slotTable /\ Make("messages") /\ Goto("ScheduleCommunication")
       \/ slotTable /\ Goto("Failed") /\ UNCHANGED made
       \/ ~slotTable /\ Goto("Exception") /\ UNCHANGED made
    /\ UNCHANGED chosen

(* The binding stays until the next attempt binds.                         *)
scheduleCommunication ==
    /\ state = "ScheduleCommunication"
    /\ \/ Make("commSchedule") /\ Goto("UpdateBandwidthAllocations")
       \/ made' = [made EXCEPT !["commSchedule"] = None] /\ Goto(NextAttempt)
    /\ UNCHANGED chosen

updateBandwidthAllocations ==
    /\ state = "UpdateBandwidthAllocations"
    /\ \/ Make("bandwidth") /\ Goto("Completed")
       \/ Goto("Failed") /\ UNCHANGED made
    /\ UNCHANGED chosen

Next ==
    \/ checkInputDesignFlow
    \/ modelNonLocalMemoryAccesses
    \/ computeStorageDistributions
    \/ selectStorageDistribution
    \/ estimateStorageConstraints
    \/ estimateLatencyConstraints
    \/ estimateBandwidthConstraints
    \/ bindSDFGtoTiles
    \/ constructStaticOrderScheduleTiles
    \/ allocateTDMAtimeSlices
    \/ optimizeStorageSpaceAllocations
    \/ extractCommunicationConstraints
    \/ scheduleCommunication
    \/ updateBandwidthAllocations

Spec == Init /\ [][Next]_vars

(* run() calls the handler of the state it is in until the flow ends.      *)
FairSpec == Spec /\ WF_vars(Next)

-----------------------------------------------------------------------------
Set == [space : Nat, thr : Nat \ {0}, n : Nat \ {0}]

Pipeline == <<"EstimateStorageDist", "EstimateLatencyConstraint",
              "EstimateBandwidthConstraint", "BindSDFGtoTile", "StaticOrderScheduleTiles",
              "AllocateTDMAtimeSlices", "OptimizeStorageSpaceAllocations",
              "ExtractCommunicationConstraints", "ScheduleCommunication",
              "UpdateBandwidthAllocations">>

Product == <<"bufferSize", "minLatency", "minBandwidth", "binding", "schedule",
             "timeSlice", "storage", "messages", "commSchedule", "bandwidth">>

TypeOK ==
    /\ flowType \in {"NSoC", "MPFlow"} /\ algorithms \in BOOLEAN /\ slotTable \in BOOLEAN
    /\ state \in {"Start", "ModelNonLocalMemory", "ComputeStorageDist", "SelectStorageDist",
                  "Completed", "Failed", "Exception"} \cup {Pipeline[i] : i \in 1 .. 10}
    /\ sets \in Seq(Set)
    /\ set \in 0 .. Len(sets) /\ distr \in Nat
    /\ distr # 0 => set # 0 /\ distr <= sets[set].n
    /\ made \in [Results -> Nat \X Nat]
    /\ tried \subseteq Nat \X Nat

(* No handler works with what an earlier attempt left: sizes, constraints, *)
(* binding, schedules and slices all belong to the selected distribution,  *)
(* and so does everything in the result of a completed flow.               *)
InStep ==
    /\ \A i \in 1 .. 10 : state = Pipeline[i] =>
          \A j \in 1 .. i - 1 : made[Product[j]] = Current
    /\ state = "Completed" =>
          \A j \in 1 .. (IF flowType = "MPFlow" THEN 7 ELSE 10) : made[Product[j]] = Current

Before(x, y) == x[1] < y[1] \/ (x[1] = y[1] /\ x[2] <= y[2])

(* The distributions tried are all those of the sets that meet the         *)
(* constraint, up to the current one: none is skipped when it fails.       *)
NoneSkipped ==
    distr # 0 =>
        /\ sets[set].thr >= Constraint
        /\ \A i \in 1 .. Len(sets) : \A j \in 1 .. sets[i].n :
              <<i, j>> \in tried <=> sets[i].thr >= Constraint /\ Before(<<i, j>>, Current)

(* A distribution that failed is not selected again.                       *)
NeverAgain == [][state = "SelectStorageDist" /\ distr' # 0 => Current' \notin tried]_vars

(* The flow ends, whatever fails.                                          *)
Terminates == <>(state \in {"Completed", "Failed", "Exception"})
=============================================================================
