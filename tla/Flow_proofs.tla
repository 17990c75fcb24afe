----------------------------- MODULE Flow_proofs -----------------------------
(***************************************************************************)
(* What the resource-allocation flow keeps, for every constraint and       *)
(* everything the exploration can find.                                    *)
(***************************************************************************)
EXTENDS Flow, TLAPS

(* The results that each stage needs, written out                          *)
Stages ==
    /\ state \in {"EstimateLatencyConstraint", "EstimateBandwidthConstraint", "BindSDFGtoTile",
                  "StaticOrderScheduleTiles", "AllocateTDMAtimeSlices",
                  "OptimizeStorageSpaceAllocations", "ExtractCommunicationConstraints",
                  "ScheduleCommunication", "UpdateBandwidthAllocations", "Completed"}
          => made["bufferSize"] = Current
    /\ state \in {"EstimateBandwidthConstraint", "BindSDFGtoTile",
                  "StaticOrderScheduleTiles", "AllocateTDMAtimeSlices",
                  "OptimizeStorageSpaceAllocations", "ExtractCommunicationConstraints",
                  "ScheduleCommunication", "UpdateBandwidthAllocations", "Completed"}
          => made["minLatency"] = Current
    /\ state \in {"BindSDFGtoTile", "StaticOrderScheduleTiles", "AllocateTDMAtimeSlices",
                  "OptimizeStorageSpaceAllocations", "ExtractCommunicationConstraints",
                  "ScheduleCommunication", "UpdateBandwidthAllocations", "Completed"}
          => made["minBandwidth"] = Current
    /\ state \in {"StaticOrderScheduleTiles", "AllocateTDMAtimeSlices",
                  "OptimizeStorageSpaceAllocations", "ExtractCommunicationConstraints",
                  "ScheduleCommunication", "UpdateBandwidthAllocations", "Completed"}
          => made["binding"] = Current
    /\ state \in {"AllocateTDMAtimeSlices", "OptimizeStorageSpaceAllocations",
                  "ExtractCommunicationConstraints", "ScheduleCommunication",
                  "UpdateBandwidthAllocations", "Completed"}
          => made["schedule"] = Current
    /\ state \in {"OptimizeStorageSpaceAllocations", "ExtractCommunicationConstraints",
                  "ScheduleCommunication", "UpdateBandwidthAllocations", "Completed"}
          => made["timeSlice"] = Current
    /\ state \in {"ExtractCommunicationConstraints", "ScheduleCommunication",
                  "UpdateBandwidthAllocations", "Completed"}
          => made["storage"] = Current
    /\ state \in {"ScheduleCommunication", "UpdateBandwidthAllocations"}
          => made["messages"] = Current
    /\ state = "UpdateBandwidthAllocations" => made["commSchedule"] = Current
    /\ state = "Completed" /\ flowType # "MPFlow" =>
          /\ made["messages"] = Current
          /\ made["commSchedule"] = Current
          /\ made["bandwidth"] = Current

LEMMA StagesInStep == Stages => InStep
<1> SUFFICES ASSUME Stages PROVE InStep
  OBVIOUS
<1>1. ASSUME NEW i \in 1 .. 10, state = Pipeline[i], NEW j \in 1 .. i - 1
      PROVE  made[Product[j]] = Current
  <2>1. i \in {1, 2, 3, 4, 5, 6, 7, 8, 9, 10} /\ j \in {1, 2, 3, 4, 5, 6, 7, 8, 9}
    BY <1>1
  <2> QED
    BY <1>1, <2>1 DEF Stages, Pipeline, Product
<1>2. ASSUME state = "Completed", NEW j \in 1 .. (IF flowType = "MPFlow" THEN 7 ELSE 10)
      PROVE  made[Product[j]] = Current
  <2>1. CASE flowType = "MPFlow"
    <3>1. j \in {1, 2, 3, 4, 5, 6, 7}
      BY <1>2, <2>1
    <3> QED
      BY <1>2, <3>1 DEF Stages, Product
  <2>2. CASE flowType # "MPFlow"
    <3>1. j \in {1, 2, 3, 4, 5, 6, 7, 8, 9, 10}
      BY <1>2, <2>2
    <3> QED
      BY <1>2, <2>2, <3>1 DEF Stages, Product
  <2> QED
    BY <2>1, <2>2
<1> QED
  BY <1>1, <1>2 DEF InStep

-----------------------------------------------------------------------------
(* The sets before the first that meets the constraint are slower, and the *)
(* distributions tried are those up to the selected one.                   *)
Valid(i, j) == i \in 1 .. Len(sets) /\ j \in 1 .. sets[i].n

Attempts ==
    /\ state \in {"Start", "ModelNonLocalMemory"} => sets = <<>>
    /\ state \in {"Start", "ModelNonLocalMemory", "ComputeStorageDist"} =>
          /\ distr = 0 /\ tried = {}
          /\ \A i \in 1 .. Len(sets) : sets[i].thr < Constraint
    /\ state \in {"SelectStorageDist", "Completed"} \cup {Pipeline[i] : i \in 1 .. 10} => set # 0
    /\ set # 0 /\ state # "ComputeStorageDist" =>
          /\ set = Len(sets) /\ sets[set].thr >= Constraint
          /\ \A i, j \in Nat : <<i, j>> \in tried <=> /\ Valid(i, j)
                                                      /\ sets[i].thr >= Constraint
                                                      /\ Before(<<i, j>>, Current)

Safe == TypeOK /\ Stages /\ Attempts

LEMMA PipelineStates ==
    {Pipeline[i] : i \in 1 .. 10} =
        {"EstimateStorageDist", "EstimateLatencyConstraint", "EstimateBandwidthConstraint",
         "BindSDFGtoTile", "StaticOrderScheduleTiles", "AllocateTDMAtimeSlices",
         "OptimizeStorageSpaceAllocations", "ExtractCommunicationConstraints",
         "ScheduleCommunication", "UpdateBandwidthAllocations"}
<1>1. 1 .. 10 = {1, 2, 3, 4, 5, 6, 7, 8, 9, 10}
  OBVIOUS
<1> QED
  BY <1>1 DEF Pipeline

LEMMA InitSafe == Init => Safe
<1> SUFFICES ASSUME Init PROVE Safe
  OBVIOUS
<1>1. TypeOK
  BY DEF Init, TypeOK, None
<1>2. Stages
  BY DEF Init, Stages
<1>3. Attempts
  BY PipelineStates DEF Init, Attempts
<1> QED
  BY <1>1, <1>2, <1>3 DEF Safe

(* Every handler after the selection keeps the attempt.                    *)
LEMMA SameAttempt ==
    ASSUME Safe, UNCHANGED <<config, chosen>>, state \notin {"Start", "ModelNonLocalMemory", "ComputeStorageDist"},
           set # 0,
           state' \notin {"Start", "ModelNonLocalMemory", "ComputeStorageDist"}
    PROVE  Attempts'
BY DEF Safe, Attempts, chosen, Valid, Before, Current

LEMMA CurrentType ==
    ASSUME Safe
    PROVE  Current \in Nat \X Nat /\ None \in Nat \X Nat
BY DEF Safe, TypeOK, Current, None

-----------------------------------------------------------------------------
(* The handlers before the selection                                       *)
LEMMA StartSafe == Safe /\ (checkInputDesignFlow \/ modelNonLocalMemoryAccesses) => Safe'
<1> SUFFICES ASSUME Safe, checkInputDesignFlow \/ modelNonLocalMemoryAccesses PROVE Safe'
  OBVIOUS
<1> USE DEF checkInputDesignFlow, modelNonLocalMemoryAccesses, Goto
<1>1. UNCHANGED <<config, chosen, made>>
  OBVIOUS
<1>2. /\ state \in {"Start", "ModelNonLocalMemory"}
      /\ state' \in {"ModelNonLocalMemory", "ComputeStorageDist", "Exception"}
  OBVIOUS
<1>3. sets = <<>> /\ set = 0
  BY <1>2 DEF Safe, TypeOK, Attempts
<1>4. TypeOK'
  BY <1>1, <1>2 DEF Safe, TypeOK, config, chosen
<1>5. Stages'
  BY <1>2 DEF Stages
<1>6. Attempts'
  BY <1>1, <1>2, <1>3, PipelineStates DEF Safe, Attempts, chosen
<1> QED
  BY <1>4, <1>5, <1>6 DEF Safe

(* A set is added to those that have been returned.                        *)
LEMMA Found ==
    ASSUME Safe, findNextStorageDistributionSet
    PROVE  /\ sets' \in Seq(Set) /\ Len(sets') = Len(sets) + 1 /\ set' = Len(sets')
           /\ \A i \in 1 .. Len(sets) : sets'[i] = sets[i]
           /\ Len(sets) # 0 => sets'[set'].thr > sets[Len(sets)].thr
           /\ sets'[set'] \in Set
<1>1. PICK p \in Points : /\ IsNext(p)
                          /\ sets' = Append(sets, p)
                          /\ set' = Len(sets')
  BY DEF findNextStorageDistributionSet
<1>2. sets \in Seq(Set) /\ p \in Set
  BY FlowAssumption DEF Safe, TypeOK, Set
<1>3. /\ sets' \in Seq(Set) /\ Len(sets') = Len(sets) + 1
      /\ \A i \in 1 .. Len(sets) : sets'[i] = sets[i]
      /\ sets'[Len(sets) + 1] = p
  BY <1>1, <1>2
<1>4. Len(sets) # 0 => sets'[set'].thr > sets[Len(sets)].thr
  BY <1>1, <1>2, <1>3 DEF IsNext
<1> QED
  BY <1>1, <1>2, <1>3, <1>4

LEMMA ComputeSafe == Safe /\ computeStorageDistributions => Safe'
<1> SUFFICES ASSUME Safe, computeStorageDistributions PROVE Safe'
  OBVIOUS
<1>1. /\ state = "ComputeStorageDist" /\ distr' = 0 /\ UNCHANGED <<config, made, tried>>
      /\ tried = {}
      /\ state' \in {"ComputeStorageDist", "SelectStorageDist", "Failed"}
  BY DEF computeStorageDistributions, NoSetLeft, Goto, Safe, Attempts
<1>2. Stages'
  BY <1>1 DEF Stages
<1>3. CASE findNextStorageDistributionSet /\ Goto(IF FastEnough THEN "SelectStorageDist" ELSE "ComputeStorageDist")
  <2>1. TypeOK'
    BY <1>1, <1>3, Found DEF Safe, TypeOK, config
  <2>2. \A i \in 1 .. Len(sets) : sets'[i].thr < Constraint
    BY <1>1, Found, <1>3 DEF Safe, Attempts
  <2>3. \A i \in 1 .. Len(sets') : i \in 1 .. Len(sets) \/ i = set'
    BY <1>3, Found DEF Safe, TypeOK
  <2>4. CASE FastEnough
    <3>1. state' = "SelectStorageDist" /\ set' # 0 /\ set' = Len(sets')
      BY <1>3, <2>4, Found DEF Goto, Safe, TypeOK
    <3>2. ASSUME NEW i \in Nat, NEW j \in Nat, Valid(i, j)', sets'[i].thr >= Constraint,
                 Before(<<i, j>>, Current)'
          PROVE  FALSE
      <4>1. i \in 1 .. Len(sets') /\ j \in 1 .. sets'[i].n
        BY <3>2 DEF Valid
      <4>2. sets'[i].thr \in Nat /\ Constraint \in Nat
        <5>1. sets'[i] \in Set
          BY <1>3, <4>1, Found
        <5> QED
          BY <5>1, FlowAssumption DEF Set
      <4>3. i = set'
        BY <2>2, <2>3, <3>2, <4>1, <4>2
      <4> QED
        BY <1>1, <3>2, <4>1, <4>3 DEF Before, Current
    <3>3. Attempts'
      BY <1>1, <2>4, <3>1, <3>2 DEF Attempts, FastEnough
    <3> QED
      BY <1>2, <1>3, <2>1, <3>3, Found DEF Safe
  <2>5. CASE ~FastEnough
    <3>1. state' = "ComputeStorageDist"
      BY <1>3, <2>5 DEF Goto
    <3>2. sets'[set'].thr < Constraint
      BY <1>3, <2>5, Found, FlowAssumption DEF FastEnough, Set
    <3>3. Attempts'
      BY <1>1, <2>2, <2>3, <3>1, <3>2, PipelineStates DEF Attempts
    <3> QED
      BY <1>2, <1>3, <2>1, <3>3, Found DEF Safe
  <2> QED
    BY <2>4, <2>5
<1>4. CASE NoSetLeft
  <2>1. state' = "Failed" /\ set' = 0 /\ sets' = sets
    BY <1>4 DEF NoSetLeft, Goto
  <2>2. TypeOK'
    BY <1>1, <2>1 DEF Safe, TypeOK, config
  <2>3. Attempts'
    BY <2>1, PipelineStates DEF Attempts
  <2> QED
    BY <1>2, <2>2, <2>3 DEF Safe
<1> QED
  BY <1>3, <1>4 DEF computeStorageDistributions

(* Selecting: the distribution was not tried before.                       *)
LEMMA SelectSafe ==
    Safe /\ selectStorageDistribution => Safe' /\ (distr' # 0 => Current' \notin tried)
<1> SUFFICES ASSUME Safe, selectStorageDistribution
             PROVE  Safe' /\ (distr' # 0 => Current' \notin tried)
  OBVIOUS
<1>1. /\ state = "SelectStorageDist" /\ UNCHANGED <<config, made>>
      /\ state' \in {"EstimateStorageDist", "Failed"}
      /\ tried' = IF distr' = 0 THEN tried ELSE tried \cup {Current'}
  BY DEF selectStorageDistribution, NoSetLeft, Goto, Current
<1>2. /\ set # 0 /\ set = Len(sets) /\ sets[set].thr >= Constraint
      /\ \A i, j \in Nat : <<i, j>> \in tried <=> /\ Valid(i, j)
                                                  /\ sets[i].thr >= Constraint
                                                  /\ Before(<<i, j>>, Current)
  BY <1>1 DEF Safe, Attempts
<1>3. Stages'
  BY <1>1 DEF Stages
<1>4. /\ sets \in Seq(Set) /\ sets[set] \in Set /\ distr \in Nat /\ set \in Nat
      /\ sets[set].n \in Nat \ {0} /\ sets[set].thr \in Nat /\ Constraint \in Nat
      /\ tried \subseteq Nat \X Nat
      /\ \A i \in 1 .. Len(sets) : sets[i].n \in Nat
      /\ distr # 0 => distr <= sets[set].n
  <2>1. /\ sets \in Seq(Set) /\ set \in 0 .. Len(sets) /\ distr \in Nat
        /\ tried \subseteq Nat \X Nat /\ (distr # 0 => distr <= sets[set].n)
    BY DEF Safe, TypeOK
  <2>2. \A i \in 1 .. Len(sets) : sets[i] \in Set
    BY <2>1
  <2>3. \A i \in 1 .. Len(sets) : sets[i].n \in Nat \ {0} /\ sets[i].thr \in Nat
    BY <2>2 DEF Set
  <2>4. set \in 1 .. Len(sets) /\ set \in Nat
    BY <1>2, <2>1
  <2> QED
    BY <2>1, <2>2, <2>3, <2>4, FlowAssumption
<1>5. CASE OneMore /\ distr' = distr + 1 /\ UNCHANGED <<sets, set>> /\ Goto("EstimateStorageDist")
  <2>1. distr' # 0 /\ distr' <= sets[set].n
    BY <1>4, <1>5 DEF OneMore
  <2>2. TypeOK'
    <3>1. /\ flowType' = flowType /\ algorithms' = algorithms /\ slotTable' = slotTable
          /\ made' = made /\ state' = "EstimateStorageDist" /\ sets' = sets /\ set' = set
      BY <1>1, <1>5 DEF config, Goto
    <3>2. distr' \in Nat /\ Current' \in Nat \X Nat
      BY <1>4, <1>5, <3>1 DEF Current
    <3>3. tried' \subseteq Nat \X Nat
      BY <1>1, <1>4, <3>2
    <3>4. state' \in {Pipeline[i] : i \in 1 .. 10}
      BY <3>1, PipelineStates
    <3> QED
      BY <1>2, <1>4, <2>1, <3>1, <3>2, <3>3, <3>4 DEF Safe, TypeOK
  <2>3. Current' \notin tried
    BY <1>2, <1>4, <1>5 DEF Current, Before
  <2>4. ASSUME NEW i \in Nat, NEW j \in Nat
        PROVE  <<i, j>> \in tried' <=> /\ Valid(i, j)'
                                       /\ sets'[i].thr >= Constraint
                                       /\ Before(<<i, j>>, Current)'
    <3>1. Valid(i, j)' = Valid(i, j)
      BY <1>5 DEF Valid
    <3>2. Before(<<i, j>>, Current)' <=> Before(<<i, j>>, Current) \/ <<i, j>> = Current'
      BY <1>4, <1>5 DEF Before, Current
    <3>3. <<i, j>> = Current' => Valid(i, j) /\ sets[i].thr >= Constraint
      BY <1>2, <1>4, <1>5, <2>1 DEF Valid, Current
    <3> QED
      BY <1>1, <1>2, <1>5, <2>1, <3>1, <3>2, <3>3
  <2>5. Attempts'
    BY <1>1, <1>2, <1>5, <2>4, PipelineStates DEF Attempts, Goto
  <2> QED
    BY <1>3, <2>2, <2>3, <2>5 DEF Safe
<1>6. CASE ~OneMore /\ findNextStorageDistributionSet /\ distr' = 1 /\ Goto("EstimateStorageDist")
  <2>1. /\ sets' \in Seq(Set) /\ Len(sets') = Len(sets) + 1 /\ set' = Len(sets')
        /\ \A i \in 1 .. Len(sets) : sets'[i] = sets[i]
        /\ sets'[set'].thr > sets[set].thr
        /\ sets'[set'] \in Set
    BY <1>2, <1>6, Found
  <2>2. /\ sets'[set'].thr \in Nat /\ sets'[set'].n \in Nat \ {0}
        /\ set' \in Nat /\ set' # 0 /\ set' = set + 1
    <3>1. sets'[set'].thr \in Nat /\ sets'[set'].n \in Nat \ {0}
      BY <2>1 DEF Set
    <3>2. set' \in Nat /\ set' # 0 /\ set' = set + 1
      BY <1>2, <1>4, <2>1
    <3> QED
      BY <3>1, <3>2
  <2>3. TypeOK'
    <3>1. /\ flowType' = flowType /\ algorithms' = algorithms /\ slotTable' = slotTable
          /\ made' = made /\ state' = "EstimateStorageDist" /\ distr' = 1
      BY <1>1, <1>6 DEF config, Goto
    <3>2. /\ set' \in 0 .. Len(sets') /\ distr' \in Nat /\ Current' \in Nat \X Nat
          /\ 1 <= sets'[set'].n
      BY <2>1, <2>2, <3>1 DEF Current
    <3>3. tried' \subseteq Nat \X Nat
      BY <1>1, <1>4, <3>2
    <3>4. state' \in {Pipeline[i] : i \in 1 .. 10}
      BY <3>1, PipelineStates
    <3> QED
      BY <2>1, <2>2, <3>1, <3>2, <3>3, <3>4 DEF Safe, TypeOK
  <2>4. Current' \notin tried
    BY <1>2, <1>4, <1>6, <2>1, <2>2 DEF Current, Valid
  <2>5. ASSUME NEW i \in Nat, NEW j \in Nat
        PROVE  <<i, j>> \in tried' <=> /\ Valid(i, j)'
                                       /\ sets'[i].thr >= Constraint
                                       /\ Before(<<i, j>>, Current)'
    <3>1. CASE i \in 1 .. Len(sets)
      <4>1. Valid(i, j)' = Valid(i, j) /\ sets'[i] = sets[i] /\ <<i, j>> # Current'
        BY <1>2, <1>4, <2>1, <2>2, <3>1 DEF Valid, Current
      <4>2. Before(<<i, j>>, Current)'
        BY <1>2, <1>4, <1>6, <2>2, <3>1 DEF Before, Current
      <4>3. Valid(i, j) => Before(<<i, j>>, Current)
        BY <1>2, <1>4, <1>6, <3>1 DEF Valid, Before, Current, OneMore
      <4> QED
        BY <1>1, <1>2, <1>6, <4>1, <4>2, <4>3
    <3>2. CASE i = set'
      <4>1. Valid(i, j)' <=> j \in 1 .. sets'[set'].n
        BY <2>1, <2>2, <3>2 DEF Valid
      <4>2. Before(<<i, j>>, Current)' <=> j <= 1
        BY <1>6, <2>2, <3>2 DEF Before, Current
      <4>3. <<i, j>> \notin tried
        BY <1>2, <1>4, <2>1, <2>2, <3>2 DEF Valid
      <4>4. sets'[i].thr >= Constraint
        BY <1>2, <1>4, <2>1, <2>2, <3>2
      <4>5. <<i, j>> = Current' <=> j = 1
        BY <1>6, <3>2 DEF Current
      <4> QED
        BY <1>1, <1>6, <2>2, <4>1, <4>2, <4>3, <4>4, <4>5
    <3>3. CASE i \notin 1 .. Len(sets) /\ i # set'
      <4>1. ~Valid(i, j)' /\ ~Valid(i, j) /\ <<i, j>> # Current'
        BY <1>2, <1>4, <2>1, <2>2, <3>3 DEF Valid, Current
      <4> QED
        BY <1>1, <1>2, <1>6, <4>1
    <3> QED
      BY <3>1, <3>2, <3>3
  <2>6. sets'[set'].thr >= Constraint
    BY <1>2, <1>4, <2>1, <2>2
  <2>7. Attempts'
    BY <1>1, <1>6, <2>1, <2>2, <2>5, <2>6, PipelineStates DEF Attempts, Goto
  <2> QED
    BY <1>3, <2>1, <2>3, <2>4, <2>7 DEF Safe
<1>7. CASE NoSetLeft /\ distr' = 0
  <2>1. state' = "Failed" /\ set' = 0 /\ sets' = sets /\ tried' = tried
    BY <1>1, <1>7 DEF NoSetLeft, Goto
  <2>2. TypeOK'
    BY <1>1, <1>7, <2>1 DEF Safe, TypeOK, config
  <2>3. Attempts'
    BY <2>1, PipelineStates DEF Attempts
  <2> QED
    BY <1>3, <1>7, <2>1, <2>2, <2>3 DEF Safe
<1> QED
  BY <1>5, <1>6, <1>7 DEF selectStorageDistribution

-----------------------------------------------------------------------------
(* The handlers after the selection keep the attempt and what was made for *)
(* it.                                                                     *)
Attempted == {"EstimateStorageDist", "EstimateLatencyConstraint", "EstimateBandwidthConstraint",
              "BindSDFGtoTile", "StaticOrderScheduleTiles", "AllocateTDMAtimeSlices",
              "OptimizeStorageSpaceAllocations", "ExtractCommunicationConstraints",
              "ScheduleCommunication", "UpdateBandwidthAllocations"}

Ended == {"SelectStorageDist", "Completed", "Failed", "Exception"}

LEMMA HandlerSafe ==
    ASSUME Safe, UNCHANGED <<config, chosen>>, state \in Attempted,
           state' \in Attempted \cup Ended,
           made' \in [Results -> Nat \X Nat], Stages'
    PROVE  Safe'
<1>1. state \in {Pipeline[i] : i \in 1 .. 10} /\ set # 0
  BY PipelineStates DEF Attempted, Safe, Attempts
<1>2. Attempts'
  BY <1>1, SameAttempt DEF Attempted, Ended
<1>3. state' \in {Pipeline[i] : i \in 1 .. 10} \cup Ended
  BY PipelineStates DEF Attempted
<1>4. TypeOK'
  BY <1>3 DEF Safe, TypeOK, Ended, config, chosen
<1> QED
  BY <1>2, <1>4 DEF Safe

LEMMA EstimateSafe ==
    Safe /\ (estimateStorageConstraints \/ estimateLatencyConstraints
             \/ estimateBandwidthConstraints) => Safe'
<1> SUFFICES ASSUME Safe, estimateStorageConstraints \/ estimateLatencyConstraints
                          \/ estimateBandwidthConstraints
             PROVE  Safe'
  OBVIOUS
<1>1. made \in [Results -> Nat \X Nat] /\ Stages
  BY DEF Safe, TypeOK
<1>2. CASE estimateStorageConstraints
  <2>1. Stages'
    BY <1>1, <1>2 DEF estimateStorageConstraints, Stages, Goto, Current, chosen, Results
  <2>2. made' \in [Results -> Nat \X Nat]
    BY <1>2, <1>1, CurrentType DEF estimateStorageConstraints
  <2> QED
    BY <1>2, <2>1, <2>2, HandlerSafe DEF estimateStorageConstraints, Goto, Attempted
<1>3. CASE estimateLatencyConstraints
  <2>1. Stages'
    BY <1>1, <1>3 DEF estimateLatencyConstraints, Stages, Goto, Make, Current, chosen, Results
  <2>2. made' \in [Results -> Nat \X Nat]
    BY <1>3, <1>1, CurrentType DEF estimateLatencyConstraints, Make
  <2> QED
    BY <1>3, <2>1, <2>2, HandlerSafe DEF estimateLatencyConstraints, Goto, Attempted
<1>4. CASE estimateBandwidthConstraints
  <2>1. Stages'
    BY <1>1, <1>4 DEF estimateBandwidthConstraints, Stages, Goto, Make, Current, chosen, Results
  <2>2. made' \in [Results -> Nat \X Nat]
    BY <1>4, <1>1, CurrentType DEF estimateBandwidthConstraints, Make
  <2> QED
    BY <1>4, <2>1, <2>2, HandlerSafe DEF estimateBandwidthConstraints, Goto, Attempted
<1> QED
  BY <1>2, <1>3, <1>4

LEMMA TileSafe ==
    Safe /\ (bindSDFGtoTiles \/ constructStaticOrderScheduleTiles \/ allocateTDMAtimeSlices)
        => Safe'
<1> SUFFICES ASSUME Safe, bindSDFGtoTiles \/ constructStaticOrderScheduleTiles
                          \/ allocateTDMAtimeSlices
             PROVE  Safe'
  OBVIOUS
<1>1. made \in [Results -> Nat \X Nat] /\ Stages
  BY DEF Safe, TypeOK
<1>2. CASE bindSDFGtoTiles
  <2>1. Stages'
    BY <1>1, <1>2 DEF bindSDFGtoTiles, Stages, Goto, Current, chosen, Results
  <2>2. made' \in [Results -> Nat \X Nat]
    BY <1>2, <1>1, CurrentType DEF bindSDFGtoTiles
  <2> QED
    BY <1>2, <2>1, <2>2, HandlerSafe DEF bindSDFGtoTiles, Goto, Attempted, Ended
<1>3. CASE constructStaticOrderScheduleTiles
  <2>1. Stages'
    BY <1>1, <1>3 DEF constructStaticOrderScheduleTiles, Stages, Goto, Current, chosen, Results
  <2>2. made' \in [Results -> Nat \X Nat]
    BY <1>3, <1>1, CurrentType DEF constructStaticOrderScheduleTiles
  <2> QED
    BY <1>3, <2>1, <2>2, HandlerSafe
       DEF constructStaticOrderScheduleTiles, Goto, Attempted, Ended
<1>4. CASE allocateTDMAtimeSlices
  <2>1. Stages'
    BY <1>1, <1>4 DEF allocateTDMAtimeSlices, NextAttempt, Stages, Goto, Make, Current, chosen, Results
  <2>2. made' \in [Results -> Nat \X Nat]
    BY <1>4, <1>1, CurrentType DEF allocateTDMAtimeSlices, Make
  <2> QED
    BY <1>4, <2>1, <2>2, HandlerSafe
       DEF allocateTDMAtimeSlices, NextAttempt, Goto, Attempted, Ended
<1> QED
  BY <1>2, <1>3, <1>4

LEMMA NetworkSafe ==
    Safe /\ (optimizeStorageSpaceAllocations \/ extractCommunicationConstraints
             \/ scheduleCommunication \/ updateBandwidthAllocations) => Safe'
<1> SUFFICES ASSUME Safe, optimizeStorageSpaceAllocations \/ extractCommunicationConstraints
                          \/ scheduleCommunication \/ updateBandwidthAllocations
             PROVE  Safe'
  OBVIOUS
<1>1. made \in [Results -> Nat \X Nat] /\ Stages
  BY DEF Safe, TypeOK
<1>2. CASE optimizeStorageSpaceAllocations
  <2>1. Stages'
    BY <1>1, <1>2
       DEF optimizeStorageSpaceAllocations, Stages, Goto, Make, Current, chosen, config, Results
  <2>2. made' \in [Results -> Nat \X Nat]
    BY <1>2, <1>1, CurrentType DEF optimizeStorageSpaceAllocations, Make
  <2> QED
    BY <1>2, <2>1, <2>2, HandlerSafe
       DEF optimizeStorageSpaceAllocations, Goto, Attempted, Ended
<1>3. CASE extractCommunicationConstraints
  <2>1. Stages'
    BY <1>1, <1>3 DEF extractCommunicationConstraints, Stages, Goto, Make, Current, chosen, Results
  <2>2. made' \in [Results -> Nat \X Nat]
    BY <1>3, <1>1, CurrentType DEF extractCommunicationConstraints, Make
  <2> QED
    BY <1>3, <2>1, <2>2, HandlerSafe
       DEF extractCommunicationConstraints, Goto, Attempted, Ended
<1>4. CASE scheduleCommunication
  <2>1. Stages'
    BY <1>1, <1>4 DEF scheduleCommunication, NextAttempt, Stages, Goto, Make, Current, chosen, Results
  <2>2. made' \in [Results -> Nat \X Nat]
    BY <1>4, <1>1, CurrentType DEF scheduleCommunication, Make
  <2> QED
    BY <1>4, <2>1, <2>2, HandlerSafe
       DEF scheduleCommunication, NextAttempt, Goto, Attempted, Ended
<1>5. CASE updateBandwidthAllocations
  <2>1. Stages'
    BY <1>1, <1>5 DEF updateBandwidthAllocations, Stages, Goto, Make, Current, chosen, Results
  <2>2. made' \in [Results -> Nat \X Nat]
    BY <1>5, <1>1, CurrentType DEF updateBandwidthAllocations, Make
  <2> QED
    BY <1>5, <2>1, <2>2, HandlerSafe DEF updateBandwidthAllocations, Goto, Attempted, Ended
<1> QED
  BY <1>2, <1>3, <1>4, <1>5

LEMMA NextSafe == Safe /\ [Next]_vars => Safe'
<1> SUFFICES ASSUME Safe, [Next]_vars PROVE Safe'
  OBVIOUS
<1>1. CASE Next
  BY <1>1, StartSafe, ComputeSafe, SelectSafe, EstimateSafe, TileSafe, NetworkSafe DEF Next
<1>2. CASE UNCHANGED vars
  <2>1. UNCHANGED <<flowType, algorithms, slotTable, state, sets, set, distr, tried, made>>
    BY <1>2 DEF vars, config, chosen
  <2>2. TypeOK'
    BY <2>1 DEF Safe, TypeOK
  <2>3. Stages'
    BY <2>1 DEF Safe, Stages, Current
  <2>4. Attempts'
    BY <2>1 DEF Safe, Attempts, Valid, Before, Current
  <2> QED
    BY <2>2, <2>3, <2>4 DEF Safe
<1> QED
  BY <1>1, <1>2

LEMMA AlwaysSafe == Spec => []Safe
<1>1. Init => Safe
  BY InitSafe
<1>2. Safe /\ [Next]_vars => Safe'
  BY NextSafe
<1> QED
  BY <1>1, <1>2, PTL DEF Spec

-----------------------------------------------------------------------------
(* The variables keep their types.                                         *)
THEOREM Typing == Spec => []TypeOK
<1>1. Safe => TypeOK
  BY DEF Safe
<1> QED
  BY <1>1, AlwaysSafe, PTL

(* No handler works with what an earlier attempt left, and all that a      *)
(* completed flow returns was made for one distribution.                   *)
THEOREM AlwaysInStep == Spec => []InStep
<1>1. Safe => InStep
  BY StagesInStep DEF Safe
<1> QED
  BY <1>1, AlwaysSafe, PTL

(* The distributions tried are those that meet the constraint, in order.   *)
THEOREM NothingSkipped == Spec => []NoneSkipped
<1>1. Safe => NoneSkipped
  <2> SUFFICES ASSUME Safe, distr # 0
               PROVE  /\ sets[set].thr >= Constraint
                      /\ \A i \in 1 .. Len(sets) : \A j \in 1 .. sets[i].n :
                            <<i, j>> \in tried <=> sets[i].thr >= Constraint
                                                   /\ Before(<<i, j>>, Current)
    BY DEF NoneSkipped
  <2>1. set # 0 /\ state # "ComputeStorageDist"
    BY DEF Safe, TypeOK, Attempts
  <2>2. /\ sets[set].thr >= Constraint
        /\ \A i, j \in Nat : <<i, j>> \in tried <=> /\ Valid(i, j)
                                                    /\ sets[i].thr >= Constraint
                                                    /\ Before(<<i, j>>, Current)
    BY <2>1 DEF Safe, Attempts
  <2>3. ASSUME NEW i \in 1 .. Len(sets), NEW j \in 1 .. sets[i].n
        PROVE  i \in Nat /\ j \in Nat /\ Valid(i, j)
    BY <2>3 DEF Valid
  <2> QED
    BY <2>2, <2>3
<1> QED
  BY <1>1, AlwaysSafe, PTL

(* No distribution is selected twice.                                      *)
THEOREM NotAgain == Spec => NeverAgain
<1>1. Safe /\ [Next]_vars
        => [state = "SelectStorageDist" /\ distr' # 0 => Current' \notin tried]_vars
  <2> SUFFICES ASSUME Safe, Next, state = "SelectStorageDist", distr' # 0
               PROVE  Current' \notin tried
    BY DEF NeverAgain
  <2>1. selectStorageDistribution
    BY DEF Next, checkInputDesignFlow, modelNonLocalMemoryAccesses,
           computeStorageDistributions, estimateStorageConstraints,
           estimateLatencyConstraints, estimateBandwidthConstraints, bindSDFGtoTiles,
           constructStaticOrderScheduleTiles, allocateTDMAtimeSlices,
           optimizeStorageSpaceAllocations, extractCommunicationConstraints,
           scheduleCommunication, updateBandwidthAllocations
  <2> QED
    BY <2>1, SelectSafe
<1> QED
  BY <1>1, AlwaysSafe, PTL DEF Spec, NeverAgain
=============================================================================
