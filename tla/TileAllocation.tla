---------------------------- MODULE TileAllocation ----------------------------
(***************************************************************************)
(* Binding and time slices together: an attempt of Binding that has bound  *)
(* every actor goes on with the search of TimeSlices on the wheels of the  *)
(* platform and the loads that the binding left on the tiles.  When the    *)
(* search fails the application is released.                               *)
(***************************************************************************)
EXTENDS Binding

CONSTANT Finest  \* of TimeSlices

ASSUME TileAllocationAssumption ==
    /\ Finest \in Nat \ {0, 1} /\ None \notin [Tiles -> Nat]
    /\ \A p \in Platforms, a \in Actors, t \in Tiles : <<a, t>> \in p.runs => p.load[a][t] > 0

VARIABLES parts, saved, low, high, measured, stage, success

search == <<parts, saved, low, high, measured, stage, success>>

allVars == <<vars, search>>

TS == INSTANCE TimeSlices WITH wheel <- platform.wheel, load <- tileLoad

AllocationInit == Init /\ TS!Init

BindingStep(step) == step /\ UNCHANGED search

SearchStep ==
    /\ pc = "bound"
    /\ UNCHANGED <<platform, demand, binding, claims, tileLoad, control>>
    /\ TS!Next

(* What the search used is local to it.                                    *)
SearchEnds ==
    /\ pc = "bound"
    /\ \/ stage = "met" /\ pc' = "sliced" /\ todo' = Buffers
       \/ stage = "failed" /\ pc' = "undo" /\ UNCHANGED todo
    /\ parts' = 2 /\ saved' = None /\ low' = None /\ high' = None
    /\ measured' = <<>> /\ stage' = "reserve" /\ success' = FALSE
    /\ UNCHANGED <<platform, demand, resources, mode, cur, remaining, untried, chan>>

AllocationAttempt == BindingStep(Attempt) \/ SearchStep \/ SearchEnds

AllocationNext == BindingStep(NewAttempt) \/ AllocationAttempt

(* An attempt runs to its end; the flow need not make another one.         *)
AllocationSpec ==
    AllocationInit /\ [][AllocationNext]_allVars /\ WF_allVars(AllocationAttempt)

-----------------------------------------------------------------------------
(* Binding sees the slices when the search has ended.                      *)
Found == IF pc = "bound" THEN [t \in Tiles |-> 0] ELSE slice

Abstract == INSTANCE Binding WITH slice <- Found

(* The slices reserved and resized on the way never let the allocation do  *)
(* what binding with slices found in one step could not: the loads the     *)
(* search works on stay as the binding left them, and it ends with a slice *)
(* on every tile in use and on no other, or the application is released.   *)
ImplementsBinding == Abstract!Init /\ [][Abstract!Next]_Abstract!vars

(* What the search answers is right, with wheels and loads of a binding,   *)
(* and its slices are minimal to one slot: see TimeSlices.                 *)
AnswerIsRight == pc = "bound" => TS!AnswerIsRight /\ TS!WithinOneSlot

(* Every attempt ends, bound, released or with the exception of a buffer   *)
(* that cannot be resized; moves, further tiles, the steps up and down of  *)
(* the slices and the narrowing of their bounds all come to an end.        *)
Returns == pc = "release" ~> pc \in {"idle", "exception"}
=============================================================================
