------------------------------ MODULE TimeSlices ------------------------------
(***************************************************************************)
(* The time slices of a bound application on the TDMA wheels of the tiles  *)
(* (tile_allocation/loadbalance.cc, LoadBalanceBinding): half of every     *)
(* wheel, then minimizeTimeSlices, which steps down while the throughput   *)
(* constraint is met and up while it is not, then optimizeTimeSlices,      *)
(* which searches between the slices found and their share of the load.    *)
(*                                                                         *)
(* A throughput analysis answers as it likes, and the same for the same    *)
(* slices.  minimizeTimeSlices calls itself: of the calls on its stack     *)
(* only the last that lowered the slices acts when a search below it       *)
(* fails, so saved holds what that one keeps.                              *)
(***************************************************************************)
EXTENDS Integers

CONSTANTS Tiles,
          Finest, \* no step is a smaller part of what is free than 1/Finest
          None

VARIABLES wheel,   \* the free part of every wheel
          load,    \* the load of every tile, not all 0
          slice,   \* reservedTimeSlice of every tile
          parts,   \* the step is 1/parts of what is free
          saved,   \* currentSlice of the last call that lowered the slices
          low, high, \* minSlice and maxSlice
          measured, \* the answers of the throughput analysis
          stage, success

vars == <<wheel, load, slice, parts, saved, low, high, measured, stage, success>>

Used == {t \in Tiles : load[t] # 0}
MaxLoad == CHOOSE m \in {load[t] : t \in Tiles} : \A t \in Tiles : load[t] <= m
available(t) == wheel[t] - slice[t]

(* Before the search nothing is reserved.                                  *)
Init ==
    /\ slice = [t \in Tiles |-> 0]
    /\ parts = 2
    /\ saved = None /\ low = None /\ high = None
    /\ measured = <<>>
    /\ stage = "reserve"
    /\ success = FALSE

(* Faulty variant of reserveTimeSlices: also on tiles that are not used.   *)
reserveEverywhere ==
    /\ stage = "reserve"
    /\ slice' = [t \in Tiles |-> IF wheel[t] \div 2 < 1 THEN 1 ELSE wheel[t] \div 2]
    /\ stage' = "minimize"
    /\ UNCHANGED <<wheel, load, parts, saved, low, high, measured, success>>

reserveTimeSlices ==
    /\ stage = "reserve"
    /\ slice' = [t \in Tiles |-> IF t \notin Used THEN 0
                                 ELSE IF wheel[t] \div 2 < 1 THEN 1 ELSE wheel[t] \div 2]
    /\ stage' = "minimize"
    /\ UNCHANGED <<wheel, load, parts, saved, low, high, measured, success>>

-----------------------------------------------------------------------------
(* The throughput is below the constraint, within 10% above it, or higher. *)
Answers == {"below", "near", "above"}

analyzeThroughput(answer) ==
    /\ slice \in DOMAIN measured => answer = measured[slice]
    /\ measured' = [s \in DOMAIN measured \cup {slice} |->
                      IF s = slice THEN answer ELSE measured[s]]

Step(t) == available(t) \div parts

StepUp(t) == (available(t) + parts - 1) \div parts

Increased == [t \in Tiles |-> IF t \in Used THEN slice[t] + StepUp(t) ELSE slice[t]]

Decreased ==
    [t \in Tiles |->
       LET step == IF Step(t) >= slice[t] THEN 1 ELSE Step(t)
       IN  IF t \in Used /\ slice[t] > step THEN slice[t] - step ELSE slice[t]]

Keep(s) ==
    /\ slice' = s
    /\ stage' = "bounds"
    /\ success' = TRUE
    /\ UNCHANGED <<parts, saved>>

(* Faulty variant of Fail: the slices are left as they are.                *)
FailHere ==
    IF saved = None
    THEN stage' = "check" /\ success' = FALSE /\ UNCHANGED <<slice, parts, saved>>
    ELSE Keep(slice)

Fail ==
    IF saved = None
    THEN stage' = "check" /\ success' = FALSE /\ UNCHANGED <<slice, parts, saved>>
    ELSE Keep(saved)

(* One call.  An analysis that takes too long ends the search when the     *)
(* constraint is met.                                                      *)
minimizeTimeSlices ==
    /\ stage = "minimize"
    /\ \E answer \in Answers :
          /\ analyzeThroughput(answer)
          /\ \/ parts > Finest /\ answer # "below" /\ Keep(slice)
             \/ parts > Finest /\ answer = "below" /\ Fail
             \/ parts <= Finest /\ answer = "near" /\ Keep(slice)
             \/ parts <= Finest /\ answer = "below" /\ Increased = slice /\ Fail
             \/ /\ parts <= Finest /\ answer = "below" /\ Increased # slice
                /\ slice' = Increased
                /\ UNCHANGED <<parts, saved, stage, success>>
             \/ parts <= Finest /\ answer = "above" /\ Keep(slice) \* timeout, or all as small as they get
             \/ /\ parts <= Finest /\ answer = "above" /\ Decreased # slice
                /\ saved' = slice
                /\ slice' = Decreased
                /\ parts' = 2 * parts
                /\ UNCHANGED <<stage, success>>
    /\ UNCHANGED <<wheel, load, low, high>>

-----------------------------------------------------------------------------
Share(s) == [t \in Tiles |-> (s[t] * load[t]) \div MaxLoad]

(* The bounds of the search: a tile needs at most the slice it has, at     *)
(* least its share according to the load.                                  *)
setBounds ==
    /\ stage = "bounds"
    /\ high' = slice
    /\ low' = Share(slice)
    /\ stage' = "resize"
    /\ UNCHANGED <<wheel, load, slice, parts, saved, measured, success>>

Resizable(t) == low[t] + 1 < high[t]

resize ==
    /\ stage = "resize"
    /\ slice' = [t \in Tiles |-> IF Resizable(t) THEN low[t] + (high[t] - low[t] + 1) \div 2
                                 ELSE high[t]]
    /\ stage' = "optimize"
    /\ UNCHANGED <<wheel, load, parts, saved, low, high, measured, success>>

(* Faulty variant of Narrow: a slice that failed is tried again.           *)
NarrowLate(met) == IF met THEN high' = slice /\ low' = low ELSE high' = high /\ low' = low

Narrow(met) == IF met THEN high' = slice /\ low' = low ELSE low' = slice /\ high' = high

(* One call of optimizeTimeSlices.  When no slice could be resized the     *)
(* slices are the upper bounds, to which a failure returns as well.        *)
optimizeTimeSlices ==
    /\ stage = "optimize"
    /\ \E answer \in Answers :
          /\ analyzeThroughput(answer)
          /\ IF \E t \in Tiles : Resizable(t)
             THEN Narrow(answer # "below") /\ stage' = "resize"
             ELSE stage' = "check" /\ UNCHANGED <<low, high>>
    /\ UNCHANGED <<wheel, load, slice, parts, saved, success>>

(* isThroughputConstraintSatisfied decides; the caller releases the        *)
(* application when it does not hold.                                      *)
checkConstraint ==
    /\ stage = "check"
    /\ \E answer \in Answers :
          /\ analyzeThroughput(answer)
          /\ stage' = IF answer = "below" THEN "failed" ELSE "met"
    /\ UNCHANGED <<wheel, load, slice, parts, saved, low, high, success>>

Next ==
    \/ reserveTimeSlices \/ minimizeTimeSlices
    \/ setBounds \/ resize \/ optimizeTimeSlices \/ checkConstraint

-----------------------------------------------------------------------------
Slices == [Tiles -> Nat]

TypeOK ==
    /\ wheel \in Slices /\ load \in Slices
    /\ slice \in Slices
    /\ parts \in 2 .. 2 * Finest + 2
    /\ saved \in Slices \cup {None} /\ low \in Slices \cup {None} /\ high \in Slices \cup {None}
    /\ stage \in {"reserve", "minimize", "bounds", "resize", "optimize", "check", "failed", "met"}
    /\ success \in BOOLEAN

(* Each reservation on the way fits in the wheel, so none is refused (the  *)
(* code looks at the result of one of them only), and a tile with actors   *)
(* is never left without a slot, a tile without them never gets one.  When *)
(* the search succeeds the slices that are left, lowered, raised and put   *)
(* back on the way, meet the constraint: the final check agrees.  When it  *)
(* fails the application could not have met the constraint with the whole  *)
(* of the wheels of its tiles.                                             *)
AnswerIsRight ==
    /\ stage # "reserve" =>
          \A t \in Tiles : IF t \in Used THEN slice[t] \in 1 .. wheel[t] ELSE slice[t] = 0
    /\ stage \in {"failed", "met"} => (success <=> stage = "met")
    /\ stage = "failed" => /\ \A t \in Used : slice[t] = wheel[t]
                           /\ measured[slice] = "below"

(* The slices are at most one slot above bounds that are the shares of the *)
(* load of slices that met the constraint, or were found too small.        *)
WithinOneSlot ==
    stage \in {"check", "met"} /\ success =>
        /\ \A t \in Tiles : slice[t] - low[t] \in {0, 1}
        /\ \/ low \in DOMAIN measured /\ measured[low] = "below"
           \/ \E s \in DOMAIN measured : measured[s] # "below" /\ low = Share(s)
        /\ slice \in DOMAIN measured /\ measured[slice] # "below"
=============================================================================
