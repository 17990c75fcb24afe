----------------------------- MODULE StaticOrder -----------------------------
(***************************************************************************)
(* Static-order schedules                                                  *)
(* (sdf/resource_allocation/scheduling/static_order_schedule.{h,cc}): a    *)
(* sequence of actors and the position at which its periodic part starts,  *)
(* to which the last entry loops back.  Positions of the code start at 0,  *)
(* here at 1; start 0 stands for UINT_MAX, a schedule without periodic     *)
(* part.                                                                   *)
(***************************************************************************)
EXTENDS Integers, SequencesExt, FiniteSets

Schedule(actors) == [entries : Seq(actors), start : Nat]

EmptySchedule == [entries |-> <<>>, start |-> 0]

isLast(s, i) == i = Len(s.entries)

next(s, i) == IF isLast(s, i) THEN s.start ELSE i + 1

(* The n-th firing of the endless sequence the schedule stands for         *)
Firing(s, n) ==
    IF n <= Len(s.entries) THEN s.entries[n]
    ELSE s.entries[s.start + ((n - s.start) % (Len(s.entries) - s.start + 1))]

PeriodicPart(s) == SubSeq(s.entries, s.start, Len(s.entries))

(* A copy of actor new before every entry of actor a, one call of          *)
(* insertActor each, which moves the loop-back for every entry it puts in  *)
(* the transient part.                                                     *)
insertActors(s, a, new) ==
    [entries |-> FlattenSeq([i \in DOMAIN s.entries |->
                    IF s.entries[i] = a THEN <<new, a>> ELSE <<s.entries[i]>>]),
     start |-> s.start + Cardinality({i \in DOMAIN s.entries : i < s.start /\ s.entries[i] = a})]

(* Only the entries of the actors known to the new graph are kept.         *)
changeActorAssociations(s, actors) ==
    [entries |-> SelectSeq(s.entries, LAMBDA a : a \in actors),
     start |-> s.start - Cardinality({i \in DOMAIN s.entries :
                                         i < s.start /\ s.entries[i] \notin actors})]

(* The search for the smallest repeated part, one position of the periodic *)
(* part after the first at a time: pat goes round the pattern, which ends  *)
(* at last; an entry that differs from it extends the pattern up to that   *)
(* entry.  whole tells whether the pattern was just completed.             *)
MatchEntry(s, r, i) ==
    IF s.entries[i] # s.entries[r.pat] THEN [last |-> i, pat |-> s.start, whole |-> FALSE]
    ELSE IF r.pat = r.last THEN [r EXCEPT !.pat = s.start, !.whole = TRUE]
    ELSE [r EXCEPT !.pat = @ + 1, !.whole = FALSE]

(* The end of the pattern, or of the periodic part when it does not end    *)
(* with a complete repetition                                              *)
PeriodicEnd(s) ==
    LET r == FoldLeft(LAMBDA acc, i : MatchEntry(s, acc, i),
                      [last |-> s.start, pat |-> s.start, whole |-> TRUE],
                      [i \in 1 .. Len(s.entries) - s.start |-> s.start + i])
    IN  IF r.whole THEN r.last ELSE Len(s.entries)

(* Faulty variant of TransientEnd: entries of an incomplete repetition go. *)
TransientEndPartial(s, last) ==
    LET len == last - s.start + 1
        matched == {m \in 0 .. s.start - 1 :
                      \A i \in 1 .. m : s.entries[s.start - i] = s.entries[last - ((i - 1) % len)]}
    IN  s.start - 1 - CHOOSE m \in matched : \A n \in matched : n <= m

(* The transient part without the complete repetitions it ends with        *)
TransientEnd(s, last) ==
    LET len == last - s.start + 1
        repeats == {m \in 0 .. (s.start - 1) \div len :
                      \A i \in 1 .. m * len :
                         s.entries[s.start - i] = s.entries[last - ((i - 1) % len)]}
    IN  s.start - 1 - len * CHOOSE m \in repeats : \A n \in repeats : n <= m

minimize(s) ==
    IF s.entries = <<>> THEN s
    ELSE LET last == PeriodicEnd(s)
             transient == TransientEnd(s, last)
         IN  [entries |-> SubSeq(s.entries, 1, transient) \o SubSeq(s.entries, s.start, last),
              start |-> transient + 1]
=============================================================================
