----------------------------- MODULE SlotTables -----------------------------
(***************************************************************************)
(* The slots of a link of the network on chip over the period of a         *)
(* schedule (noc_allocation/problem/slot.cc): a sequence of slot tables,   *)
(* each for an interval of time, cut where a reservation begins or ends.   *)
(* A slot of a table is Free, taken by another application (Elsewhere), or *)
(* by the scheduling entity of a message, named by the number of the       *)
(* message.                                                                *)
(***************************************************************************)
EXTENDS Integers, Sequences, SequencesExt

CONSTANTS SlotTableSize, Period

ASSUME SlotTablesAssumption == /\ SlotTableSize \in Nat \ {0}
                               /\ Period \in Nat \ {0}

Slots == 0 .. SlotTableSize - 1
Free == 0
Elsewhere == -1

NewTables(used) == <<[from |-> 0, to |-> Period - 1,
                      use |-> [i \in Slots |-> IF i \in used THEN Elsewhere ELSE Free]]>>

(* The table in which time lies, if it does not begin there, in two        *)
CutAt(tables, time) ==
    LET across == {n \in DOMAIN tables : tables[n].from < time /\ time <= tables[n].to}
        cut == CHOOSE n \in across : TRUE
    IN  IF across = {} THEN tables
        ELSE [n \in 1 .. Len(tables) + 1 |->
                 IF n < cut THEN tables[n]
                 ELSE IF n = cut THEN [tables[n] EXCEPT !.to = time - 1]
                 ELSE IF n = cut + 1 THEN [tables[cut] EXCEPT !.from = time]
                 ELSE tables[n - 1]]

(* A time frame from s to e goes on in the next period.                    *)
Loops(s, e, dur) == s >= e /\ dur # 1

Frame(e, k) ==
    LET first == (e.start + k) % Period
        last == (e.start + k + e.dur - 1) % Period
    IN  [first |-> first, last |-> last, loop |-> Loops(first, last, e.dur)]

InFrame(s, f) == IF f.loop THEN s.to <= f.last \/ s.from >= f.first
                           ELSE s.from >= f.first /\ s.to <= f.last

(* A frame that begins and ends at one time is not cut there.              *)
CutForFrame(tables, f) ==
    CutAt(IF f.loop /\ f.first = f.last THEN tables ELSE CutAt(tables, f.first), f.last + 1)

(* The tables with a slot already reserved: by another, or by the frame    *)
(* itself when it loops back into the table where it begins.               *)
Taken(tables, slots, f) ==
    LET cut == CutForFrame(tables, f)
    IN  {n \in DOMAIN cut :
           \/ InFrame(cut[n], f) /\ \E i \in slots : cut[n].use[i] # Free
           \/ /\ f.loop /\ f.first = f.last /\ cut[n].to = f.last
              /\ \E s \in ToSet(tables) : s.to = f.last}

Conflict(tables, slots, f) == Taken(tables, slots, f) # {}

reserveSlots(tables, m, slots, f) ==
    LET cut == CutForFrame(tables, f)
    IN  [n \in DOMAIN cut |->
           IF InFrame(cut[n], f)
           THEN [cut[n] EXCEPT !.use = [i \in Slots |-> IF i \in slots THEN m ELSE @[i]]]
           ELSE cut[n]]

(* What is left when a slot of table n is taken: the claims on the tables  *)
(* before it and on its slots below, and the tables after it not yet cut.  *)
(* A part that is cut off is inserted last, so that the part up to the end *)
(* of the frame, or before the start of one that loops, is lost.           *)
reserveInPart(tables, m, slots, f) ==
    LET cut == CutForFrame(tables, f)
        n == Min(Taken(tables, slots, f))
        twice == f.loop /\ f.first = f.last /\ \A i \in slots : cut[n].use[i] = Free
        below == {i \in slots : \A j \in slots : cut[n].use[j] # Free => i < j}
        part == [cut[n] EXCEPT !.from = IF twice THEN f.first ELSE @,
                               !.use = [i \in Slots |-> IF i \in below THEN m ELSE @[i]]]
        lost == cut[n].to = f.last /\ \A s \in ToSet(tables) : s.to # f.last
        lostBefore == /\ f.loop /\ cut[n].from = f.first
                      /\ \A s \in ToSet(CutAt(tables, f.last + 1)) : s.from # f.first
        uncut == CutAt(tables, cut[n].to + 1)
        upTo == Max({k \in 0 .. Len(uncut) : k > 0 => uncut[k].to <= cut[n].to})
    IN  SubSeq(reserveSlots(tables, m, slots, f), 1, IF lostBefore THEN n - 2 ELSE n - 1)
          \o (IF lost THEN <<>> ELSE <<part>>)
          \o SubSeq(uncut, upTo + 1, Len(uncut))

(* Faulty variant of releaseSlots: the part in the next period stays.      *)
releaseToPeriodEnd(tables, m, e, k) ==
    LET first == (e.start + k) % Period
        next == (e.start + k + e.dur) % Period
        loop == Loops(first, next, e.dur)
    IN  [n \in DOMAIN tables |->
           LET s == tables[n]
           IN  IF s.from >= first /\ (loop \/ s.from <= next)
               THEN [s EXCEPT !.use = [i \in Slots |-> IF @[i] = m THEN Free ELSE @[i]]]
               ELSE s]

(* What m has on link k of the route of its entity e is given back, in the *)
(* tables from the start of the frame to the time after its end.           *)
releaseSlots(tables, m, e, k) ==
    LET first == (e.start + k) % Period
        next == (e.start + k + e.dur) % Period
        loop == Loops(first, next, e.dur)
    IN  [n \in DOMAIN tables |->
           LET s == tables[n]
           IN  IF \/ s.from >= first /\ (loop \/ s.from <= next)
                  \/ loop /\ next >= s.to
               THEN [s EXCEPT !.use = [i \in Slots |-> IF @[i] = m THEN Free ELSE @[i]]]
               ELSE s]

getSlotReservations(s) == {i \in Slots : s.use[i] = Free}
=============================================================================
