---------------------------- MODULE ListScheduler ----------------------------
(***************************************************************************)
(* Construction of static-order schedules by executing a bound graph with  *)
(* a first-in first-out list of enabled firings per tile:                  *)
(* sdf/resource_allocation/scheduling/list_scheduler.cc.                   *)
(***************************************************************************)
EXTENDS BoundExec

CONSTANT Bindings  \* bound graphs, IsBoundGraph

VARIABLES previousCh,  \* previousState.ch
          readyList,   \* actorReadyList
          idle,        \* procIdle
          recurrent,   \* the position of the recurrent state
          lenAt        \* not in the code: the lengths of the schedules when
                       \* the states were stored

listVars == <<previousCh, readyList, idle, recurrent, lenAt>>
vars == <<execVars, listVars>>

EmptyLists(G) == [p \in Tiles(G) |-> <<>>]

Init ==
    /\ g \in Bindings
    /\ sos = [p \in Tiles(g) |-> EmptySchedule]
    /\ NotStarted
    /\ previousCh = [k \in Channels(g) |-> 0]
    /\ readyList = EmptyLists(g)
    /\ idle = [p \in Tiles(g) |-> TRUE]
    /\ recurrent = 0
    /\ lenAt = <<>>

(* A bound actor waits for an idle processor and its turn in the list.     *)
actorReadyToFire(a) ==
    /\ IsBound(g, a) => LET p == g.tile[a]
                        IN  /\ idle[p]
                            /\ readyList[p] # <<>>
                            /\ Head(readyList[p]) = a
    /\ Ready(g, ch, a)

startActorFiring(a) ==
    /\ ch' = Consume(g, ch, a)
    /\ actClk' = [actClk EXCEPT ![a] = Append(@, completionTime(g, tdmaPos, a))]
    /\ IF IsBound(g, a)
       THEN LET p == g.tile[a]
            IN  /\ idle' = [idle EXCEPT ![p] = FALSE]
                /\ readyList' = [readyList EXCEPT ![p] = Tail(@)]
                /\ sos' = [sos EXCEPT ![p].entries = Append(@, a)]
                /\ sosPos' = [sosPos EXCEPT ![p] = Len(sos[p].entries) + 1]
       ELSE UNCHANGED <<idle, readyList, sos, sosPos>>

endActorFiring(a) ==
    /\ ch' = Produce(g, ch, a)
    /\ actClk' = [actClk EXCEPT ![a] = Tail(@)]
    /\ idle' = IF IsBound(g, a) THEN [idle EXCEPT ![g.tile[a]] = TRUE] ELSE idle

EndFiring(a) ==
    /\ FirstToEnd(a)
    /\ CountFiring(a)
    /\ endActorFiring(a)
    /\ UNCHANGED <<g, repVec, sos, sosPos, tdmaPos, phase, thr, previousCh, readyList, recurrent, lenAt>>

(* States are compared without the positions of schedules and wheels.      *)
Recurs(i) == /\ stored[i].ch = ch
             /\ stored[i].actClk = actClk
             /\ stored[i].glbClk = glbClk

StoreAndEndFiring(a) ==
    /\ FirstToEnd(a)
    /\ \A i \in DOMAIN stored : ~Recurs(i)
    /\ StoreState(a)
    /\ lenAt' = Append(lenAt, [p \in Tiles(g) |-> Len(sos[p].entries)])
    /\ endActorFiring(a)
    /\ UNCHANGED <<g, repVec, sos, sosPos, tdmaPos, phase, thr, previousCh, readyList, recurrent>>

(* Faulty variant of CompleteCycle: back to the entry after that position. *)
CompleteCycleAfter(s, pos) ==
    IF Len(s.entries) > 1 THEN [entries |-> Front(s.entries), start |-> pos + 1]
    ELSE IF Len(s.entries) = 1 THEN [s EXCEPT !.start = 1]
    ELSE s

(* The last entry goes, and the one before it loops back to the position   *)
(* at which the schedule was in the recurrent state.                       *)
CompleteCycle(s, pos) ==
    IF Len(s.entries) > 1 THEN [entries |-> Front(s.entries), start |-> pos]
    ELSE IF Len(s.entries) = 1 THEN [s EXCEPT !.start = 1]
    ELSE s

RecurrentState(a) ==
    /\ FirstToEnd(a)
    /\ CompletesIteration(a)
    /\ \E i \in DOMAIN stored :
          /\ Recurs(i)
          /\ recurrent' = i
          /\ sos' = [p \in Tiles(g) |-> CompleteCycle(sos[p], stored[i].sosPos[p])]
          /\ thr' = computeThroughput(i)
    /\ phase' = "done"
    /\ UNCHANGED <<g, repVec, ch, actClk, glbClk, sosPos, tdmaPos, repCnt, stored, previousCh,
                   readyList, idle, lenAt>>

EndsDone ==
    /\ phase = "end"
    /\ \A a \in Actors(g) : ~ReadyToEnd(a)
    /\ phase' = "list"
    /\ UNCHANGED <<g, repVec, sos, ch, actClk, glbClk, sosPos, tdmaPos, repCnt, stored, thr, listVars>>

(* The firings of a for which the tokens are there                         *)
Enabled(tokens, a) ==
    LET n == {tokens[k] \div g.ch[k].c : k \in InChannels(g, a)}
    IN  CHOOSE m \in n : \A i \in n : m <= i

(* Faulty variant of NewlyEnabled: all firings enabled now.                *)
AllEnabled(a) == [i \in 1 .. Enabled(ch, a) |-> a]

(* The firings of a enabled since the last clock step                      *)
NewlyEnabled(a) == [i \in 1 .. Enabled(ch, a) - Enabled(previousCh, a) |-> a]

(* Every list grows, actor by actor, with what became enabled.             *)
UpdateReadyLists ==
    /\ phase = "list"
    /\ readyList' = [p \in Tiles(g) |->
                       readyList[p] \o FlattenSeq([a \in Actors(g) |->
                                          IF g.tile[a] = p THEN NewlyEnabled(a) ELSE <<>>])]
    /\ phase' = "start"
    /\ UNCHANGED <<g, repVec, sos, ch, actClk, glbClk, sosPos, tdmaPos, repCnt, stored, thr,
                   previousCh, idle, recurrent, lenAt>>

StartFiring(a) ==
    /\ phase = "start"
    /\ actorReadyToFire(a)
    /\ \A b \in Actors(g) : b < a => ~actorReadyToFire(b)
    /\ startActorFiring(a)
    /\ UNCHANGED <<g, repVec, glbClk, tdmaPos, repCnt, stored, phase, thr, previousCh, recurrent, lenAt>>

ClockStep ==
    /\ phase = "start"
    /\ \A a \in Actors(g) : ~actorReadyToFire(a)
    /\ clockStep
    /\ previousCh' = ch
    /\ phase' = "end"
    /\ UNCHANGED <<g, repVec, sos, ch, sosPos, repCnt, stored, thr, readyList, idle, recurrent, lenAt>>

(* The exception "Graph is not deadlock free."                             *)
Deadlock ==
    /\ phase = "start"
    /\ \A a \in Actors(g) : ~actorReadyToFire(a)
    /\ Active = {}
    /\ thr' = [fire |-> 0, time |-> 1]
    /\ phase' = "done"
    /\ UNCHANGED <<g, repVec, sos, ch, actClk, glbClk, sosPos, tdmaPos, repCnt, stored, listVars>>

Next ==
    \/ \E a \in Actors(g) : \/ EndFiring(a)
                            \/ StoreAndEndFiring(a)
                            \/ RecurrentState(a)
                            \/ StartFiring(a)
    \/ EndsDone
    \/ UpdateReadyLists
    \/ ClockStep
    \/ Deadlock

Spec == Init /\ [][Next]_vars

-----------------------------------------------------------------------------
TypeOK ==
    /\ IsBoundGraph(g)
    /\ sos \in [Tiles(g) -> Schedule(Actors(g))]
    /\ ExecTypeOK
    /\ previousCh \in [Channels(g) -> Nat]
    /\ readyList \in [Tiles(g) -> Seq(Actors(g))]
    /\ idle \in [Tiles(g) -> BOOLEAN]
    /\ recurrent \in Nat

(* The lists hold every enabled firing of a bound actor exactly once:      *)
(* what the difference between two token counts adds, firing by firing, is *)
(* what the starts took away, across clock steps that change nothing.      *)
ReadyListsExact ==
    phase = "start" =>
        \A a \in Actors(g) : IsBound(g, a) =>
            Enabled(ch, a) = Cardinality({i \in DOMAIN readyList[g.tile[a]] :
                                             readyList[g.tile[a]][i] = a})

Occurrences(s, a) == Cardinality({i \in DOMAIN s : s[i] = a})

(* The periodic part of the schedule of tile p holds a whole number n of   *)
(* iterations.                                                             *)
HoldsIterations(p, n) ==
    \A a \in BoundTo(g, p) : Occurrences(PeriodicPart(sos[p]), a) = n * repVec[a]

(* When the recurrent state is found, the schedule of a tile that had      *)
(* begun at the first visit, and whose last firing then was of the same    *)
(* actor as its last firing now, gets a periodic part with every actor as  *)
(* often as the iterations between the visits ask for: the entry that goes *)
(* at the end is the entry that comes in at the loop-back.                 *)
PeriodicPartComplete ==
    [][recurrent = 0 /\ recurrent' # 0 =>
         \A p \in Tiles(g) :
            LET n == lenAt[recurrent'][p]
            IN  n > 0 /\ sos[p].entries[n] = Last(sos[p].entries) =>
                    HoldsIterations(p, thr.fire)']_vars
=============================================================================
