---------------------------- MODULE NoCSchedule ----------------------------
(***************************************************************************)
(* Scheduling of messages on the links of a network on chip                *)
(* (noc_allocation/scheduler/noc_scheduler.cc, ripup.cc, greedy.cc).  Each *)
(* message in turn, the most costly first, gets a scheduling entity: a     *)
(* route, a time frame and slots in the slot tables of its links, shifted  *)
(* by one from link to link.  When there is none, the message scheduled    *)
(* before that is most in the way is ripped up and scheduled again after   *)
(* it.  Without rip-ups this is the greedy scheduler.                      *)
(*                                                                         *)
(* Times are unsigned numbers of Width bits.  Routes of the same detour    *)
(* are tried in any order: the code sorts them by the free slots on them.  *)
(***************************************************************************)
EXTENDS SlotTables, FiniteSets, FiniteSetsExt

CONSTANTS Links,               \* pairs of nodes
          FlitSize, PacketHeaderSize, ReconfigurationTimeNI,
          Width,
          Problems,            \* messages, slots used elsewhere, preferred slots
          MaxDetour, MaxNrRipups

ASSUME NoCAssumption ==
    /\ IsFiniteSet(Links)
    /\ PacketHeaderSize \in Nat /\ FlitSize \in Nat /\ PacketHeaderSize < FlitSize
    /\ Width \in Nat /\ 2 ^ Width \in Nat \ {0}
    /\ MaxDetour \in Nat /\ MaxNrRipups \in Nat

VARIABLES problem,
          order,          \* the list of messages
          pos,            \* place in that list
          entity,         \* message -> scheduling entity, or NoEntity
          tables,         \* link -> slot tables
          preferredSlots, \* link, slot -> preference level
          pc,
          try,            \* the search for an entity: bounds, detour, routes left, route
          dur,            \* its duration
          nrRipups,
          late, long      \* history: the messages that got an entity although it
                          \* could not begin in time, or one longer than a period

history == <<late, long>>
vars == <<problem, order, pos, entity, tables, preferredSlots, pc, try, dur, nrRipups, history>>

NoEntity == [start |-> 0, dur |-> 0, slots |-> {}, route |-> <<>>]
UINT_MAX == 1000
Unsigned(x) == x % 2 ^ Width
CeilDiv(x, y) == (x + y - 1) \div y
Msg(m) == problem.messages[m]
Messages == DOMAIN problem.messages
Scheduled(m) == entity[m] # NoEntity

-----------------------------------------------------------------------------
(* Routes                                                                  *)
RoutesOfLength(src, dst, n) ==
    {r \in [1 .. n -> Links] :
        /\ r[1][1] = src /\ r[n][2] = dst
        /\ \A i \in 1 .. n - 1 : r[i][2] = r[i + 1][1]
        /\ \A i \in 1 .. n : r[i][2] # src /\ \A j \in 1 .. i - 1 : r[i][2] # r[j][2]}

ShortestLength(src, dst) ==
    Min({n \in 1 .. Cardinality(Links) : RoutesOfLength(src, dst, n) # {}})

findAllRoutes(m, detour) ==
    RoutesOfLength(Msg(m).src, Msg(m).dst, ShortestLength(Msg(m).src, Msg(m).dst) + detour)

(* A message has something to send, time to do so, and a way to go.        *)
ASSUME ProblemsAssumption ==
    \A p \in Problems :
        /\ p.messages \in Seq([src : {l[1] : l \in Links}, dst : {l[2] : l \in Links},
                               stream : Nat, start : Nat, dur : Nat \ {0}, size : Nat \ {0}])
        /\ Len(p.messages) < UINT_MAX
        /\ \A m \in DOMAIN p.messages : \E n \in 1 .. Cardinality(Links) :
              RoutesOfLength(p.messages[m].src, p.messages[m].dst, n) # {}
        /\ p.used \in [Links -> SUBSET Slots]
        /\ p.preferred \in [Links -> SUBSET Slots]

-----------------------------------------------------------------------------
(* Free slots                                                              *)
findFreeSlotsOnLink(l, start, d) ==
    LET first == start % Period
        last == Unsigned(start + d - 1) % Period
    IN  {i \in Slots : \A s \in ToSet(tables[l]) :
            (IF Loops(first, last, d) THEN s.to >= first \/ s.from <= last
                                      ELSE s.to >= first /\ s.from <= last)
                => i \in getSlotReservations(s)}

(* On the first link also the time to reconfigure the network interface    *)
(* before the start counts, in which slots of the same route may be used.  *)
findFreeSlotsOnFirstLinkRoute(r, start, d) ==
    LET first == start % Period
        last == Unsigned(start + d) % Period
        loop == Loops(first, last, d)
        reconf == (Period + start - ReconfigurationTimeNI) % Period
        loopReconf == reconf >= first
        considered(s) == IF loop THEN s.to >= reconf \/ s.from <= last
                         ELSE s.from <= last /\ (s.to >= reconf \/ loopReconf)
        reconfOnly(s) == /\ \/ s.to >= reconf /\ s.to < first
                            \/ loopReconf /\ s.from <= first
                         /\ ~(s.to >= first \/ (loop /\ last <= s.from))
        sameRoute(s) == {i \in Slots : s.use[i] \in Messages /\ entity[s.use[i]].route = r}
    IN  {i \in Slots : \A s \in ToSet(tables[r[1]]) :
            considered(s) => \/ i \in getSlotReservations(s)
                             \/ reconfOnly(s) /\ i \in sameRoute(s)}

findFreeSlotsOnRoute(r, start, d) ==
    {i \in findFreeSlotsOnFirstLinkRoute(r, start, d) :
        \A k \in 2 .. Len(r) :
            (i + k - 1) % SlotTableSize \in findFreeSlotsOnLink(r[k], start + k - 1, d)}

-----------------------------------------------------------------------------
(* Slots for a message                                                     *)
nrSlotsRequired(d, size, nrPackets) ==
    LET rotations == d \div SlotTableSize
    IN  IF rotations = 0 THEN CeilDiv(PacketHeaderSize * nrPackets + size, FlitSize)
        ELSE CeilDiv(CeilDiv(PacketHeaderSize * nrPackets * rotations + size, FlitSize),
                     rotations)

SlotsOf(p) == {(p.first + j) % SlotTableSize : j \in 0 .. p.n - 1}

(* The longest runs of slots in the time frame, where the last slot of the *)
(* table is followed by the first                                          *)
findFreePackets(slots, start, d) ==
    LET S == {i \in Slots \cap slots :
                 d < SlotTableSize => \E j \in 0 .. d - 1 : i = (start + j) % SlotTableSize}
        runs(i) == {n \in 1 .. SlotTableSize : SlotsOf([first |-> i, n |-> n]) \subseteq S}
    IN  IF S = Slots THEN {[first |-> 0, n |-> SlotTableSize]}
        ELSE {[first |-> i, n |-> Max(runs(i))] :
                i \in {i \in S : (i - 1) % SlotTableSize \notin S}}

(* The largest first; of equal ones the one that ends last in the table    *)
Larger(p, q) ==
    LET last(x) == (x.first + x.n - 1) % SlotTableSize
    IN  p.n > q.n \/ (p.n = q.n /\ last(p) > last(q))

(* As few packets as possible, until they hold exactly what is required    *)
(* with their headers; {} when that does not come out.                     *)
AllocateSlots(slots, start, d, size) ==
    LET packets == findFreePackets(slots, start, d)
        first(k) == {p \in packets : Cardinality({q \in packets : Larger(q, p)}) < k}
        taken(k) == MapThenSumSet(LAMBDA p : p.n, first(k))
        exact == {k \in 1 .. Cardinality(packets) : taken(k) = nrSlotsRequired(d, size, k)}
        one == nrSlotsRequired(d, size, 1)
    IN  IF \E p \in first(1) : p.n > one
        THEN UNION {SlotsOf([p EXCEPT !.n = one]) : p \in first(1)}
        ELSE IF exact = {} THEN {}
        ELSE UNION {SlotsOf(p) : p \in first(Min(exact))}

(* With the slots that are preferred on the whole route, then with one     *)
(* more at a time, by preference and position                              *)
findSlotsOnRoute(r, start, d, size) ==
    LET free == findFreeSlotsOnRoute(r, start, d)
        level == [i \in Slots |-> Cardinality({k \in DOMAIN r :
                      preferredSlots[r[k]][(i + k - 1) % SlotTableSize] > 0})]
        preferred == {i \in free : level[i] = Len(r)}
        upTo(x) == {i \in free : level[i] > level[x] \/ (level[i] = level[x] /\ i <= x)}
        works == {S \in {preferred} \cup {preferred \cup upTo(x) : x \in free \ preferred} :
                     AllocateSlots(S, start, d, size) # {}}
    IN  IF works = {} THEN {}
        ELSE AllocateSlots(CHOOSE S \in works : \A R \in works : S \subseteq R, start, d, size)

(* What is sent in n time units: a flit per slot, less a header where a    *)
(* packet begins                                                           *)
Sent(slots, start, n) ==
    LET used == {j \in 0 .. n - 1 : (start + j) % SlotTableSize \in slots}
    IN  FlitSize * Cardinality(used)
          - PacketHeaderSize * Cardinality({j \in used : j - 1 \notin used})

minimalDuration(m, start, slots) ==
    1 + Min({n \in 0 .. SlotTableSize * Msg(m).size : Sent(slots, start, n) >= Msg(m).size})

-----------------------------------------------------------------------------
(* Bounds from the messages of the stream, which are next to each other.   *)
(* A start that is too late for the bound makes the duration wrap below    *)
(* zero: the search then begins with a huge one.                           *)
SameStream(m, n) == \A i \in m .. n : Msg(i).stream = Msg(m).stream
Before(m) == {p \in 1 .. m - 1 : Scheduled(p) /\ SameStream(p, m)}
After(m) == {n \in m + 1 .. Len(problem.messages) : Scheduled(n) /\ SameStream(m, n)}

(* Faulty variant of earliestStartTime: only the message right before.     *)
startAfterNeighbour(m) ==
    LET e == entity[m - 1]
    IN  IF m - 1 \notin Before(m) \/ Msg(m).start > e.start + e.dur THEN Msg(m).start
        ELSE e.start + e.dur + 1

earliestStartTime(m) ==
    LET e == entity[Max(Before(m))]
    IN  IF Before(m) = {} \/ Msg(m).start > e.start + e.dur THEN Msg(m).start
        ELSE e.start + e.dur + 1

Deadline(m) == Msg(m).start + Msg(m).dur

maximalDuration(m, start, length) ==
    LET e == entity[Min(After(m))]
    IN  IF After(m) = {} \/ Deadline(m) + length < e.start + Len(e.route)
        THEN Unsigned(Deadline(m) - start - length + 1)
        ELSE Unsigned(e.start + Len(e.route) - start - length + 1)

(* When the first, and the last flit of m can be at its destination: the   *)
(* duration counts one time unit more than the flits need.                 *)
Arrival(e) == e.start + Len(e.route) - 1
FirstArrival(m) == Arrival(entity[m])
LastArrival(m) == FirstArrival(m) + entity[m].dur - 2

(* Neither the deadline nor a later message of the stream is there before. *)
InTime(m, e) == /\ Arrival(e) <= Deadline(m)
                /\ \A n \in After(m) : Arrival(e) <= FirstArrival(n)

-----------------------------------------------------------------------------
(* Claims                                                                  *)
Shifted(slots, k) == {(i + k) % SlotTableSize : i \in slots}

(* The links of the route on which the entity conflicts                    *)
Conflicts(e) ==
    {k \in DOMAIN e.route :
        Conflict(tables[e.route[k]], Shifted(e.slots, k - 1), Frame(e, k - 1))}

(* The first n links of the route are claimed.                             *)
reserveResources(m, e, n) ==
    [l \in Links |->
       LET on == {k \in 1 .. n : e.route[k] = l}
       IN  IF on = {} THEN tables[l]
           ELSE LET k == Max(on) - 1
                IN  reserveSlots(tables[l], m, Shifted(e.slots, k), Frame(e, k))]

releaseResources(m, e) ==
    [l \in Links |->
       LET on == {k \in DOMAIN e.route : e.route[k] = l}
       IN  IF on = {} THEN tables[l] ELSE releaseSlots(tables[l], m, e, Max(on) - 1)]

(* The preference levels of the slots of e, changed by delta               *)
changePreferenceLevel(e, delta) ==
    [l \in Links |->
       [i \in Slots |->
          IF /\ preferredSlots[l][i] # UINT_MAX
             /\ \E k \in DOMAIN e.route : e.route[k] = l /\ i \in Shifted(e.slots, k - 1)
          THEN preferredSlots[l][i] + delta
          ELSE preferredSlots[l][i]]]

-----------------------------------------------------------------------------
(* The cost of a message is its size and one over its duration; of equal   *)
(* ones the last in the list comes first.                                  *)
CostsMore(m, n) ==
    LET a == (Msg(m).size * Msg(m).dur + 1) * Msg(n).dur
        b == (Msg(n).size * Msg(n).dur + 1) * Msg(m).dur
    IN  a > b \/ (a = b /\ m > n)

NoTry == [start |-> 0, maxDur |-> 0, minDur |-> 0, detour |-> 0, routes |-> {}, route |-> <<>>]

Init ==
    /\ problem \in Problems
    /\ order \in [Messages -> Messages]
    /\ \A i, j \in Messages : i < j => CostsMore(order[i], order[j])
    /\ pos = 1
    /\ entity = [m \in Messages |-> NoEntity]
    /\ tables = [l \in Links |-> NewTables(problem.used[l])]
    /\ preferredSlots = [l \in Links |->
                           [i \in Slots |-> IF i \in problem.preferred[l] THEN UINT_MAX ELSE 0]]
    /\ pc = "message"
    /\ try = NoTry
    /\ dur = 0
    /\ nrRipups = 0
    /\ late = {}
    /\ long = {}

cur == order[pos]

(* findScheduleEntityForMessage: bounds, and the shortest routes           *)
NextMessage ==
    /\ pc = "message"
    /\ pos <= Len(order)
    /\ LET start == earliestStartTime(cur)
           length == ShortestLength(Msg(cur).src, Msg(cur).dst)
       IN  try' = [start |-> start, maxDur |-> maximalDuration(cur, start, length),
                   minDur |-> minimalDuration(cur, start, Slots), detour |-> 0,
                   routes |-> findAllRoutes(cur, 0), route |-> <<>>]
    /\ pc' = "route"
    /\ UNCHANGED <<problem, order, pos, entity, tables, preferredSlots, dur, nrRipups, history>>

TryRoute ==
    /\ pc = "route"
    /\ \E r \in try.routes :
          try' = [try EXCEPT !.route = r, !.routes = @ \ {r}]
    /\ dur' = Unsigned(try.maxDur - try.detour)
    /\ pc' = "slots"
    /\ UNCHANGED <<problem, order, pos, entity, tables, preferredSlots, nrRipups, history>>

NextDetour ==
    /\ pc = "route"
    /\ try.routes = {}
    /\ try.detour < MaxDetour
    /\ try' = [try EXCEPT !.detour = @ + 1, !.routes = findAllRoutes(cur, try.detour + 1)]
    /\ UNCHANGED <<problem, order, pos, entity, tables, preferredSlots, pc, dur, nrRipups, history>>

NotFound ==
    /\ pc = "route"
    /\ try.routes = {}
    /\ try.detour = MaxDetour
    /\ pc' = IF nrRipups < MaxNrRipups THEN "ripup" ELSE "failed"
    /\ try' = NoTry
    /\ dur' = 0
    /\ UNCHANGED <<problem, order, pos, entity, tables, preferredSlots, nrRipups, history>>

FoundSlots == findSlotsOnRoute(try.route, try.start, dur, Msg(cur).size)

NewEntity(slots) == [start |-> try.start, dur |-> minimalDuration(cur, try.start, slots),
                     slots |-> slots, route |-> try.route]

(* The entity gets the duration it needs, is claimed and is linked to the  *)
(* message.                                                                *)
SlotsFound ==
    /\ pc = "slots"
    /\ dur >= try.minDur
    /\ FoundSlots # {}
    /\ LET e == NewEntity(FoundSlots)
       IN  /\ Conflicts(e) = {}
           /\ tables' = reserveResources(cur, e, Len(e.route))
           /\ preferredSlots' = changePreferenceLevel(e, 1)
           /\ entity' = [entity EXCEPT ![cur] = e]
           /\ late' = IF InTime(cur, e) THEN late ELSE late \cup {cur}
           /\ long' = IF e.dur <= Period THEN long ELSE long \cup {cur}
    /\ pos' = pos + 1
    /\ pc' = "message"
    /\ try' = NoTry
    /\ dur' = 0
    /\ UNCHANGED <<problem, order, nrRipups>>

(* A slot of the frame is taken: the exception leaves the links before,    *)
(* and this one as far as it came.                                         *)
SlotAlreadyReserved ==
    /\ pc = "slots"
    /\ dur >= try.minDur
    /\ FoundSlots # {}
    /\ LET e == NewEntity(FoundSlots)
           k == Min(Conflicts(e)) - 1
           l == e.route[k + 1]
       IN  /\ Conflicts(e) # {}
           /\ tables' = [reserveResources(cur, e, k) EXCEPT
                            ![l] = reserveInPart(tables[l], cur, Shifted(e.slots, k), Frame(e, k))]
    /\ pc' = "exception"
    /\ UNCHANGED <<problem, order, pos, entity, preferredSlots, try, dur, nrRipups, history>>

HalveDuration ==
    /\ pc = "slots"
    /\ dur >= try.minDur
    /\ FoundSlots = {}
    /\ dur' = dur \div 2
    /\ UNCHANGED <<problem, order, pos, entity, tables, preferredSlots, pc, try, nrRipups, history>>

GiveUpRoute ==
    /\ pc = "slots"
    /\ dur < try.minDur
    /\ pc' = "route"
    /\ UNCHANGED <<problem, order, pos, entity, tables, preferredSlots, try, dur, nrRipups, history>>

-----------------------------------------------------------------------------
(* The slots of e on links of the route r, when their times may overlap    *)
severityConflict(e, m, r) ==
    LET s1 == e.start % Period
        s2 == Msg(m).start % Period
        e1 == (e.start + e.dur + Len(e.route) - 1) % Period
        e2 == (Msg(m).start + Msg(m).dur + Len(r) - 1) % Period
        loop1 == Loops(s1, e1, e.dur)
        loop2 == Loops(s2, e2, Msg(m).dur)
        apart == \/ ~loop1 /\ ~loop2 /\ (s1 > e2 \/ e1 < s2)
                 \/ loop1 /\ ~loop2 /\ s1 > e2 /\ e1 < s2
                 \/ ~loop1 /\ loop2 /\ s2 > e1 /\ e2 < s1
    IN  IF apart THEN 0
        ELSE Cardinality(e.slots) * Cardinality(ToSet(e.route) \cap ToSet(r))

Ripped(n) ==
    [i \in DOMAIN order |-> IF i < n \/ i > pos THEN order[i]
                            ELSE IF i = pos THEN order[n] ELSE order[i + 1]]

(* Faulty variant of ripupScheduleEntity: not counted.                     *)
ripupUncounted ==
    /\ pc = "ripup"
    /\ \E r \in findAllRoutes(cur, 0) :
          LET conflict == [n \in 1 .. pos - 1 |->
                              IF Scheduled(order[n])
                              THEN severityConflict(entity[order[n]], cur, r) ELSE 0]
              largest == {n \in DOMAIN conflict :
                             /\ conflict[n] > 0
                             /\ \A i \in DOMAIN conflict : conflict[i] <= conflict[n]}
              m == order[Min(largest)]
          IN  /\ largest # {}
              /\ tables' = releaseResources(m, entity[m])
              /\ preferredSlots' = changePreferenceLevel(entity[m], -1)
              /\ entity' = [entity EXCEPT ![m] = NoEntity]
              /\ order' = Ripped(Min(largest))
    /\ pos' = pos - 1
    /\ pc' = "message"
    /\ UNCHANGED <<problem, try, dur, nrRipups, history>>

(* The first of the scheduled messages with the largest conflict goes      *)
(* behind the current message, which is tried again.                       *)
ripupScheduleEntity ==
    /\ pc = "ripup"
    /\ \E r \in findAllRoutes(cur, 0) :
          LET conflict == [n \in 1 .. pos - 1 |->
                              IF Scheduled(order[n])
                              THEN severityConflict(entity[order[n]], cur, r) ELSE 0]
              largest == {n \in DOMAIN conflict :
                             /\ conflict[n] > 0
                             /\ \A i \in DOMAIN conflict : conflict[i] <= conflict[n]}
              m == order[Min(largest)]
          IN  /\ largest # {}
              /\ tables' = releaseResources(m, entity[m])
              /\ preferredSlots' = changePreferenceLevel(entity[m], -1)
              /\ entity' = [entity EXCEPT ![m] = NoEntity]
              /\ order' = Ripped(Min(largest))
    /\ pos' = pos - 1
    /\ nrRipups' = nrRipups + 1
    /\ pc' = "message"
    /\ UNCHANGED <<problem, try, dur, history>>

(* Nothing is in the way: the message itself is taken out of the list and  *)
(* put in again, and the loop goes on from the element that was taken out. *)
RipupNothing ==
    /\ pc = "ripup"
    /\ \E r \in findAllRoutes(cur, 0) :
          \A n \in 1 .. pos - 1 :
             Scheduled(order[n]) => severityConflict(entity[order[n]], cur, r) = 0
    /\ pc' = "undefined"
    /\ UNCHANGED <<problem, order, pos, entity, tables, preferredSlots, try, dur, nrRipups, history>>

AllScheduled ==
    /\ pc = "message"
    /\ pos > Len(order)
    /\ pc' = "solved"
    /\ UNCHANGED <<problem, order, pos, entity, tables, preferredSlots, try, dur, nrRipups, history>>

Next ==
    \/ NextMessage \/ TryRoute \/ NextDetour \/ NotFound
    \/ SlotsFound \/ SlotAlreadyReserved \/ HalveDuration \/ GiveUpRoute
    \/ ripupScheduleEntity \/ RipupNothing \/ AllScheduled

Spec == Init /\ [][Next]_vars

-----------------------------------------------------------------------------
TypeOK ==
    /\ problem \in Problems
    /\ order \in [Messages -> Messages]
    /\ pos \in 1 .. Len(order) + 1
    /\ entity \in [Messages -> [start : Nat, dur : Nat, slots : SUBSET Slots, route : Seq(Links)]]
    /\ tables \in [Links -> Seq([from : Nat, to : Nat, use : [Slots -> Int]])]
    /\ preferredSlots \in [Links -> [Slots -> Int]]
    /\ pc \in {"message", "route", "slots", "ripup", "exception", "undefined", "failed", "solved"}
    /\ try \in [start : Nat, maxDur : Nat, minDur : Nat, detour : 0 .. MaxDetour,
                routes : SUBSET Seq(Links), route : Seq(Links)]
    /\ dur \in 0 .. 2 ^ Width - 1
    /\ nrRipups \in 0 .. MaxNrRipups
    /\ late \subseteq Messages /\ long \subseteq Messages

(* Message m has slot i of link l at time x of the period.                 *)
Holds(m, l, x, i) ==
    LET e == entity[m]
    IN  \E k \in DOMAIN e.route :
            /\ e.route[k] = l
            /\ i \in Shifted(e.slots, k - 1)
            /\ \E j \in 0 .. e.dur - 1 : x = (e.start + k - 1 + j) % Period

(* Through every claim, failure and rip-up the slot tables of every link   *)
(* cover the period and hold exactly the claims of the entities, so that   *)
(* no two have one slot at one time, none is lost and none is left behind; *)
(* and the preference of a slot is the number of entities that use it.     *)
(* That is as long as entities take "a complete period" or "less then a    *)
(* period": one whose flits take the period has a duration of one more,    *)
(* releaseSlots takes it for an entity of one time unit, and what it does  *)
(* not give back stays.                                                    *)
TablesMatchEntities ==
    pc # "exception" /\ long = {} =>
        \A l \in Links :
            /\ \A x \in 0 .. Period - 1 :
                  \E n \in DOMAIN tables[l] :
                     LET s == tables[l][n]
                     IN  /\ s.from <= x /\ x <= s.to
                         /\ n > 1 => tables[l][n - 1].to + 1 = s.from
                         /\ \A i \in Slots :
                               {m \in Messages : Holds(m, l, x, i)} =
                                  IF s.use[i] \in {Free, Elsewhere} THEN {} ELSE {s.use[i]}
            /\ \A i \in Slots \ problem.preferred[l] :
                  preferredSlots[l][i] =
                     Cardinality({m \in Messages : \E x \in 0 .. Period - 1 : Holds(m, l, x, i)})

(* When all messages of a stream could begin in time whenever they got an  *)
(* entity, a message of it is there in time, on whatever detour and        *)
(* however often others made way for it or it made way; and they arrive in *)
(* the order of the stream, although they are scheduled in any order and   *)
(* again after a rip-up.  A start too late for the bounds, for which the   *)
(* duration wraps, thus harms no stream but its own.                       *)
(*                                                                         *)
(* In time and in order is what the bounds leave of "must finish before    *)
(* next message starts arriving": the last flit may come with the first of *)
(* the next, and one later when a packet begins before the start of the    *)
(* frame, whose second header nobody counted; and it may be as late as     *)
(* that when the next arrives less than the shortest way after the         *)
(* deadline.  A next message waits for the duration of the one before, not *)
(* for its way, which holds the order for detours up to LongestDetour.     *)
LongestDetour == 3

Stream(m) == {n \in Messages : Msg(n).stream = Msg(m).stream}

InTimeAndOrder ==
    MaxDetour <= LongestDetour =>
        \A m \in Messages :
            Scheduled(m) /\ Stream(m) \cap late = {} =>
                /\ LastArrival(m) <= Deadline(m) + ShortestLength(Msg(m).src, Msg(m).dst)
                /\ \A n \in After(m) : LastArrival(m) <= FirstArrival(n) + 1

(* What is left to do: rip-ups, messages, detours, routes, halvings        *)
Stage == [message |-> 3, route |-> 2, slots |-> 2, ripup |-> 1,
          solved |-> 0, failed |-> 0, exception |-> 0, undefined |-> 0]

Left == <<MaxNrRipups - nrRipups, Len(order) - pos, Stage[pc], MaxDetour - try.detour,
          Cardinality(try.routes), Cardinality({pc} \cap {"slots"}), dur>>

(* The scheduler ends, whatever it finds on the way: every step leaves     *)
(* less to do, as a rip-up puts a message back at the cost of a retry,     *)
(* and a duration, halved as often as no slots are found, reaches the      *)
(* shortest.                                                               *)
LeavesLess ==
    [][\E i \in DOMAIN Left : Left'[i] < Left[i] /\ \A j \in 1 .. i - 1 : Left'[j] = Left[j]]_vars
=============================================================================
