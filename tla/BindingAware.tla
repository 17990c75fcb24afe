---------------------------- MODULE BindingAware ----------------------------
(***************************************************************************)
(* The graph that models a binding                                         *)
(* (sdf/resource_allocation/binding_aware_sdfg/binding_aware_sdfg.cc).  An *)
(* application is an SDF graph bound to tiles, with for every channel the  *)
(* buffer in the tile (mem) or at both ends of a connection (bufSrc,       *)
(* bufDst), the time to send one token over its connection (delay, which   *)
(* the NSoC flow computes from latency and bandwidth and the MP flow from  *)
(* the token size) and its minimal latency; and the wheels of the tiles.   *)
(***************************************************************************)
EXTENDS BoundGraphs

(* An application all of whose actors are bound; sending takes time.       *)
IsApplication(app) ==
    /\ app.flow \in {"NSoC", "MP"}
    /\ app.wheel \in Seq(Positive)
    /\ app.ex \in Seq(Positive)
    /\ app.tile \in [Actors(app) -> Tiles(app)]
    /\ app.ch \in Seq([src : Actors(app), dst : Actors(app), p : Positive, c : Positive, t : Nat,
                       mem : Nat, bufSrc : Nat, bufDst : Nat, delay : Positive, minLatency : Nat])

(* A slice of every wheel is reserved.                                     *)
IsReservation(app, slice) ==
    /\ slice \in [Tiles(app) -> Positive]
    /\ \A p \in Tiles(app) : slice[p] <= app.wheel[p]

Edge(a, b, p, c, t) == [src |-> a, dst |-> b, p |-> p, c |-> c, t |-> t]

(* The tests behind "Insufficient memory space ..."                        *)
HoldsInitialTokens(app) ==
    \A k \in Channels(app) :
        LET c == app.ch[k]
        IN  c.src # c.dst =>
               c.t <= IF app.tile[c.src] = app.tile[c.dst] THEN c.mem ELSE c.bufSrc

(* A copy of the graph, with a one-token self-edge on every actor          *)
createMappedActors(app, slice, schedules) ==
    [g |-> [ex |-> app.ex,
            ch |-> [k \in Channels(app) |->
                      LET c == app.ch[k] IN Edge(c.src, c.dst, c.p, c.c, c.t)]
                   \o [a \in Actors(app) |-> Edge(a, a, 1, 1, 1)],
            tile |-> app.tile, wheel |-> app.wheel, slice |-> slice],
     sos |-> schedules]

(* Actors and channels added at the end; tile 0 for an unbound actor       *)
Extend(b, exs, tiles, chs) ==
    [b EXCEPT !.g.ex = @ \o exs, !.g.tile = @ \o tiles, !.g.ch = @ \o chs]

createMappedChannelToTile(b, c) ==
    Extend(b, <<>>, <<>>, <<Edge(c.dst, c.src, c.c, c.p, c.mem - c.t)>>)

(* An actor for the transfer of a token, one at a time, between a buffer   *)
(* at the source and one at the destination, for the wait until the next   *)
(* slice unless the wheel is reserved as a whole, and for the latency the  *)
(* channel asks for.  The channel itself stays.                            *)
createMappedChannelToConnectionNSoC(b, c) ==
    LET n == Len(b.g.ex) + 1
        sync == Rest(b.g, b.g.tile[c.dst])
        last == IF sync > 0 THEN n + 1 ELSE n
        e == last + 1
    IN  Extend(b,
            <<c.delay>> \o (IF sync > 0 THEN <<sync>> ELSE <<>>)
                        \o (IF c.minLatency > 0 THEN <<c.minLatency>> ELSE <<>>),
            [i \in 1 .. (last - n + 1) + (IF c.minLatency > 0 THEN 1 ELSE 0) |-> 0],
            <<Edge(n, n, 1, 1, 1),
              Edge(n, c.src, 1, c.p, c.bufSrc - c.t),
              Edge(c.dst, n, c.c, 1, c.bufDst),
              Edge(c.src, n, c.p, 1, c.t)>>
            \o (IF sync > 0 THEN <<Edge(n, last, 1, 1, 0)>> ELSE <<>>)
            \o <<Edge(last, c.dst, 1, c.c, 0)>>
            \o (IF c.minLatency > 0
                THEN <<Edge(c.src, e, c.p, 1, c.t), Edge(e, c.dst, 1, c.c, 0)>>
                ELSE <<>>))

SemaphoreLatency == 11  \* getLatencyAMBAbusSemaphore

(* Semaphore, credit, communication and the waits for the slices of the    *)
(* source and the destination; the communication actor runs on the         *)
(* destination's tile, right before each firing of the destination.        *)
createMappedChannelToConnectionMPFlow(b, c) ==
    LET n == Len(b.g.ex)
        semaphore == n + 1
        credit == n + 2
        comm == n + 3
        syncSrc == n + 4
        syncDst == n + 5
        p == b.g.tile[c.dst]
        with == Extend(b,
            <<SemaphoreLatency, SemaphoreLatency, c.delay, Rest(b.g, b.g.tile[c.src]), Rest(b.g, p)>>,
            <<0, 0, p, 0, 0>>,
            <<Edge(c.src, semaphore, c.p, 1, c.t),
              Edge(semaphore, syncDst, 1, 1, 0),
              Edge(syncDst, comm, 1, c.c, 0),
              Edge(comm, c.dst, c.c, c.c, 0),
              Edge(c.dst, comm, c.c, c.c, c.c),
              Edge(comm, credit, c.c, 1, 0),
              Edge(credit, syncSrc, 1, 1, 0),
              Edge(syncSrc, c.src, 1, c.p, c.bufSrc - c.t)>>)
    IN  [with EXCEPT !.sos[p] = insertActors(@, c.dst, comm)]

(* Self-edges of the application get no model of their own.                *)
modelChannel(app, b, c) ==
    IF c.src = c.dst THEN b
    ELSE IF app.tile[c.src] = app.tile[c.dst] THEN createMappedChannelToTile(b, c)
    ELSE IF app.flow = "NSoC" THEN createMappedChannelToConnectionNSoC(b, c)
    ELSE createMappedChannelToConnectionMPFlow(b, c)

modelBinding(app, slice, schedules) ==
    FoldLeft(LAMBDA b, c : modelChannel(app, b, c),
             createMappedActors(app, slice, schedules), app.ch)
=============================================================================
