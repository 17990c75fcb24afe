------------------------------- MODULE Binding -------------------------------
(***************************************************************************)
(* The binding of an application to the tiles of a platform               *)
(* (sdf/resource_allocation/tile_allocation/loadbalance.cc) with the       *)
(* resources of mpsoc_arch it claims: processor, memory, connections and   *)
(* bandwidth of the network interfaces.                                    *)
(*                                                                         *)
(* Claims are kept as the code keeps them, a list per component with the   *)
(* value of every claim; what is in use is the sum (for the state of       *)
(* actors, the maximum) of the list.  The costs that order actors and      *)
(* tiles are left out: any order is taken.  Ordering the tiles uses the    *)
(* connection between every two of them, so a platform is fully connected. *)
(* How time slices are found is left to TileAllocation, which implements   *)
(* this specification.                                                     *)
(***************************************************************************)
EXTENDS Integers, Sequences, FiniteSets, Functions

CONSTANTS Actors, Channels, Src, Dst, \* the application
          Tiles, None,
          Platforms, \* capacities, and the actors that run on each tile
          Demands,   \* sizes of buffers and bandwidth of channels
          NewSizes   \* sizes an optimization of the storage space can find

Sizes == [Channels -> Nat]
Demand == [mem : Sizes, src : Sizes, dst : Sizes, bw : Sizes]
Amounts == [Tiles -> Nat]
Platform == [runs : SUBSET (Actors \X Tiles), load : [Actors -> Amounts],
             state : [Actors -> Nat], memory : Amounts, conns : Amounts,
             inBw : Amounts, outBw : Amounts, wheel : Amounts]

ASSUME BindingAssumption ==
    /\ IsFiniteSet(Actors) /\ Actors # {} /\ IsFiniteSet(Channels) /\ IsFiniteSet(Tiles)
    /\ Src \in [Channels -> Actors] /\ Dst \in [Channels -> Actors]
    /\ None \notin Tiles
    /\ \A p \in Platforms : p \in Platform
    /\ \A d \in Demands : d \in Demand
    /\ NewSizes \subseteq Nat

VARIABLES platform, demand,
          binding,    \* actorTileBinding
          procs,      \* the actors bound to the processor of a tile
          memActor,   \* the actors with memory for their state on a tile
          memChannel, \* the sizes of the buffers of a channel on a tile
          ni,         \* the bandwidths claimed in the interface of a tile
          conn,       \* the channels bound to a connection
          tileLoad,
          slice,      \* reservedTimeSlice
          pc, mode, cur, remaining, untried, todo, chan

claims == <<procs, memActor, memChannel, ni, conn>>
control == <<pc, mode, cur, remaining, untried, todo, chan>>
resources == <<binding, claims, tileLoad, slice>>
vars == <<platform, demand, resources, control>>

Ports(a) == {<<c, "out">> : c \in {c \in Channels : Src[c] = a}}
            \cup {<<c, "in">> : c \in {c \in Channels : Dst[c] = a}}

Init ==
    /\ platform \in Platforms
    /\ demand \in Demands
    /\ binding = [a \in Actors |-> None]
    /\ procs = [t \in Tiles |-> {}]
    /\ memActor = [t \in Tiles |-> {}]
    /\ memChannel = [t \in Tiles |-> [c \in Channels |-> <<>>]]
    /\ ni = [t \in Tiles |-> [c \in Channels |-> <<>>]]
    /\ conn = [l \in Tiles \X Tiles |-> {}]
    /\ tileLoad = [t \in Tiles |-> 0]
    /\ slice = [t \in Tiles |-> 0]
    /\ pc = "idle" /\ mode = "bind"
    /\ cur = (CHOOSE a \in Actors : TRUE) /\ chan = (CHOOSE c \in Channels : TRUE)
    /\ remaining = {} /\ untried = {} /\ todo = {}

-----------------------------------------------------------------------------
(* What is in use on a tile and what is left                               *)
Total(s) == FoldFunction(+, 0, s)
Values(s, field) == [i \in DOMAIN s |-> s[i][field]]
Larger(x, y) == IF x > y THEN x ELSE y

stateMemory(t) == FoldFunctionOnSet(Larger, 0, platform.state, memActor[t])
usedMemory(t) == stateMemory(t) + Total([c \in Channels |-> Total(memChannel[t][c])])
usedConns(t) == Total([c \in Channels |-> Len(ni[t][c])])
usedBw(t, way) == Total([c \in Channels |-> Total(Values(ni[t][c], way))])

availableMemorySize(t) == platform.memory[t] - usedMemory(t)

StateFits(t) ==
    LET sz == platform.state[cur]
    IN  stateMemory(t) < sz => availableMemorySize(t) >= sz - stateMemory(t)

ConnectionFits(t, in, out) ==
    /\ usedConns(t) < platform.conns[t]
    /\ platform.inBw[t] - usedBw(t, "in") >= in
    /\ platform.outBw[t] - usedBw(t, "out") >= out

isChannelBoundToTile(c) == binding[Src[c]] # None /\ binding[Src[c]] = binding[Dst[c]]

isChannelBoundToConnection(c) ==
    binding[Src[c]] # None /\ binding[Dst[c]] # None /\ binding[Src[c]] # binding[Dst[c]]

-----------------------------------------------------------------------------
(* unbind removes one claim of the channel; a self-edge is visited, and    *)
(* claimed, at both its ports.                                             *)
Unbound(c, s) ==
    LET n == IF Src[c] = Dst[c] THEN 2 ELSE 1
    IN  SubSeq(s, n + 1, Len(s))

ConnectedTo(a) == {c \in Channels : Src[c] = a \/ Dst[c] = a}
Between(t, u) == {c \in Channels : t # u /\ binding[Src[c]] = t /\ binding[Dst[c]] = u}
HasBuffer(c, t) ==
    \/ isChannelBoundToTile(c) /\ t = binding[Src[c]]
    \/ isChannelBoundToConnection(c) /\ t \in {binding[Src[c]], binding[Dst[c]]}
HasInterface(c, t) == isChannelBoundToConnection(c) /\ HasBuffer(c, t)

releaseActor(a) ==
    LET t == binding[a]
    IN  /\ procs' = [procs EXCEPT ![t] = @ \ {a}]
        /\ memActor' = [memActor EXCEPT ![t] = @ \ {a}]
        /\ slice' = [slice EXCEPT ![t] = 0]
        /\ binding' = [binding EXCEPT ![a] = None]
        /\ tileLoad' = [tileLoad EXCEPT ![t] = @ - platform.load[a][t]]
        /\ UNCHANGED <<platform, demand>>

(* Faulty variant of releaseChannels: only the actor's own tile is left.   *)
releaseOwnSide(a) ==
    /\ memChannel' = [u \in Tiles |-> [c \in Channels |->
                        IF c \in ConnectedTo(a) /\ HasBuffer(c, u) /\ u = binding[a]
                        THEN Unbound(c, memChannel[u][c]) ELSE memChannel[u][c]]]
    /\ ni' = [u \in Tiles |-> [c \in Channels |->
                IF c \in ConnectedTo(a) /\ HasInterface(c, u) /\ u = binding[a]
                THEN Unbound(c, ni[u][c]) ELSE ni[u][c]]]
    /\ conn' = [l \in Tiles \X Tiles |-> conn[l] \ (ConnectedTo(a) \cap Between(l[1], l[2]))]

releaseChannels(a) ==
    /\ memChannel' = [u \in Tiles |-> [c \in Channels |->
                        IF c \in ConnectedTo(a) /\ HasBuffer(c, u)
                        THEN Unbound(c, memChannel[u][c]) ELSE memChannel[u][c]]]
    /\ ni' = [u \in Tiles |-> [c \in Channels |->
                IF c \in ConnectedTo(a) /\ HasInterface(c, u)
                THEN Unbound(c, ni[u][c]) ELSE ni[u][c]]]
    /\ conn' = [l \in Tiles \X Tiles |-> conn[l] \ (ConnectedTo(a) \cap Between(l[1], l[2]))]

(* What the actor has on its tile, and its channels wherever they claim    *)
releaseResources(a) == releaseActor(a) /\ releaseChannels(a)

-----------------------------------------------------------------------------
(* The flow changed sizes and bandwidths: what an earlier binding claimed  *)
(* is released first, then every tile is unloaded.                         *)
NewAttempt ==
    /\ pc = "idle"
    /\ demand' \in Demands
    /\ pc' = "release"
    /\ UNCHANGED <<platform, resources, mode, cur, remaining, untried, todo, chan>>

Bound == {a \in Actors : binding[a] # None}

(* The loop over the bound actors, before an attempt and after a failure   *)
ReleaseNext ==
    /\ pc \in {"release", "undo"}
    /\ \E a \in Bound : releaseResources(a)
    /\ UNCHANGED control

(* Faulty variant of Undone: it may stop while actors are still bound.      *)
UndoneEarly ==
    /\ pc = "undo"
    /\ pc' = "idle"
    /\ UNCHANGED <<platform, demand, resources, mode, cur, remaining, untried, todo, chan>>

Undone ==
    /\ pc = "undo"
    /\ Bound = {}
    /\ pc' = "idle"
    /\ UNCHANGED <<platform, demand, resources, mode, cur, remaining, untried, todo, chan>>

StartBinding ==
    /\ pc = "release"
    /\ Bound = {}
    /\ tileLoad' = [t \in Tiles |-> 0]
    /\ pc' = "next" /\ mode' = "bind" /\ remaining' = Actors
    /\ UNCHANGED <<platform, demand, binding, claims, slice, cur, untried, todo, chan>>

(* Faulty variant of NextActor: a move does not try the actor's own tile.   *)
NextActorElsewhere ==
    /\ pc = "next"
    /\ \E a \in remaining :
          /\ cur' = a
          /\ remaining' = remaining \ {a}
          /\ untried' = Tiles \ {binding[a]}
          /\ IF mode = "move" THEN releaseResources(a)
                              ELSE UNCHANGED <<platform, demand, resources>>
    /\ pc' = "tile"
    /\ UNCHANGED <<mode, todo, chan>>

(* The next actor: one without a tile, or one to be moved, which is        *)
(* released before the tiles are tried, its own among them.                *)
NextActor ==
    /\ pc = "next"
    /\ \E a \in remaining :
          /\ cur' = a
          /\ remaining' = remaining \ {a}
          /\ IF mode = "move" THEN releaseResources(a)
                              ELSE UNCHANGED <<platform, demand, resources>>
    /\ untried' = Tiles
    /\ pc' = "tile"
    /\ UNCHANGED <<mode, todo, chan>>

(* All actors are bound: optimizeActorToTileBindings moves each of them.   *)
AllBound ==
    /\ pc = "next"
    /\ remaining = {}
    /\ IF mode = "bind" THEN mode' = "move" /\ remaining' = Actors /\ pc' = pc
                        ELSE pc' = "bound" /\ UNCHANGED <<mode, remaining>>
    /\ UNCHANGED <<platform, demand, resources, cur, untried, todo, chan>>

-----------------------------------------------------------------------------
(* allocateResources, one claim at a time                                  *)
CanRun(t) == <<cur, t>> \in platform.runs /\ platform.wheel[t] - slice[t] > 0

bindActor ==
    /\ pc = "tile"
    /\ \E t \in untried :
          /\ untried' = untried \ {t}
          /\ IF CanRun(t)
             THEN /\ procs' = [procs EXCEPT ![t] = @ \cup {cur}]
                  /\ binding' = [binding EXCEPT ![cur] = t]
                  /\ tileLoad' = [tileLoad EXCEPT ![t] = @ + platform.load[cur][t]]
                  /\ pc' = "state"
             ELSE UNCHANGED <<procs, binding, tileLoad, pc>>
    /\ UNCHANGED <<platform, demand, memActor, memChannel, ni, conn, slice,
                   mode, cur, remaining, todo, chan>>

(* No tile takes the actor.                                                *)
BindingFails ==
    /\ pc = "tile"
    /\ untried = {}
    /\ mode = "bind"
    /\ pc' = "undo"
    /\ UNCHANGED <<platform, demand, resources, mode, cur, remaining, untried, todo, chan>>

(* The actor goes on to the next tile.                                     *)
GiveUpTile ==
    /\ releaseResources(cur)
    /\ pc' = "tile"
    /\ todo' = {}
    /\ UNCHANGED chan

ClaimState ==
    /\ pc = "state"
    /\ LET t == binding[cur]
       IN  \/ /\ StateFits(t)
              /\ memActor' = [memActor EXCEPT ![t] = @ \cup {cur}]
              /\ todo' = Ports(cur)
              /\ pc' = "port"
              /\ UNCHANGED <<platform, demand, binding, procs, memChannel, ni, conn, tileLoad,
                             slice, chan>>
           \/ ~StateFits(t) /\ GiveUpTile
    /\ UNCHANGED <<mode, cur, remaining, untried>>

reserveMemory(t, c, sz) == memChannel' = [memChannel EXCEPT ![t][c] = Append(@, sz)]

(* The next port: the channel is local, its connection is bound, or the    *)
(* actor at its other end has no tile.                                     *)
ClaimPort ==
    /\ pc = "port"
    /\ \E p \in todo :
          LET c == p[1]
              t == binding[cur]
          IN  \/ /\ isChannelBoundToTile(c)
                 /\ availableMemorySize(t) >= demand.mem[c]
                 /\ reserveMemory(t, c, demand.mem[c])
                 /\ todo' = todo \ {p}
                 /\ UNCHANGED <<platform, demand, binding, procs, memActor, ni, conn, tileLoad,
                                slice, pc, chan>>
              \/ /\ isChannelBoundToTile(c)
                 /\ availableMemorySize(t) < demand.mem[c]
                 /\ GiveUpTile
              \/ /\ isChannelBoundToConnection(c)
                 /\ conn' = [conn EXCEPT ![<<binding[Src[c]], binding[Dst[c]]>>] = @ \cup {c}]
                 /\ chan' = c
                 /\ todo' = todo \ {p}
                 /\ pc' = "srcMem"
                 /\ UNCHANGED <<platform, demand, binding, procs, memActor, memChannel, ni,
                                tileLoad, slice>>
              \/ /\ ~isChannelBoundToTile(c) /\ ~isChannelBoundToConnection(c)
                 /\ todo' = todo \ {p}
                 /\ UNCHANGED <<platform, demand, resources, pc, chan>>
    /\ UNCHANGED <<mode, cur, remaining, untried>>

(* One side of the connection of chan: a buffer, then the interface        *)
ClaimBuffer(here, next, t, sz) ==
    /\ pc = here
    /\ \/ /\ availableMemorySize(t) >= sz
          /\ reserveMemory(t, chan, sz)
          /\ pc' = next
          /\ UNCHANGED <<platform, demand, binding, procs, memActor, ni, conn, tileLoad, slice,
                         todo, chan>>
       \/ availableMemorySize(t) < sz /\ GiveUpTile
    /\ UNCHANGED <<mode, cur, remaining, untried>>

ClaimInterface(here, next, t, in, out) ==
    /\ pc = here
    /\ \/ /\ ConnectionFits(t, in, out)
          /\ ni' = [ni EXCEPT ![t][chan] = Append(@, [in |-> in, out |-> out])]
          /\ pc' = next
          /\ UNCHANGED <<platform, demand, binding, procs, memActor, memChannel, conn, tileLoad,
                         slice, todo, chan>>
       \/ ~ConnectionFits(t, in, out) /\ GiveUpTile
    /\ UNCHANGED <<mode, cur, remaining, untried>>

allocateConnectionResources ==
    \/ ClaimBuffer("srcMem", "dstMem", binding[Src[chan]], demand.src[chan])
    \/ ClaimBuffer("dstMem", "srcNI", binding[Dst[chan]], demand.dst[chan])
    \/ ClaimInterface("srcNI", "dstNI", binding[Src[chan]], 0, demand.bw[chan])
    \/ ClaimInterface("dstNI", "port", binding[Dst[chan]], demand.bw[chan], 0)

Allocated ==
    /\ pc = "port"
    /\ todo = {}
    /\ pc' = "next"
    /\ UNCHANGED <<platform, demand, resources, mode, cur, remaining, untried, todo, chan>>

-----------------------------------------------------------------------------
Buffers ==
    {c \in Channels : Src[c] # Dst[c] /\ isChannelBoundToTile(c)} \X {"mem"}
    \cup {c \in Channels : isChannelBoundToConnection(c)} \X {"src", "dst"}

(* The search finds slices for all loaded tiles, with which the constraint *)
(* is met, or fails: what TileAllocation does in steps.                    *)
allocateTDMAtimeSlices ==
    /\ pc = "bound"
    /\ slice' \in [Tiles -> UNION {0 .. platform.wheel[t] : t \in Tiles}]
    /\ \A t \in Tiles : IF tileLoad[t] = 0 THEN slice'[t] = 0
                        ELSE slice'[t] \in 1 .. platform.wheel[t]
    /\ \/ pc' = "sliced" /\ todo' = Buffers
       \/ pc' = "undo" /\ UNCHANGED todo
    /\ UNCHANGED <<platform, demand, binding, claims, tileLoad, mode, cur, remaining, untried, chan>>

(* The storage space is made minimal: a buffer is resized, its claim is    *)
(* released and made again with the new size, which may fail half-way.     *)
updateStorageSpaceAllocation ==
    /\ pc = "sliced"
    /\ \E b \in todo, n \in NewSizes :
          LET c == b[1]
              t == binding[IF b[2] = "dst" THEN Dst[c] ELSE Src[c]]
              others == Tail(memChannel[t][c])
          IN  /\ demand' = [demand EXCEPT ![b[2]] = [@ EXCEPT ![c] = n]]
              /\ todo' = todo \ {b}
              /\ \/ /\ availableMemorySize(t) + Head(memChannel[t][c]) >= n
                    /\ memChannel' = [memChannel EXCEPT ![t][c] = Append(others, n)]
                    /\ pc' = pc
                 \/ /\ availableMemorySize(t) + Head(memChannel[t][c]) < n
                    /\ memChannel' = [memChannel EXCEPT ![t][c] = others]
                    /\ pc' = "exception"
    /\ UNCHANGED <<platform, binding, procs, memActor, ni, conn, tileLoad, slice,
                   mode, cur, remaining, untried, chan>>

(* The buffers that keep their size; the graph is bound.                   *)
Optimized ==
    /\ pc = "sliced"
    /\ pc' = "idle"
    /\ todo' = {}
    /\ UNCHANGED <<platform, demand, resources, mode, cur, remaining, untried, chan>>

Attempt ==
    \/ ReleaseNext \/ Undone \/ StartBinding
    \/ NextActor \/ AllBound
    \/ bindActor \/ BindingFails
    \/ ClaimState \/ ClaimPort \/ allocateConnectionResources \/ Allocated
    \/ updateStorageSpaceAllocation \/ Optimized

Next == NewAttempt \/ Attempt \/ allocateTDMAtimeSlices

Spec == Init /\ [][Next]_vars

-----------------------------------------------------------------------------
TypeOK ==
    /\ platform \in Platforms /\ demand \in Demand
    /\ binding \in [Actors -> Tiles \cup {None}]
    /\ procs \in [Tiles -> SUBSET Actors] /\ memActor \in [Tiles -> SUBSET Actors]
    /\ memChannel \in [Tiles -> [Channels -> Seq(Nat)]]
    /\ ni \in [Tiles -> [Channels -> Seq([in : Nat, out : Nat])]]
    /\ conn \in [Tiles \X Tiles -> SUBSET Channels]
    /\ tileLoad \in [Tiles -> Nat] /\ slice \in [Tiles -> Nat]
    /\ pc \in {"idle", "release", "undo", "next", "tile", "state", "port", "srcMem", "dstMem",
               "srcNI", "dstNI", "bound", "sliced", "exception"}
    /\ mode \in {"bind", "move"}
    /\ cur \in Actors /\ remaining \subseteq Actors /\ untried \subseteq Tiles
    /\ todo \subseteq Channels \X {"in", "out", "mem", "src", "dst"}
    /\ chan \in Channels \/ Channels = {}

Settled == pc \in {"idle", "next", "tile", "bound", "sliced"}

(* The claims of the bound actors and their channels                       *)
Copies(c, v) == IF Src[c] = Dst[c] THEN <<v, v>> ELSE <<v>>

BufferClaims(t, c) ==
    IF isChannelBoundToTile(c) /\ t = binding[Src[c]] THEN Copies(c, demand.mem[c])
    ELSE IF isChannelBoundToConnection(c) /\ t = binding[Src[c]] THEN <<demand.src[c]>>
    ELSE IF isChannelBoundToConnection(c) /\ t = binding[Dst[c]] THEN <<demand.dst[c]>>
    ELSE <<>>

InterfaceClaims(t, c) ==
    IF ~isChannelBoundToConnection(c) THEN <<>>
    ELSE IF t = binding[Src[c]] THEN <<[in |-> 0, out |-> demand.bw[c]]>>
    ELSE IF t = binding[Dst[c]] THEN <<[in |-> demand.bw[c], out |-> 0]>>
    ELSE <<>>

(* Nothing claims more than there is, in no state on the way.              *)
WithinCapacity ==
    \A t \in Tiles :
        /\ availableMemorySize(t) >= 0
        /\ usedConns(t) <= platform.conns[t]
        /\ usedBw(t, "in") <= platform.inBw[t]
        /\ usedBw(t, "out") <= platform.outBw[t]

(* Whatever failed and was taken back, between two actors, two tiles or    *)
(* two attempts every component holds exactly the claims of the actors     *)
(* that are bound and of the channels between them: no claim of an actor   *)
(* that was refused stays, none of a bound one is lost, a channel is bound *)
(* to one connection, from the tile of its source to that of its           *)
(* destination; and no claim on the way exceeds what there is.             *)
ClaimsOfBound ==
    /\ WithinCapacity
    /\ Settled =>
        /\ \A t \in Tiles : /\ procs[t] = {a \in Actors : binding[a] = t}
                            /\ memActor[t] = {a \in Actors : binding[a] = t}
                            /\ \A c \in Channels : /\ memChannel[t][c] = BufferClaims(t, c)
                                                   /\ ni[t][c] = InterfaceClaims(t, c)
        /\ \A t, u \in Tiles : conn[t, u] = Between(t, u)

(* An attempt binds the whole application, with a slice on every tile it   *)
(* uses and on no other, or leaves nothing behind; the load of the tiles   *)
(* follows the moves.                                                      *)
WholeOrNothing ==
    /\ pc \in {"bound", "sliced"} => Bound = Actors
    /\ pc = "idle" =>
          /\ Bound \in {{}, Actors}
          /\ \A t \in Tiles : slice[t] # 0 <=> \E a \in Actors : binding[a] = t
    /\ Settled => \A t \in Tiles :
          tileLoad[t] = Total([a \in {a \in Actors : binding[a] = t} |-> platform.load[a][t]])

(* A move releases the actor before it tries the tiles.  Its own tile is   *)
(* among them and takes it back, so the tiles never run out: the attempt   *)
(* to keep the old binding, whose result moveActorBinding does not look    *)
(* at, is not needed.                                                      *)
MoveFindsTile == pc = "tile" /\ mode = "move" => untried # {}
=============================================================================
