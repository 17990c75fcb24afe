# SDF3, modelled in TLA+

SDF3 is a C++ library with command-line tools for dataflow graphs: synchronous
(SDF), cyclo-static (CSDF) and scenario-aware (SADF).  It computes throughput,
latency, storage requirements and deadlock freedom, and allocates the resources
of a multiprocessor to an application.  Everything runs in one thread.  What is
hard is not concurrency in the program but in what it executes: an analysis
plays the graph, many firings at a time, and has to do so in an order of loops
that loses nothing, to recognise the state it has seen before, and to explore a
space of distributions without leaving out a trade-off; an allocation claims
resources piece by piece and must give back exactly those of an attempt that
fails.  The repository has example graphs but no unit tests.

The specifications here model the core of the SDF part (throughput, deadlock,
repetition vector, storage space against throughput, maximum cycle mean), the
resource allocation (the flow, the binding to tiles with its time slices, list
scheduling and the analysis of the bound graph, the scheduling of messages on a
network), and the semantics of SADF with its self-timed exploration.  TLC
checks them on families of small graphs against references that compute the
same answers in another way; TLAPS proves the central invariants for every
graph, platform and network.

## Inventory

A part's status is the one in `PROJECT.json`.  "Operations" are the functions
that change the part's state, or for a pure algorithm its entry points.

| Part | State | Operations | Correct when |
|---|---|---|---|
| SDF graph (`sdf/base`) | actors, ports, rates, channels, tokens, execution times | building from XML, edits | constant while an analysis runs |
| Repetition vector (`sdf/base/algo/repetition_vector.cc`) | fraction per actor | `computeRepetitionVector`, `isSDFgraphConsistent` | smallest positive solution of the balance equations, zero iff there is none |
| Graph algorithms (`sdf/base/algo`) | colours, components | strongly connected components, connectivity, cycles | components partition the actors |
| Self-timed throughput (`selftimed_throughput.cc`) | tokens, remaining times, clock, stored states | `execSDFgraph`, `computeThroughput`, `analyze` | throughput is that of the critical cycle of the whole graph; always returns |
| Deadlock (`deadlock.cc`) | tokens, firings to go | `fireActor`, `execSDFgraph` | answer agrees with the homogeneous graph |
| TDMA throughput (`tdma_schedule.cc`) | as self-timed, with wheel positions and schedule positions | clock step restricted by slices | a firing gets its execution time inside the slices; throughput is what channels and schedules allow |
| Storage/throughput exploration (`buffer.cc`) | execution state with free space, dependency graph, list of sets of distributions | `execSDFgraph`, `analyzePeriodicPhase`, `analyzeDeadlock`, `findMinimalStorageDistributions`, `findNextStorageDistributionSet` | storage conserved, dependencies complete, every trade-off found, none dominated |
| Buffer variants (`bounded_buffer.cc`, `buffer_capacity_constrained.cc`, `buffer_ning_gao.cc`) | as above, with memories or bounds | as above | as above, within the constraints |
| Latency (`sdf/analysis/latency`) | execution state, first and last firing times | self-timed, minimal and static-order latency | latency of the chosen pair of actors |
| Maximum cycle mean (`sdf/analysis/mcm`) | distances, policies, trees with vertex keys | simple cycles, Karp, Dasdan-Gupta, Howard, YTO | all give the maximum cycle mean |
| Homogeneous graph, storage and auto-concurrency models (`sdf/transform`) | none | `transformSDFtoHSDF`, `modelBufferSizeInSDFgraph`, `modelAutoConcurrencyInSDFgraph` | same executions as the graph they stand for |
| Resource-allocation flow (`resource_allocation/flow`) | flow state, platform, chosen distribution | 14 handlers of `SDF3Flow` | ends completed within the constraints, or failed |
| Tile allocation (`tile_allocation/loadbalance.cc`, `mpsoc_arch`) | lists of claims on processors, memories, network interfaces and connections; slices on wheels | `bindSDFGtoTiles`, moves, releases, `allocateTDMAtimeSlices`, resizing of buffers | claims are those of the bound actors; an attempt succeeds whole or leaves nothing; slices meet the constraint |
| List scheduling (`scheduling/list_scheduler.cc`, `static_order_schedule.cc`, `binding_aware_sdfg`) | ready lists, schedules with a loop-back, binding-aware graph | `constructStaticOrderSchedules`, `minimize`, `analyzeThroughput` | lists hold the enabled firings; periodic parts repeat whole iterations |
| Other schedulers (`scheduling/priority_list_scheduler.cc`, `static_periodic_scheduler.cc`, `static_periodic_scheduler_chao.cc`) | an execution state each (`ch`, `actClk`, `glbClk`) and the schedule built | `schedule`, `execSDFgraph` | a schedule that can be repeated; not modelled |
| NoC allocation (`noc_allocation`) | slot tables per link and time interval, scheduling entities, list of messages | `scheduleMessage`, claims, rip-up | tables are those of the entities; a stream whose messages can begin in time is in time and in order; rip-ups end |
| CSDF (`csdf`) | the same with a phase per actor | the same analyses | the same |
| SADF (`sadf`) | status of kernels and detectors, tokens, reserved space and control queues of channels | configurations and their steps, ASAP schedulers | reserved space and tokens agree; a process ends on the control tokens it worked for; deadlock only when nothing is left |
| Base library, generators, output, tools | -- | I/O, random graphs, printing | -- |

How the parts interact: the tools parse a graph and call one analysis.  Every
analysis calls the repetition vector.  The storage exploration calls its own
execution once per distribution, takes throughput and storage dependencies
from it, and asks the self-timed analysis for the maximal throughput at its
start.  The flow calls the storage exploration step by step
(`initSearch`, `findNextStorageDistributionSet`), models the chosen sizes as
channels, binds, schedules and checks throughput, and comes back to the
exploration when a later stage fails.  The stages of the tile allocation share
the components of the platform, on which the claims are kept: the binding
claims, the list scheduler runs on a graph that models the claims with half of
every wheel reserved, the search for time slices reserves, analyses and gives
back, and a failure releases all of it.  The NoC scheduler gets the messages
that cross tiles.  All calls are synchronous; state is shared through the
graph, the platform and the list of sets of distributions.

What is hard here:

* firings of one actor overlap, and ends, starts and clock steps at one instant
  are separate loops, repeated when execution times are 0;
* the recurrent state is compared in the middle of the loop that ends firings,
  and the throughput is summed from clocks that are reset at other moments;
* a graph that is not strongly connected is analysed in parts with new ids,
  and the throughput of a part is scaled by entries of two repetition vectors;
* storage is claimed at the start and released at the end of a firing;
* storage dependencies are found by replaying a period from a half-finished
  round, then by a search that edits the graph it walks;
* the exploration adds to a list while it walks it, and can be left and resumed;
* an actor's claims are made port by port on four kinds of component, any of
  which can refuse; what was claimed is given back by walking the same ports;
* the search for slices calls itself, lowers and raises slices on shared wheels
  and puts back what it found before;
* the schedules are cut from an execution whose end lies in the middle of
  firings, then lose the entries of actors that only model the binding;
* wheels turn between the start of a firing and the first slice it gets;
* a message that is ripped up goes behind the one it was in the way of, in the
  list that is being walked, and its slots go back on every link, shifted;
* SADF processes choose a scenario from the front of control channels to which
  others write meanwhile, and reserve space that the comparison of
  configurations leaves out;
* YTO keeps keys in a heap that it updates around the part of the tree it moves;
* rounds of the deadlock test stop at the first without progress;
* unsigned counters wrap, fractions with denominator 0 equal nothing.

## Modules

| Module | Models |
|---|---|
| `SDFGraphs` | graphs `[ex, ch]`, the token movements the analyses share, and storage space and auto-concurrency as channels |
| `RepetitionVector` | `computeRepetitionVector` with the fraction class |
| `HSDF` | `transformSDFtoHSDF`, and the critical cycle as reference |
| `Components` | depth-first walks, strongly connected components, the graph of one |
| `SelfTimed` | `execSDFgraph` and `computeThroughput` of the throughput analysis |
| `ThroughputAnalysis` | its `analyze`: the execution of the whole graph or of its components |
| `TimedDataflow` | abstract: what a self-timed execution of a graph is |
| `DeadlockCheck` | `SDFdeadlockAnalysis` |
| `CycleMeans`, `YoungTarjanOrlin` | the algorithms for the maximum cycle mean; YTO as a state machine |
| `StorageExec` | the `TransitionSystem` of the storage exploration |
| `DependencyCycles` | its search for cycles |
| `StorageDSE` | the exploration, which runs `StorageExec` once per distribution |
| `Flow` | `SDF3Flow`: the stages of the resource allocation and their retries |
| `Binding` | binding of actors to tiles, claim by claim, moves, releases, further attempts |
| `TimeSlices` | `allocateTDMAtimeSlices`: the two searches for small slices |
| `TileAllocation` | both together, which implements `Binding` |
| `StaticOrder` | static-order schedules and `minimize` |
| `BoundGraphs`, `BoundExec` | graphs bound to tiles, and what the two executions of them share |
| `BindingAware` | the graph that models a binding, in the NSoC and the MP flow |
| `ListScheduler` | construction of schedules by execution |
| `TDMASchedule` | throughput of a bound graph with wheels and schedules |
| `BoundFlow` | from a binding to schedules to the throughput of the allocation |
| `SlotTables`, `NoCSchedule` | slot tables of a link; the rip-up scheduler of messages |
| `SADF` | configurations of SADF and every step of kernels, detectors and time |
| `SADFReduced` | the reduced exploration in a fixed order |
| `GraphFamilies`, `MC*` | families of small graphs, instances, references |
| `*_proofs` | theorems |

Composition: `ThroughputAnalysis` extends `SelfTimed`, whose steps are those of
the part under analysis.  `StorageDSE` extends `StorageExec`: its action `Exec`
is the `Next` of that module while a distribution is executed, and `StartExec`
clears its state for the next one.  `TileAllocation`
extends `Binding` and instantiates `TimeSlices` on the platform's wheels and
the loads the binding leaves.  `BoundFlow` runs `ListScheduler` and then
`TDMASchedule` over the variables of `BoundExec`.  `YoungTarjanOrlin` runs on
the graph that `CycleMeans` prepares.

Refinement: `StorageExec` maps to `SelfTimed` on the graph that
`modelBufferSizeInSDFgraph` makes (`ImplementsSelfTimed`, checked and proved).  `SelfTimed` maps one execution to `TimedDataflow` (`Due` turns
lists of remaining times into bags of due times; `IsTimedDataflow` is proved),
and `MCSelfTimed` the analysis, on the graph or part that is executed, one
after the other.  By the two, claiming space is timed dataflow (proved).
`TileAllocation` maps to `Binding`: a search with many reservations is one step
that finds slices or gives up.

### SDFGraphs

A graph is a record: `ex`, the execution time per actor, and `ch`, a sequence
of channels with source, destination, rates and initial tokens.  Positions
replace ids.  `IsSDFGraph` asks for positive rates.  Recursion is kept out of
every module that a proof reaches; repetition vectors are a constant operator
there, which the MC modules give as `RepetitionVector`'s.

### SelfTimed, Components, ThroughputAnalysis

| Model | Code (`selftimed_throughput.cc`) |
|---|---|
| `ch`, `actClk`, `glbClk` | `currentState` |
| `stored` | `storedStates` |
| `phase` | the place in the loop of `execSDFgraph` |
| `EndFiring`, `StoreAndEndFiring`, `RecurrentState` | the loop that ends firings, by what the output actor's count says |
| `EndsDone` | all actors visited |
| `StartFiring` | the loop that starts firings |
| `ClockStep`, `Deadlock` | `clockStep` with and without an active firing |
| `AddState`, `ReturnThroughput` | `computeThroughput` |
| `whole`, `repVec`, `components`, `least` | the arguments and locals of `analyze` |
| `at` | in the execution of the whole graph, of a part, between two parts, or returned |

The loops go actor by actor, so the lowest actor that is ready moves; one that
becomes ready behind the loop waits for the next round as in the code
(`FirstToEnd`).  Channels change at the end of a firing only for its outputs
and at the start only for its inputs.  `now` and `storedAt` are history: the
time since the start, and when a state was stored.  They are read by no guard.

`Components` has both depth-first walks, the second over the transposed graph
in decreasing order of finish times, and `componentToSDFgraph`, which gives the
actors of a component new ids.  `analyze` executes only components that have a
channel, and keeps the least of their throughputs, scaled by the entry of the
component's first actor in both vectors.  A graph without any cycle or
self-edge keeps the value from which the search for the least starts
(`TDTIME_MAX`): it runs as fast as one likes.

### TimedDataflow

Tokens and a bag of due times per actor.  A firing may start as soon as its
tokens are there, ends exactly when due, and time jumps to the next due
time only when no firing can start or end.  No loops, rounds or recurrence.

### DeadlockCheck

One action per visit of an actor in a round (`NextActor`), the start of a
round (`NextRound`) and the three returns (`Answer`).  `q` is the count down
from the repetition vector.

### CycleMeans, YoungTarjanOrlin

`CycleMeans` has the algorithms as operators: `mcmSimpleCycles` walks from the
first actor of every component; `transformHSDFtoMCMgraph` makes tokens into
nodes and the longest paths without tokens between them into edges, with
`splitMCMedgeToSequence` for channels of several tokens and the elimination of
nodes that edges without delay lead into; `mcmKarp`, `mcmDasdanGupta` and
`mcmHoward` are written as functions of the round.  `YoungTarjanOrlin` is
`mmcycle` as a state machine: the tree (`parent`, `level`, `cost_t`), the vertex
key of every node, and one `Pivot` per arc that enters the tree.  The heap is
the set of vertex keys; arcs of equal key are taken in any order.
Doubles are fractions.

### StorageExec

The state of `SelfTimed` plus free space `sp`, `previousState`, the dependency
edges and the periodic state.  `mode` is `exec` for `execSDFgraph`, then
`leftover` and `periodic` for `analyzePeriodicPhase`, which ends the firings
that are due and plays one period, noting what each start waited for.
`DependencyCycles` is a constant operator of this module.

### StorageDSE

The list of sets of distributions, with the place of the walk (`ds` set, `d`
distribution, `lastExplored`).  `search.api` says which of the two entry points
is used: `analyze` returns all sets up to a bound, `next` one set per call.
Adding a distribution places it by size, creates the set, and refuses one that
is already listed; `minimizeStorageDistributionsSet` runs when a set is
explored.  `returned` is history: the sets that the calls of
`findNextStorageDistributionSet` have returned.  Throughput is an exact fraction where the code has a double.
`maxThroughput` is the result of the self-timed analysis, checked by the
`selftimed` run.

### Flow

| Model | Code (`resource_allocation/flow`) |
|---|---|
| `state` | `stateOfFlow`; `Exception` when a `CException` leaves `run` |
| `sets` | the list from `minStorageDistributions` on |
| `set`, `distr` | `selectedStorageDistributionSet`, `selectedStorageDistribution`; 0 for NULL |
| `made` | the distribution each result was made for: buffer sizes and constraints in the application graph, binding, schedules and slices on the tiles, messages and slots in the network |
| `tried` | history: the distributions selected |
| one action per handler | the handler that `run` calls in that state |

The exploration is a constant set of points that the flow takes one by one:
each larger and faster than the one before, which is what the test of
`findNextStorageDistributionSet` on the throughput and the order of its list
give (`PointsInOrder` of `storage_dse`), until it returns NULL, which it may do at
any call.  The algorithms behind a stage fail or succeed at will; the other
modules of the allocation model them.  A failure of
the binding, the slices or the communication schedule goes back to the
selection; the others end the flow.  `made` forgets what a handler releases: the
binding when a new one is attempted or the slices fail, and the slices when the
schedules are constructed.

### Binding, TimeSlices, TileAllocation

| Model | Code (`tile_allocation/loadbalance.cc`, `base/mpsoc_arch`) |
|---|---|
| `procs`, `memActor`, `memChannel`, `ni`, `conn` | the lists of bindings each component keeps |
| `binding`, `tileLoad` | `actorTileBinding`, `loadOnTile` |
| `pc`, `mode` | the place in `bindSDFGtoTiles`, in the first binding or in the moves of `optimizeTileBinding` |
| `cur`, `remaining`, `untried`, `todo`, `chan` | the loops over actors, tiles and ports |
| `ClaimState`, `ClaimPort`, `ClaimBuffer`, `ClaimInterface` | one reservation each; it fails when the component refuses |
| `GiveUpTile`, `BindingFails` | `releaseResources` of the actor, or of all |
| `slice`, `parts`, `saved`, `low`, `high` | `reservedTimeSlice`, and the locals of `minimizeTimeSlices` and `optimizeTimeSlices` |
| `measured` | an answer of the throughput analysis is arbitrary, and the same for the same slices |

The cost functions order actors and tiles; the model takes any order.  Sorting
the tiles asks for the connection between every two of them, so platforms are
fully connected.  After the slices `updateStorageSpaceAllocation` resizes the
buffers to what the storage exploration of the bound graph finds
(`NewSizes`); an exception there ends the program (`pc = "exception"`).
A step of `minimizeTimeSlices` is `1/parts` of what is free of the wheel:
`parts` doubles where the code halves its fraction, up to `Finest`, the inverse
of the smallest fraction.  `Share` is the part of a slice that the load of the
tile has in the largest load.

### BoundGraphs, StaticOrder, BindingAware, ListScheduler, TDMASchedule, BoundFlow

`BindingAware` builds the graph from an application with its tiles: a one-token
self-edge per actor, two channels for a buffer inside a tile, and for a
connection the actors that stand for sending, latency and the buffers at both
ends, in the forms of the NSoC and the MP flow.  `BoundExec` has what
`list_scheduler.cc` and `tdma_schedule.cc` repeat: ends, starts, wheel and
schedule positions and the clock step.  `ListScheduler` adds the ready lists, kept up to
date by comparing enabled firings with those of `previousState`, and cuts the
schedules when the state of the graph recurs.  `TDMASchedule` starts an actor
when it is next in its tile's schedule and stretches its time by the rest of
the wheel.  `BoundFlow` is `constructStaticOrderSchedules`,
`minimizeStaticOrderSchedules` and `analyzeThroughput` in a row.  `lenAt` is
history.

### SlotTables, NoCSchedule

`SlotTables` keeps for a link a sequence of tables, one per interval of the
period, cut where a reservation begins or ends.  `NoCSchedule` walks the list of
messages: a message tries detours, routes, and durations halved each time, and
claims slots link by link; when nothing is found, the message scheduled before
that is most in the way is ripped up and goes behind.  Times are unsigned
numbers of `Width` bits.  Without rip-ups it is the greedy scheduler.
Two ends are neither `solved` nor `failed`: `exception` ("Slot already
reserved", which leaves the claims on the links before and on a part of the link with
the conflict: `reserveInPart`) and `undefined` (an iterator
of an erased element is used).  `late` and `long` are history: the messages that ever
got an entity although they could not begin in time, or an entity longer than a period.  A slot of a table holds the number of the message whose
entity has it.  The list that `sortMessagesOnCost` makes is the
one in which every message costs more than those after it.

### SADF, SADFReduced

A configuration has the status of each process (step, scenario, subscenario,
Markov state, profile, remaining time), tokens and reserved locations of each
channel, and the queue of values of each control channel as runs.  `Fire` is
`control` of a kernel or `detect` of a detector, `Start` claims space and sets
the time, `End` moves tokens, `Time` passes.  Steps come with weights, which
`SADFReduced` turns into probabilities.  It composes, recursively, the steps of
one process at a time up to the next end of the observed one.  A kernel that is
inactive in a scenario has rates zero there, which is how the code keeps it.

## Runs

| Run | Instance | Shows |
|---|---|---|
| `selftimed` | two actors in a cycle with rates to 3, times to 2, tokens to 4; the same with a self-edge of one or two tokens; rings of three with a second cycle; three actors of which two are in a cycle, numbered in three ways; two actors without connection, with and without self-edges | every step is timed dataflow; the result is the period of the execution and the critical cycle's throughput of the whole graph; always returns |
| `algorithms` | vectors: every graph of two actors and two channels with rates to 4, three actors and two channels with rates to 3, three actors and three channels with rates to 2; every set of dependencies over at most four actors; every schedule of at most nine entries of two actors; the deadlock test on cycles of two and rings of three; homogeneous graphs of two actors and three channels with at most two tokens, and of three actors in a ring with two more channels | the repetition vector is smallest, or zero iff the graph is inconsistent; the cycle search misses no strongly connected part; `minimize` keeps the sequence; free iff no cycle without tokens; four algorithms give the maximum cycle mean, and YTO does unless a node lost its key |
| `storage_exec` | two actors, distributions that hold the initial tokens and that do not | execution with space is self-timed execution of the modelled graph; storage conserved; dependencies complete; ends |
| `storage_dse` | producer/consumer pairs, loops of two actors, uneven step sizes, self-edges of two tokens; both entry points; four bounds | the trade-offs are those of all distributions, up to the bound of the search; the list stays in order and its Pareto points are returned one by one; the search ends |
| `storage_dse_missed` | a triangle | finding |
| `flow` | points of space 0 to 4, throughput 1 to 4, one or two distributions each; constraint 2; two actors; both kinds of flow | every distribution that meets the constraint is tried once, in order; nothing stale is used; the flow ends |
| `tile_allocation` | a chain of three actors, the middle one with a self-edge, on two tiles; eleven platforms each tight in one kind of resource, twelve of larger wheels with one binding; two sizes of buffers | claims are those of the bound actors through all failures, moves and attempts; whole or nothing; slices right and within a slot of their bounds; implements `Binding`; returns |
| `bound` | pairs in a cycle, forks, a self-edge and a deadlock, on one or two tiles, both flows, half and whole wheels of 4 | one firing per tile gets exactly its time; ready lists exact; throughput is the critical cycle of graph and schedules; ends |
| `bound_order` | the same | finding |
| `noc` | four tiles in a row and a link past the second; two to four messages of one or two streams, on routes of one to three links; 4 slots, period 8, numbers of 6 bits, at most three rip-ups | tables are the entities' claims; the messages of a stream that could always begin in time are in time and in order, whatever was ripped up; every step leaves less to do |
| `sadf` | two kernels with a buffer of 3, 4 and 6 places; the repository's example 2; a hierarchy of three detectors over a kernel and over a detector | buffers respected; control tokens those worked for; time passes to the next end; the order of steps has no effect |
| `yto` | two graphs of two actors with two tokens on a channel | finding |

Two actors suffice for most of what can go wrong in the executions: two firings
of one actor that overlap, rates that do not divide each other, zero execution
times, a deadlock, a transient before the period, several iterations per
period.  Rings of three give several cycles that compete for being critical;
three actors of which two form a cycle give parts whose ids, first actors and
vectors all differ from those of the whole.
The times 0, 1, 2 give equal, overlapping and instantaneous completions.  The
sizes in `storage_exec` go from one below the lower bound to two above, past
the size where more space helps no further for these rates.

In `flow` the points lie below, at and above the constraint, so the list can
hold up to four sets of which the first is too slow; two distributions per set
give both kinds of retry, within a set and across sets, and up to six attempts.
The theorems of `Flow_proofs` cover all other numbers.

In `tile_allocation` every kind of claim fails on some platform, at the first
and at a later port, in a first binding and in a move; the self-edge is claimed
twice.  Wheels of 16, 5 and 25 give slices that halve evenly and not, with
`Finest` 8, three halvings before the step is below the smallest.  In `bound` the
wheel of 4 with half of it reserved stretches firings of 1 to 8 units over no,
one and several turns.  In `noc` messages need one to three slots of four, some of
which are taken, so that tables are cut, claims wrap round the period, messages are ripped up
up to three times, a fourth message makes one of a stream of three wait and makes way
for it, messages cannot begin in time or last longer than the period, beside a stream
that can, and claims fail in part.  The homogeneous graphs of
`algorithms` have up to six tokens, hence that many nodes, with parallel edges
and self-loops.

Deadlock checking is off where the program stops with its answer (`phase =
"done"`, `pc = "done"`, `answer`, `returned`, `solved`, `failed`) or may stop.
That it does reach that answer is the
liveness property `Terminates`, in `tile_allocation` `Returns`, in `noc` the
measure of `LeavesLess`.  An SADF exploration has no answer to reach.

### Fairness

Each specification is one sequential program without blocking calls, so it
always takes its next step: `WF_vars(Next)`.  No fairness of a single action is
assumed; where two actions are enabled the model does not rely on either one.
For the flow this says that `run` calls the handler of the state it is in, and
that every handler returns.  `TileAllocation` assumes it of the steps of an
attempt only: whether the flow makes another attempt is the flow's choice.
`NoCSchedule` needs no fairness to show that it ends: `LeavesLess` is an action
property, that every step lowers a tuple of natural numbers in lexicographic order.

### References

`H!CriticalCycle` computes the throughput from all simple cycles of the graph
that `transformSDFtoHSDF` makes, which no state-space analysis uses.  The
storage run compares with that throughput for every distribution up to the
final size; the bound run adds the order of the schedules to that graph as
channels, over as many iterations as the schedules take to end together; the
cycle means are compared with the same cycles of the homogeneous graph.  The
repetition vector is compared with a search over small vectors, the cycle
search with transitive closure, a minimized schedule with the sequence of
firings it stands for, and the reduced SADF exploration with every other step
that is possible in the same configuration.

## Proofs

| Theorem | Says |
|---|---|
| `SelfTimed_proofs!Typing` | types: in particular no channel goes below zero, where the code's unsigned count would wrap |
| `SelfTimed_proofs!InOrder` | remaining times are in order, on which looking only at the front relies |
| `SelfTimed_proofs!PeriodTheorem` | `ThroughputIsPeriod`: the sums of `computeThroughput` are the iterations and the time between two visits to a state |
| `SelfTimed_proofs!TimedExecution` | `IsTimedDataflow`: every step of an execution is a start, an end when due, a jump to the next completion with nothing left to do, or invisible |
| `BoundFlow_proofs!TokenBalance` | tokens are those of the firings done |
| `BoundFlow_proofs!BackInInitialState` | when all firings are done the graph is back in its initial state |
| `BoundFlow_proofs!BindingAwareGraph` | the graph that models a binding, in both flows, has a self-edge, an execution time and a tile for every actor of the application |
| `BoundFlow_proofs!OneFiringExactly` | `TilesServeOneFiring`: a tile serves one firing at a time, that of its schedule, and one that starts before the slice gets exactly its execution time |
| `BoundFlow_proofs!ListsExact` | `ReadyListsExact`: the ready lists hold every firing the tokens allow, and no other |
| `BoundFlow_proofs!CompletePeriods` | `PeriodicPartComplete`: between two visits to a state every tile does whole iterations, and so does a schedule cut at its last entry |
| `BoundFlow_proofs!MinimizedSequence` | `minimize` keeps the endless sequence of firings of a static order, and makes it no longer |
| `StorageExec_proofs!Typing` | types of the execution with storage bounds: no token count, free space or remaining time goes below zero |
| `StorageExec_proofs!Conservation` | `StorageConserved`: per channel, tokens, free space, space claimed by the firings under way and space they still hold add up to the distribution's space |
| `StorageExec_proofs!ExecutesModel` | `ImplementsSelfTimed`: an execution with claims on space is, step by step and to the same throughput, the self-timed execution of the graph with the space as channels |
| `StorageExec_proofs!PeriodOfStorage` | `ThroughputOfPeriod`: the throughput is that of one period, although the period is replayed before it is computed |
| `StorageExec_proofs!SpaceIsTimedDataflow` | the two refinements together: claiming space is timed dataflow |
| `StorageExec_proofs!SearchInOrder` | `PointsInOrder`: the list of the exploration stays in order of size, without a distribution listed twice or in the wrong set; the sets returned one by one are Pareto points, and none below the maximal throughput is left out |
| `Flow_proofs!Typing` | the flow never selects a distribution that its set does not have |
| `Flow_proofs!AlwaysInStep` | `InStep`: every handler works with results of the selected distribution, and a completed flow holds results of one distribution |
| `Flow_proofs!NothingSkipped` | `NoneSkipped`: the distributions tried are those that meet the constraint, up to the selected one |
| `Flow_proofs!NotAgain` | no distribution is selected twice |
| `SADF_proofs!Reservations` | `ReservedByWriter`: reserved locations are those of the writer's firing, and fit the buffer together with the tokens |
| `SADF_proofs!NextEnd` | `StepsToNextEnd`: a time step is the time to the first end; a deadlock means that nothing fires |
| `SADF_proofs!Fronting` | `WorksOnFront`: a controlled process works on the control tokens it chose by until it removes them |
| `TileAllocation_proofs!AllocationInvariant` | the invariant behind the next four |
| `TileAllocation_proofs!ClaimsMatchBinding` | `ClaimsOfBound`: what the platform holds is what the bound actors and their channels claim |
| `TileAllocation_proofs!WholeBinding` | `WholeOrNothing`: an attempt binds every actor or leaves nothing behind, and loads follow the binding |
| `TileAllocation_proofs!MovesEnd` | `MoveFindsTile`: an actor that is moved always finds a tile |
| `TileAllocation_proofs!SearchIsRight` | `AnswerIsRight`: slices fit their wheels, the result is that of the last analysis, and slices are within a slot of their bounds |
| `TileAllocation_proofs!Implementation` | `ImplementsBinding`: the search with all its steps is one step of `Binding` |
| `NoCSchedule_proofs!SchedulerEnds` | `LeavesLess`: every step leaves less to do, so that the scheduler ends |
| `NoCSchedule_proofs!Typing` | types: the list stays a list of messages and the tables of every link sequences of slot tables, through searches, claims and rip-ups |
| `NoCSchedule_proofs!SlotTablesRight` | `TablesMatchEntities`: the slot tables hold the claims of the entities and nothing else, until a claim fails or some message has got an entity longer than a period |
| `NoCSchedule_proofs!SlotTablesOfSmallMessages` | for messages that are small for the period no entity is ever longer, and the tables are those of the entities until a claim fails |

Those on `SelfTimed`, deadlock and storage hold for every set of graphs with `GraphsAssumption` (positive rates,
natural execution times, at least one actor) and `RepVecAssumption` (a positive
vector that solves the balance equations); the deadlock theorems with
`DeadlockGraphs`, which admits the zero vector of an inconsistent graph.  The
`algorithms` run is what supports the assumptions on the vector.

`Typing` and `InOrder` of `SelfTimed_proofs` go together: a firing's execution time is appended to the list,
and the list stays in order because no remaining time is larger than the
execution time, which is part of the invariant `Safe`.  Types need it too:
a clock step subtracts the smallest front, which is at most every entry only
because fronts are smallest in their lists.

`ThroughputIsPeriod` is not inductive: it speaks of the result.  `PeriodInv`
adds what the loops keep: the stored clock of a state is the time since the
state before it was stored, the time of the last one stored is the current
time less the clock, and the sum so far is the time up to the state that comes
next.  When the recurrent state is met its clock equals that of the state
stored, which is why the sum, shifted by one stored state, is a full period.
The theorem is about one execution (`SelfTimed!Spec`), of the whole graph or of
a part, which is what `ThroughputAnalysis` repeats.

`TimedExecution` is a refinement, step by step.  The due time of a firing is the
clock plus its remaining time, and the bag of an actor counts its positions in
the list by due time.  A start appends the execution time: one more firing due then
(`DueAppend`).  An end takes the front, which is zero: one less that is
due now (`DueTail`), and the others keep their place in the bag although their
positions shift.  A clock step lowers the times and raises the clock by the same
amount, so that no due time changes (`DueLower`); that it goes to the *first* completion and
not over one is where the order of the lists is needed, since the code looks at
fronts only, and that nothing is left to start or end is the place in the
loop, which the guards have.  A clock step by nothing is invisible.  The theorem is about one
execution, as `PeriodTheorem`; that the next part starts afresh is
`ImplementsTimedDataflow`, which the `selftimed` run checks: the parts come from
depth-first walks, which are recursive.

`TokenBalance` is inductive with the range of the counts: `fireActor` moves
tokens and counts down in one step.

The module `BoundFlow_proofs` also holds the two deadlock theorems.  They use the
lemmas on tokens that the module needs for bound graphs, and `DeadlockCheck` is instantiated
there (`DC`) with the variables of the graph and of its tokens.

The theorems on bound graphs hold for every set of applications with `BoundFlowAssumption`:
actors are bound to tiles that exist, rates, execution times of bound actors and the time to
send are positive, a slice of every used wheel is reserved and no longer than the wheel, and, where
the initial tokens fit, the binding-aware graph is strongly connected (what `schedule`
throws on) and `RepVec` solves its balance equations.

`BindingAwareGraph` follows the fold of `modelBinding` over the channels of the
application (`FoldSteps`).  `Grown` says of every stage of it that it is a bound graph with
the wheels and slices of the application, in which the first actors are those of the application on
their tiles.  It is shown to last for what replaces one channel: nothing for a self-edge, two channels
for a buffer inside a tile, and the connections of the NSoC and the MP flow.

`OneFiringExactly` rests on `ExecInv`.  `TilesServeOneFiring` alone is not inductive: that an
actor is not started twice is not a test in the code, it comes from the tokens of its
self-edge (`CyclesFull`: tokens and claims of a one-token cycle are its one token).  While
schedules are constructed the entry of a firing under way is the last of the schedule, and
the tile is not idle (`ConstructOrder`); in the analysis it is the one that the schedule is
at (`AnalyzeOrder`).  That the time on the wheel is exact is arithmetic on
`completionTime`: the turns to wait, times what a turn leaves to others, and the firing's own
slots; `InSlices` counts the slots, and induction on turns shows it.

`ListsExact` needs to say what the lists hold when firings are not started.  In between,
they are exact for the tokens *before* the clock step (`previousCh`), of which there are no
more than now (`Lists`).  The update then adds the difference of two quotients, the fewest
over the input channels (`Fewest`).  When a firing starts it takes one from every quotient, and the
list loses one entry.

`CompletePeriods` has the history.  For every stored state, `Elapsed` says with two vectors
how often each actor ended (`e`) and started (`s`) since: the tokens are those of then with
these firings, and a bound actor started as often as it came into its schedule since then.  When the
state recurs all tokens are equal, so that `e` equals `s` and solves the balance equations.  The
output actor has done whole iterations (`Outputs`), a channel carries this from one actor to the
next, and the graph is strongly connected, so that every actor has done them
(`WholeIterations`).  The entries since then, counted actor by actor, are the
periodic part when the schedule is cut at an entry that equals its last one.  When it does not,
the schedule need not have complete cycles: that is `CompleteCycles`, a finding.

`MinimizedSequence` has an invariant of the search of `minimize` (`GoesRound`): the
periodic part up to the entry goes round a pattern, and `pat` is where it goes on.  At
the end the pattern either ends with the periodic part or is the whole of it, so that
going round the pattern and round the periodic part is the same (`Pattern`).
`TurnsBefore` says that whole patterns come off the transient part.  The run `algorithms`
checks the same on all short schedules (`MinimizeKeepsSequence`).

`Conservation` rests on `ConservedInv`.  `Safe` holds the types, the order of
the remaining times and their bound by the execution time, as above.  Before
the initial tokens are placed no firing is under way, so that nothing is
claimed when they are.  From then on, when they fit, the sum `Occupied` is the
distribution's space.  A start and an end each change it for the channels at
the actor's input and output, which is one channel when it is a self-edge; the
lemma `OneMore` turns one firing more into one product more.  These theorems
assume `StorageGraphs` (the assumptions above, and a natural space for every
channel) and nothing of the cycle search: `StorageDependencies` may be any
operator.

`ExecutesModel` maps tokens and free space to the tokens of the channels and of
the channels back (`ch \o sp`).  `ReadyBack`, `ConsumeBack`, `ProduceBack` and
`InitialBack` say that `modelBufferSizeInSDFgraph` makes claiming and giving
back the same as consuming and producing; with them every step of the loop
is the step of `SelfTimed` with the same name.  The recurrent state is where they
part: `SelfTimed` goes on to the sum, the code first ends the left-over firings
and replays a period, which is mapped to the state it starts from (`periodic`).
It comes back to that state before the sum, and nothing that the sum reads is
changed meanwhile, so that the replay is invisible.  A stored state is mapped one to one
(`ModelledInjective`), or the two would not recur at the same time.  `TimesOf`
gives the times that `SelfTimed` keeps as history; it is recursive, and
`TimesAppend` says what one more state adds.  `PhaseInv` says that nothing is executed with a
distribution that does not hold the initial tokens.  The assumption
`ModelledRepVec` is that `RepVec` gives the graph and its model the same vector:
a channel back has the balance equation of its channel.

`PeriodOfStorage` and `SpaceIsTimedDataflow` carry `PeriodTheorem` and
`TimedExecution` over: `STP` is `SelfTimed_proofs` on the modelled graph, whose
assumptions hold there (`ModelledAssumptions`).

`SearchInOrder` is about the whole search of `StorageDSE`, whose variables are those of the
execution and of the list.  The search makes its own distributions, from `minSz` on: `Sizes` is only
where an execution on its own begins, so that the invariant `Safe` of the execution has any space as a
size (`ExecutionTypes`) and holds again whenever the state is cleared (`ClearedSafe`).
The only assumption added is `ThroughputAssumption`: the throughput analysis returns a fraction.
`ListOK` is the order of
the list, with the first set, which is never enlarged or removed, of one distribution, and throughputs
that are fractions of which not both parts are 0: without that "slower" is no order
(`LessIsOrder`), and it is why `SumInv` has to say that a period is never empty.
`Unexplored` says that the sets behind the one explored have throughput 0 and
a distribution to explore: a new distribution is larger than the one it comes from, so that
`Place` puts it there (`Added`), and positions up to the explored one stay.  `Positioned` keeps the
two pointers in the list.  An explored distribution adds one for each of its channels, a fold
over the channels: its equation is solved on the subsets of a finite set (`FoldSolution`), and
what every step keeps the fold keeps (`SubsetInduction`, `FoldGrown`).  The space of a distribution is a fold
too, of which `TotalStep` says that one more unit on a channel is one more in all.
`Reported` gives `lastExplored` its meaning: of the sets passed it is the fastest,
so that a set is faster than all of them when it is faster than that one
(`SearchedNew`), and is none when it is not (`SearchedPast`).  The first set may get size
0 and the sets behind the last one may be cut off; neither changes a throughput that was compared.
When the pointer is lost with the cut, its set has the maximal throughput.
Whether a trade-off is listed at all (`NothingMissed`, `OnlyTradeOffs`) depends on throughputs and
on the search for cycles and is only checked.

The theorems on the flow assume only that a point has a natural space and a
positive throughput and number of distributions (`FlowAssumption`).  `InStep`
is written with the order of the stages; `Stages` is the same spelled out per
result, which the provers handle, and is inductive: a handler makes its result
for the selected distribution, and the ones before it stay.  `NoneSkipped`
needs `Attempts`: before the selection every set is too slow and nothing was
tried, and afterwards the selected set is the last one and `tried` is what comes
before the selected distribution.  A new set is faster than the last one, so
that it meets the constraint too, and its first distribution is the next in
order.

`Reservations` holds for every set of graphs with `SADFGraphs` (natural rates in
every scenario, initial tokens that fit their buffers).  The invariant `Inv` adds
that configurations are functions over the processes and channels of the graph,
and that a process that has chosen or started has one of its scenarios or
subscenarios: the rates at an end are those of a choice made two steps before.
`control`, `detect` and `time` change no claim (`NoClaimInv`).  `start` adds to the reserved
locations what the process will write, on channels of which it is the only writer and where
it had nothing reserved; `end` takes the same numbers off the reserved locations and
adds them to the tokens.  The test for space at the start looks at the tokens alone: that
is enough only because the writer has nothing reserved when it starts, which is
the first conjunct of the invariant used for the second.

`NextEnd` adds to the types that the remaining time of a process that fires is
below the value that stands for no time at all, and that after a time step
some process has none left: the next step is then its end, and the smallest
time found is never mistaken for a deadlock (`InvTime`).

`Fronting` says that the token at the front of a control channel stays the one
that scenario and subscenario were chosen by, while other processes write to
the back of the queue, until `end` removes it.  That needs a front to be there: the runs
of a queue add up to the tokens of its channel (`InRuns`, where the witness of
the sum is a function along the runs), so that a process that sees a token has
a run to look at, and removing tokens leaves the rest in order.  `Undecided` says that a
controlled process that has ended has no scenario.  The theorem has one
hypothesis, `ScenarioForAll`: a detector has a scenario for every combination
of values that can be sent to it.  Without it a detector falls back to its first
scenario, which need not match its tokens.  The parser rejects such a graph
when there is one control channel and only warns when there are several.
`IsSADFGraph` says what the parser makes: the modes of a subscenario exist,
execution times are below the largest value, and the initial runs of a
control channel hold as many values as it has tokens.

The theorems on the allocation hold for every application, platform, order of tiles,
result of the analysis of throughput and outcome of the storage exploration, for any number of
actors, channels and tiles, as long as these are finite and there is an actor
(`BindingAssumption`; the sums over lists and tiles need it), an actor that can run on a
tile has a load on it, `Finest` is at least 2, and `None` is not a function on
the tiles (`TileAllocationAssumption`).  The invariant is in four layers.

* `Core` is about claims.  Between two actors, `Exact` says what every
  component holds: `BufferNow` and `InterfaceNow` give, for a tile and a channel, the list
  of what is claimed, as a function of the binding, of the ports of the current
  actor that are still to visit (`Waits`) and, inside
  `allocateConnectionResources`, of the phase of the one at work.  A claim, a refusal
  and a visit to a port each change one channel (`OneChannel`), a self-edge twice.
  When something is refused the claims made so far are of bound
  actors but not complete: `Releasable` is what then holds, it says that a
  release takes off all that a channel claimed, and `releaseResources`
  turns it into `Exact` without the actor.  `Loaded` says that the load of a tile is the
  sum over the actors on it, `Progress` which actors are without a tile in every
  phase, and `Resizing` that the buffers still to resize are those of bound channels.
* `Searching` is about the slices.  The answers of the analysis are kept, so that slices that met
  the constraint meet it for the rest of the search.  Slices kept aside (`saved`) met it; `saved` is
  empty only as long as no step went down, in which case the slices only grew and a
  failure means that they are whole wheels; the upper bounds of the second
  search met the constraint, the lower ones are their shares of the load or did not meet it, and they are
  never more than the upper ones, which is why it ends with at most a slot between
  the two.  The final analysis asks again for slices it has an answer to.
* `WithinCapacity` says that no component holds more than it has.  `Sliced`: a
  tile has a slice exactly when actors are bound to it.
* `HasHome` is what a move relies on: some tile, not yet tried or the one
  the actor is on, can hold all that the actor claims, *with the others where
  they are now*.  When the actor is taken off, that is the tile it was on, since the
  claims of a complete binding fit (`WithinCapacity`) and are functions of it
  (`Exact`).  When an attempt on a tile that can hold it runs, each single
  claim fits, since a partial binding claims no more than the complete one, list by
  list, sum by sum, so that the attempt on that tile does not fail; and a
  failure on another tile releases exactly what was claimed.

Sums are folds over finite sets.  The module proves what it needs of them (one
term changes, one set is in another, one function is below another) from the
definition of `MapThenFoldSet`, by induction on subsets: the induction
theorems of the library cannot be instantiated, so `SetInduction` and
`NumberInduction` state induction for a set in place of a predicate.

`Implementation` maps the slices to zero while the search runs (`Found`).  A
step of the search is then a stutter and its end is the step of
`allocateTDMAtimeSlices` in `Binding`, whose guard (slices within their wheels, on the tiles in
use and on no other) is what `Searching` says of the result.  Fairness is not part of it:
`ImplementsBinding` is a safety property.

The proof corrected `WithinOneSlot`.  An earlier form said that the lower bounds
either did not meet the constraint or were never analysed.  With wheels of 1
and 16 and loads of 5 and 4 the shares can be analysed later and meet the
constraint, so that this is false in general.  What holds, and is stated now,
is that they did not meet it or are the shares of slices that met it.

The theorems on the network hold for every set of links and of problems, any
number of messages, slots, detours and rip-ups.  `NoCAssumption` asks for a
header smaller than a flit; `ProblemsAssumption` for messages with something to
send, time to do so and a route, and for fewer messages than the preference
level that stands for "always" (`UINT_MAX`), which a count would otherwise reach.

`Sound` is the invariant of types.  Besides types it says what the actions rely
on: the list has every message once, the messages from `pos` on have no entity, an
entity has a route without repetition and a duration of at least two, routes
left to try are finite in number, and the tables of every link follow each other
without a gap (`Covers`) until a claim fails, as one that fails can lose the table it cut;
the tables that a claim in part leaves still have their types (`InPartType`).  A rip-up moves an entry of the list past the
current one (`RippedIs`), so that both the current message and the one ripped up
come from `pos` on, without an entity.

`SchedulerEnds` takes from `Sound` that the shortest duration is not zero, which is
why a duration that is halved gets smaller (`MinimalDurationType`: something to
send takes time, and with one slot, which comes round in every turn of the table
(`ComesRound`), it is sent in as many turns as its size), and that a rip-up happens only when there is one left.

`SlotTablesRight` has `InOrder`: while no claim has failed, `Matches` holds on every
link.  It says that a table gives a slot to message *m* at all its times if the
entity of *m* claims the slot then, and at none otherwise, and, for releases,
that tables are cut where a claim begins: `releaseSlots` finds the tables of an entity by their
start, and would leave one that begins before the frame.  A cut at a time moves nothing
(`CutKeeps`), after both cuts every table is in the frame or out of it
(`InFrameIs`), and a claim without a conflict takes slots that no one claims
(`ReserveMatches`).  A release walks from the start of the frame to the time
*after* its end, one table further than the claim went.  When the frame ends with the
period that time is 0, and a frame that stays inside the period is taken for one that
goes round.  Neither does harm, since a release frees only what is the message's own
(`NextIs`, `ReleaseMatches`).
Routes visit a link once, so that what is done link by link along a route
is one claim per link (`ClaimMatches`, `ReleasedMatches`).  `TimesIs` turns frames
into times of the period.  `Prefers` is the half about preferences.
That no entity is longer than a period (`Short`) is needed: see the findings.  It is no
hypothesis of the theorem but part of what is kept: an entity is as long as a
period or its message is in `long` (`NoneLong`), which never gets smaller
(`LongStays`), so that the proof stops, as the property does, at the first long entity.
`NeverLong` shows that there is none when every message, with one slot in each turn
of the table, is sent within a period.

Only model-checked: liveness (that an analysis or an allocation returns), the
analysis part by part, the cycle search, the repetition vector, the
cycle means and everything else recursive, the comparisons of throughput with a
homogeneous graph (the trade-offs that the exploration finds, dependencies, bound graphs), `InTimeAndOrder`, and `PolicyHasNoEffect`, which compares with a
recursive exploration.  `InTimeAndOrder` is not proved: it needs the arithmetic of
the bounds in numbers that wrap, and an invariant on the pairs of messages of a stream
through every order of claims and rip-ups.

## Findings

With a run:

* The search for cycles takes the edges of an actor out of the graph when it
  leaves it, while cycles through actors still on the path are unexplored, so
  that it does not find all of them.  Each strongly connected part still gets a marked
  cycle, so the exploration goes on; but it may then not enlarge the channel
  that matters: in a graph of three actors a trade-off is missed
  (`storage_dse_missed`).  `DependenciesComplete` and `NothingMissed` therefore
  hold for graphs of two actors and not in general.
* The list scheduler cuts the schedules at the position that the recurrent
  state has, without a test that the rest holds every actor of the tile: the
  state compared lacks the entries that are still in the ready lists.  A tile's
  periodic part can lack an actor, and the allocation is then analysed as a
  deadlock (`bound_order`).
* `mmcycle` raises the vertex key of a node outside the moved part of the tree only when
  it has one.  A node that stands for a second token on a channel has none at
  the start, is never given one, and its arcs never pivot: the result is below the maximum, or
  the heap runs empty and an assertion fails (`yto`).  On every other graph of
  the `algorithms` run YTO agrees with the rest (`ReturnsCycleMean`).

Seen on the way, without a run:

* `minimizeStorageDistributionsSet` compares a set only with the set before
  it, for equal throughput.  With channels of different step sizes a larger set
  can have a lower throughput, and stays; `OnlyTradeOffs` says for which graphs
  it does not.
* The space of a self-edge is its lower bound and is not enlarged.  With two
  tokens it admits one firing at a time, and the search ends below the maximal
  throughput; `OnlyTradeOffs` excepts these graphs.
* `findNextStorageDistributionSet` cuts the unexplored sets behind one of
  maximal throughput with the pointer it returns, so that it returns NULL for
  that set (`buffer.cc`:1500).  In the flow the fastest distributions are
  never tried when larger ones were still to be explored.  Sets below the
  maximum are returned.
* `isDeadlockFree` returns true for inconsistent graphs, against the comment at
  its last return.  The `deadlock` command of `sdf3analysis` calls it without a
  test of consistency before.
* A firing that ends inside the slice has its completion time divided with a
  floor where the turns of the wheel are counted (`tdma_schedule.cc` 437-451),
  so it can get less than its execution time; with an execution time of 0 the
  subtraction wraps.  `TilesServeOneFiring` is therefore about the firings that
  start before the slice, and bound actors have a positive time in the models.
* `minimize` does not always find the smallest repeated part (`a b a a b a`
  keeps its six entries); the sequence is the same.
  `initStaticOrderSchedules` empties a schedule and keeps its old loop-back.
  The list scheduler compares states without the positions of wheels and schedules.
* `releaseSlots` (`slot.cc`:565) takes an entity whose duration is the period and one
  more for one of a single time unit: its end, modulo the period, is the time after
  its start, so that it does not "loop around the period", and a rip-up gives back only the
  tables that begin at one of these two times.  Claims of the deleted entity stay in the
  others and their slots are lost.  It takes flits all through the period, as
  `minimalDuration` counts one time unit more than the flits need; in the instance of
  `noc` such messages are scheduled and ripped up, and claims stay behind.  The proof of
  `TablesMatchEntities` found it; the property speaks of the time until a message gets an
  entity longer than "a complete period" (`long`).
* "Message m must wait till previous message is completed"
  (`noc_scheduler.cc`:1360), but `earliestStartTime` adds its duration and not the length of
  its route.  A message on a route that is four links shorter than that of the
  one before it in the stream can arrive before that is completed.
  `InTimeAndOrder` is therefore about detours of at most `LongestDetour` links.
* "Message m must finish before next message starts arriving at destination"
  (`noc_scheduler.cc`:1402): its last flit may arrive together with the first of the next
  message, and one time unit later when a packet begins in a slot before the start of the
  frame, whose flits in the frame then make a packet with a header of their own that
  `nrSlotsRequired` does not count (slots 0 and 2 of 3, flits of 2, headers of 1, start 0, three
  units to send: four time units are needed where three were looked at).
  And the test whether the deadline or the next message bounds it (line 1392) adds the length of the route
  to the deadline, so that a message may end up to that much after its deadline.
* In the NoC scheduler: `maximalDuration` wraps below zero for a message that
  cannot begin in time, which then gets an entity beyond its deadline and out of
  order (`late`); "Slot already reserved" can be reached and leaves the links before it and a part of the
  link itself claimed; a rip-up without a conflict erases the element its
  caller stands on.  In schedulers that are not modelled: the loop of
  `random.cc` with `iter != iter` never runs, the test `nrSlots >= nrSlotsAlloc`
  of `classic.cc` is inverted, `ripupStream` erases the iterator it loops on.
  Streams link only messages that are next to each other in the file.
* In SADF: `MaximumBufferOccupancy` relies on "writes are scheduled before
  reads", but ends run in the order of the processes; the reduced analyses recurse without
  end when the observed process never fires; the parser's loops over
  subscenarios compare with `getNumberOfScenarios()`.
* `createInitialMCMgraph` gives an edge the weight of its source where its
  comment says destination (sums over cycles are the same); a cycle without tokens
  makes the search for longest paths endless, and no caller tests for it.
* A single actor without channels counts as strongly connected and is ready for
  ever; a search with bound 0 on a graph that deadlocks at every size goes on
  for ever.  Dividing by the gcd in `calcRepetitionVector` changes nothing, the
  vector is minimal before it.
* In the tile allocation: a platform without a connection between some two
  tiles is dereferenced as NULL when tiles are sorted by load; an exception in
  `updateStorageSpaceAllocation` leaves the update half done; self-edges are
  claimed twice on a tile, and skipped by the binding-aware graph.

## Limits of the models

* Integers are unbounded and throughput is an exact fraction: overflow of 64-bit
  sums, `int` gcd in `lowestTerm` and rounding of doubles (also Howard's epsilon,
  and the sums of bandwidths) are left out.  `NoCSchedule` has unsigned numbers
  of fixed width, because its durations do wrap.
* `selftimed` leaves out a single actor without input channel, for which the
  loop of starts never ends (line 467 of `selftimed_throughput.cc`).
* `storage_dse` leaves out graphs that deadlock at every size with a bound of 0
  or one by one: the search does not end there, its sets grow for ever.
* `storage_dse` compares with all distributions only for graphs of two actors
  (with three the finding shows).
* The order of actors and channels is that of their ids, except in the binding,
  where any order is taken.
* `InTimeAndOrder` is checked with detours of at most one link, and is about streams of which
  no message was ever scheduled when it could not begin in time (`late`, which is kept when the
  message it was late for is ripped up): with the wrapped durations nothing of the kind holds
  for the message itself, nor for those of its stream scheduled around it.  That other
  streams are not harmed is part of it.
* Routes of equal length are tried in any order: the code sorts by free slots.
* `noc` is one scheduling problem; slots preferred from others are an input.
* YTO is modelled with cycle means, not in the ratio form, which counts the
  levels of the tree by edges while the keys use transit times.

### Not modelled

The map covers a small share of the repository's lines, because most of them do
not change a state that a model would have: vendored and generated text, parsing, printing
(XML, HTML, dot, generated schedules and HAPI code), random generation, command lines, containers
and matrices; and because CSDF repeats the SDF analyses file by file.  Beyond that:

* static-periodic throughput: a matrix formulation over reals;
* latency, the constrained and bounded variants of the storage exploration and
  CSDF: in the plan below;
* in the tile allocation `changeBandwidthAllocation`, `changeSlotAllocation`,
  `reconstructStaticOrderSchedules` and `bindingCheck`, which rebuild or
  test what the modelled operations made; `computeTileUtilization`, which plays
  one more period to count busy time;
* the priority list scheduler (`priority_list_scheduler.cc`), which replaces the list
  scheduler only when `_CREATE_STATIC_ORDER_SCHEDULES_WITH_PRIORITIES` is defined
  (`loadbalance.cc`:42, commented out);
* the two static-periodic schedulers (`static_periodic_scheduler.cc`,
  `static_periodic_scheduler_chao.cc`), behind the commands `static_periodic_schedule`
  and `static_periodic_schedule_chao` of `sdf3analysis`: each executes the graph, or its
  homogeneous form, in a transition system of its own (`ch`, `actClk`, `glbClk`);
* the classic, random and knowledge schedulers of the network;
* in SADF the reductions for buffer occupancy, response delay and deadline
  misses, the removal of transient configurations, the equilibrium
  distribution (linear algebra over reals), and the transformations;
* the flow's handler of the communication schedule releases nothing when it fails
  for the last distribution (`flow/noc.cc`:65); nothing uses the platform after.

## Plan

Done: throughput analysis of whole graphs and parts, deadlock, repetition vector,
storage exploration, flow, binding, slices, schedules and bound graphs,
network, SADF, cycle means; with proofs: throughput analysis, deadlock, execution of storage
distributions and the search for them, flow, binding and slices, bound graphs and schedules, network, SADF.  Left, in
this order; where marked * with proofs:

1. `Binding`*: with `TileAllocation`, that an attempt returns for any finite order
   of tiles, as a measure like the one of `NoCSchedule`.
2. `Latency`: the executions with an observed pair of actors.
3. `CSDFStateSpace`: the self-timed execution with phases, refined by `SelfTimed`
   when every actor has one phase.
4. The constrained variants of the storage exploration, which hold copies of
   `dfsVisitDependencies`; the dependencies through a static order, which
   `bounded_buffer.cc` leaves out of the graph it searches.
5. `StaticPeriodic`: the two static-periodic schedulers, whose schedules the self-timed
   execution should be able to repeat.
6. The reductions of SADF for occupancy and delay; the ratio form of YTO.
