--------------------------------- MODULE SADF ---------------------------------
(***************************************************************************)
(* The operational semantics of a scenario-aware dataflow graph            *)
(* (sadf/base/tps) and its self-timed exploration                          *)
(* (SADF_ProgressTPS_ASAP): a configuration holds the state of every       *)
(* kernel and detector and the tokens of every channel; every enabled      *)
(* step of every process is taken, and time passes only when there is      *)
(* none.  Detectors pick a subscenario by a Markov chain and tell the      *)
(* processes they control through control channels, whose tokens a process *)
(* inspects when it starts to work and removes when it ends.               *)
(*                                                                         *)
(* A graph g has processes g.proc, kernels first, and channels g.chan.     *)
(* A process has the list "mode" of its scenarios (kernel) or subscenarios *)
(* (detector): the rate at every channel, the value it sends on a control  *)
(* channel, and the execution time and weight of each profile.  A detector *)
(* has a Markov chain for every scenario.  "match" gives the values that   *)
(* select a scenario of a process with several control channels.  Of a     *)
(* control channel, "runs" are the initial tokens as <<number, value>>.    *)
(* In a scenario in which a kernel is inactive all its rates are zero.     *)
(***************************************************************************)
EXTENDS Integers, Sequences

CONSTANTS Graphs,
          Never      \* SADF_MAX_DOUBLE: no execution time is as long

None == 0            \* SADF_UNDEFINED

Procs(G) == DOMAIN G.proc
Chans(G) == DOMAIN G.chan
Controls(G, p) == {k \in Chans(G) : G.chan[k].control /\ G.chan[k].dst = p}
Inputs(G, p) == {k \in Chans(G) : ~G.chan[k].control /\ G.chan[k].dst = p}
Outputs(G, p) == {k \in Chans(G) : G.chan[k].src = p}
Modes(G, p) == DOMAIN G.proc[p].mode
Unbounded(G, k) == G.chan[k].size = None

(* The runs f of a control channel hold n tokens: as many as there are      *)
(* before and in each run add up.                                          *)
Holds(f, n) ==
    \E upto \in [0..Len(f) -> 0..n] :
        /\ upto[0] = 0 /\ upto[Len(f)] = n
        /\ \A i \in 1..Len(f) : upto[i] = upto[i - 1] + f[i][1]

IsSADFGraph(G) ==
    /\ \A p \in Procs(G) :
          /\ 1 \in Modes(G, p)
          /\ \A m \in Modes(G, p) :
                LET M == G.proc[p].mode[m]
                IN  /\ M.cons \in [Chans(G) -> Nat]
                    /\ M.prod \in [Chans(G) -> Nat]
                    /\ \A i \in DOMAIN M.time : M.time[i] \in Nat /\ M.time[i] < Never
          /\ G.proc[p].detector =>
                /\ 1 \in DOMAIN G.proc[p].chain
                /\ \A s \in DOMAIN G.proc[p].chain : \A j \in DOMAIN G.proc[p].chain[s].sub :
                      G.proc[p].chain[s].sub[j] \in Modes(G, p)
    /\ None \notin UNION {Modes(G, p) : p \in Procs(G)}
    /\ \A k \in Chans(G) :
          /\ G.chan[k].src \in Procs(G)
          /\ G.chan[k].tokens \in Nat
          /\ G.chan[k].size \in Nat
          /\ Unbounded(G, k) \/ G.chan[k].tokens <= G.chan[k].size
          /\ G.chan[k].control =>
                /\ G.chan[k].runs \in Seq(Nat \X Nat)
                /\ Holds(G.chan[k].runs, G.chan[k].tokens)

ASSUME SADFGraphs == Never \in Nat /\ \A G \in Graphs : IsSADFGraph(G)

VARIABLES g,
          conf,      \* the configuration that is explored
          outcome    \* "running", or "deadlock" when the exception is thrown

vars == <<g, conf, outcome>>

-----------------------------------------------------------------------------
(* The state of a process and its remaining execution time.  A kernel      *)
(* without control channels always works in its first scenario.            *)
Status(step, sc, sub, mc, prof, rem) ==
    [step |-> step, sc |-> sc, sub |-> sub, mc |-> mc, prof |-> prof, rem |-> rem]

IsDetector(G, p) == G.proc[p].detector

Configuration(type, stat, tok, res, fifo, min) ==
    [type |-> type, stat |-> stat, tok |-> tok, res |-> res, fifo |-> fifo, min |-> min]

EndState(G, p, mc) ==
    Status("end", IF ~IsDetector(G, p) /\ Controls(G, p) = {} THEN 1 ELSE None,
           None, mc, None, Never)

InitialChain(G, p) == [s \in DOMAIN G.proc[p].chain |-> G.proc[p].chain[s].init]

InitialConfiguration(G) ==
    Configuration("end",
                  [p \in Procs(G) |-> EndState(G, p, InitialChain(G, p))],
                  [k \in Chans(G) |-> G.chan[k].tokens],
                  [k \in Chans(G) |-> 0],
                  [k \in Chans(G) |-> G.chan[k].runs],
                  Never)

(* The scenario of a kernel, the subscenario of a detector                 *)
Mode(G, p, st) == G.proc[p].mode[IF IsDetector(G, p) THEN st.sub ELSE st.sc]

-----------------------------------------------------------------------------
(* Runs of equal control tokens                                            *)

inspect(f) == f[1][2]

(* Faulty variant of write: the tokens overtake those already there.       *)
writeFront(f, n, v) == << <<n, v>> >> \o f

write(f, n, v) ==
    IF f # <<>> /\ f[Len(f)][2] = v THEN [f EXCEPT ![Len(f)] = <<@[1] + n, v>>]
                                    ELSE Append(f, <<n, v>>)

remove(f) == IF f[1][1] = 1 THEN Tail(f) ELSE [f EXCEPT ![1] = <<@[1] - 1, @[2]>>]

-----------------------------------------------------------------------------
(* What a process can do in configuration c                                *)

isReadyToFire(G, c, p) ==
    /\ c.stat[p].step = "end"
    /\ c.stat[p].sc = None
    /\ \A k \in Controls(G, p) : c.tok[k] > 0

Chosen(G, p, st) == st.step = "control" \/ st.step = "detect" \/ (st.step = "end" /\ st.sc # None)

isReadyToStart(G, c, p) ==
    /\ Chosen(G, p, c.stat[p])
    /\ LET M == Mode(G, p, c.stat[p])
       IN  /\ \A k \in Inputs(G, p) : c.tok[k] >= M.cons[k]
           /\ \A k \in Outputs(G, p) :
                 Unbounded(G, k) \/ c.tok[k] + M.prod[k] <= G.chan[k].size

isReadyToEnd(G, c, p) == c.stat[p].step = "start" /\ c.stat[p].rem <= 0

(* The values v of its control channels select scenario s of process p:    *)
(* with several channels those it is defined for, with one its own number. *)
Selects(G, p, v, s) ==
    \A k \in Controls(G, p) :
        v[k] = IF \E l, m \in Controls(G, p) : l # m THEN G.proc[p].match[s][k] ELSE s

Scenarios(G, p) == IF IsDetector(G, p) THEN DOMAIN G.proc[p].chain ELSE Modes(G, p)

(* The scenarios that the tokens at the front of the control channels      *)
(* select                                                                  *)
Fronts(G, c, p) == [k \in Controls(G, p) |-> inspect(c.fifo[k])]
Selected(G, c, p) == {s \in Scenarios(G, p) : Selects(G, p, Fronts(G, c, p), s)}

(* Whatever values the detectors that control it send, a detector has a    *)
(* scenario for them.  The parser rejects a graph in which it has not when *)
(* there is one control channel, and warns that it does not look when      *)
(* there are several; Detecting then takes the first scenario.             *)
Values(G, k) ==
    LET P == G.proc[G.chan[k].src]
    IN  {G.chan[k].runs[i][2] : i \in DOMAIN G.chan[k].runs} \cup
        {P.mode[m].val[k] : m \in DOMAIN P.mode}

ScenarioForAll(G) ==
    \A p \in {p \in Procs(G) : IsDetector(G, p)} :
        \A v \in [Controls(G, p) -> UNION {Values(G, k) : k \in Controls(G, p)}] :
            (\A k \in Controls(G, p) : v[k] \in Values(G, k)) =>
                \E s \in Scenarios(G, p) : Selects(G, p, v, s)

(* The steps: each the configurations it can lead to, with their weights   *)
Into(c, weight) == [to |-> c, weight |-> weight]

(* A step that changes the state of process p only                         *)
Becomes(c, type, p, st) ==
    Configuration(type, [c.stat EXCEPT ![p] = st], c.tok, c.res, c.fifo, c.min)

(* A kernel takes the last scenario that matches (transitions are added at *)
(* the front of the list); with none its state stays.                      *)
Controlled(G, c, p) ==
    LET S == Selected(G, c, p)
    IN  IF S = {} THEN {c.stat[p]}
        ELSE {Status("control", s, None, c.stat[p].mc, None, Never) :
                 s \in {s \in S : \A r \in S : r <= s}}

control(G, c, p) == {Into(Becomes(c, "control", p, st), 1) : st \in Controlled(G, c, p)}

(* A detector takes the first scenario that matches, or its first one, and *)
(* one step of the Markov chain of that scenario.                          *)
Detecting(G, c, p) ==
    LET S == Selected(G, c, p) IN IF S = {} THEN {1} ELSE {s \in S : \A r \in S : s <= r}

Weight(G, c, p, s, j) == G.proc[p].chain[s].next[c.stat[p].mc[s]][j]

Detected(G, c, p, s, j) ==
    Status("detect", s, G.proc[p].chain[s].sub[j], [c.stat[p].mc EXCEPT ![s] = j], None, Never)

detect(G, c, p) ==
    UNION {{Into(Becomes(c, "start", p, Detected(G, c, p, s, j)), Weight(G, c, p, s, j)) :
               j \in {j \in DOMAIN G.proc[p].chain[s].sub : Weight(G, c, p, s, j) > 0}} :
               s \in Detecting(G, c, p)}

(* Faulty variant of Earlier: a shorter time is not looked for.            *)
EarlierIfNone(time, min) == IF time > 0 /\ min = Never THEN time ELSE min

(* The smallest remaining time after a start                               *)
Earlier(time, min) == IF time > 0 /\ time < min THEN time ELSE min

(* Faulty variant of Reserved: the space of the rate of the other port.    *)
ReservedAtInput(G, c, p, M) ==
    [k \in Chans(G) |-> IF G.chan[k].src = p THEN c.res[k] + M.cons[k] ELSE c.res[k]]

Reserved(G, c, p, M) ==
    [k \in Chans(G) |-> IF G.chan[k].src = p THEN c.res[k] + M.prod[k] ELSE c.res[k]]

Started(st, M, i) == Status("start", st.sc, st.sub, st.mc, i, M.time[i])

start(G, c, p) ==
    LET M == Mode(G, p, c.stat[p])
    IN  {Into(Configuration("start", [c.stat EXCEPT ![p] = Started(@, M, i)],
                            c.tok, Reserved(G, c, p, M), c.fifo, Earlier(M.time[i], c.min)),
              M.weight[i]) : i \in DOMAIN M.time}

Taken(G, p, M, k) ==
    IF G.chan[k].dst # p THEN 0 ELSE IF G.chan[k].control THEN 1 ELSE M.cons[k]

Written(G, p, M, k) == IF G.chan[k].src = p THEN M.prod[k] ELSE 0

(* Control tokens are removed and input tokens consumed before the output  *)
(* is written.                                                             *)
Ended(G, p, M, fifo, k) ==
    LET f == IF G.chan[k].dst = p THEN remove(fifo) ELSE fifo
    IN  IF ~G.chan[k].control THEN fifo
        ELSE IF G.chan[k].src = p THEN write(f, M.prod[k], M.val[k]) ELSE f

end(G, c, p) ==
    LET M == Mode(G, p, c.stat[p])
    IN  {Into(Configuration("end", [c.stat EXCEPT ![p] = EndState(G, p, @.mc)],
                            [k \in Chans(G) |-> c.tok[k] - Taken(G, p, M, k) + Written(G, p, M, k)],
                            [k \in Chans(G) |-> c.res[k] - Written(G, p, M, k)],
                            [k \in Chans(G) |-> Ended(G, p, M, c.fifo[k], k)],
                            c.min), 1)}

(* Time passes until the first remaining time is over.                     *)
Remaining(c, st) == IF st.step = "start" /\ st.rem > c.min THEN st.rem - c.min
                    ELSE IF st.step = "start" THEN 0 ELSE st.rem

Aged(c, st) == Status(st.step, st.sc, st.sub, st.mc, st.prof, Remaining(c, st))

FirstEnd(stat) ==
    LET left == {stat[p].rem : p \in {p \in DOMAIN stat : stat[p].step = "start" /\ stat[p].rem > 0}}
    IN  IF left = {} THEN Never ELSE CHOOSE r \in left : \A s \in left : r <= s

time(G, c) ==
    LET stat == [p \in Procs(G) |-> Aged(c, c.stat[p])]
    IN  Configuration("time", stat, c.tok, c.res, c.fifo, FirstEnd(stat))

-----------------------------------------------------------------------------
(* Everything process p can do in c                                        *)
Steps(G, c, p) ==
    CASE isReadyToFire(G, c, p)  -> IF IsDetector(G, p) THEN detect(G, c, p) ELSE control(G, c, p)
      [] isReadyToStart(G, c, p) -> start(G, c, p)
      [] isReadyToEnd(G, c, p)   -> end(G, c, p)
      [] OTHER                   -> {}

ActionPossible(G, c) ==
    \E p \in Procs(G) : isReadyToFire(G, c, p) \/ isReadyToStart(G, c, p) \/ isReadyToEnd(G, c, p)

HasDeadlock(c) == c.type = "time" \/ c.min = Never

Init == g \in Graphs /\ conf = InitialConfiguration(g) /\ outcome = "running"

Progress(S) == conf' \in {t.to : t \in S}

Fire(p) ==
    /\ outcome = "running"
    /\ isReadyToFire(g, conf, p)
    /\ Progress(IF IsDetector(g, p) THEN detect(g, conf, p) ELSE control(g, conf, p))
    /\ UNCHANGED <<g, outcome>>

Start(p) ==
    /\ outcome = "running"
    /\ isReadyToStart(g, conf, p)
    /\ Progress(start(g, conf, p))
    /\ UNCHANGED <<g, outcome>>

End(p) ==
    /\ outcome = "running"
    /\ isReadyToEnd(g, conf, p)
    /\ Progress(end(g, conf, p))
    /\ UNCHANGED <<g, outcome>>

Time ==
    /\ outcome = "running"
    /\ ~ActionPossible(g, conf)
    /\ ~HasDeadlock(conf)
    /\ conf' = time(g, conf)
    /\ UNCHANGED <<g, outcome>>

Deadlock ==
    /\ outcome = "running"
    /\ ~ActionPossible(g, conf)
    /\ HasDeadlock(conf)
    /\ outcome' = "deadlock"
    /\ UNCHANGED <<g, conf>>

Next == \/ \E p \in Procs(g) : Fire(p) \/ Start(p) \/ End(p)
        \/ Time
        \/ Deadlock

Spec == Init /\ [][Next]_vars

-----------------------------------------------------------------------------
(* What a process holds reserved on its output channels                    *)
Claim(G, c, k) ==
    LET st == c.stat[G.chan[k].src]
    IN  IF st.step = "start" THEN Mode(G, G.chan[k].src, st).prod[k] ELSE 0

(* The reserved locations of a channel are those of the firing its writer  *)
(* is in, so two configurations that agree on the processes agree on them  *)
(* (the comparison leaves them out), and reserved locations and tokens     *)
(* together never exceed the size of the buffer, although only the tokens  *)
(* are looked at when a process starts.                                    *)
ReservedByWriter ==
    \A k \in Chans(g) :
        /\ conf.res[k] = Claim(g, conf, k)
        /\ Unbounded(g, k) \/ conf.tok[k] + conf.res[k] <= g.chan[k].size

(* From the moment a controlled process has chosen its scenario until it   *)
(* ends, the tokens at the front of its control channels are the ones it   *)
(* chose by, whatever is written behind them: it never ends on tokens      *)
(* other than those it worked for.                                         *)
WorksOnFront ==
    \A p \in Procs(g) :
        LET st == conf.stat[p]
        IN  Controls(g, p) # {} /\ st.step # "end" =>
                /\ \A k \in Controls(g, p) : conf.tok[k] > 0 /\ conf.fifo[k] # <<>>
                /\ st.sc \in Selected(g, conf, p)

(* The time step kept up to date by starts, and computed anew only when    *)
(* time passes, is that to the first end of a firing, and a deadlock is    *)
(* reported only when nothing is firing.                                   *)
Left == {conf.stat[p].rem : p \in {p \in Procs(g) : conf.stat[p].step = "start"}}

StepsToNextEnd ==
    /\ conf.min \in (Left \ {0}) \cup {Never} /\ \A r \in Left \ {0} : conf.min <= r
    /\ outcome = "deadlock" => Left = {}
=============================================================================
