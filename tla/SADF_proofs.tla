------------------------------ MODULE SADF_proofs ------------------------------
(***************************************************************************)
(* What the comparison of configurations relies on, for every set of       *)
(* scenario-aware graphs: reserved locations follow from the states of the *)
(* processes, and buffers are never exceeded.                              *)
(***************************************************************************)
EXTENDS SADF, WellFoundedInduction, TLAPS

(* A process that has chosen what to do has one of its modes.              *)
InMode(G, p, st) ==
    Chosen(G, p, st) \/ st.step = "start" =>
        (IF IsDetector(G, p) THEN st.sub ELSE st.sc) \in Modes(G, p)

WellFormed(G, c) ==
    /\ c.stat = [p \in Procs(G) |-> c.stat[p]]
    /\ c.tok \in [Chans(G) -> Int]
    /\ c.res \in [Chans(G) -> Int]
    /\ \A p \in Procs(G) : InMode(G, p, c.stat[p])

Inv == g \in Graphs /\ WellFormed(g, conf) /\ ReservedByWriter

LEMMA GraphType ==
    ASSUME NEW G \in Graphs
    PROVE  /\ \A p \in Procs(G) : 1 \in Modes(G, p)
           /\ \A p \in Procs(G) : \A m \in Modes(G, p) :
                 /\ G.proc[p].mode[m].cons \in [Chans(G) -> Nat]
                 /\ G.proc[p].mode[m].prod \in [Chans(G) -> Nat]
           /\ \A p \in Procs(G) : IsDetector(G, p) =>
                 /\ 1 \in DOMAIN G.proc[p].chain
                 /\ \A s \in DOMAIN G.proc[p].chain : \A j \in DOMAIN G.proc[p].chain[s].sub :
                       G.proc[p].chain[s].sub[j] \in Modes(G, p)
           /\ \A k \in Chans(G) :
                 /\ G.chan[k].src \in Procs(G)
                 /\ G.chan[k].tokens \in Nat
                 /\ G.chan[k].size \in Nat
                 /\ Unbounded(G, k) \/ G.chan[k].tokens <= G.chan[k].size
BY SADFGraphs DEF IsSADFGraph, IsDetector

(* The rates of the mode a process is in                                   *)
LEMMA ModeType ==
    ASSUME NEW G \in Graphs, NEW p \in Procs(G), NEW st, InMode(G, p, st),
           Chosen(G, p, st) \/ st.step = "start"
    PROVE  /\ Mode(G, p, st).cons \in [Chans(G) -> Nat]
           /\ Mode(G, p, st).prod \in [Chans(G) -> Nat]
<1>1. (IF IsDetector(G, p) THEN st.sub ELSE st.sc) \in Modes(G, p)
  BY DEF InMode
<1> QED
  BY <1>1, GraphType DEF Mode

LEMMA TimesType ==
    ASSUME NEW G \in Graphs, NEW p \in Procs(G), NEW st, InMode(G, p, st), Chosen(G, p, st),
           NEW i \in DOMAIN Mode(G, p, st).time
    PROVE  Mode(G, p, st).time[i] \in Nat /\ Mode(G, p, st).time[i] < Never
<1>1. (IF IsDetector(G, p) THEN st.sub ELSE st.sc) \in Modes(G, p)
  BY DEF InMode
<1> QED
  BY <1>1, SADFGraphs DEF Mode, IsSADFGraph

(* An ended process has no claim.                                          *)
LEMMA EndStateType ==
    ASSUME NEW G \in Graphs, NEW p \in Procs(G), NEW mc
    PROVE  InMode(G, p, EndState(G, p, mc)) /\ EndState(G, p, mc).step = "end"
<1>1. 1 \in Modes(G, p)
  BY GraphType
<1>2. /\ EndState(G, p, mc).step = "end"
      /\ EndState(G, p, mc).sc = IF ~IsDetector(G, p) /\ Controls(G, p) = {} THEN 1 ELSE None
  BY DEF EndState, Status
<1>3. CASE IsDetector(G, p)
  BY <1>2, <1>3 DEF InMode, Chosen
<1>4. CASE ~IsDetector(G, p)
  BY <1>1, <1>2, <1>4 DEF InMode, Chosen
<1> QED
  BY <1>2, <1>3, <1>4

LEMMA InitInv == Init => Inv
<1> SUFFICES ASSUME Init PROVE Inv
  OBVIOUS
<1>1. g \in Graphs /\ conf = InitialConfiguration(g)
  BY DEF Init
<1>2. /\ conf.stat = [p \in Procs(g) |-> EndState(g, p, InitialChain(g, p))]
      /\ conf.tok = [k \in Chans(g) |-> g.chan[k].tokens]
      /\ conf.res = [k \in Chans(g) |-> 0]
  BY <1>1 DEF InitialConfiguration, Configuration
<1>3. \A p \in Procs(g) : InMode(g, p, conf.stat[p]) /\ conf.stat[p].step = "end"
  BY <1>1, <1>2, EndStateType
<1>4. \A k \in Chans(g) : g.chan[k].tokens \in Nat
  BY <1>1, GraphType
<1>5. WellFormed(g, conf)
  BY <1>2, <1>3, <1>4 DEF WellFormed
<1>6. ReservedByWriter
  <2> SUFFICES ASSUME NEW k \in Chans(g)
               PROVE  /\ conf.res[k] = Claim(g, conf, k)
                      /\ Unbounded(g, k) \/ conf.tok[k] + conf.res[k] <= g.chan[k].size
    BY DEF ReservedByWriter
  <2>1. g.chan[k].src \in Procs(g)
    BY <1>1, GraphType
  <2>2. conf.stat[g.chan[k].src].step # "start"
    BY <1>3, <2>1
  <2>3. conf.res[k] = 0 /\ conf.tok[k] = g.chan[k].tokens
    BY <1>2
  <2>4. Claim(g, conf, k) = 0
    BY <2>2 DEF Claim
  <2>5. Unbounded(g, k) \/ g.chan[k].tokens <= g.chan[k].size
    BY <1>1, GraphType
  <2> QED
    BY <1>4, <2>3, <2>4, <2>5
<1> QED
  BY <1>1, <1>5, <1>6 DEF Inv

(* A step that changes only the state of one process, from one without a   *)
(* claim to another without, preserves the invariant.                      *)
LEMMA NoClaimInv ==
    ASSUME Inv, NEW p \in Procs(g), NEW st, NEW type,
           InMode(g, p, st), st.step # "start", conf.stat[p].step # "start",
           g' = g, conf' = Becomes(conf, type, p, st)
    PROVE  Inv'
<1>1. g \in Graphs /\ WellFormed(g, conf) /\ ReservedByWriter
  BY DEF Inv
<1>2. /\ conf'.stat = [conf.stat EXCEPT ![p] = st]
      /\ conf'.tok = conf.tok /\ conf'.res = conf.res
  BY DEF Becomes, Configuration
<1>3. /\ conf'.stat = [q \in Procs(g) |-> conf'.stat[q]]
      /\ \A q \in Procs(g) : conf'.stat[q] = IF q = p THEN st ELSE conf.stat[q]
  BY <1>1, <1>2 DEF WellFormed
<1>4. WellFormed(g, conf')
  BY <1>1, <1>2, <1>3 DEF WellFormed
<1>5. ReservedByWriter'
  <2> SUFFICES ASSUME NEW k \in Chans(g)
               PROVE  /\ conf'.res[k] = Claim(g, conf', k)
                      /\ Unbounded(g, k) \/ conf'.tok[k] + conf'.res[k] <= g.chan[k].size
    BY DEF ReservedByWriter
  <2>1. g.chan[k].src \in Procs(g)
    BY <1>1, GraphType
  <2>2. Claim(g, conf', k) = Claim(g, conf, k)
    BY <1>3, <2>1 DEF Claim
  <2> QED
    BY <1>1, <1>2, <2>2 DEF ReservedByWriter
<1> QED
  BY <1>1, <1>4, <1>5 DEF Inv

(* A process that chooses what to do chooses one of its modes.             *)
LEMMA FireInv ==
    ASSUME Inv, NEW p \in Procs(g), Fire(p)
    PROVE  Inv'
<1>1. g \in Graphs /\ WellFormed(g, conf) /\ g' = g
  BY DEF Inv, Fire
<1>2. conf.stat[p].step # "start" /\ InMode(g, p, conf.stat[p])
  BY <1>1 DEF Fire, isReadyToFire, WellFormed
<1>3. CASE IsDetector(g, p)
  <2>1. PICK s \in Detecting(g, conf, p) : \E j \in DOMAIN g.proc[p].chain[s].sub :
             conf' = Becomes(conf, "start", p, Detected(g, conf, p, s, j))
    BY <1>3 DEF Fire, Progress, detect, Into
  <2>2. PICK j \in DOMAIN g.proc[p].chain[s].sub :
             conf' = Becomes(conf, "start", p, Detected(g, conf, p, s, j))
    BY <2>1
  <2> DEFINE st == Detected(g, conf, p, s, j)
  <2>3. st.step = "detect" /\ st.sub = g.proc[p].chain[s].sub[j]
    BY DEF Detected, Status
  <2>4. s \in DOMAIN g.proc[p].chain
    BY <1>1, <1>3, GraphType DEF Detecting, Selected, Scenarios
  <2>5. st.sub \in Modes(g, p)
    BY <1>1, <1>3, <2>3, <2>4, GraphType
  <2>6. InMode(g, p, st)
    BY <1>3, <2>5 DEF InMode
  <2> QED
    BY <1>1, <1>2, <2>2, <2>3, <2>6, NoClaimInv
<1>4. CASE ~IsDetector(g, p)
  <2>1. PICK st \in Controlled(g, conf, p) : conf' = Becomes(conf, "control", p, st)
    BY <1>4 DEF Fire, Progress, control, Into
  <2>2. CASE Selected(g, conf, p) = {}
    <3>1. st = conf.stat[p]
      BY <2>2 DEF Controlled
    <3> QED
      BY <1>1, <1>2, <2>1, <3>1, NoClaimInv
  <2>3. CASE Selected(g, conf, p) # {}
    <3>1. PICK m \in Selected(g, conf, p) :
               st = Status("control", m, None, conf.stat[p].mc, None, Never)
      BY <2>3 DEF Controlled
    <3>2. st.step = "control" /\ st.sc = m
      BY <3>1 DEF Status
    <3>3. m \in Modes(g, p)
      BY <1>4 DEF Selected, Scenarios
    <3>4. InMode(g, p, st)
      BY <1>4, <3>2, <3>3 DEF InMode
    <3> QED
      BY <1>1, <1>2, <2>1, <3>2, <3>4, NoClaimInv
  <2> QED
    BY <2>2, <2>3
<1> QED
  BY <1>3, <1>4

(* A process that starts reserves what it will write, which fits as it had *)
(* nothing reserved and looked at the tokens.                              *)
LEMMA StartInv ==
    ASSUME Inv, NEW p \in Procs(g), Start(p)
    PROVE  Inv'
<1> DEFINE M == Mode(g, p, conf.stat[p])
<1>1. /\ g \in Graphs /\ WellFormed(g, conf) /\ ReservedByWriter /\ g' = g
      /\ isReadyToStart(g, conf, p) /\ InMode(g, p, conf.stat[p])
  BY DEF Inv, Start, WellFormed
<1>2. M.prod \in [Chans(g) -> Nat]
  BY <1>1, ModeType DEF isReadyToStart
<1>3. PICK i \in DOMAIN M.time :
           conf' = Configuration("start", [conf.stat EXCEPT ![p] = Started(@, M, i)],
                                 conf.tok, Reserved(g, conf, p, M), conf.fifo,
                                 Earlier(M.time[i], conf.min))
  BY DEF Start, Progress, start, Into
<1> DEFINE st == Started(conf.stat[p], M, i)
<1>4. /\ conf'.stat = [conf.stat EXCEPT ![p] = st]
      /\ conf'.tok = conf.tok
      /\ conf'.res = Reserved(g, conf, p, M)
  BY <1>3 DEF Configuration
<1>5. st.step = "start" /\ st.sc = conf.stat[p].sc /\ st.sub = conf.stat[p].sub
  BY DEF Started, Status
<1>6. Mode(g, p, st) = M /\ InMode(g, p, st)
  BY <1>1, <1>5 DEF Mode, InMode, isReadyToStart
<1>7. /\ conf'.stat = [q \in Procs(g) |-> conf'.stat[q]]
      /\ \A q \in Procs(g) : conf'.stat[q] = IF q = p THEN st ELSE conf.stat[q]
  BY <1>1, <1>4 DEF WellFormed
<1>8. \A k \in Chans(g) :
         conf'.res[k] = IF g.chan[k].src = p THEN conf.res[k] + M.prod[k] ELSE conf.res[k]
  BY <1>4 DEF Reserved
<1>9. conf'.res \in [Chans(g) -> Int]
  BY <1>1, <1>2, <1>4 DEF Reserved, WellFormed
<1>10. WellFormed(g, conf')
  BY <1>1, <1>4, <1>6, <1>7, <1>9 DEF WellFormed
<1>11. ReservedByWriter'
  <2> SUFFICES ASSUME NEW k \in Chans(g)
               PROVE  /\ conf'.res[k] = Claim(g, conf', k)
                      /\ Unbounded(g, k) \/ conf'.tok[k] + conf'.res[k] <= g.chan[k].size
    BY <1>1 DEF ReservedByWriter
  <2>1. /\ g.chan[k].src \in Procs(g)
        /\ conf.tok[k] \in Int /\ conf.res[k] \in Int /\ M.prod[k] \in Nat
        /\ g.chan[k].size \in Nat
    BY <1>1, <1>2, GraphType DEF WellFormed
  <2>2. /\ conf.res[k] = Claim(g, conf, k)
        /\ Unbounded(g, k) \/ conf.tok[k] + conf.res[k] <= g.chan[k].size
    BY <1>1 DEF ReservedByWriter
  <2>3. CASE g.chan[k].src = p
    <3>1. conf.stat[p].step # "start"
      BY <1>1 DEF isReadyToStart, Chosen
    <3>2. conf.res[k] = 0
      BY <2>2, <2>3, <3>1 DEF Claim
    <3>3. Unbounded(g, k) \/ conf.tok[k] + M.prod[k] <= g.chan[k].size
      BY <1>1, <2>3 DEF isReadyToStart, Outputs
    <3>4. Claim(g, conf', k) = M.prod[k]
      BY <1>5, <1>6, <1>7, <2>3 DEF Claim
    <3> QED
      BY <1>4, <1>8, <2>1, <2>3, <3>2, <3>3, <3>4
  <2>4. CASE g.chan[k].src # p
    <3>1. Claim(g, conf', k) = Claim(g, conf, k)
      BY <1>7, <2>1, <2>4 DEF Claim
    <3> QED
      BY <1>4, <1>8, <2>2, <2>4, <3>1
  <2> QED
    BY <2>3, <2>4
<1> QED
  BY <1>1, <1>10, <1>11 DEF Inv

(* A process that ends turns what it had reserved into tokens.             *)
LEMMA EndInv ==
    ASSUME Inv, NEW p \in Procs(g), End(p)
    PROVE  Inv'
<1> DEFINE M == Mode(g, p, conf.stat[p])
           st == EndState(g, p, conf.stat[p].mc)
<1>1. /\ g \in Graphs /\ WellFormed(g, conf) /\ ReservedByWriter /\ g' = g
      /\ conf.stat[p].step = "start" /\ InMode(g, p, conf.stat[p])
  BY DEF Inv, End, WellFormed, isReadyToEnd
<1>2. M.prod \in [Chans(g) -> Nat] /\ M.cons \in [Chans(g) -> Nat]
  BY <1>1, ModeType
<1>3. /\ conf'.stat = [conf.stat EXCEPT ![p] = st]
      /\ conf'.tok = [k \in Chans(g) |->
                         conf.tok[k] - Taken(g, p, M, k) + Written(g, p, M, k)]
      /\ conf'.res = [k \in Chans(g) |-> conf.res[k] - Written(g, p, M, k)]
  BY DEF End, Progress, end, Into, Configuration
<1>4. st.step = "end" /\ InMode(g, p, st)
  BY <1>1, EndStateType
<1>5. /\ conf'.stat = [q \in Procs(g) |-> conf'.stat[q]]
      /\ \A q \in Procs(g) : conf'.stat[q] = IF q = p THEN st ELSE conf.stat[q]
  BY <1>1, <1>3 DEF WellFormed
<1>6. \A k \in Chans(g) : Taken(g, p, M, k) \in Nat /\ Written(g, p, M, k) \in Nat
  BY <1>2 DEF Taken, Written
<1>7. \A k \in Chans(g) : conf.tok[k] \in Int /\ conf.res[k] \in Int
  BY <1>1 DEF WellFormed
<1>8. conf'.tok \in [Chans(g) -> Int] /\ conf'.res \in [Chans(g) -> Int]
  BY <1>3, <1>6, <1>7
<1>9. WellFormed(g, conf')
  BY <1>1, <1>4, <1>5, <1>8 DEF WellFormed
<1>10. ReservedByWriter'
  <2> SUFFICES ASSUME NEW k \in Chans(g)
               PROVE  /\ conf'.res[k] = Claim(g, conf', k)
                      /\ Unbounded(g, k) \/ conf'.tok[k] + conf'.res[k] <= g.chan[k].size
    BY <1>1 DEF ReservedByWriter
  <2>1. g.chan[k].src \in Procs(g) /\ g.chan[k].size \in Nat
    BY <1>1, GraphType
  <2>2. /\ conf.res[k] = Claim(g, conf, k)
        /\ Unbounded(g, k) \/ conf.tok[k] + conf.res[k] <= g.chan[k].size
    BY <1>1 DEF ReservedByWriter
  <2>3. /\ conf'.tok[k] = conf.tok[k] - Taken(g, p, M, k) + Written(g, p, M, k)
        /\ conf'.res[k] = conf.res[k] - Written(g, p, M, k)
    BY <1>3
  <2>4. Unbounded(g, k) \/ conf'.tok[k] + conf'.res[k] <= g.chan[k].size
    BY <1>6, <1>7, <2>1, <2>2, <2>3
  <2>5. CASE g.chan[k].src = p
    <3>1. conf.res[k] = M.prod[k] /\ Written(g, p, M, k) = M.prod[k]
      BY <1>1, <2>2, <2>5 DEF Claim, Written
    <3>2. Claim(g, conf', k) = 0
      BY <1>4, <1>5, <2>1, <2>5 DEF Claim
    <3>3. conf'.res[k] = 0
      BY <1>7, <2>3, <3>1
    <3> QED
      BY <2>4, <3>2, <3>3
  <2>6. CASE g.chan[k].src # p
    <3>1. Claim(g, conf', k) = Claim(g, conf, k)
      BY <1>5, <2>1, <2>6 DEF Claim
    <3>2. Written(g, p, M, k) = 0
      BY <2>6 DEF Written
    <3>3. conf'.res[k] = conf.res[k]
      BY <1>7, <2>3, <3>2
    <3> QED
      BY <2>2, <2>4, <3>1, <3>3
  <2> QED
    BY <2>5, <2>6
<1> QED
  BY <1>1, <1>9, <1>10 DEF Inv

(* Time changes neither what processes are doing nor the channels.         *)
LEMMA TimeInv ==
    ASSUME Inv, Time
    PROVE  Inv'
<1>1. g \in Graphs /\ WellFormed(g, conf) /\ ReservedByWriter /\ g' = g
  BY DEF Inv, Time
<1>2. /\ conf'.stat = [q \in Procs(g) |-> Aged(conf, conf.stat[q])]
      /\ conf'.tok = conf.tok /\ conf'.res = conf.res
  BY DEF Time, time, Configuration
<1>3. \A q \in Procs(g) : /\ conf'.stat[q].step = conf.stat[q].step
                          /\ conf'.stat[q].sc = conf.stat[q].sc
                          /\ conf'.stat[q].sub = conf.stat[q].sub
  BY <1>2 DEF Aged, Status
<1>4. \A q \in Procs(g) : InMode(g, q, conf.stat[q])
  BY <1>1 DEF WellFormed
<1>5. \A q \in Procs(g) : InMode(g, q, conf'.stat[q])
  BY <1>3, <1>4 DEF InMode, Chosen
<1>6. WellFormed(g, conf')
  BY <1>1, <1>2, <1>5 DEF WellFormed
<1>7. ReservedByWriter'
  <2> SUFFICES ASSUME NEW k \in Chans(g)
               PROVE  /\ conf'.res[k] = Claim(g, conf', k)
                      /\ Unbounded(g, k) \/ conf'.tok[k] + conf'.res[k] <= g.chan[k].size
    BY <1>1 DEF ReservedByWriter
  <2>1. g.chan[k].src \in Procs(g)
    BY <1>1, GraphType
  <2>2. Claim(g, conf', k) = Claim(g, conf, k)
    BY <1>3, <2>1 DEF Claim, Mode
  <2> QED
    BY <1>1, <1>2, <2>2 DEF ReservedByWriter
<1> QED
  BY <1>1, <1>6, <1>7 DEF Inv

LEMMA NextInv == Inv /\ [Next]_vars => Inv'
<1> SUFFICES ASSUME Inv, [Next]_vars PROVE Inv'
  OBVIOUS
<1>1. ASSUME NEW p \in Procs(g), Fire(p) \/ Start(p) \/ End(p) PROVE Inv'
  BY <1>1, FireInv, StartInv, EndInv
<1>2. CASE Time
  BY <1>2, TimeInv
<1>3. ASSUME g' = g, conf' = conf PROVE Inv'
  BY <1>3 DEF Inv, ReservedByWriter, Claim
<1>4. CASE Deadlock
  BY <1>3, <1>4 DEF Deadlock
<1>5. CASE UNCHANGED vars
  BY <1>3, <1>5 DEF vars
<1> QED
  BY <1>1, <1>2, <1>4, <1>5 DEF Next

(* In every execution of every scenario-aware graph the reserved locations *)
(* of a channel are those of the firing of its writer, and together with   *)
(* the tokens they fit its buffer.                                         *)
THEOREM Reservations == Spec => []ReservedByWriter
<1>1. Inv => ReservedByWriter
  BY DEF Inv
<1> QED
  BY <1>1, InitInv, NextInv, PTL DEF Spec

-----------------------------------------------------------------------------
(* The next end.  Remaining times are numbers below Never, and right after *)
(* time has passed a firing has none left, so that the exploration does    *)
(* not take the step of time for a deadlock.                               *)
Firing == {p \in Procs(g) : conf.stat[p].step = "start"}

Timed ==
    /\ \A p \in Firing : conf.stat[p].rem \in Nat /\ conf.stat[p].rem < Never
    /\ conf.type = "time" => 0 \in Left

InvTime == Inv /\ Timed /\ StepsToNextEnd

(* A set of numbers has a smallest one.                                    *)
LEMMA Smallest ==
    ASSUME NEW S \in SUBSET Nat, S # {}
    PROVE  \E r \in S : \A s \in S : r <= s
<1>1. PICK r \in S : \A s \in S : <<s, r>> \notin OpToRel(<, Nat)
  <2>1. IsWellFoundedOn(OpToRel(<, Nat), Nat)
    BY NatLessThanWellFounded
  <2> QED
    BY <2>1, WFMin
<1>2. \A s \in S : ~(s < r)
  BY <1>1 DEF OpToRel
<1> QED
  BY <1>2

LEMMA LeftType ==
    ASSUME Timed
    PROVE  /\ Left \in SUBSET Nat
           /\ \A r \in Left : r < Never
           /\ Left = {conf.stat[p].rem : p \in Firing}
BY DEF Timed, Left, Firing

LEMMA InitTime == Init => InvTime
<1> SUFFICES ASSUME Init PROVE InvTime
  OBVIOUS
<1>1. /\ conf = InitialConfiguration(g) /\ outcome = "running" /\ g \in Graphs
      /\ Inv
  BY InitInv DEF Init
<1>2. /\ conf.stat = [p \in Procs(g) |-> EndState(g, p, InitialChain(g, p))]
      /\ conf.type = "end" /\ conf.min = Never
  BY <1>1 DEF InitialConfiguration, Configuration
<1>3. Firing = {} /\ Left = {}
  BY <1>2 DEF Firing, Left, EndState, Status
<1> QED
  BY <1>1, <1>2, <1>3 DEF InvTime, Timed, StepsToNextEnd

(* A step between states without a remaining time leaves them as they are. *)
LEMMA SameLeft ==
    ASSUME InvTime, outcome = "running", NEW p \in Procs(g), NEW st, NEW type,
           st.step # "start", conf.stat[p].step # "start", type # "time",
           g' = g, outcome' = outcome, conf' = Becomes(conf, type, p, st), Inv'
    PROVE  InvTime'
<1>1. conf.stat = [q \in Procs(g) |-> conf.stat[q]]
  BY DEF InvTime, Inv, WellFormed
<1>2. /\ conf'.stat = [conf.stat EXCEPT ![p] = st]
      /\ conf'.type = type /\ conf'.min = conf.min
  BY DEF Becomes, Configuration
<1>3. \A q \in Procs(g) : conf'.stat[q] = IF q = p THEN st ELSE conf.stat[q]
  BY <1>1, <1>2
<1>4. Firing' = Firing /\ \A q \in Firing : conf'.stat[q] = conf.stat[q]
  BY <1>3 DEF Firing
<1>5. Left' = Left
  BY <1>3 DEF Left
<1> QED
  BY <1>2, <1>4, <1>5 DEF InvTime, Timed, StepsToNextEnd

LEMMA FireTime ==
    ASSUME InvTime, NEW p \in Procs(g), Fire(p)
    PROVE  InvTime'
<1>1. /\ g' = g /\ outcome = "running" /\ outcome' = outcome
      /\ conf.stat[p].step # "start" /\ Inv'
  BY FireInv DEF Fire, isReadyToFire, InvTime
<1>2. CASE IsDetector(g, p)
  <2>1. PICK s \in Detecting(g, conf, p) : \E j \in DOMAIN g.proc[p].chain[s].sub :
             conf' = Becomes(conf, "start", p, Detected(g, conf, p, s, j))
    BY <1>2 DEF Fire, Progress, detect, Into
  <2>2. PICK j \in DOMAIN g.proc[p].chain[s].sub :
             conf' = Becomes(conf, "start", p, Detected(g, conf, p, s, j))
    BY <2>1
  <2>3. Detected(g, conf, p, s, j).step # "start"
    BY DEF Detected, Status
  <2> QED
    BY <1>1, <2>2, <2>3, SameLeft
<1>3. CASE ~IsDetector(g, p)
  <2>1. PICK st \in Controlled(g, conf, p) : conf' = Becomes(conf, "control", p, st)
    BY <1>3 DEF Fire, Progress, control, Into
  <2>2. st.step # "start"
    BY <1>1, <2>1 DEF Controlled, Status
  <2> QED
    BY <1>1, <2>1, <2>2, SameLeft
<1> QED
  BY <1>2, <1>3

(* A start adds its time to the times left, and to the time step if it is  *)
(* the first to end.                                                       *)
LEMMA StartTime ==
    ASSUME InvTime, NEW p \in Procs(g), Start(p)
    PROVE  InvTime'
<1> DEFINE M == Mode(g, p, conf.stat[p])
<1>1. /\ g' = g /\ g \in Graphs /\ outcome = "running" /\ outcome' = outcome
      /\ isReadyToStart(g, conf, p) /\ InMode(g, p, conf.stat[p])
      /\ Chosen(g, p, conf.stat[p]) /\ Inv'
      /\ conf.stat = [q \in Procs(g) |-> conf.stat[q]]
  BY StartInv DEF InvTime, Inv, Start, WellFormed, isReadyToStart
<1>2. PICK i \in DOMAIN M.time :
           conf' = Configuration("start", [conf.stat EXCEPT ![p] = Started(@, M, i)],
                                 conf.tok, Reserved(g, conf, p, M), conf.fifo,
                                 Earlier(M.time[i], conf.min))
  BY DEF Start, Progress, start, Into
<1> DEFINE st == Started(conf.stat[p], M, i)
<1>3. /\ conf'.stat = [conf.stat EXCEPT ![p] = st]
      /\ conf'.type = "start" /\ conf'.min = Earlier(M.time[i], conf.min)
  BY <1>2 DEF Configuration
<1>4. st.step = "start" /\ st.rem = M.time[i]
  BY DEF Started, Status
<1>5. M.time[i] \in Nat /\ M.time[i] < Never
  BY <1>1, TimesType
<1>6. conf.stat[p].step # "start"
  BY <1>1 DEF Chosen
<1>7. \A q \in Procs(g) : conf'.stat[q] = IF q = p THEN st ELSE conf.stat[q]
  BY <1>1, <1>3
<1>8. Firing' = Firing \cup {p} /\ p \notin Firing
  BY <1>1, <1>4, <1>6, <1>7 DEF Firing
<1>9. Left' = Left \cup {M.time[i]}
  <2>1. Left = {conf.stat[q].rem : q \in Firing} /\ Left' = {conf'.stat[q].rem : q \in Firing'}
    BY DEF Left, Firing
  <2>2. \A q \in Firing : conf'.stat[q].rem = conf.stat[q].rem
    BY <1>7, <1>8 DEF Firing
  <2>3. conf'.stat[p].rem = M.time[i]
    BY <1>4, <1>7
  <2> QED
    BY <1>8, <2>1, <2>2, <2>3
<1>10. Timed'
  <2>1. \A q \in Firing' : conf'.stat[q].rem \in Nat /\ conf'.stat[q].rem < Never
    BY <1>4, <1>5, <1>7, <1>8 DEF InvTime, Timed, Firing
  <2> QED
    BY <1>3, <2>1 DEF Timed
<1>11. StepsToNextEnd'
  <2>1. /\ Left \in SUBSET Nat /\ conf.min \in (Left \ {0}) \cup {Never}
        /\ \A r \in Left \ {0} : conf.min <= r
        /\ Never \in Nat /\ conf.min \in Nat /\ \A r \in Left : r \in Nat
    BY LeftType, SADFGraphs DEF InvTime, StepsToNextEnd
  <2>2. CASE M.time[i] > 0 /\ M.time[i] < conf.min
    <3>1. conf'.min = M.time[i]
      BY <1>3, <2>2 DEF Earlier
    <3>2. \A r \in Left \ {0} : M.time[i] <= r
      <4> SUFFICES ASSUME NEW r \in Left \ {0} PROVE M.time[i] <= r
        OBVIOUS
      <4>1. r \in Nat /\ conf.min <= r
        BY <2>1
      <4> QED
        BY <1>5, <2>1, <2>2, <4>1
    <3> QED
      BY <1>1, <1>5, <1>9, <2>2, <3>1, <3>2 DEF StepsToNextEnd
  <2>3. CASE ~(M.time[i] > 0 /\ M.time[i] < conf.min)
    <3>1. conf'.min = conf.min
      BY <1>3, <2>3 DEF Earlier
    <3>2. M.time[i] # 0 => conf.min <= M.time[i]
      BY <1>5, <2>1, <2>3
    <3> QED
      BY <1>1, <1>9, <2>1, <3>1, <3>2 DEF StepsToNextEnd
  <2> QED
    BY <2>2, <2>3
<1> QED
  BY <1>1, <1>10, <1>11 DEF InvTime

(* Only a firing without time left ends.                                   *)
LEMMA EndTime ==
    ASSUME InvTime, NEW p \in Procs(g), End(p)
    PROVE  InvTime'
<1> DEFINE st == EndState(g, p, conf.stat[p].mc)
<1>1. /\ g' = g /\ outcome = "running" /\ outcome' = outcome /\ Inv'
      /\ isReadyToEnd(g, conf, p)
      /\ conf.stat = [q \in Procs(g) |-> conf.stat[q]]
  BY EndInv DEF InvTime, Inv, End, WellFormed
<1>2. conf'.stat = [conf.stat EXCEPT ![p] = st] /\ conf'.type = "end" /\ conf'.min = conf.min
  BY DEF End, Progress, end, Into, Configuration
<1>3. st.step = "end"
  BY DEF EndState, Status
<1>4. \A q \in Procs(g) : conf'.stat[q] = IF q = p THEN st ELSE conf.stat[q]
  BY <1>1, <1>2
<1>5. p \in Firing /\ Firing' = Firing \ {p}
  BY <1>1, <1>3, <1>4 DEF Firing, isReadyToEnd
<1>6. conf.stat[p].rem = 0
  BY <1>1, <1>5 DEF InvTime, Timed, isReadyToEnd
<1>7. Left' \ {0} = Left \ {0}
  <2>1. Left = {conf.stat[q].rem : q \in Firing} /\ Left' = {conf'.stat[q].rem : q \in Firing'}
    BY DEF Left, Firing
  <2>2. \A q \in Firing' : conf'.stat[q].rem = conf.stat[q].rem
    BY <1>4, <1>5 DEF Firing
  <2> QED
    BY <1>5, <1>6, <2>1, <2>2
<1>8. Timed'
  <2>1. \A q \in Firing' : conf'.stat[q].rem \in Nat /\ conf'.stat[q].rem < Never
    BY <1>4, <1>5 DEF InvTime, Timed, Firing
  <2> QED
    BY <1>2, <2>1 DEF Timed
<1>9. StepsToNextEnd'
  BY <1>1, <1>2, <1>7 DEF InvTime, StepsToNextEnd
<1> QED
  BY <1>1, <1>8, <1>9 DEF InvTime

(* A step of time takes the first firing to its end, and finds the next.   *)
LEMMA TimeTime ==
    ASSUME InvTime, Time
    PROVE  InvTime'
<1>1. /\ g' = g /\ outcome = "running" /\ outcome' = outcome /\ Inv'
      /\ conf.min # Never /\ Never \in Nat
  BY TimeInv, SADFGraphs DEF InvTime, Time, HasDeadlock
<1>2. /\ conf'.stat = [q \in Procs(g) |-> Aged(conf, conf.stat[q])]
      /\ conf'.min = FirstEnd(conf'.stat)
  BY DEF Time, time, Configuration
<1>3. conf.min \in Left \ {0} /\ conf.min \in Nat
  BY <1>1, LeftType DEF InvTime, StepsToNextEnd
<1>4. \A q \in Procs(g) : /\ conf'.stat[q].step = conf.stat[q].step
                          /\ conf'.stat[q].rem = Remaining(conf, conf.stat[q])
  BY <1>2 DEF Aged, Status
<1>5. Firing' = Firing
  BY <1>1, <1>4 DEF Firing
<1>6. \A q \in Firing : /\ conf.stat[q].rem \in Nat /\ conf.stat[q].rem < Never
                        /\ conf'.stat[q].rem = IF conf.stat[q].rem > conf.min
                                               THEN conf.stat[q].rem - conf.min ELSE 0
  BY <1>4 DEF InvTime, Timed, Firing, Remaining
<1>7. \A q \in Firing : conf'.stat[q].rem \in Nat /\ conf'.stat[q].rem < Never
  BY <1>1, <1>3, <1>6
<1>8. Left' = {conf'.stat[q].rem : q \in Firing}
  BY <1>5 DEF Left, Firing
<1>9. 0 \in Left'
  <2>1. PICK q \in Firing : conf.stat[q].rem = conf.min
    BY <1>3 DEF Left, Firing
  <2>2. conf'.stat[q].rem = 0
    BY <1>3, <1>6, <2>1
  <2> QED
    BY <1>8, <2>2
<1>10. Timed'
  BY <1>5, <1>7, <1>9 DEF Timed
<1>11. StepsToNextEnd'
  <2> DEFINE left == {conf'.stat[q].rem : q \in {q \in DOMAIN conf'.stat :
                          conf'.stat[q].step = "start" /\ conf'.stat[q].rem > 0}}
  <2>1. left = Left' \ {0}
    <3>1. {q \in DOMAIN conf'.stat : conf'.stat[q].step = "start" /\ conf'.stat[q].rem > 0}
              = {q \in Firing : conf'.stat[q].rem # 0}
      BY <1>1, <1>2, <1>4, <1>7 DEF Firing
    <3> QED
      BY <1>8, <3>1
  <2>2. conf'.min = IF left = {} THEN Never ELSE CHOOSE r \in left : \A s \in left : r <= s
    BY <1>2 DEF FirstEnd
  <2>3. left \in SUBSET Nat
    BY <1>7, <1>8, <2>1
  <2>4. left # {} => conf'.min \in left /\ \A s \in left : conf'.min <= s
    BY <2>2, <2>3, Smallest
  <2> QED
    BY <1>1, <2>1, <2>2, <2>4 DEF StepsToNextEnd
<1> QED
  BY <1>1, <1>10, <1>11 DEF InvTime

(* A deadlock is reported when nothing can be done and no time can pass:   *)
(* nothing that fires has time left, and what has none could end.          *)
LEMMA DeadlockTime ==
    ASSUME InvTime, Deadlock
    PROVE  InvTime'
<1>1. /\ g' = g /\ conf' = conf /\ ~ActionPossible(g, conf) /\ HasDeadlock(conf)
      /\ Never \in Nat
  BY SADFGraphs DEF Deadlock
<1>2. \A p \in Firing : conf.stat[p].rem \in Nat /\ conf.stat[p].rem > 0
  BY <1>1 DEF ActionPossible, isReadyToEnd, InvTime, Timed, Firing
<1>3. 0 \notin Left
  BY <1>2 DEF Left, Firing
<1>4. conf.min = Never
  BY <1>1, <1>3 DEF HasDeadlock, InvTime, Timed
<1>5. Left = {}
  <2> SUFFICES ASSUME NEW r \in Left PROVE FALSE
    OBVIOUS
  <2>1. r \in Nat /\ r < Never /\ r # 0
    BY <1>3, LeftType DEF InvTime
  <2>2. Never <= r
    BY <1>4, <2>1 DEF InvTime, StepsToNextEnd
  <2> QED
    BY <1>1, <2>1, <2>2
<1>6. Firing' = Firing /\ Left' = Left /\ Inv'
  BY <1>1, NextInv DEF Next, Deadlock, Firing, Left, InvTime
<1> QED
  BY <1>1, <1>5, <1>6 DEF InvTime, Timed, StepsToNextEnd

LEMMA NextTime == InvTime /\ [Next]_vars => InvTime'
<1> SUFFICES ASSUME InvTime, [Next]_vars PROVE InvTime'
  OBVIOUS
<1>1. ASSUME NEW p \in Procs(g), Fire(p) \/ Start(p) \/ End(p) PROVE InvTime'
  BY <1>1, FireTime, StartTime, EndTime
<1>2. CASE Time
  BY <1>2, TimeTime
<1>3. CASE Deadlock
  BY <1>3, DeadlockTime
<1>4. CASE UNCHANGED vars
  <2>1. Inv'
    BY NextInv DEF InvTime
  <2> QED
    BY <1>4, <2>1 DEF vars, InvTime, Timed, StepsToNextEnd, Left, Firing
<1> QED
  BY <1>1, <1>2, <1>3, <1>4 DEF Next

(* In every execution of every scenario-aware graph the time step is the   *)
(* time to the first end of a firing, though starts only ever shorten it   *)
(* and it is computed anew only when time passes; and a deadlock is        *)
(* reported only when nothing fires.                                       *)
THEOREM NextEnd == Spec => []StepsToNextEnd
<1>1. InvTime => StepsToNextEnd
  BY DEF InvTime
<1> QED
  BY <1>1, InitTime, NextTime, PTL DEF Spec

-----------------------------------------------------------------------------
(* Control tokens.  The runs of a channel add up to the number of its      *)
(* tokens, so that a process that sees a token has a front to inspect; a   *)
(* sum along the runs is the witness.                                      *)
Accounts(f, n) ==
    \E upto \in [0..Len(f) -> Int] :
        /\ upto[0] = 0 /\ upto[Len(f)] = n
        /\ \A i \in 1..Len(f) : upto[i] = upto[i - 1] + f[i][1]

Runs(V) == Seq(Int \X V)

InRuns ==
    \A k \in Chans(g) : g.chan[k].control =>
        conf.fifo[k] \in Runs(Values(g, k)) /\ Accounts(conf.fifo[k], conf.tok[k])

(* A controlled process has no scenario between its firings.               *)
Undecided ==
    \A p \in Procs(g) :
        Controls(g, p) # {} /\ conf.stat[p].step = "end" => conf.stat[p].sc = None

InvFront == Inv /\ InRuns /\ Undecided /\ WorksOnFront

LEMMA NotEmpty ==
    ASSUME NEW V, NEW f \in Runs(V), NEW n, Accounts(f, n), n # 0
    PROVE  f # <<>> /\ inspect(f) \in V
<1>1. Len(f) # 0
  BY DEF Accounts
<1>2. Len(f) \in Nat /\ f \in [1..Len(f) -> Int \X V]
  BY DEF Runs
<1>3. 1 \in 1..Len(f)
  BY <1>1, <1>2
<1> QED
  BY <1>1, <1>2, <1>3 DEF inspect

(* Writing adds n tokens at the end and leaves the front as it is.         *)
LEMMA WriteRuns ==
    ASSUME NEW V, NEW f \in Runs(V), NEW m \in Int, Accounts(f, m), NEW n \in Int, NEW v \in V
    PROVE  /\ write(f, n, v) \in Runs(V)
           /\ Accounts(write(f, n, v), m + n)
           /\ f # <<>> => write(f, n, v) # <<>> /\ inspect(write(f, n, v)) = inspect(f)
<1> DEFINE w == write(f, n, v)
<1>1. Len(f) \in Nat /\ f \in [1..Len(f) -> Int \X V]
  BY DEF Runs
<1>2. PICK upto \in [0..Len(f) -> Int] :
        /\ upto[0] = 0 /\ upto[Len(f)] = m
        /\ \A i \in 1..Len(f) : upto[i] = upto[i - 1] + f[i][1]
  BY DEF Accounts
<1>3. CASE f # <<>> /\ f[Len(f)][2] = v
  <2>1. w = [f EXCEPT ![Len(f)] = <<f[Len(f)][1] + n, v>>]
    BY <1>3 DEF write
  <2>2. Len(f) \in 1..Len(f)
    BY <1>1, <1>3
  <2>3. <<f[Len(f)][1] + n, v>> \in Int \X V
    BY <1>1, <2>2
  <2>4. w \in [1..Len(f) -> Int \X V]
    BY <1>1, <2>1, <2>2, <2>3
  <2>5. w \in Runs(V) /\ Len(w) = Len(f)
    BY <1>1, <2>4 DEF Runs
  <2>6. \A i \in 1..Len(f) : w[i] = IF i = Len(f) THEN <<f[Len(f)][1] + n, v>> ELSE f[i]
    BY <1>1, <2>1
  <2>7. Accounts(w, m + n)
    <3> DEFINE u == [i \in 0..Len(f) |-> IF i = Len(f) THEN m + n ELSE upto[i]]
    <3>1. u \in [0..Len(w) -> Int] /\ u[0] = 0 /\ u[Len(w)] = m + n
      BY <1>1, <1>2, <2>2, <2>5
    <3>2. \A i \in 1..Len(w) : u[i] = u[i - 1] + w[i][1]
      <4> SUFFICES ASSUME NEW i \in 1..Len(f) PROVE u[i] = u[i - 1] + w[i][1]
        BY <2>5
      <4>1. i \in 0..Len(f) /\ i - 1 \in 0..Len(f) /\ i - 1 # Len(f)
        BY <1>1
      <4>2. u[i] = (IF i = Len(f) THEN m + n ELSE upto[i]) /\ u[i - 1] = upto[i - 1]
        BY <4>1
      <4>3. w[i][1] = IF i = Len(f) THEN f[Len(f)][1] + n ELSE f[i][1]
        BY <2>6
      <4>4. f[i][1] \in Int /\ upto[i - 1] \in Int /\ upto[i] = upto[i - 1] + f[i][1]
        BY <1>1, <1>2, <4>1
      <4> HIDE DEF u, w
      <4>5. CASE i = Len(f)
        <5>1. upto[i] = m /\ u[i] = m + n /\ w[i][1] = f[i][1] + n
          BY <1>2, <4>2, <4>3, <4>5
        <5> QED
          BY <4>2, <4>4, <4>5, <5>1
      <4>6. CASE i # Len(f)
        BY <4>2, <4>3, <4>4, <4>6
      <4> QED
        BY <4>5, <4>6
    <3> QED
      BY <3>1, <3>2 DEF Accounts
  <2>8. w # <<>> /\ inspect(w) = inspect(f)
    <3>1. 1 \in 1..Len(f) /\ Len(w) # 0
      BY <1>1, <2>2, <2>5
    <3>2. w[1][2] = f[1][2]
      BY <1>3, <2>6, <3>1
    <3> QED
      BY <3>1, <3>2 DEF inspect
  <2> QED
    BY <2>5, <2>7, <2>8
<1>4. CASE ~(f # <<>> /\ f[Len(f)][2] = v)
  <2>1. w = Append(f, <<n, v>>)
    BY <1>4 DEF write
  <2>2. w \in Runs(V) /\ Len(w) = Len(f) + 1
    BY <2>1 DEF Runs
  <2>3. w[Len(f) + 1] = <<n, v>> /\ \A i \in 1..Len(f) : w[i] = f[i]
    BY <1>1, <2>1 DEF Runs
  <2>4. Accounts(w, m + n)
    <3> DEFINE u == [i \in 0..Len(f) + 1 |-> IF i = Len(f) + 1 THEN m + n ELSE upto[i]]
    <3>1. u \in [0..Len(w) -> Int] /\ u[0] = 0 /\ u[Len(w)] = m + n
      BY <1>1, <1>2, <2>2
    <3>2. \A i \in 1..Len(w) : u[i] = u[i - 1] + w[i][1]
      <4> SUFFICES ASSUME NEW i \in 1..Len(f) + 1 PROVE u[i] = u[i - 1] + w[i][1]
        BY <2>2
      <4>1. CASE i = Len(f) + 1
        <5> DEFINE L == Len(f)
        <5>1. L \in Nat /\ i = L + 1
          BY <1>1, <4>1
        <5>2. i - 1 = L /\ i - 1 \in 0..L + 1 /\ i - 1 # L + 1 /\ i \in 0..L + 1
          <6> HIDE DEF L
          <6> QED
            BY <5>1
        <5>3. u[i] = m + n /\ u[i - 1] = upto[i - 1]
          BY <4>1, <5>2
        <5>4. u[i] = m + n /\ u[i - 1] = m
          BY <1>2, <5>2, <5>3
        <5> QED
          BY <2>3, <4>1, <5>4
      <4>2. CASE i # Len(f) + 1
        <5>1. i \in 1..Len(f) /\ i - 1 \in 0..Len(f) /\ i - 1 # Len(f) + 1
          BY <1>1, <4>2
        <5>2. u[i] = upto[i] /\ u[i - 1] = upto[i - 1]
          BY <1>1, <4>2, <5>1
        <5> QED
          BY <1>2, <2>3, <5>1, <5>2
      <4> QED
        BY <4>1, <4>2
    <3> QED
      BY <3>1, <3>2 DEF Accounts
  <2>5. f # <<>> => w # <<>> /\ inspect(w) = inspect(f)
    BY <1>1, <2>2, <2>3 DEF inspect
  <2> QED
    BY <2>2, <2>4, <2>5
<1> QED
  BY <1>3, <1>4

(* Removing takes one token from the front.                                *)
LEMMA RemoveRuns ==
    ASSUME NEW V, NEW f \in Runs(V), f # <<>>, NEW m \in Int, Accounts(f, m)
    PROVE  remove(f) \in Runs(V) /\ Accounts(remove(f), m - 1)
<1> DEFINE w == remove(f)
<1>1. Len(f) \in Nat /\ f \in [1..Len(f) -> Int \X V] /\ 1 \in 1..Len(f)
  BY DEF Runs
<1>2. PICK upto \in [0..Len(f) -> Int] :
        /\ upto[0] = 0 /\ upto[Len(f)] = m
        /\ \A i \in 1..Len(f) : upto[i] = upto[i - 1] + f[i][1]
  BY DEF Accounts
<1>3. CASE f[1][1] = 1
  <2>1. w = Tail(f)
    BY <1>3 DEF remove
  <2>2. w \in Runs(V) /\ Len(w) = Len(f) - 1
    BY <1>1, <2>1 DEF Runs
  <2>3. \A i \in 1..Len(w) : w[i] = f[i + 1]
    BY <1>1, <2>1, <2>2 DEF Runs
  <2> DEFINE u == [i \in 0..Len(f) - 1 |-> upto[i + 1] - 1]
  <2>4. u \in [0..Len(w) -> Int] /\ u[Len(w)] = m - 1
    BY <1>1, <1>2, <2>2
  <2>5. u[0] = 0
    <3>1. upto[1] = upto[0] + f[1][1] /\ u[0] = upto[1] - 1
      BY <1>1, <1>2
    <3> QED
      BY <1>2, <1>3, <3>1
  <2>6. \A i \in 1..Len(w) : u[i] = u[i - 1] + w[i][1]
    <3> SUFFICES ASSUME NEW i \in 1..Len(w) PROVE u[i] = u[i - 1] + w[i][1]
      OBVIOUS
    <3>1. i + 1 \in 1..Len(f) /\ i \in 0..Len(f) - 1 /\ i - 1 \in 0..Len(f) - 1 /\ (i - 1) + 1 = i
      BY <1>1, <2>2
    <3>2. u[i] = upto[i + 1] - 1 /\ u[i - 1] = upto[i] - 1 /\ upto[i] \in Int
      BY <1>2, <3>1
    <3>3. upto[i + 1] = upto[i] + f[i + 1][1] /\ f[i + 1][1] \in Int
      BY <1>1, <1>2, <3>1
    <3> QED
      BY <2>3, <3>2, <3>3
  <2> QED
    BY <2>2, <2>4, <2>5, <2>6 DEF Accounts
<1>4. CASE f[1][1] # 1
  <2>1. w = [f EXCEPT ![1] = <<f[1][1] - 1, f[1][2]>>]
    BY <1>4 DEF remove
  <2>2. <<f[1][1] - 1, f[1][2]>> \in Int \X V
    BY <1>1
  <2>3. w \in [1..Len(f) -> Int \X V]
    BY <1>1, <2>1, <2>2
  <2>4. w \in Runs(V) /\ Len(w) = Len(f)
    <3>1. w \in Seq(Int \X V)
      BY <1>1, <2>3
    <3>2. DOMAIN w = 1..Len(f)
      BY <2>3
    <3> HIDE DEF w
    <3> QED
      BY <1>1, <3>1, <3>2 DEF Runs
  <2>5. \A i \in 1..Len(f) : w[i] = IF i = 1 THEN <<f[1][1] - 1, f[1][2]>> ELSE f[i]
    BY <1>1, <2>1
  <2> DEFINE u == [i \in 0..Len(f) |-> IF i = 0 THEN 0 ELSE upto[i] - 1]
  <2>6. u \in [0..Len(w) -> Int] /\ u[0] = 0 /\ u[Len(w)] = m - 1
    BY <1>1, <1>2, <2>4
  <2>7. \A i \in 1..Len(w) : u[i] = u[i - 1] + w[i][1]
    <3> SUFFICES ASSUME NEW i \in 1..Len(f) PROVE u[i] = u[i - 1] + w[i][1]
      BY <2>4
    <3>1. i \in 0..Len(f) /\ i - 1 \in 0..Len(f) /\ i # 0 /\ (i - 1 = 0 <=> i = 1)
      BY <1>1
    <3>2. u[i] = upto[i] - 1 /\ u[i - 1] = IF i = 1 THEN 0 ELSE upto[i - 1] - 1
      BY <3>1
    <3>3. w[i][1] = IF i = 1 THEN f[1][1] - 1 ELSE f[i][1]
      BY <2>5
    <3>4. f[i][1] \in Int /\ upto[i - 1] \in Int /\ upto[i] = upto[i - 1] + f[i][1]
      BY <1>1, <1>2, <3>1
    <3> HIDE DEF u, w
    <3>5. CASE i = 1
      <4>1. upto[1] = upto[0] + f[1][1] /\ u[1] = upto[1] - 1 /\ u[i - 1] = 0
            /\ w[1][1] = f[1][1] - 1 /\ f[1][1] \in Int
        BY <3>2, <3>3, <3>4, <3>5
      <4> QED
        BY <1>2, <3>5, <4>1
    <3>6. CASE i # 1
      BY <3>2, <3>3, <3>4, <3>6
    <3> QED
      BY <3>5, <3>6
  <2> QED
    BY <2>4, <2>6, <2>7 DEF Accounts
<1> QED
  BY <1>3, <1>4

LEMMA ControlType ==
    ASSUME NEW G \in Graphs, NEW k \in Chans(G), G.chan[k].control
    PROVE  /\ G.chan[k].tokens \in Nat
           /\ G.chan[k].runs \in Runs(Values(G, k))
           /\ Accounts(G.chan[k].runs, G.chan[k].tokens)
<1> DEFINE r == G.chan[k].runs
           n == G.chan[k].tokens
<1>1. r \in Seq(Nat \X Nat) /\ Holds(r, n) /\ n \in Nat
  BY SADFGraphs DEF IsSADFGraph
<1>2. \A i \in 1..Len(r) : r[i] \in Int \X Values(G, k)
  <2> SUFFICES ASSUME NEW i \in 1..Len(r) PROVE r[i] \in Int \X Values(G, k)
    OBVIOUS
  <2>1. r[i] \in Nat \X Nat /\ i \in DOMAIN r
    BY <1>1
  <2>2. r[i][2] \in Values(G, k)
    BY <2>1 DEF Values
  <2> QED
    BY <2>1, <2>2
<1>3. r \in Runs(Values(G, k))
  <2>1. Len(r) \in Nat /\ r \in [1..Len(r) -> Nat \X Nat]
    BY <1>1
  <2>2. r \in [1..Len(r) -> Int \X Values(G, k)]
    BY <1>2, <2>1
  <2> QED
    BY <2>1, <2>2 DEF Runs
<1>4. Accounts(r, n)
  <2>1. PICK upto \in [0..Len(r) -> 0..n] :
            /\ upto[0] = 0 /\ upto[Len(r)] = n
            /\ \A i \in 1..Len(r) : upto[i] = upto[i - 1] + r[i][1]
    BY <1>1 DEF Holds
  <2>2. upto \in [0..Len(r) -> Int]
    BY <1>1
  <2> QED
    BY <2>1, <2>2 DEF Accounts
<1> QED
  BY <1>1, <1>3, <1>4

LEMMA InitFront == Init => InvFront
<1> SUFFICES ASSUME Init PROVE InvFront
  OBVIOUS
<1>1. conf = InitialConfiguration(g) /\ g \in Graphs /\ Inv
  BY InitInv DEF Init
<1>2. /\ conf.stat = [p \in Procs(g) |-> EndState(g, p, InitialChain(g, p))]
      /\ conf.tok = [k \in Chans(g) |-> g.chan[k].tokens]
      /\ conf.fifo = [k \in Chans(g) |-> g.chan[k].runs]
  BY <1>1 DEF InitialConfiguration, Configuration
<1>3. InRuns
  BY <1>1, <1>2, ControlType DEF InRuns
<1>4. \A p \in Procs(g) : /\ conf.stat[p].step = "end"
                          /\ Controls(g, p) # {} => conf.stat[p].sc = None
  BY <1>2 DEF EndState, Status
<1> QED
  BY <1>1, <1>3, <1>4 DEF InvFront, Undecided, WorksOnFront

(* A step that changes the state of p only, to that of a process that has  *)
(* chosen a scenario by the tokens it sees (or has no control channels).   *)
LEMMA ChosenByFront ==
    ASSUME InvFront, NEW p \in Procs(g), NEW st, g' = g, Inv',
           conf'.stat = [conf.stat EXCEPT ![p] = st],
           conf'.tok = conf.tok, conf'.fifo = conf.fifo,
           Controls(g, p) # {} =>
               \/ st = conf.stat[p]
               \/ /\ st.step # "end" /\ st.sc \in Selected(g, conf, p)
                  /\ \A k \in Controls(g, p) : conf.tok[k] > 0 /\ conf.fifo[k] # <<>>
    PROVE  InvFront'
<1>1. conf.stat = [q \in Procs(g) |-> conf.stat[q]]
  BY DEF InvFront, Inv, WellFormed
<1>2. \A q \in Procs(g) : conf'.stat[q] = IF q = p THEN st ELSE conf.stat[q]
  BY <1>1
<1>3. \A q \in Procs(g) : Selected(g, conf', q) = Selected(g, conf, q)
  BY DEF Selected, Fronts
<1>4. InRuns'
  BY DEF InvFront, InRuns
<1>5. Undecided'
  BY <1>2 DEF InvFront, Undecided
<1>6. WorksOnFront'
  <2> SUFFICES ASSUME NEW q \in Procs(g), Controls(g, q) # {}, conf'.stat[q].step # "end"
               PROVE  /\ \A k \in Controls(g, q) : conf.tok[k] > 0 /\ conf.fifo[k] # <<>>
                      /\ conf'.stat[q].sc \in Selected(g, conf, q)
    BY <1>3 DEF WorksOnFront
  <2>1. CASE conf'.stat[q] = conf.stat[q]
    BY <2>1 DEF InvFront, WorksOnFront
  <2>2. CASE q = p
    BY <1>2, <2>1, <2>2
  <2> QED
    BY <1>2, <2>1, <2>2
<1> QED
  BY <1>4, <1>5, <1>6 DEF InvFront

LEMMA FireFront ==
    ASSUME InvFront, \A G \in Graphs : ScenarioForAll(G), NEW p \in Procs(g), Fire(p)
    PROVE  InvFront'
<1>1. /\ g' = g /\ g \in Graphs /\ Inv'
      /\ \A k \in Controls(g, p) : conf.tok[k] > 0
  BY FireInv DEF InvFront, Inv, Fire, isReadyToFire
<1>2. \A k \in Controls(g, p) :
          conf.fifo[k] # <<>> /\ inspect(conf.fifo[k]) \in Values(g, k)
  <2> SUFFICES ASSUME NEW k \in Controls(g, p)
               PROVE  conf.fifo[k] # <<>> /\ inspect(conf.fifo[k]) \in Values(g, k)
    OBVIOUS
  <2>1. k \in Chans(g) /\ g.chan[k].control
    BY DEF Controls
  <2>2. conf.fifo[k] \in Runs(Values(g, k)) /\ Accounts(conf.fifo[k], conf.tok[k])
    BY <2>1 DEF InvFront, InRuns
  <2>3. conf.tok[k] # 0
    BY <1>1
  <2> QED
    BY <2>2, <2>3, NotEmpty
<1>3. CASE IsDetector(g, p)
  <2>1. PICK s \in Detecting(g, conf, p) : \E j \in DOMAIN g.proc[p].chain[s].sub :
             conf' = Becomes(conf, "start", p, Detected(g, conf, p, s, j))
    BY <1>3 DEF Fire, Progress, detect, Into
  <2>2. PICK j \in DOMAIN g.proc[p].chain[s].sub :
             conf' = Becomes(conf, "start", p, Detected(g, conf, p, s, j))
    BY <2>1
  <2> DEFINE st == Detected(g, conf, p, s, j)
  <2>3. st.step = "detect" /\ st.sc = s
    BY DEF Detected, Status
  <2>4. conf'.stat = [conf.stat EXCEPT ![p] = st] /\ conf'.tok = conf.tok /\ conf'.fifo = conf.fifo
    BY <2>2 DEF Becomes, Configuration
  <2>5. Selected(g, conf, p) # {}
    <3> DEFINE v == Fronts(g, conf, p)
    <3>1. /\ v \in [Controls(g, p) -> UNION {Values(g, k) : k \in Controls(g, p)}]
          /\ \A k \in Controls(g, p) : v[k] \in Values(g, k)
      BY <1>2 DEF Fronts
    <3>2. \E t \in Scenarios(g, p) : Selects(g, p, v, t)
      BY <1>1, <1>3, <3>1 DEF ScenarioForAll
    <3> QED
      BY <3>2 DEF Selected
  <2>6. s \in Selected(g, conf, p)
    BY <2>5 DEF Detecting
  <2> QED
    BY <1>1, <1>2, <2>3, <2>4, <2>6, ChosenByFront
<1>4. CASE ~IsDetector(g, p)
  <2>1. PICK st \in Controlled(g, conf, p) : conf' = Becomes(conf, "control", p, st)
    BY <1>4 DEF Fire, Progress, control, Into
  <2>2. conf'.stat = [conf.stat EXCEPT ![p] = st] /\ conf'.tok = conf.tok /\ conf'.fifo = conf.fifo
    BY <2>1 DEF Becomes, Configuration
  <2>3. \/ st = conf.stat[p]
        \/ st.step = "control" /\ st.sc \in Selected(g, conf, p)
    BY <2>1 DEF Controlled, Status
  <2> QED
    BY <1>1, <1>2, <2>2, <2>3, ChosenByFront
<1> QED
  BY <1>3, <1>4

LEMMA StartFront ==
    ASSUME InvFront, NEW p \in Procs(g), Start(p)
    PROVE  InvFront'
<1> DEFINE M == Mode(g, p, conf.stat[p])
<1>1. /\ g' = g /\ Inv' /\ Chosen(g, p, conf.stat[p])
  BY StartInv DEF InvFront, Start, isReadyToStart
<1>2. PICK i \in DOMAIN M.time :
           conf' = Configuration("start", [conf.stat EXCEPT ![p] = Started(@, M, i)],
                                 conf.tok, Reserved(g, conf, p, M), conf.fifo,
                                 Earlier(M.time[i], conf.min))
  BY DEF Start, Progress, start, Into
<1> DEFINE st == Started(conf.stat[p], M, i)
<1>3. conf'.stat = [conf.stat EXCEPT ![p] = st] /\ conf'.tok = conf.tok /\ conf'.fifo = conf.fifo
  BY <1>2 DEF Configuration
<1>4. st.step = "start" /\ st.sc = conf.stat[p].sc
  BY DEF Started, Status
<1>5. Controls(g, p) # {} => conf.stat[p].step # "end"
  BY <1>1 DEF Chosen, InvFront, Undecided
<1>6. Controls(g, p) # {} =>
          /\ conf.stat[p].sc \in Selected(g, conf, p)
          /\ \A k \in Controls(g, p) : conf.tok[k] > 0 /\ conf.fifo[k] # <<>>
  BY <1>5 DEF InvFront, WorksOnFront
<1> QED
  BY <1>1, <1>3, <1>4, <1>6, ChosenByFront

(* What the end of a firing of p does to a control channel: what p removes *)
(* is its own, and what it writes comes behind.                            *)
LEMMA EndRuns ==
    ASSUME InvFront, NEW p \in Procs(g), End(p), NEW k \in Chans(g), g.chan[k].control
    PROVE  /\ conf'.fifo[k] \in Runs(Values(g, k))
           /\ Accounts(conf'.fifo[k], conf'.tok[k])
           /\ g.chan[k].dst # p /\ conf.tok[k] > 0 /\ conf.fifo[k] # <<>> =>
                 /\ conf'.tok[k] > 0 /\ conf'.fifo[k] # <<>>
                 /\ inspect(conf'.fifo[k]) = inspect(conf.fifo[k])
<1> DEFINE M == Mode(g, p, conf.stat[p])
           f == conf.fifo[k]
           n == conf.tok[k]
           V == Values(g, k)
           r == IF g.chan[k].dst = p THEN remove(f) ELSE f
           m == IF g.chan[k].dst = p THEN n - 1 ELSE n
<1>1. /\ g \in Graphs /\ WellFormed(g, conf)
      /\ conf.stat[p].step = "start" /\ InMode(g, p, conf.stat[p])
  BY DEF InvFront, Inv, End, WellFormed, isReadyToEnd
<1>2. M.prod \in [Chans(g) -> Nat] /\ M.cons \in [Chans(g) -> Nat]
  BY <1>1, ModeType
<1>3. /\ conf'.tok[k] = n - Taken(g, p, M, k) + Written(g, p, M, k)
      /\ conf'.fifo[k] = Ended(g, p, M, f, k)
  BY DEF End, Progress, end, Into, Configuration
<1>4. n \in Int /\ M.prod[k] \in Nat
  BY <1>1, <1>2 DEF WellFormed
<1>5. f \in Runs(V) /\ Accounts(f, n)
  BY DEF InvFront, InRuns
<1>6. r \in Runs(V) /\ Accounts(r, m) /\ m \in Int
  <2>1. CASE g.chan[k].dst = p
    <3>1. k \in Controls(g, p)
      BY <2>1 DEF Controls
    <3>2. f # <<>>
      BY <1>1, <3>1 DEF InvFront, WorksOnFront
    <3> QED
      BY <1>4, <1>5, <2>1, <3>2, RemoveRuns
  <2>2. CASE g.chan[k].dst # p
    BY <1>4, <1>5, <2>2
  <2> QED
    BY <2>1, <2>2
<1>7. CASE g.chan[k].src = p
  <2>1. conf'.fifo[k] = write(r, M.prod[k], M.val[k]) /\ conf'.tok[k] = m + M.prod[k]
    BY <1>3, <1>4, <1>7 DEF Ended, Taken, Written
  <2>2. M.val[k] \in V
    <3>1. (IF IsDetector(g, p) THEN conf.stat[p].sub ELSE conf.stat[p].sc) \in Modes(g, p)
      BY <1>1 DEF InMode
    <3> QED
      BY <1>7, <3>1 DEF Mode, Modes, Values
  <2> HIDE DEF M, f, n, V, r, m
  <2>3. /\ conf'.fifo[k] \in Runs(V) /\ Accounts(conf'.fifo[k], m + M.prod[k])
        /\ r # <<>> => conf'.fifo[k] # <<>> /\ inspect(conf'.fifo[k]) = inspect(r)
    BY <1>4, <1>6, <2>1, <2>2, WriteRuns
  <2>4. g.chan[k].dst # p => r = f /\ m = n
    BY DEF r, m
  <2> QED
    BY <1>4, <1>6, <2>1, <2>3, <2>4 DEF f, n, V
<1>8. CASE g.chan[k].src # p
  <2>1. conf'.fifo[k] = r /\ conf'.tok[k] = m
    BY <1>3, <1>4, <1>8 DEF Ended, Taken, Written
  <2> QED
    BY <1>6, <2>1
<1> QED
  BY <1>7, <1>8

LEMMA EndFront ==
    ASSUME InvFront, NEW p \in Procs(g), End(p)
    PROVE  InvFront'
<1> DEFINE st == EndState(g, p, conf.stat[p].mc)
<1>1. g' = g /\ Inv' /\ conf.stat = [q \in Procs(g) |-> conf.stat[q]]
  BY EndInv DEF InvFront, Inv, End, WellFormed
<1>2. conf'.stat = [conf.stat EXCEPT ![p] = st]
  BY DEF End, Progress, end, Into, Configuration
<1>3. st.step = "end" /\ (Controls(g, p) # {} => st.sc = None)
  BY DEF EndState, Status
<1>4. \A q \in Procs(g) : conf'.stat[q] = IF q = p THEN st ELSE conf.stat[q]
  BY <1>1, <1>2
<1>5. InRuns'
  BY <1>1, EndRuns DEF InRuns
<1>6. Undecided'
  BY <1>1, <1>3, <1>4 DEF InvFront, Undecided
<1>7. WorksOnFront'
  <2> SUFFICES ASSUME NEW q \in Procs(g), Controls(g, q) # {}, conf'.stat[q].step # "end"
               PROVE  /\ \A k \in Controls(g, q) : conf'.tok[k] > 0 /\ conf'.fifo[k] # <<>>
                      /\ conf'.stat[q].sc \in Selected(g, conf', q)
    BY <1>1 DEF WorksOnFront
  <2>1. q # p /\ conf'.stat[q] = conf.stat[q]
    BY <1>3, <1>4
  <2>2. /\ \A k \in Controls(g, q) : conf.tok[k] > 0 /\ conf.fifo[k] # <<>>
        /\ conf.stat[q].sc \in Selected(g, conf, q)
    BY <2>1 DEF InvFront, WorksOnFront
  <2>3. \A k \in Controls(g, q) :
            /\ conf'.tok[k] > 0 /\ conf'.fifo[k] # <<>>
            /\ inspect(conf'.fifo[k]) = inspect(conf.fifo[k])
    BY <2>1, <2>2, EndRuns DEF Controls
  <2>4. Selected(g, conf', q) = Selected(g, conf, q)
    BY <2>3 DEF Selected, Fronts
  <2> QED
    BY <2>1, <2>2, <2>3, <2>4
<1> QED
  BY <1>1, <1>5, <1>6, <1>7 DEF InvFront

LEMMA TimeFront ==
    ASSUME InvFront, Time
    PROVE  InvFront'
<1>1. g' = g /\ Inv'
  BY TimeInv DEF InvFront, Time
<1>2. /\ conf'.stat = [q \in Procs(g) |-> Aged(conf, conf.stat[q])]
      /\ conf'.tok = conf.tok /\ conf'.fifo = conf.fifo
  BY DEF Time, time, Configuration
<1>3. \A q \in Procs(g) : /\ conf'.stat[q].step = conf.stat[q].step
                          /\ conf'.stat[q].sc = conf.stat[q].sc
                          /\ Selected(g, conf', q) = Selected(g, conf, q)
  BY <1>2 DEF Aged, Status, Selected, Fronts
<1>4. InRuns'
  BY <1>1, <1>2 DEF InvFront, InRuns
<1>5. Undecided' /\ WorksOnFront'
  BY <1>1, <1>2, <1>3 DEF InvFront, Undecided, WorksOnFront
<1> QED
  BY <1>1, <1>4, <1>5 DEF InvFront

LEMMA NextFront ==
    ASSUME \A G \in Graphs : ScenarioForAll(G), InvFront, [Next]_vars
    PROVE  InvFront'
<1>1. ASSUME NEW p \in Procs(g), Fire(p) \/ Start(p) \/ End(p) PROVE InvFront'
  BY <1>1, FireFront, StartFront, EndFront
<1>2. CASE Time
  BY <1>2, TimeFront
<1>3. ASSUME g' = g, conf' = conf PROVE InvFront'
  <2>1. Inv'
    BY <1>3 DEF InvFront, Inv, ReservedByWriter, Claim
  <2>2. InRuns' /\ Undecided' /\ WorksOnFront'
    BY <1>3 DEF InvFront, InRuns, Undecided, WorksOnFront
  <2> QED
    BY <2>1, <2>2 DEF InvFront
<1>4. CASE Deadlock
  BY <1>3, <1>4 DEF Deadlock
<1>5. CASE UNCHANGED vars
  BY <1>3, <1>5 DEF vars
<1> QED
  BY <1>1, <1>2, <1>4, <1>5 DEF Next

(* In every execution of every scenario-aware graph in which the detectors *)
(* have a scenario for all that can be sent to them, a controlled process  *)
(* works on the tokens at the front of its control channels from its       *)
(* choice until it removes them.                                           *)
THEOREM Fronting ==
    ASSUME \A G \in Graphs : ScenarioForAll(G)
    PROVE  Spec => []WorksOnFront
<1>1. InvFront /\ [Next]_vars => InvFront'
  BY NextFront
<1>2. InvFront => WorksOnFront
  BY DEF InvFront
<1> QED
  BY <1>1, <1>2, InitFront, PTL DEF Spec
=============================================================================
