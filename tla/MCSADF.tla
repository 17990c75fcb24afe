-------------------------------- MODULE MCSADF --------------------------------
(***************************************************************************)
(* Small scenario-aware graphs in the manner of the testbench.             *)
(***************************************************************************)
EXTENDS SADFReduced

MCNever == 99

Data(a, b, n, size) ==
    [src |-> a, dst |-> b, control |-> FALSE, tokens |-> n, runs |-> <<>>, size |-> size]
Control(a, b, size) ==
    [src |-> a, dst |-> b, control |-> TRUE, tokens |-> 0, runs |-> <<>>, size |-> size]
(* With initial tokens                                                     *)
Loaded(k, n, v) == [k EXCEPT !.tokens = n, !.runs = <<<<n, v>>>>]

(* Work with the same weights for all profiles; detectors send values      *)
Work(cons, prod, times) ==
    [cons |-> cons, prod |-> prod, val |-> [k \in DOMAIN cons |-> 1],
     time |-> times, weight |-> [i \in DOMAIN times |-> i]]
Send(cons, prod, times, v) == [Work(cons, prod, times) EXCEPT !.val = [k \in DOMAIN cons |-> v]]

Kernel(modes) == [detector |-> FALSE, mode |-> modes, match |-> <<>>, chain |-> <<>>]
Matching(proc, match) == [proc EXCEPT !.match = match]
Detector(modes, chain) == [detector |-> TRUE, mode |-> modes, match |-> <<>>, chain |-> chain]

Chain(sub, next) == [init |-> 1, sub |-> sub, next |-> next]
Constant(sub) == Chain(<<sub>>, << <<1>> >>)
Alternate(a, b) == Chain(<<a, b>>, << <<1, 1>>, <<1, 0>> >>)

(* problem13a: two kernels and a buffer, with a number of sizes            *)
Buffered(size) ==
    [proc |-> <<Kernel(<<Work(<<0>>, <<3>>, <<1, 2>>)>>), Kernel(<<Work(<<2>>, <<0>>, <<2, 3>>)>>)>>,
     chan |-> <<Data(1, 2, 0, size)>>]

(* example2: two kernels in a loop, one of them idle in scenario 2, and a  *)
(* detector that runs ahead                                                *)
Example2 ==
    [proc |-> <<Kernel(<<Work(<<0, 1, 0, 0, 0>>, <<2, 0, 0, 0, 0>>, <<3, 1>>),
                         Work(<<0, 0, 0, 0, 0>>, <<0, 0, 0, 0, 0>>, <<0>>)>>),
                Kernel(<<Work(<<2, 0, 0, 0, 0>>, <<0, 1, 1, 0, 0>>, <<2, 1>>),
                         Work(<<0, 0, 0, 0, 0>>, <<0, 0, 1, 0, 0>>, <<1>>)>>),
                Detector(<<Send(<<0, 0, 1, 0, 0>>, <<0, 0, 0, 1, 1>>, <<1>>, 1),
                           Send(<<0, 0, 1, 0, 0>>, <<0, 0, 0, 1, 1>>, <<1, 2>>, 2)>>,
                         <<Alternate(1, 2)>>)>>,
     chan |-> <<Data(1, 2, 2, 0), Data(2, 1, 0, 0), Data(2, 3, 1, 0),
                Control(3, 1, 0), Control(3, 2, 0)>>]

(* A hierarchy of detectors: process 2 controls 3, which sends runs of two *)
(* tokens to 4; both select, from different moments, the scenario of the   *)
(* kernel (1), which keeps a token for itself.                             *)
Pairs == << <<0, 0, 1, 1, 0>>, <<0, 0, 1, 2, 0>>, <<0, 0, 2, 1, 0>>, <<0, 0, 2, 2, 0>> >>
Idle == <<0, 0, 0, 0, 0>>
Own == <<0, 0, 0, 0, 1>>
Top == Detector(<<Send(Idle, <<1, 0, 0, 0, 0>>, <<1>>, 1), Send(Idle, <<1, 0, 0, 0, 0>>, <<0>>, 2)>>,
                <<Alternate(1, 2)>>)
Middle == Detector(<<Send(Idle, <<0, 2, 2, 0, 0>>, <<1>>, 1), Send(Idle, <<0, 2, 2, 0, 0>>, <<1>>, 2)>>,
                   <<Constant(1), Alternate(2, 1)>>)
Bottom == Detector(<<Send(Idle, <<0, 0, 0, 1, 0>>, <<2>>, 1), Send(Idle, <<0, 0, 0, 1, 0>>, <<1>>, 2)>>,
                   <<Constant(2), Alternate(1, 2)>>)

Hierarchy ==
    [proc |-> <<Matching(Kernel(<<Work(Own, Own, <<1>>), Work(Idle, Idle, <<0>>),
                                  Work(Own, Own, <<1, 2>>), Work(Own, Own, <<2>>)>>), Pairs),
                Top, Middle, Bottom>>,
     chan |-> <<Loaded(Control(2, 3, 2), 1, 2), Control(3, 4, 2), Control(3, 1, 3), Control(4, 1, 2),
                Data(1, 1, 1, 2)>>]

(* The same with a detector (5) in the place of the kernel, which it       *)
(* controls                                                                *)
Detectors ==
    [proc |-> <<Kernel(<<Work(Idle, Idle, <<1>>), Work(Idle, Idle, <<3>>)>>),
                Top, Middle, Bottom,
                Matching(Detector(<<Send(Idle, Own, <<0>>, 1), Send(Idle, Own, <<1>>, 2)>>,
                                  <<Constant(1), Constant(2), Alternate(1, 2), Constant(2)>>), Pairs)>>,
     chan |-> <<Loaded(Control(2, 3, 2), 1, 2), Control(3, 4, 2), Control(3, 5, 3), Control(4, 5, 2),
                Control(5, 1, 1)>>]

MCGraphs == {Buffered(3), Buffered(4), Buffered(6), Example2, Hierarchy, Detectors}

ASSUME ScenariosForAll == \A G \in MCGraphs : ScenarioForAll(G)

(* The process whose firings are observed                                  *)
Observed(G) == IF \E k \in Chans(G) : G.chan[k].src = 1 /\ G.chan[k].dst = 2 THEN 2 ELSE 1

(* "Policy assumed to have no effect on performance result": whichever     *)
(* process takes the next step, the probabilities of the times to the next *)
(* end of the observed process are those that the fixed order computes,    *)
(* and they add up to one unless the graph deadlocks.                      *)
PolicyHasNoEffect ==
    LET o == Observed(g)
        D == Distribution(InterFiringLatency(g, conf, o))
        Total == FoldSet(LAMBDA s, x : Plus(x, D[s]), <<0, 1>>, DOMAIN D)
    IN  /\ \A p \in Procs(g) :
              LET S == Steps(g, conf, p)
              IN  S # {} /\ ~isReadyToEnd(g, conf, o) => Distribution(Prolonged(g, o, S, 0)) = D
        /\ D = <<>> \/ Total = <<1, 1>>
=============================================================================
