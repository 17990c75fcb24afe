------------------------------ MODULE SADFReduced ------------------------------
(***************************************************************************)
(* The reduced exploration of a scenario-aware dataflow graph              *)
(* (SADF_ProgressTPS_ASAP_InterFiringLatency): from a configuration on,    *)
(* take one step of one process at a time, in a fixed order, up to the     *)
(* next end of the observed process, and keep of all that only the         *)
(* configurations reached with their probabilities and the time passed.    *)
(***************************************************************************)
EXTENDS SADF, FiniteSetsExt, SequencesExt

Gcd(a, b) ==
    LET gcd[x \in Nat, y \in Nat] == IF y = 0 THEN x ELSE gcd[y, x % y]
    IN  gcd[a, b]

Fraction(n, d) == <<n \div Gcd(n, d), d \div Gcd(n, d)>>
Times(x, y) == Fraction(x[1] * y[1], x[2] * y[2])
Plus(x, y) == Fraction(x[1] * y[2] + y[1] * x[2], x[2] * y[2])

Sum(S) == FoldSet(LAMBDA t, w : t.weight + w, 0, S)

(* The step that is taken: control and detect actions come before starts,  *)
(* starts before ends, each in the order of the processes.                 *)
Resolved(G, c) ==
    LET fire == {p \in Procs(G) : isReadyToFire(G, c, p)}
        begin == {p \in Procs(G) : isReadyToStart(G, c, p)}
        finish == {p \in Procs(G) : isReadyToEnd(G, c, p)}
    IN  Steps(G, c, Min(IF fire # {} THEN fire ELSE IF begin # {} THEN begin ELSE finish))

RECURSIVE InterFiringLatency(_, _, _)

(* The transitions of the configurations that a step leads to, with the    *)
(* probability and the duration of the step added                          *)
Prolonged(G, p, S, delay) ==
    FoldSet(LAMBDA t, list :
                LET ahead == InterFiringLatency(G, t.to, p)
                IN  list \o [i \in DOMAIN ahead |->
                                [ahead[i] EXCEPT !.probability = Times(Fraction(t.weight, Sum(S)), @),
                                                 !.sample = @ + delay]],
            <<>>, S)

(* The transitions of configuration c to the next ends of process p, a     *)
(* list in which a destination may occur several times.  A deadlock on the *)
(* way throws an exception: there are none.                                *)
InterFiringLatency(G, c, p) ==
    CASE isReadyToEnd(G, c, p) ->
            SetToSeq({[to |-> t.to, probability |-> <<1, 1>>, sample |-> 0] : t \in end(G, c, p)})
      [] ~isReadyToEnd(G, c, p) /\ ActionPossible(G, c) -> Prolonged(G, p, Resolved(G, c), 0)
      [] ~ActionPossible(G, c) /\ ~HasDeadlock(c) ->
            Prolonged(G, p, {Into(time(G, c), 1)}, c.min)
      [] OTHER -> <<>>

(* The probability of each time sample                                     *)
Distribution(list) ==
    [s \in {list[i].sample : i \in DOMAIN list} |->
        FoldLeft(LAMBDA x, t : IF t.sample = s THEN Plus(x, t.probability) ELSE x, <<0, 1>>, list)]
=============================================================================
