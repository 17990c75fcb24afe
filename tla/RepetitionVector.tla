--------------------------- MODULE RepetitionVector ---------------------------
(***************************************************************************)
(* Repetition vectors (sdf/base/algo/repetition_vector.cc) over the        *)
(* fractions of base/fraction/fraction.h and the gcd and lcm of            *)
(* base/math/cmath.h.  A fraction is a pair <<num, den>>; its numbers are  *)
(* unbounded here (64 bit in the code, and a 32 bit gcd in lowestTerm).    *)
(***************************************************************************)
EXTENDS SDFGraphs, SequencesExt

RECURSIVE gcd(_, _)
gcd(a, b) == IF b = 0 THEN a ELSE gcd(b, a % b)

lcm(a, b) == IF a = 0 \/ b = 0 THEN 0 ELSE (a * b) \div gcd(a, b)

lowestTerm(f) == LET d == gcd(f[1], f[2]) IN <<f[1] \div d, f[2] \div d>>

Times(f, h) == lowestTerm(<<f[1] * h[1], f[2] * h[2]>>)

(* operator==: a fraction with denominator 0 equals nothing, itself        *)
(* included.                                                               *)
FractionEq(f, h) == /\ f[2] # 0 /\ h[2] # 0
                    /\ lowestTerm(f) = lowestTerm(h)

(* Faulty variant of Ports: the other side of a self-edge is not sought.   *)
PortsOwnRate(G, a) ==
    LET from == SelectSeq(G.ch, LAMBDA k : k.src = a)
        to == SelectSeq(G.ch, LAMBDA k : k.dst = a)
    IN  [i \in DOMAIN from |-> [b |-> from[i].dst, rateA |-> from[i].p,
                                rateB |-> IF from[i].dst = a THEN from[i].p ELSE from[i].c]]
        \o [i \in DOMAIN to |-> [b |-> to[i].src, rateA |-> to[i].c,
                                 rateB |-> IF to[i].src = a THEN to[i].c ELSE to[i].p]]

(* The ports of actor a: the actor on the other side of the channel, the   *)
(* rate of the port and the rate of the port on the other side.  On a      *)
(* self-edge the other side is the destination port for both ports.        *)
Ports(G, a) ==
    LET from == SelectSeq(G.ch, LAMBDA k : k.src = a)
        to == SelectSeq(G.ch, LAMBDA k : k.dst = a)
    IN  [i \in DOMAIN from |-> [b |-> from[i].dst, rateA |-> from[i].p, rateB |-> from[i].c]]
        \o [i \in DOMAIN to |-> [b |-> to[i].src, rateA |-> to[i].c,
                                 rateB |-> IF to[i].src = a THEN to[i].c ELSE to[i].p]]

NoFractions(G) == [b \in Actors(G) |-> <<0, 0>>]

(* Visits the ports from the n-th on, with the fraction of a as it was     *)
(* when a was reached, and returns the fractions; an inconsistency sets    *)
(* them all to 0/0 and leaves the loop over the ports of a only.  The      *)
(* tests "== CFraction(0,0)" of the code never hold and have no effect.    *)
RECURSIVE visitPorts(_, _, _, _, _)
visitPorts(G, fractions, a, fractionA, n) ==
    IF n > Len(Ports(G, a)) THEN fractions
    ELSE LET port == Ports(G, a)[n]
             fractionB == Times(fractionA, <<port.rateA, port.rateB>>)
             known == fractions[port.b]
         IN  IF FractionEq(known, <<0, 1>>)
             THEN LET with == [fractions EXCEPT ![port.b] = fractionB]
                  IN  visitPorts(G, visitPorts(G, with, port.b, fractionB, 1),
                                 a, fractionA, n + 1)
             ELSE IF ~FractionEq(fractionB, known) THEN NoFractions(G)
             ELSE visitPorts(G, fractions, a, fractionA, n + 1)

calcFractionsConnectedActors(G, fractions, a) ==
    visitPorts(G, fractions, a, fractions[a], 1)

(* The loop over the actors: the first actor of each connected part gets   *)
(* fraction 1/1.                                                           *)
Fractions(G) ==
    FoldLeft(LAMBDA fr, a : IF FractionEq(fr[a], <<0, 1>>)
                            THEN calcFractionsConnectedActors(G, [fr EXCEPT ![a] = <<1, 1>>], a)
                            ELSE fr,
             [a \in Actors(G) |-> <<0, 1>>], [a \in Actors(G) |-> a])

(* Scale by the lcm of the denominators, divide by the gcd of the result.  *)
calcRepetitionVector(fractions) ==
    LET l == FoldLeft(LAMBDA m, f : lcm(m, f[2]), 1, fractions)
        scaled == [a \in DOMAIN fractions |-> (fractions[a][1] * l) \div fractions[a][2]]
        d == FoldLeft(gcd, Head(scaled), Tail(scaled))
    IN  IF l = 0 THEN [a \in DOMAIN fractions |-> 0]
        ELSE [a \in DOMAIN fractions |-> scaled[a] \div d]

computeRepetitionVector(G) == calcRepetitionVector(Fractions(G))

isSDFgraphConsistent(G) == computeRepetitionVector(G)[1] # 0
=============================================================================
