--------------------------- MODULE SDFGraphs_proofs ---------------------------
(***************************************************************************)
(* Facts about graphs and firings that the proofs about the analyses use.  *)
(***************************************************************************)
EXTENDS SDFGraphs, TLAPS

(* An element of a sequence over S is in S.                                *)
LEMMA ElementType ==
    ASSUME NEW S, NEW s \in Seq(S), NEW i \in DOMAIN s
    PROVE  s[i] \in S
OBVIOUS

(* The fields of a channel                                                 *)
LEMMA ChannelType ==
    ASSUME NEW G, IsSDFGraph(G), NEW k \in Channels(G)
    PROVE  G.ch[k] \in [src : Actors(G), dst : Actors(G),
                        p : Positive, c : Positive, t : Nat]
BY ElementType DEF IsSDFGraph, Channels

(* A firing of a ready actor leaves a number of tokens in every channel.   *)
LEMMA ConsumeType ==
    ASSUME NEW G, IsSDFGraph(G), NEW tok \in [Channels(G) -> Nat],
           NEW a \in Actors(G), Ready(G, tok, a)
    PROVE  Consume(G, tok, a) \in [Channels(G) -> Nat]
<1>1. SUFFICES ASSUME NEW k \in Channels(G)
               PROVE  (IF G.ch[k].dst = a THEN tok[k] - G.ch[k].c ELSE tok[k]) \in Nat
  BY DEF Consume
<1>2. G.ch[k].c \in Nat
  BY ChannelType DEF Positive
<1>3. CASE G.ch[k].dst = a
  BY <1>2, <1>3 DEF Ready, InChannels
<1>4. CASE G.ch[k].dst # a
  BY <1>4
<1> QED
  BY <1>3, <1>4

(* A firing that ends leaves a number of tokens in every channel.          *)
LEMMA ProduceType ==
    ASSUME NEW G, IsSDFGraph(G), NEW tok \in [Channels(G) -> Nat],
           NEW a \in Actors(G)
    PROVE  Produce(G, tok, a) \in [Channels(G) -> Nat]
<1>1. SUFFICES ASSUME NEW k \in Channels(G)
               PROVE  (IF G.ch[k].src = a THEN tok[k] + G.ch[k].p ELSE tok[k]) \in Nat
  BY DEF Produce
<1>2. G.ch[k].p \in Nat
  BY ChannelType DEF Positive
<1> QED
  BY <1>2

(* Every channel starts with a number of tokens.                           *)
LEMMA InitialTokensType ==
    ASSUME NEW G, IsSDFGraph(G)
    PROVE  InitialTokens(G) \in [Channels(G) -> Nat]
BY ChannelType DEF InitialTokens

(* Execution times are natural numbers.                                    *)
LEMMA ExType ==
    ASSUME NEW G, IsSDFGraph(G), NEW a \in Actors(G)
    PROVE  G.ex[a] \in Nat
BY DEF IsSDFGraph, Actors

(* The balance of a channel: what firings of its two ends, m of the source *)
(* and n of the destination, make of its tokens.                           *)
LEMMA FireTokens ==
    ASSUME NEW G, IsSDFGraph(G), NEW tok \in [Channels(G) -> Nat],
           NEW a \in Actors(G), NEW k \in Channels(G)
    PROVE  Produce(G, Consume(G, tok, a), a)[k] =
              tok[k] - (IF G.ch[k].dst = a THEN G.ch[k].c ELSE 0)
                     + (IF G.ch[k].src = a THEN G.ch[k].p ELSE 0)
<1>1. tok[k] \in Nat /\ G.ch[k].p \in Nat /\ G.ch[k].c \in Nat
  BY ChannelType DEF Positive
<1> QED
  BY <1>1 DEF Produce, Consume

(* One firing more on a port of rate r: distributivity, for the solver,    *)
(* which has no products of two variables.                                 *)
LEMMA OneMore ==
    ASSUME NEW r \in Nat, NEW n \in Int
    PROVE  r * (n + 1) = r * n + r /\ r * n \in Int
OBVIOUS

(* What endActorFiring, startActorFiring and clockStep do to one list of   *)
(* remaining times.                                                        *)
LEMMA TailOrdered ==
    ASSUME NEW s \in Seq(Nat), NEW m \in Nat, Ordered(s, m), s # <<>>
    PROVE  Tail(s) \in Seq(Nat) /\ Ordered(Tail(s), m)
<1>1. Tail(s) \in Seq(Nat) /\ Len(Tail(s)) = Len(s) - 1
  OBVIOUS
<1>2. \A i \in DOMAIN Tail(s) : i + 1 \in DOMAIN s /\ Tail(s)[i] = s[i + 1]
  OBVIOUS
<1> QED
  BY <1>1, <1>2 DEF Ordered

LEMMA AppendOrdered ==
    ASSUME NEW s \in Seq(Nat), NEW m \in Nat, Ordered(s, m)
    PROVE  Append(s, m) \in Seq(Nat) /\ Ordered(Append(s, m), m)
<1>1. Append(s, m) \in Seq(Nat) /\ Len(Append(s, m)) = Len(s) + 1
  OBVIOUS
<1>2. \A i \in DOMAIN Append(s, m) :
         Append(s, m)[i] = IF i \in DOMAIN s THEN s[i] ELSE m
  OBVIOUS
<1>3. \A i, j \in DOMAIN Append(s, m) : i \notin DOMAIN s /\ i <= j => j \notin DOMAIN s
  OBVIOUS
<1>4. \A i \in DOMAIN s : s[i] \in Nat
  OBVIOUS
<1> QED
  BY <1>1, <1>2, <1>3, <1>4 DEF Ordered

LEMMA LowerOrdered ==
    ASSUME NEW s \in Seq(Nat), NEW m \in Nat, Ordered(s, m), NEW step \in Nat,
           s # <<>> => step <= Head(s)
    PROVE  LET t == [i \in DOMAIN s |-> s[i] - step]
           IN  t \in Seq(Nat) /\ Ordered(t, m)
<1> DEFINE t == [i \in DOMAIN s |-> s[i] - step]
<1>1. ASSUME NEW i \in DOMAIN s
      PROVE  s[i] \in Nat /\ step <= s[i] /\ s[i] <= m
  <2>1. s # <<>> /\ Head(s) = s[1] /\ 1 \in DOMAIN s /\ 1 <= i /\ s[1] \in Nat /\ s[i] \in Nat
    OBVIOUS
  <2>2. s[1] <= s[i] /\ s[i] <= m
    BY <2>1 DEF Ordered
  <2> QED
    BY <2>1, <2>2
<1>2. t \in Seq(Nat)
  <2>1. t \in [1 .. Len(s) -> Nat]
    BY <1>1
  <2> QED
    BY <2>1
<1>3. Ordered(t, m)
  BY <1>1, <1>2 DEF Ordered
<1> QED
  BY <1>2, <1>3
=============================================================================
