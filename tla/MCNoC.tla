------------------------------- MODULE MCNoC -------------------------------
(***************************************************************************)
(* Small instances of NoCSchedule: four tiles in a row, and a link from    *)
(* the first to the third besides the way around it.                       *)
(***************************************************************************)
EXTENDS NoCSchedule

MCLinks == {<<1, 2>>, <<2, 3>>, <<1, 3>>, <<3, 4>>}

Message(src, dst, stream, start, d, size) ==
    [src |-> src, dst |-> dst, stream |-> stream, start |-> start, dur |-> d, size |-> size]

NothingUsed == [l \in MCLinks |-> {}]

Problem(messages, used, preferred) ==
    [messages |-> messages, used |-> [NothingUsed EXCEPT ![<<1, 3>>] = used],
     preferred |-> [NothingUsed EXCEPT ![<<1, 3>>] = preferred]]

(* Two messages of one stream and a third that shares links with them      *)
Crossing ==
    {Problem(<<Message(1, 3, 1, 0, 6, a), Message(1, 3, 1, s, 6, b), Message(src, 3, 2, t, 6, c)>>,
             u, p) :
        a \in 1 .. 5, b \in {3, 4}, c \in {2, 5}, s \in {4, 6}, t \in {0, 5}, src \in 1 .. 2,
        u \in {{}, {1}}, p \in {{}, {2}}}

(* Three messages of one stream, the first of which may take so long that  *)
(* the others are late before they start, and slots used elsewhere         *)
Late ==
    {Problem(<<Message(1, 3, 1, 0, d, a), Message(1, 3, 1, s, 4, b), Message(1, 3, 1, s + w, 4, c)>>,
             u, {}) :
        d \in {4, 9}, a \in {2, 5}, s \in {1, 4}, w \in {1, 4}, b \in {1, 3}, c \in 1 .. 3,
        u \in {{}, {0, 2}, {1, 2, 3}}}

(* Two messages of one stream, of which the first, scheduled last, has the *)
(* time that the second leaves it, on one link or two                      *)
Between ==
    {Problem(<<Message(1, dst, 1, s, d, a), Message(1, dst, 1, s + w, 9, b)>>, u, {}) :
        dst \in {3, 4}, s \in {0, 2}, d \in {4, 9}, w \in {3, 4, 6}, a \in 2 .. 4, b \in {5, 6},
        u \in {{}, {0}, {1}, {1, 2}}}

(* Three messages of one stream, of which the second waits for the first   *)
(* and may come too late for the third, and a fourth that needs links of   *)
(* theirs                                                                  *)
Four ==
    {Problem(<<Message(1, 3, 1, 0, 11, a), Message(1, 3, 1, 3, d, b), Message(1, 3, 1, 4 + w, 5, 5),
               Message(src, 4, 2, t, td, c)>>, u, {}) :
        a \in 3 .. 5, d \in {4, 9}, b \in {2, 3}, w \in {0, 3}, src \in {1, 3}, t \in {1, 8},
        td \in {4, 11}, c \in {1, 3}, u \in {{}, {0}}}

(* Two streams of two messages, each in the way of the other               *)
TwoStreams ==
    {Problem(<<Message(1, 3, 1, 0, 11, a), Message(1, 3, 1, 3, d, b),
               Message(src, 4, 2, 2, 11, c), Message(src, 4, 2, 5, 6, e)>>, u, {}) :
        a \in {2, 4}, d \in {5, 11}, b \in {4, 6}, src \in {1, 2}, c \in {3, 5}, e \in {1, 4},
        u \in {{}, {0}, {1}, {1, 2}}}

MCProblems == Crossing \cup Late \cup Between \cup Four \cup TwoStreams
=============================================================================
