-------------------------------- MODULE MCFlow --------------------------------
(***************************************************************************)
(* The flow with up to four points, below, at and above the constraint,    *)
(* of one or two distributions each.                                       *)
(***************************************************************************)
EXTENDS Flow

MCPoints == [space : 0 .. 4, thr : 1 .. 4, n : 1 .. 2]
=============================================================================
