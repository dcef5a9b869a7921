--------------------------- MODULE MCDeadlinePool ---------------------------
(***************************************************************************)
(* Up to five calls, one of them wedged, on two workers.                     *)
(***************************************************************************)
EXTENDS DeadlinePool

CONSTANTS w1, w2, d1, d2, d3, d4, d5
=============================================================================
