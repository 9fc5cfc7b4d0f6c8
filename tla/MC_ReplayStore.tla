--------------------------- MODULE MC_ReplayStore ---------------------------
(* Instances of ReplayStore for TLC.                                       *)
EXTENDS ReplayStore, TLC

CONSTANTS k1, k2, v1, v2
===============================================================================
