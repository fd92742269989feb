--------------------------- MODULE MCAccountTokens ---------------------------
(* AccountTokens for TLC.  Symmetry is not used: the run checks liveness.   *)
EXTENDS AccountTokens, TLC
=============================================================================
