-------------------------- MODULE MCSessionRotation --------------------------
(* Small instances of SessionRotation for TLC.  Symmetry is not used: the  *)
(* run of this module checks liveness, for which TLC's is unsound.         *)
EXTENDS SessionRotation, TLC
=============================================================================
