--------------------------- MODULE MCFileLifecycle ---------------------------
(* FileLifecycle for TLC.  Files and slots are interchangeable.            *)
EXTENDS FileLifecycle, TLC

Symmetry == Permutations(File) \cup Permutations(Slot)
=============================================================================
