---------------------------- MODULE MCSecondFactor ---------------------------
(* Small instances of SecondFactor for TLC.                                *)
EXTENDS SecondFactor, TLC

\* Challenge ids and request slots are interchangeable.
Symmetry == Permutations(Challenge) \cup Permutations(Request)
=============================================================================
