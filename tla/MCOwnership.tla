----------------------------- MODULE MCOwnership -----------------------------
(* Small instances of Ownership for TLC.                                   *)
EXTENDS Ownership, TLC

\* Users and request slots are interchangeable.
Symmetry == Permutations(User) \cup Permutations(Request)
=============================================================================
