---------------------------- MODULE MCInvitations ----------------------------
(* Small instances of Invitations for TLC.                                 *)
EXTENDS Invitations, TLC

\* Invitations, users and request slots are interchangeable.
Symmetry == Permutations(Invitation) \cup Permutations(User) \cup Permutations(Request)
=============================================================================
