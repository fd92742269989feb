----------------------------- MODULE MCWorkspace ----------------------------
(* Workspace for TLC.  Organizations are not symmetric: First prefers one.  *)
EXTENDS Workspace, TLC

CONSTANTS u1, u2, c1, c2,
          MaxOvertaken  \* bounds the kinds of overtaking that are followed together

Symmetry == Permutations({u1, u2}) \cup Permutations({c1, c2})

FewOvertaken == Cardinality(haze) <= MaxOvertaken
=============================================================================
