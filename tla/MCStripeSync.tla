---------------------------- MODULE MCStripeSync ----------------------------
(* StripeSync for TLC.  Handlers are interchangeable.                      *)
EXTENDS StripeSync, TLC

Symmetry == Permutations(Handler)
=============================================================================
