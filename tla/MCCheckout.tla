----------------------------- MODULE MCCheckout -----------------------------
(* Checkout for TLC.  Keys and requests are interchangeable.               *)
EXTENDS Checkout, TLC

Symmetry == Permutations(Key) \cup Permutations(Request)
=============================================================================
