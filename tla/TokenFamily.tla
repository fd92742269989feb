----------------------------- MODULE TokenFamily -----------------------------
(***************************************************************************)
(* What refresh-token rotation promises, without requests, transactions or *)
(* reasons.  A family is a baton: it is opened once, passed from one       *)
(* session to a session never used before, and dropped.  A family is named *)
(* by the session that opened it.  SessionRotation implements this.        *)
(***************************************************************************)
CONSTANT Session

VARIABLES baton,    \* baton[f]: the sessions of family f that may be refreshed
          issued    \* every session ever issued

vars == <<baton, issued>>

Init ==
    /\ baton = [f \in Session |-> {}]
    /\ issued = {}

\* A sign-in opens a family of its own.
Open(s) ==
    /\ s \notin issued
    /\ baton' = [baton EXCEPT ![s] = {s}]
    /\ issued' = issued \cup {s}

\* The only holder of a family hands it to a fresh session.
Pass(f, s, n) ==
    /\ baton[f] = {s}
    /\ n \notin issued
    /\ baton' = [baton EXCEPT ![f] = {n}]
    /\ issued' = issued \cup {n}

\* Any number of families are closed at once.
Drop(F) ==
    /\ baton' = [f \in Session |-> IF f \in F THEN {} ELSE baton[f]]
    /\ UNCHANGED issued

Next ==
    \/ \E s \in Session : Open(s)
    \/ \E f, s, n \in Session : Pass(f, s, n)
    \/ \E F \in SUBSET Session : Drop(F)

Spec == Init /\ [][Next]_vars
=============================================================================
