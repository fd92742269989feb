-------------------------- MODULE MCBrowserSession --------------------------
(* BrowserSession for TLC.  Symmetry is not used: the run checks liveness.  *)
EXTENDS BrowserSession, TLC
=============================================================================
