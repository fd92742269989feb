----------------------------- MODULE MCUploader -----------------------------
(* Uploader for TLC.  Symmetry is not used: the run checks liveness.        *)
EXTENDS Uploader, TLC
=============================================================================
