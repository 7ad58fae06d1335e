---------------------------- MODULE MCProcessBox ----------------------------
(* ProcessBox for TLC; without symmetry, which liveness does not permit. *)
EXTENDS ProcessBox, TLC
=============================================================================
