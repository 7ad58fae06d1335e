---------------------------- MODULE MCConnection ----------------------------
(* Instances of Connection for TLC: see the .cfg files for the bounds.     *)
EXTENDS ConnectionWorkers
=============================================================================
