------------------------------- MODULE MCDaemon -------------------------------
(* Instances of Daemon for TLC: see the .cfg files for the bounds.         *)
EXTENDS Daemon
===============================================================================
