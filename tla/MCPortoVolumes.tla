---------------------------- MODULE MCPortoVolumes ----------------------------
(* Instances of PortoVolumes for TLC: see the .cfg files for the bounds.   *)
EXTENDS PortoVolumes
===============================================================================
