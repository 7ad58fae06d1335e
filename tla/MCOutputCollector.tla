-------------------------- MODULE MCOutputCollector --------------------------
(* OutputCollector for TLC.                                                 *)
EXTENDS OutputCollector
=============================================================================
