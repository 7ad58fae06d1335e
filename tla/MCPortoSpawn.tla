----------------------------- MODULE MCPortoSpawn -----------------------------
(* Instances of PortoSpawn for model checking: calls are interchangeable. *)
EXTENDS PortoSpawn, TLC

Symmetry == Permutations(Spools) \cup Permutations(Spawns)
===============================================================================
