------------------------------ MODULE MCPortoMtn ------------------------------
(* Instances of PortoMtn for model checking: the containers are            *)
(* interchangeable, and so are the allocations.                            *)
EXTENDS PortoMtn, TLC

Symmetry == Permutations(Containers) \cup Permutations(Ids)
===============================================================================
