------------------------------ MODULE MCDockerBox ------------------------------
(* DockerBox for TLC; without symmetry, which liveness does not permit. *)
EXTENDS DockerBox, TLC
===============================================================================
