------------------------------ MODULE MCBlobRepo ------------------------------
(* Instances of BlobRepo for model checking. *)
EXTENDS BlobRepo
===============================================================================
