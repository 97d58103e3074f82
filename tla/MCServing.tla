------------------------------ MODULE MCServing ------------------------------
(* Instances of Serving for TLC: the values are in the .cfg file. *)
EXTENDS Serving
=============================================================================
