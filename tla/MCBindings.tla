------------------------------ MODULE MCBindings ------------------------------
(* Instances of Bindings for TLC. *)
EXTENDS Bindings

CONSTANTS f0, f1

MCItems == {[flow |-> f0, mode |-> "Stream", media |-> FALSE, fits |-> TRUE,
             encodes |-> TRUE]}
=============================================================================
