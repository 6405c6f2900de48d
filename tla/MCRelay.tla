------------------------------- MODULE MCRelay -------------------------------
(* Instances of Relay for TLC. *)
EXTENDS Relay, TLC

Symmetric == Permutations(Cnxs) \cup Permutations(Names)
=============================================================================
