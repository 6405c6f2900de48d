--------------------------- MODULE MCServerSession ---------------------------
(* Instances of ServerSession for TLC. *)
EXTENDS ServerSession
=============================================================================
