------------------------------- MODULE MCClient -------------------------------
(* Instances of Client for TLC. *)
EXTENDS Client, TLC

CONSTANTS f0, f1

\* One item per way resolve_delivery() can go, on two flows, and one
\* that does not encode.
MCItems == {[flow |-> f0, mode |-> "Stream", media |-> FALSE, fits |-> TRUE,
             encodes |-> TRUE],
            [flow |-> f1, mode |-> "Auto", media |-> TRUE, fits |-> TRUE,
             encodes |-> TRUE],
            [flow |-> f1, mode |-> "Datagram", media |-> TRUE, fits |-> FALSE,
             encodes |-> TRUE],
            [flow |-> f0, mode |-> "Auto", media |-> FALSE, fits |-> TRUE,
             encodes |-> FALSE]}

SenderSymmetry == Permutations(Senders)
=============================================================================
