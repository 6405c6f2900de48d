------------------------------- MODULE MCIngest -------------------------------
(* Instances of Ingest for TLC. *)
EXTENDS Ingest

\* What the on_ready of IngestGateway sends.
MCGreeting == <<"connect", "createStream", "publish">>
=============================================================================
