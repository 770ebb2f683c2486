------------------------------ MODULE MCIngest ------------------------------
(***************************************************************************)
(* Instances of module Ingest for TLC.                                     *)
(***************************************************************************)
EXTENDS IngestProperties

CONSTANTS w1, w2

\* Every worker under a name of its own: one API process.
OwnName == [w \in Workers |-> w]

\* Two API processes: their workers 0 are both called ingest-0.
SharedName == [w \in Workers |-> w1]
=============================================================================
