----------------------------- MODULE MCPipeline -----------------------------
(***************************************************************************)
(* Instances of Pipeline for TLC: one transaction, since rows, documents   *)
(* and events of different transactions share only the queues.             *)
(***************************************************************************)
EXTENDS Pipeline

CONSTANTS t1, noTx

MCTx == {t1}

=============================================================================
