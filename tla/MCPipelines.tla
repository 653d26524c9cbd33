---------------------------- MODULE MCPipelines -----------------------------
(* Small instances of the pthread dispatcher.                              *)
EXTENDS Pipelines
=============================================================================
