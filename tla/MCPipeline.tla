----------------------------- MODULE MCPipeline -----------------------------
(* Small instances of a pipeline run for TLC. *)
EXTENDS Pipeline

CONSTANTS s1, s2

TwoStocks == <<s1, s2>>
=============================================================================
