----------------------------- MODULE MCPipeline -----------------------------
(* Pipeline on a small instance: every limit is scaled down, none is left out. *)
EXTENDS Pipeline, TLC
==============================================================================
