------------------------- MODULE MCPipelineWorkflow -------------------------
(* Instances of PipelineWorkflow for TLC.                                   *)
EXTENDS PipelineWorkflow
=============================================================================
