------------------------ MODULE MCPipelineResources ------------------------
(* A small instance of PipelineResources for TLC: the URLs are interchangeable. *)
EXTENDS PipelineResources

Urls == Permutations(Url)
=============================================================================
