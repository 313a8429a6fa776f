--------------------------- MODULE MCPipelineTasks --------------------------
(***************************************************************************)
(* Instances of PipelineTasks for TLC.                                     *)
(***************************************************************************)
EXTENDS PipelineTasks

=============================================================================
