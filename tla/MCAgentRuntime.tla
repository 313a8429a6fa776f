--------------------------- MODULE MCAgentRuntime ---------------------------
(***************************************************************************)
(* An instance of AgentRuntime for TLC.                                    *)
(***************************************************************************)
EXTENDS AgentRuntime, TLC

OnePriority == {0}

=============================================================================
