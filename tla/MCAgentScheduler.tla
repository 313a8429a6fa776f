-------------------------- MODULE MCAgentScheduler --------------------------
(***************************************************************************)
(* Instances of AgentScheduler for TLC.                                    *)
(***************************************************************************)
EXTENDS AgentScheduler, TLC

MCPriorities == {0, 1}
DequeuerSymmetry == Permutations(Dequeuers)

=============================================================================
