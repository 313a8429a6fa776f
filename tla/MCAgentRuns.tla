------------------------------ MODULE MCAgentRuns ---------------------------
(***************************************************************************)
(* An instance of AgentRuns for TLC.                                       *)
(***************************************************************************)
EXTENDS AgentRuns

CONSTANTS classification, graph, logseq

Chain == <<{classification}, {graph, logseq}, {Learner}>>

=============================================================================
