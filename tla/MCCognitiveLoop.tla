--------------------------- MODULE MCCognitiveLoop --------------------------
(***************************************************************************)
(* Instances of CognitiveLoop for TLC.                                     *)
(***************************************************************************)
EXTENDS CognitiveLoop

=============================================================================
