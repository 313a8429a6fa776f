-------------------------- MODULE MCKnowledgeReview -------------------------
(***************************************************************************)
(* Instances of KnowledgeReview for TLC.                                   *)
(***************************************************************************)
EXTENDS KnowledgeReview, TLC

UserSymmetry == Permutations(Users)

=============================================================================
