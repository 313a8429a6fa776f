---------------------------- MODULE MCMemoryStores --------------------------
(***************************************************************************)
(* Instances of MemoryStores for TLC.                                      *)
(***************************************************************************)
EXTENDS MemoryStores, TLC

RequestSymmetry == Permutations(Req)

=============================================================================
