---------------------------- MODULE MCMetaReview ----------------------------
(***************************************************************************)
(* An instance of MetaReview for TLC.                                      *)
(***************************************************************************)
EXTENDS MetaReview, TLC

CONSTANTS t1, t2, t3

\* A calibration beside another, or beside one or two reviews, or a reader.
SomeKinds == t1 :> {"calibration"}
             @@ t2 :> {"calibration", "session"}
             @@ t3 :> {"memory", "reader"}
OneWeighting == {<<20, 20, 20, 20, 20>>}
OneShift == {1}

=============================================================================
