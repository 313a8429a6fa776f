--------------------------- MODULE MCMemoryAccess --------------------------
(***************************************************************************)
(* Instances of MemoryAccess for TLC.                                      *)
(***************************************************************************)
EXTENDS MemoryAccess

CONSTANTS u1, u2, m1, m2

Rows == m1 :> [owner |-> u1, scope |-> "team", need |-> 0]
        @@ m2 :> [owner |-> u1, scope |-> "organization", need |-> 1]
Clearances == u1 :> 1 @@ u2 :> 0
Asked == {[op |-> "get", user |-> u2, on |-> {m1}],
          [op |-> "search", user |-> u2, on |-> {m1, m2}],
          [op |-> "neighbors", user |-> u2, on |-> {m1, m2}],
          [op |-> "share", user |-> u1, on |-> {m1, m2}, to |-> u2, grant |-> "edit"],
          [op |-> "delete", user |-> u2, on |-> {m1, m2}],
          [op |-> "upload", user |-> u1, on |-> {m1}],
          [op |-> "remove", user |-> u2, on |-> {m1}]}

Symmetry == Permutations(Client) \cup Permutations(Attachment)

=============================================================================
