------------------------------ MODULE MCGoalGraph ---------------------------
(***************************************************************************)
(* Instances of GoalGraph for TLC.                                         *)
(***************************************************************************)
EXTENDS GoalGraph, TLC

CONSTANTS g1, g2, m1, s1

Created == {[status |-> "active", conf |-> 55, scope |-> "organization"]}
Proposals == {[conf |-> 55, scope |-> "personal"]}
Patches == {[status |-> "completed"], [conf |-> 40, status |-> "active"],
            [scope |-> "personal", meta |-> 0]}
Sent == {[kind |-> "link", of |-> m1],
         [kind |-> "plan", of |-> s1], [kind |-> "blockers", of |-> g1],
         [kind |-> "loop", of |-> g1], [kind |-> "progress", of |-> g1]}

Symmetry == Permutations(Worker) \cup Permutations(Node)

=============================================================================
