--------------------------- MODULE SessionVerdict ---------------------------
(***************************************************************************)
(* What the cognitive loop promises about a session, whoever runs it and   *)
(* how often: its verdict is reached once, never changed, and published in *)
(* a report that says the same thing, at the very moment it is reached.    *)
(* CognitiveLoop is shown to implement this.                               *)
(***************************************************************************)
CONSTANTS Sessions

Verdicts == {"running", "succeeded", "failed"}
Decisions == {"pass", "fail", "needs_evidence"}

VARIABLES
    verdict,    \* the status column of each cognitive session
    published   \* the final decisions its evaluation reports give

absVars == <<verdict, published>>

Consistent(v, d) == (v = "succeeded") <=> (d = "pass")

Init ==
    /\ verdict = [s \in Sessions |-> "running"]
    /\ published = [s \in Sessions |-> {}]

\* The verdict of a session is reached and its report published.
Decide(s) ==
    /\ verdict[s] = "running"
    /\ \E v \in Verdicts \ {"running"}, d \in Decisions :
          /\ Consistent(v, d)
          /\ verdict' = [verdict EXCEPT ![s] = v]
          /\ published' = [published EXCEPT ![s] = {d}]

Next == \E s \in Sessions : Decide(s)

Spec == Init /\ [][Next]_absVars

=============================================================================
