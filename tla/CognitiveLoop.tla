---------------------------- MODULE CognitiveLoop ---------------------------
(***************************************************************************)
(* Runs of cognitive_loop_task on cognitive sessions                       *)
(* (backend/app/tasks/cognitive_loop.py and services/cognitive_loop/).     *)
(*                                                                         *)
(* One run is one database transaction: it loads the session, replays the  *)
(* iterations it finds, writes the missing ones, saves the session's       *)
(* status, writes the evaluation report, and completes one goal node.      *)
(* Until the commit nobody else sees any of it.  Several runs may work on  *)
(* one session: the run endpoint can be called twice and the broker        *)
(* delivers at least once.  What keeps them apart is the database: READ    *)
(* COMMITTED reads (a statement sees what is committed when it starts),    *)
(* the unique index on (session_id, iteration_num), where an INSERT waits  *)
(* for the transaction that holds the same key, and the row locks that an  *)
(* UPDATE takes.                                                           *)
(***************************************************************************)
EXTENDS Naturals, FiniteSets

CONSTANTS
    Sessions,   \* cognitive sessions, created with status "running"
    Blank,      \* those whose goal is empty once stripped
    Attached,   \* those attached to the goal whose nodes are modelled
    Runs,       \* executions of cognitive_loop_task
    MaxIter,    \* max_iterations
    NumNodes,   \* nodes of the goal, numbered in the order of the SELECTs
    Assigned    \* nodes assigned to the user who runs the sessions

ASSUME LoopAssumption ==
    /\ Sessions # {}
    /\ Blank \subseteq Sessions
    /\ Attached \subseteq Sessions
    /\ MaxIter \in Nat \ {0}
    /\ NumNodes \in Nat
    /\ Assigned \subseteq 1..NumNodes

Iterations == 1..MaxIter
Nodes == 1..NumNodes

Evaluations == {"pass", "fail", "retry", "needs_evidence"}
TryAgain == {"retry", "needs_evidence"}
NoRows == [i \in Iterations |-> "none"]

Phases == {"idle", "next", "insert", "critique", "save", "report", "select",
           "mark", "commit", "ended", "dead"}
InTransaction == {"next", "insert", "critique", "save", "report", "select",
                  "mark", "commit"}

VARIABLES
    \* committed rows
    session,    \* status of each session
    iters,      \* evaluation of each iteration row of each session, or "none"
    reports,    \* decision of the report each run has added to each session
    node,       \* status of each goal node
    credit,     \* history: nodes that runs of each session completed
    \* each run's transaction
    pc,         \* its next statement
    on,         \* its session
    n,          \* iteration_num of the loop
    verdict,    \* final_status of the orchestrator, then status of the task
    rows,       \* iteration rows it has inserted
    saved,      \* has it updated the session row, and so locked it?
    draft,      \* decision of the report it has inserted, or "none"
    target,     \* goal node it has selected, or 0
    marked      \* has it updated that node's row, and so locked it?

committed == <<session, iters, reports, node, credit>>
locals == <<on, n, verdict, rows, saved, draft, target, marked>>
loopVars == <<committed, pc, locals>>

NoSession == CHOOSE s \in Sessions : TRUE

-----------------------------------------------------------------------------
LoopInit ==
    /\ session = [s \in Sessions |-> "running"]
    /\ iters = [s \in Sessions |-> NoRows]
    /\ reports = [s \in Sessions |-> [r \in Runs |-> "none"]]
    /\ node \in [Nodes -> {"todo", "in_progress"}]
    /\ credit = [s \in Sessions |-> {}]
    /\ pc = [r \in Runs |-> "idle"]
    /\ on = [r \in Runs |-> NoSession]
    /\ n = [r \in Runs |-> 1]
    /\ verdict = [r \in Runs |-> "failed"]
    /\ rows = [r \in Runs |-> NoRows]
    /\ saved = [r \in Runs |-> FALSE]
    /\ draft = [r \in Runs |-> "none"]
    /\ target = [r \in Runs |-> 0]
    /\ marked = [r \in Runs |-> FALSE]

Goto(r, l) == pc' = [pc EXCEPT ![r] = l]

\* get_session: a finished session is returned as it is, an empty goal fails
\* it, and otherwise the loop starts.  Saving "running" over "running" emits no
\* UPDATE, so the row is not locked here.
Begin(r, s) ==
    /\ pc[r] = "idle"
    /\ on' = [on EXCEPT ![r] = s]
    /\ IF session[s] # "running"
       THEN /\ verdict' = [verdict EXCEPT ![r] = session[s]]
            /\ Goto(r, "report")
       ELSE /\ UNCHANGED verdict
            /\ Goto(r, IF s \in Blank THEN "save" ELSE "next")
    /\ UNCHANGED <<committed, n, rows, saved, draft, target, marked>>

\* How the loop goes on after an iteration with evaluation ev, replayed or new.
Follow(r, ev) ==
    IF ev \in TryAgain /\ n[r] < MaxIter
    THEN /\ n' = [n EXCEPT ![r] = n[r] + 1]
         /\ UNCHANGED verdict
         /\ Goto(r, "next")
    ELSE /\ verdict' = [verdict EXCEPT ![r] = IF ev = "pass" THEN "succeeded" ELSE "failed"]
         /\ UNCHANGED n
         /\ Goto(r, "save")

\* get_iteration: a row that is there was committed with its critique, and is
\* replayed.
GetIteration(r) ==
    LET ev == iters[on[r]][n[r]] IN
    /\ pc[r] = "next"
    /\ IF ev # "none"
       THEN Follow(r, ev)
       ELSE Goto(r, "insert") /\ UNCHANGED <<n, verdict>>
    /\ UNCHANGED <<committed, on, rows, saved, draft, target, marked>>

\* Mutant of Discard: the lock of the session row outlives the transaction.
DiscardKeepingLock(r) ==
    /\ rows' = [rows EXCEPT ![r] = NoRows]
    /\ draft' = [draft EXCEPT ![r] = "none"]
    /\ target' = [target EXCEPT ![r] = 0]
    /\ marked' = [marked EXCEPT ![r] = FALSE]
    /\ UNCHANGED saved

\* The transaction is over without effect, and its locks are released.
Discard(r) ==
    /\ rows' = [rows EXCEPT ![r] = NoRows]
    /\ saved' = [saved EXCEPT ![r] = FALSE]
    /\ draft' = [draft EXCEPT ![r] = "none"]
    /\ target' = [target EXCEPT ![r] = 0]
    /\ marked' = [marked EXCEPT ![r] = FALSE]

\* The variable status of the task is "failed" until orchestrator.run returns.
Returned == {"report", "select", "mark", "commit"}

RollBack(r) ==
    /\ verdict' = [verdict EXCEPT ![r] = IF pc[r] \in Returned THEN @ ELSE "failed"]
    /\ Goto(r, "ended")
    /\ Discard(r)
    /\ UNCHANGED <<committed, on, n>>

HoldsKey(r, s, i) == on[r] = s /\ rows[r][i] # "none"

\* create_iteration: the INSERT waits for another transaction that holds the
\* same key; if that one committed, the index rejects the row and the
\* IntegrityError ends the run.
CreateIteration(r) ==
    LET s == on[r]
        i == n[r]
    IN
    /\ pc[r] = "insert"
    /\ \A q \in Runs \ {r} : ~HoldsKey(q, s, i)
    /\ \/ /\ iters[s][i] # "none"
          /\ RollBack(r)
       \/ /\ iters[s][i] = "none"
          /\ rows' = [rows EXCEPT ![r][i] = "retry"]
          /\ Goto(r, "critique")
          /\ UNCHANGED <<committed, on, n, verdict, saved, draft, target, marked>>

\* Evidence, plan, simulation, execution and critique, then finalize_iteration.
Critique(r) ==
    /\ pc[r] = "critique"
    /\ \E ev \in Evaluations :
          /\ rows' = [rows EXCEPT ![r][n[r]] = ev]
          /\ Follow(r, ev)
    /\ UNCHANGED <<committed, on, saved, draft, target, marked>>

\* Mutant of SaveStatus: the row is not locked by the update.
SaveStatusNoWait(r) ==
    /\ pc[r] = "save"
    /\ saved' = [saved EXCEPT ![r] = TRUE]
    /\ Goto(r, "report")
    /\ UNCHANGED <<committed, on, n, verdict, rows, draft, target, marked>>

\* save_session_status with the verdict: the UPDATE waits for the row lock.
SaveStatus(r) ==
    /\ pc[r] = "save"
    /\ \A q \in Runs \ {r} : ~(saved[q] /\ on[q] = on[r])
    /\ saved' = [saved EXCEPT ![r] = TRUE]
    /\ Goto(r, "report")
    /\ UNCHANGED <<committed, on, n, verdict, rows, draft, target, marked>>

\* The iteration rows r's transaction sees: what is committed, and its own.
Visible(r) == [i \in Iterations |->
                 IF rows[r][i] # "none" THEN rows[r][i] ELSE iters[on[r]][i]]

LastEvaluation(its) ==
    IF \E i \in Iterations : its[i] # "none"
    THEN its[CHOOSE i \in Iterations :
               /\ its[i] # "none"
               /\ \A j \in Iterations : j > i => its[j] = "none"]
    ELSE "none"

FinalDecision(v, its) ==
    IF v = "succeeded" THEN "pass"
    ELSE IF LastEvaluation(its) = "needs_evidence" THEN "needs_evidence"
    ELSE "fail"

HasReport(s) == \E r \in Runs : reports[s][r] # "none"

\* Mutant of GenerateReport: the status is read from a stale copy of the row.
GenerateReportStale(r) ==
    /\ pc[r] = "report"
    /\ draft' = [draft EXCEPT ![r] = IF HasReport(on[r]) THEN "none"
                                     ELSE FinalDecision(session[on[r]], Visible(r))]
    /\ Goto(r, IF verdict[r] = "succeeded" /\ on[r] \in Attached
               THEN "select" ELSE "commit")
    /\ UNCHANGED <<committed, on, n, verdict, rows, saved, target, marked>>
\* generate_for_session: the latest report if there is one, else a new one;
\* then, for a success of a session with a goal, the completion of a node.
GenerateReport(r) ==
    /\ pc[r] = "report"
    /\ draft' = [draft EXCEPT ![r] = IF HasReport(on[r]) THEN "none"
                                     ELSE FinalDecision(verdict[r], Visible(r))]
    /\ Goto(r, IF verdict[r] = "succeeded" /\ on[r] \in Attached
               THEN "select" ELSE "commit")
    /\ UNCHANGED <<committed, on, n, verdict, rows, saved, target, marked>>

\* The three SELECTs for the node to complete: in progress, else todo and
\* assigned to the user, else todo.
InProgress == {k \in Nodes : node[k] = "in_progress"}
Todo == {k \in Nodes : node[k] = "todo"}
Candidates == IF InProgress # {} THEN InProgress
              ELSE IF Todo \cap Assigned # {} THEN Todo \cap Assigned
              ELSE Todo

SelectNode(r) ==
    /\ pc[r] = "select"
    /\ \/ Candidates = {} /\ Goto(r, "commit") /\ UNCHANGED target
       \/ \E k \in Candidates :
            /\ \A j \in Candidates : k <= j
            /\ target' = [target EXCEPT ![r] = k]
            /\ Goto(r, "mark")
    /\ UNCHANGED <<committed, on, n, verdict, rows, saved, draft, marked>>

\* update_node_status(done): the UPDATE waits for the row lock of the node.
MarkNode(r) ==
    /\ pc[r] = "mark"
    /\ \A q \in Runs \ {r} : ~(marked[q] /\ target[q] = target[r])
    /\ marked' = [marked EXCEPT ![r] = TRUE]
    /\ Goto(r, "commit")
    /\ UNCHANGED <<committed, on, n, verdict, rows, saved, draft, target>>

\* The end of the "async with db.begin()" block.
Commit(r) ==
    LET s == on[r] IN
    /\ pc[r] = "commit"
    /\ session' = [session EXCEPT ![s] = IF saved[r] THEN verdict[r] ELSE @]
    /\ iters' = [iters EXCEPT ![s] = Visible(r)]
    /\ reports' = [reports EXCEPT ![s][r] = draft[r]]
    /\ node' = [k \in Nodes |-> IF marked[r] /\ k = target[r] THEN "done" ELSE node[k]]
    /\ credit' = [credit EXCEPT ![s] = IF marked[r] THEN @ \cup {target[r]} ELSE @]
    /\ Goto(r, "ended")
    /\ Discard(r)
    /\ UNCHANGED <<on, n, verdict>>

\* An exception anywhere in the block: the model or a tool, the database, the
\* broker when the recompute task is sent, the commit itself.
Raise(r) == pc[r] \in InTransaction /\ RollBack(r)

\* The worker is killed: the database rolls back, and no finally block runs.
Die(r) ==
    /\ pc[r] \in InTransaction
    /\ Goto(r, "dead")
    /\ Discard(r)
    /\ UNCHANGED <<committed, on, n, verdict>>

Work(r) ==
    \/ GetIteration(r) \/ CreateIteration(r) \/ Critique(r) \/ SaveStatus(r)
    \/ GenerateReport(r) \/ SelectNode(r) \/ MarkNode(r) \/ Commit(r)

LoopNext ==
    \E r \in Runs :
        \/ \E s \in Sessions : Begin(r, s)
        \/ Work(r)
        \/ Raise(r)
        \/ Die(r)

LoopSpec == LoopInit /\ [][LoopNext]_loopVars

\* A worker that has started a run keeps executing its statements.  Nothing
\* makes a run start, fail or die.
LoopFairSpec == LoopSpec /\ \A r \in Runs : WF_loopVars(Work(r))

-----------------------------------------------------------------------------
(* Properties.                                                             *)

\* Committed rows and local variables have their types.
LoopTypeOK ==
    /\ session \in [Sessions -> {"running", "succeeded", "failed"}]
    /\ iters \in [Sessions -> [Iterations -> Evaluations \cup {"none"}]]
    /\ reports \in [Sessions -> [Runs -> {"none", "pass", "fail", "needs_evidence"}]]
    /\ node \in [Nodes -> {"todo", "in_progress", "done"}]
    /\ credit \in [Sessions -> SUBSET Nodes]
    /\ pc \in [Runs -> Phases]
    /\ on \in [Runs -> Sessions]
    /\ n \in [Runs -> Iterations]
    /\ verdict \in [Runs -> {"succeeded", "failed"}]
    /\ rows \in [Runs -> [Iterations -> Evaluations \cup {"none"}]]
    /\ saved \in [Runs -> BOOLEAN]
    /\ draft \in [Runs -> {"none", "pass", "fail", "needs_evidence"}]
    /\ target \in [Runs -> 0..NumNodes]
    /\ marked \in [Runs -> BOOLEAN]

\* The verdict of a session is final ("If the session is already succeeded/
\* failed/aborted, no work is done"): a run that loaded the session while it
\* was running, and saves its status after another run has committed, saves
\* the same one, because it has replayed that run's iterations.
VerdictIsFinal ==
    [][\A s \in Sessions : session[s] # "running" => session'[s] = session[s]]_loopVars

\* The iteration rows account for the status: they are numbered without gaps,
\* every row but the last asks for another attempt, a session succeeded exactly
\* when its last row passes, it failed on a failing row or for want of
\* iterations, and a running session has none (one transaction writes both).
IterationsExplainVerdict ==
    \A s \in Sessions : LET its == iters[s] IN
        /\ \A i, j \in Iterations : j < i /\ its[i] # "none" => its[j] \in TryAgain
        /\ session[s] = "running" => its = NoRows
        /\ session[s] = "succeeded" <=> LastEvaluation(its) = "pass"
        /\ session[s] = "failed" /\ s \notin Blank =>
              LastEvaluation(its) = "fail" \/ its[MaxIter] \in TryAgain

\* A session that is over has exactly one evaluation report and a running one
\* has none, however many runs it had: evaluation_reports has no unique index,
\* so this rests on the row lock that the status update takes before the
\* existing report is looked up.  The report's decision is that of the status
\* and of the last evaluation.
OneReportPerVerdict ==
    \A s \in Sessions :
        LET writers == {r \in Runs : reports[s][r] # "none"} IN
        IF session[s] = "running" THEN writers = {}
        ELSE /\ Cardinality(writers) = 1
             /\ \A r \in writers :
                   reports[s][r] = FinalDecision(session[s], iters[s])

\* At most one transaction has uncommitted iterations of a session, and only
\* while the session is running and without any committed one: so two verdicts
\* are never in the making.
OneWriterPerSession ==
    \A r \in Runs : rows[r] # NoRows =>
        /\ session[on[r]] = "running"
        /\ iters[on[r]] = NoRows
        /\ \A q \in Runs : on[q] = on[r] /\ rows[q] # NoRows => q = r

\* A goal node is done only on account of a session that succeeded.
NodesDoneBySuccess ==
    \A k \in Nodes : node[k] = "done" =>
        \E s \in Attached : session[s] = "succeeded" /\ k \in credit[s]

\* Every run that starts ends: the transactions wait for each other's keys and
\* row locks (iteration, then session, then node) but never in a circle.
RunsEnd ==
    \A r \in Runs : pc[r] # "idle" ~> pc[r] \in {"ended", "dead"}

\* A run that loads a session already over completes a node once more.  The
\* task's comment ("If succeeded, mark a single in-progress node as done.")
\* and the orchestrator's docstring ("no work is done") say otherwise.
OneNodePerSession ==
    \A s \in Sessions : Cardinality(credit[s]) <= 1

\* What the rows of a session say of it, at every commit of every run.
VerdictInv ==
    /\ LoopTypeOK
    /\ IterationsExplainVerdict
    /\ OneReportPerVerdict
    /\ OneWriterPerSession
    /\ NodesDoneBySuccess

-----------------------------------------------------------------------------
(* The abstract promise: a run's commit is the step that decides.          *)

Promise == INSTANCE SessionVerdict
             WITH verdict <- session,
                  published <- [s \in Sessions |->
                                  {reports[s][r] : r \in Runs} \ {"none"}]

\* Every behaviour of the runs is one in which each session is decided once and
\* published consistently.
KeepsPromise == Promise!Spec

=============================================================================
