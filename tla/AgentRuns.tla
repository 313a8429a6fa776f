----------------------------- MODULE AgentRuns ------------------------------
(***************************************************************************)
(* The enrichment of one memory: the tasks of                              *)
(* backend/app/tasks/memory_pipeline.py, each of which runs an agent       *)
(* through AgentRunner.run_agent (backend/app/services/agent_runner.py),   *)
(* and the feedback that users give about the memory meanwhile             *)
(* (memory_feedback_service.py).                                           *)
(*                                                                         *)
(* An agent runs inside one transaction that ends by storing its result in *)
(* the row of agent_runs of this memory and agent.  The learner also       *)
(* applies feedback, in a transaction of its own.  The result cache, which *)
(* is off by default, and the contents of outputs are left out: a result   *)
(* is the inputs it was computed from.                                     *)
(***************************************************************************)
EXTENDS Naturals, Sequences, FiniteSets, Bags

CONSTANTS
    Stages,     \* sets of agents, in the order in which the chain runs them
    Enriching,  \* agents whose outputs are inputs of the others
    Learner,    \* the feedback learning agent
    Pipeline,   \* the job of the whole chain
    Feedback,   \* feedback rows; each sends a job of the learner alone
    Worker,     \* worker processes
    MaxRetries, \* Celery's max_retries
    MaxSlips    \* bound: deaths of workers and messages delivered again

Agent == UNION {Stages[k] : k \in 1..Len(Stages)}

\* Every agent has its stage, and an enriching agent has it to itself.
ASSUME RunsAssumption ==
    /\ Stages # <<>> /\ Stages \in Seq(SUBSET Agent)
    /\ \A j, k \in 1..Len(Stages) : Stages[j] \cap Stages[k] # {} => j = k
    /\ \A k \in 1..Len(Stages) : \A e \in Enriching \cap Stages[k] : Stages[k] = {e}
    /\ Learner \in Agent /\ Enriching \subseteq Agent \ {Learner}
    /\ Pipeline \notin Feedback
    /\ MaxRetries \in Nat /\ MaxSlips \in Nat

Job == {Pipeline} \cup Feedback
Task == [job : Job, agent : Agent, retries : 0..MaxRetries]
Inputs == [prior : SUBSET Enriching, pending : SUBSET Feedback]
NoInputs == [prior |-> {}, pending |-> {}]
NoTask == [job |-> Pipeline, agent |-> Learner, retries |-> 0]
NoRow == [status |-> "none", hash |-> NoInputs, out |-> NoInputs]
Steps == {"idle", "select", "insert", "restamp", "run", "apply", "commit", "return", "ack"}

VARIABLES
    submitted, enqueued, \* feedback that is committed; whose task is sent
    applied, calibrated, \* feedback applied to the memory; merged into the org's config
    run,                 \* the committed row of each agent
    ready,               \* bag of messages in the broker
    joined,              \* returns that the chord of a group of agents has counted
    stopped,             \* jobs with a task that failed for good or was lost
    step, task,          \* of each worker
    seen,                \* the inputs whose hash it has computed
    batch,               \* feedback its agent has read as pending
    slips,
    times, orphaned      \* history: commits that applied a row; batches that
                         \* were applied by a run which was rolled back

feedbackVars == <<submitted, enqueued>>
learnt == <<applied, times>>
broker == <<ready, joined, stopped, slips>>
vars == <<feedbackVars, learnt, calibrated, run, broker, step, task, seen, batch, orphaned>>

First(k, j) == {[job |-> j, agent |-> a, retries |-> 0] : a \in Stages[k]}

Init ==
    /\ submitted = {} /\ enqueued = {} /\ applied = {} /\ calibrated = {}
    /\ run = [a \in Agent |-> NoRow]
    /\ ready = SetToBag(First(1, Pipeline))
    /\ joined = {} /\ stopped = {} /\ slips = 0
    /\ step = [w \in Worker |-> "idle"]
    /\ task = [w \in Worker |-> NoTask]
    /\ seen = [w \in Worker |-> NoInputs]
    /\ batch = [w \in Worker |-> {}]
    /\ times = [f \in Feedback |-> 0] /\ orphaned = {}

-----------------------------------------------------------------------------
Me(w) == task[w].agent
Goto(w, next) == step' = [step EXCEPT ![w] = next]
Pending == submitted \ applied

\* The worker is free for the next message.
Rest(w) ==
    /\ Goto(w, "idle")
    /\ task' = [task EXCEPT ![w] = NoTask]
    /\ seen' = [seen EXCEPT ![w] = NoInputs]

\* Does another transaction hold the row of a, or its unique key?
Holding == {"run", "apply", "commit", "return"}
LockedByOther(w, a) == \E v \in Worker \ {w} : step[v] \in Holding /\ Me(v) = a

-----------------------------------------------------------------------------
(* Users.                                                                  *)

\* The request commits the feedback row, and then sends the task.
SubmitFeedback(f) ==
    /\ f \notin submitted /\ submitted' = submitted \cup {f}
    /\ UNCHANGED <<enqueued, learnt, calibrated, run, broker, step, task, seen, batch, orphaned>>

EnqueueLearning(f) ==
    /\ f \in submitted \ enqueued /\ enqueued' = enqueued \cup {f}
    /\ ready' = ready (+) SetToBag({[job |-> f, agent |-> Learner, retries |-> 0]})
    /\ UNCHANGED <<submitted, learnt, calibrated, run, joined, stopped, slips,
                   step, task, seen, batch, orphaned>>

-----------------------------------------------------------------------------
(* One run of an agent.                                                    *)

\* The outputs of the enriching agents that have succeeded, this one included.
PriorEnrichment == {e \in Enriching : run[e].status = "success"}

\* Count and last creation time of the unapplied feedback: which rows these are.
PendingFingerprint(a) == IF a = Learner THEN Pending ELSE {}

\* A message is received and the inputs of its agent are read.
LoadInputs(w, t) ==
    /\ step[w] = "idle" /\ BagIn(t, ready)
    /\ ready' = ready (-) SetToBag({t})
    /\ task' = [task EXCEPT ![w] = t]
    /\ seen' = [seen EXCEPT ![w] =
                  [prior |-> PriorEnrichment, pending |-> PendingFingerprint(t.agent)]]
    /\ Goto(w, "select")
    /\ UNCHANGED <<feedbackVars, learnt, calibrated, run, joined, stopped, slips, batch, orphaned>>

\* A row that has succeeded with these very inputs is returned as it is.
SelectRow(w) ==
    LET row == run[Me(w)]
        same == row.status = "success" /\ row.hash = seen[w]
    IN
    /\ step[w] = "select"
    /\ Goto(w, CASE row.status = "none" -> "insert"
                 [] same                -> "ack"
                 [] OTHER               -> "restamp")
    /\ seen' = [seen EXCEPT ![w] = IF same THEN NoInputs ELSE @]
    /\ UNCHANGED <<feedbackVars, learnt, calibrated, run, broker, task, batch, orphaned>>

\* Mutant of InsertRow: no unique index on organization, memory, agent, version.
InsertAnotherRow(w) ==
    /\ step[w] = "insert"
    /\ Goto(w, "run")
    /\ UNCHANGED <<feedbackVars, learnt, calibrated, run, broker, task, seen, batch, orphaned>>

\* The new row is flushed, once no other transaction has inserted its key.
InsertRow(w) ==
    /\ step[w] = "insert" /\ ~LockedByOther(w, Me(w))
    /\ run[Me(w)].status = "none"
    /\ Goto(w, "run")
    /\ UNCHANGED <<feedbackVars, learnt, calibrated, run, broker, task, seen, batch, orphaned>>

\* Mutant of Restamp: a row of a success is run again, since its inputs differ.
RestampAndRun(w) ==
    /\ step[w] = "restamp" /\ ~LockedByOther(w, Me(w))
    /\ Goto(w, "run")
    /\ UNCHANGED <<feedbackVars, learnt, calibrated, run, broker, task, seen, batch, orphaned>>

\* The row gets the new hash, under its lock, before its status is tested:
\* what has succeeded counts as a success with the new inputs.
Restamp(w) ==
    /\ step[w] = "restamp" /\ ~LockedByOther(w, Me(w))
    /\ Goto(w, IF run[Me(w)].status = "success" THEN "return" ELSE "run")
    /\ UNCHANGED <<feedbackVars, learnt, calibrated, run, broker, task, seen, batch, orphaned>>

\* The agent computes its outputs.  The learner reads the pending feedback in
\* another session.
RunAgent(w) ==
    /\ step[w] = "run"
    /\ batch' = [batch EXCEPT ![w] = PendingFingerprint(Me(w))]
    /\ Goto(w, IF Me(w) = Learner THEN "apply" ELSE "commit")
    /\ UNCHANGED <<feedbackVars, learnt, calibrated, run, broker, task, seen, orphaned>>

\* The learner commits what it has read as applied.
ApplyFeedback(w) ==
    /\ step[w] = "apply"
    /\ applied' = applied \cup batch[w]
    /\ times' = [f \in Feedback |-> IF f \in batch[w] THEN times[f] + 1 ELSE times[f]]
    /\ Goto(w, "commit")
    /\ UNCHANGED <<feedbackVars, calibrated, run, broker, task, seen, batch, orphaned>>

\* The side effects of the outputs, of which only the learner's are kept here:
\* what it has applied is merged into the calibration of the organization.
Materialize(w) == calibrated' = calibrated \cup batch[w]

\* Mutant of Commit: the calibration is not written with the result.
CommitUncalibrated(w) ==
    /\ step[w] \in {"commit", "return"}
    /\ run' = [run EXCEPT ![Me(w)] =
                 [status |-> "success", hash |-> seen[w],
                  out |-> IF step[w] = "return" THEN @.out
                          ELSE [prior |-> seen[w].prior, pending |-> batch[w]]]]
    /\ batch' = [batch EXCEPT ![w] = {}] /\ seen' = [seen EXCEPT ![w] = NoInputs]
    /\ Goto(w, "ack")
    /\ UNCHANGED <<feedbackVars, learnt, calibrated, broker, task, orphaned>>

\* The result, the calibration it implies and the hash become visible; or only
\* the hash, when stored outputs are returned.
Commit(w) ==
    /\ step[w] \in {"commit", "return"}
    /\ run' = [run EXCEPT ![Me(w)] =
                 [status |-> "success", hash |-> seen[w],
                  out |-> IF step[w] = "return" THEN @.out
                          ELSE [prior |-> seen[w].prior, pending |-> batch[w]]]]
    /\ Materialize(w)
    /\ batch' = [batch EXCEPT ![w] = {}] /\ seen' = [seen EXCEPT ![w] = NoInputs]
    /\ Goto(w, "ack")
    /\ UNCHANGED <<feedbackVars, learnt, broker, task, orphaned>>

-----------------------------------------------------------------------------
(* Celery.                                                                 *)

StageOf(a) == CHOOSE k \in 1..Len(Stages) : a \in Stages[k]

\* Mutant of Following: the last task is missing from the chain.
FollowingButLast(t) ==
    IF t.job = Pipeline /\ StageOf(t.agent) < Len(Stages) - 1
    THEN First(StageOf(t.agent) + 1, Pipeline) ELSE {}

\* The tasks of the stage after t's.
Following(t) ==
    IF t.job = Pipeline /\ StageOf(t.agent) < Len(Stages)
    THEN First(StageOf(t.agent) + 1, Pipeline) ELSE {}

\* A task whose agent is the last of its stage to return sends the next stage.
\* The return of a message that was delivered twice may count again.
Ack(w) ==
    LET t == task[w]
        size == IF t.job = Pipeline THEN Cardinality(Stages[StageOf(t.agent)]) ELSE 1
    IN
    /\ step[w] = "ack" /\ Rest(w)
    /\ \E n \in 0..(IF size = 1 THEN 0 ELSE slips) :
         LET counted == {<<t.agent, n>>} \cup (IF size = 1 THEN {} ELSE joined) IN
         IF Cardinality(counted) = size
         THEN /\ joined' = IF size = 1 THEN joined ELSE {}
              /\ ready' = ready (+) SetToBag(Following(t))
         ELSE joined' = counted /\ UNCHANGED ready
    /\ UNCHANGED <<feedbackVars, learnt, calibrated, run, stopped, slips, batch, orphaned>>

\* The transaction is rolled back, with the row that says "failed" or "retry".
RollBack(w) ==
    /\ batch' = [batch EXCEPT ![w] = {}]
    /\ orphaned' = IF step[w] = "commit" THEN orphaned \cup batch[w] ELSE orphaned
    /\ Rest(w)

\* Mutant of Raise: the chain goes on after a task has failed for good.
RaiseAndGoOn(w) ==
    LET t == task[w] IN
    /\ step[w] \in Steps \ {"idle", "ack"}
    /\ ready' = ready (+) SetToBag(
          IF t.retries < MaxRetries THEN {[t EXCEPT !.retries = @ + 1]}
          ELSE Following(t))
    /\ RollBack(w)
    /\ UNCHANGED <<feedbackVars, learnt, calibrated, run, joined, stopped, slips>>

\* An exception is retried, as the violated unique key of InsertRow is, until
\* the retries are used up.
Raise(w) ==
    LET t == task[w] IN
    /\ step[w] \in Steps \ {"idle", "ack"}
    /\ IF t.retries < MaxRetries
       THEN /\ ready' = ready (+) SetToBag({[t EXCEPT !.retries = @ + 1]})
            /\ UNCHANGED stopped
       ELSE /\ stopped' = stopped \cup {t.job}
            /\ UNCHANGED ready
    /\ RollBack(w)
    /\ UNCHANGED <<feedbackVars, learnt, calibrated, run, joined, slips>>

\* The unique key of the row to insert has been committed meanwhile.
Collide(w) == step[w] = "insert" /\ run[Me(w)].status # "none" /\ Raise(w)

\* A ValueError of an agent or of its outputs' validation is not retried.
Reject(w) ==
    /\ step[w] = "run"
    /\ stopped' = stopped \cup {task[w].job}
    /\ RollBack(w)
    /\ UNCHANGED <<feedbackVars, learnt, calibrated, run, ready, joined, slips>>

\* The worker dies.  Its message comes back, or is lost with a child process
\* that dies alone.
Die(w) ==
    /\ step[w] # "idle" /\ slips < MaxSlips /\ slips' = slips + 1
    /\ \/ ready' = ready (+) SetToBag({task[w]}) /\ UNCHANGED stopped
       \/ stopped' = stopped \cup {task[w].job} /\ UNCHANGED ready
    /\ RollBack(w)
    /\ UNCHANGED <<feedbackVars, learnt, calibrated, run, joined>>

\* The visibility timeout passes while the worker is still at it.
Redeliver(w) ==
    /\ step[w] # "idle" /\ slips < MaxSlips /\ slips' = slips + 1
    /\ ready' = ready (+) SetToBag({task[w]})
    /\ UNCHANGED <<feedbackVars, learnt, calibrated, run, joined, stopped, step, task, seen, batch, orphaned>>

-----------------------------------------------------------------------------
Continue(w) ==
    \/ SelectRow(w) \/ InsertRow(w) \/ Collide(w) \/ Restamp(w) \/ RunAgent(w)
    \/ ApplyFeedback(w) \/ Commit(w) \/ Ack(w)

Receive(w) == \E t \in DOMAIN ready : LoadInputs(w, t)

Next ==
    \/ \E w \in Worker :
        Receive(w) \/ Continue(w) \/ Raise(w) \/ Reject(w) \/ Die(w) \/ Redeliver(w)
    \/ \E f \in Feedback : SubmitFeedback(f) \/ EnqueueLearning(f)

Spec == Init /\ [][Next]_vars

\* Workers take the messages there are, and go on with what they have begun.
FairSpec ==
    /\ Spec
    /\ \A w \in Worker : WF_vars(Receive(w)) /\ WF_vars(Continue(w))

-----------------------------------------------------------------------------
TypeOK ==
    /\ enqueued \subseteq submitted /\ submitted \subseteq Feedback
    /\ applied \subseteq submitted /\ calibrated \subseteq applied
    /\ \A a \in Agent : run[a] = NoRow \/
          /\ run[a].status = "success"
          /\ run[a].hash \in Inputs /\ run[a].out \in Inputs
    /\ BagToSet(ready) \subseteq Task /\ stopped \subseteq Job
    /\ joined \subseteq Agent \X (0..MaxSlips)
    /\ step \in [Worker -> Steps] /\ task \in [Worker -> Task]
    /\ seen \in [Worker -> Inputs] /\ batch \in [Worker -> SUBSET Feedback]
    /\ slips \in 0..MaxSlips /\ orphaned \subseteq applied

\* An agent of the chain has computed its result from the outputs of all
\* enriching agents of the stages before it, whatever was retried, delivered
\* again or run at the same time.  The learner is also run outside the chain.
FedByEarlierStages ==
    \A k \in 1..Len(Stages) : \A a \in Stages[k] \ {Learner} :
        run[a].status = "success" =>
            Enriching \cap UNION {Stages[i] : i \in 1..(k - 1)} \subseteq run[a].out.prior

\* Results and what they were computed from.
ResultsInv ==
    /\ TypeOK
    /\ FedByEarlierStages

\* No feedback is applied twice, and what is applied is part of the
\* calibration, unless the run that applied it is still open or was rolled back.
FeedbackAccounted ==
    /\ \A f \in Feedback : times[f] <= 1
    /\ \A f \in applied : \/ f \in calibrated \cup orphaned
                          \/ \E w \in Worker : f \in batch[w]

\* What an agent has stored is never computed again for this memory, whatever
\* becomes of its inputs.
OutputsStay ==
    [][\A a \in Agent : run[a].status = "success" => run'[a].out = run[a].out]_vars

\* The workers come to rest, and then the chain has run to its end or one of its
\* tasks has failed for good or was lost.
Quiet == ready = EmptyBag /\ \A w \in Worker : step[w] = "idle"
PipelineEnds ==
    []<>(Quiet /\ (run[Learner].status = "success" \/ stopped # {}))

\* agent_runner.py:1037 "Without this, FeedbackLearningAgent could be incorrectly
\* skipped when new feedback arrives but the memory content/enrichment is
\* unchanged": feedback whose task was sent is applied when the workers rest.
LearnsPending == Quiet /\ stopped = {} => enqueued \subseteq applied

=============================================================================
