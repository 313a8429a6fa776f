---------------------------- MODULE AgentRuntime ----------------------------
(***************************************************************************)
(* How a cognitive session gets run: the run endpoint, the table of agent  *)
(* processes, the broker, and the workers.  AgentScheduler and             *)
(* CognitiveLoop, whose actions the actions here contain, are its parts.   *)
(*                                                                         *)
(* POST /sessions/{id}/run commits a queued process and then sends         *)
(* cognitive_loop_task for it; schedule_dequeue_and_run_task dequeues a    *)
(* queued process and then sends the same task.  Neither looks at what the *)
(* other did.  The broker delivers a task at least once (task_acks_late:   *)
(* it is acknowledged when it ends), and when a run ends its finally block *)
(* writes the result into the process, whatever the process's status is.   *)
(***************************************************************************)
EXTENDS AgentScheduler, CognitiveLoop

CONSTANTS           \* bounds of this module
    MaxRedeliveries,   \* tasks delivered again
    MaxLost,           \* tasks never sent, acknowledged unfinished, or whose
                       \* finalization fails
    MaxLate            \* exceptions after orchestrator.run has returned

ASSUME RuntimeAssumption ==
    /\ IsFiniteSet(Runs)
    /\ MaxRedeliveries \in Nat /\ MaxLost \in Nat /\ MaxLate \in Nat

VARIABLES
    sessOf,       \* session_id of each process
    owed,         \* tasks to be sent by a request or a dequeue that committed
    queue,        \* deliveries of each process's task waiting in the broker
    job,          \* process of each run, 0 before the run is started
    closed,       \* runs whose finally block is over
    redelivered, lost, late

brokerVars == <<owed, queue>>
faultVars == <<redelivered, lost, late>>
vars == <<schedVars, loopVars, sessOf, brokerVars, job, closed, faultVars>>

Init ==
    /\ SchedInit
    /\ LoopInit
    /\ sessOf = [p \in Procs |-> NoSession]
    /\ owed = {}
    /\ queue = [p \in Procs |-> 0]
    /\ job = [r \in Runs |-> 0]
    /\ closed = {}
    /\ redelivered = 0
    /\ lost = 0
    /\ late = 0

-----------------------------------------------------------------------------
(* The run endpoint and the dequeue task.                                  *)

\* run_cognitive_session: enqueue commits; the status of the session is not
\* looked at.
RunSession(s, o, r) ==
    /\ Enqueue(o, r)
    /\ sessOf' = [sessOf EXCEPT ![created + 1] = s]
    /\ owed' = owed \cup {<<"request", created + 1>>}
    /\ UNCHANGED <<loopVars, queue, job, closed, faultVars>>

\* cognitive_loop_task.delay, by the request or by the dequeue task.
Send(from, p) ==
    /\ <<from, p>> \in owed
    /\ owed' = owed \ {<<from, p>>}
    /\ queue' = [queue EXCEPT ![p] = @ + 1]
    /\ UNCHANGED <<schedVars, loopVars, sessOf, job, closed, faultVars>>

\* The server or the worker dies between the commit and the delay, or the
\* broker refuses the task.
LoseSend(from, p) ==
    /\ <<from, p>> \in owed
    /\ lost < MaxLost
    /\ owed' = owed \ {<<from, p>>}
    /\ lost' = lost + 1
    /\ UNCHANGED <<schedVars, loopVars, sessOf, queue, job, closed, redelivered, late>>

\* Mutant of Dequeue: the task is not sent for the process that was dequeued.
DequeueForgotten(w) ==
    /\ \/ \E o \in Orgs : CountRunning(w, o)
       \/ Pick(w)
       \/ AbortDequeue(w)
       \/ CommitDequeue(w)
    /\ UNCHANGED <<loopVars, sessOf, brokerVars, job, closed, faultVars>>

\* schedule_dequeue_and_run_task, up to the commit of the dequeue.
Dequeue(w) ==
    /\ \/ \E o \in Orgs : CountRunning(w, o) /\ UNCHANGED owed
       \/ Pick(w) /\ UNCHANGED owed
       \/ AbortDequeue(w) /\ UNCHANGED owed
       \/ /\ CommitDequeue(w)
          /\ owed' = owed \cup {<<"dequeue", dq[w].proc>>}
    /\ UNCHANGED <<loopVars, sessOf, queue, job, closed, faultVars>>

-----------------------------------------------------------------------------
(* The broker and the workers.                                             *)

\* A worker receives a task and starts its transaction.
Receive(r, p) ==
    /\ queue[p] > 0
    /\ queue' = [queue EXCEPT ![p] = @ - 1]
    /\ job' = [job EXCEPT ![r] = p]
    /\ Begin(r, sessOf[p])
    /\ UNCHANGED <<schedVars, sessOf, owed, closed, faultVars>>

\* A statement of the run's transaction.
Step(r) ==
    /\ Work(r)
    /\ UNCHANGED <<schedVars, sessOf, brokerVars, job, closed, faultVars>>

\* An exception ends the transaction.
RunRaises(r) ==
    /\ Raise(r)
    /\ IF pc[r] \in Returned
       THEN late < MaxLate /\ late' = late + 1
       ELSE UNCHANGED late
    /\ UNCHANGED <<schedVars, sessOf, brokerVars, job, closed, redelivered, lost>>

\* Mutant of Finalize: the branches of the finally block are swapped.
FinalizeSwapped(r) ==
    /\ pc[r] = "ended"
    /\ r \notin closed
    /\ MarkTerminal(job[r], IF verdict[r] = "succeeded" THEN "failed" ELSE "succeeded")
    /\ closed' = closed \cup {r}
    /\ UNCHANGED <<loopVars, sessOf, brokerVars, job, faultVars>>

\* The finally block: mark_succeeded or mark_failed, waiting for a dequeuer
\* that holds the row.  The task is then acknowledged.
Finalize(r) ==
    /\ pc[r] = "ended"
    /\ r \notin closed
    /\ MarkTerminal(job[r], verdict[r])
    /\ closed' = closed \cup {r}
    /\ UNCHANGED <<loopVars, sessOf, brokerVars, job, faultVars>>

\* The finalization itself fails, which is logged and forgotten.
LoseFinalize(r) ==
    /\ pc[r] = "ended"
    /\ r \notin closed
    /\ lost < MaxLost
    /\ lost' = lost + 1
    /\ closed' = closed \cup {r}
    /\ UNCHANGED <<schedVars, loopVars, sessOf, brokerVars, job, redelivered, late>>

Unfinished(r) == job[r] # 0 /\ r \notin closed /\ pc[r] # "dead"

\* The broker gives an unacknowledged task to another worker, while the first
\* may well be still at work (a visibility timeout).
Redeliver(r) ==
    /\ Unfinished(r)
    /\ redelivered < MaxRedeliveries
    /\ redelivered' = redelivered + 1
    /\ queue' = [queue EXCEPT ![job[r]] = @ + 1]
    /\ UNCHANGED <<schedVars, loopVars, sessOf, owed, job, closed, lost, late>>

\* Mutant of WorkerDies: the task was acknowledged when it was received.
DieAcknowledged(r) ==
    /\ Die(r)
    /\ redelivered < MaxRedeliveries
    /\ redelivered' = redelivered + 1
    /\ UNCHANGED <<schedVars, sessOf, brokerVars, job, closed, lost, late>>

\* The worker is killed.  With its pool the task is delivered again; a child
\* process alone, and the task is acknowledged and lost.
WorkerDies(r) ==
    /\ Die(r)
    /\ \/ /\ redelivered < MaxRedeliveries
          /\ redelivered' = redelivered + 1
          /\ queue' = [queue EXCEPT ![job[r]] = @ + 1]
          /\ UNCHANGED lost
       \/ /\ lost < MaxLost
          /\ lost' = lost + 1
          /\ UNCHANGED <<redelivered, queue>>
    /\ UNCHANGED <<schedVars, sessOf, owed, job, closed, late>>

Next ==
    \/ \E s \in Sessions, o \in Orgs, r \in Priorities : RunSession(s, o, r)
    \/ \E from \in {"request", "dequeue"}, p \in Procs :
          Send(from, p) \/ LoseSend(from, p)
    \/ \E w \in Dequeuers : Dequeue(w)
    \/ \E r \in Runs :
          \/ \E p \in Procs : Receive(r, p)
          \/ Step(r) \/ RunRaises(r) \/ Finalize(r) \/ LoseFinalize(r)
          \/ Redeliver(r) \/ WorkerDies(r)

Spec == Init /\ [][Next]_vars

\* The broker delivers, the workers work, a request that committed sends its
\* task, and a dequeue that has begun is carried through.  Nobody has to call
\* the endpoint or to dequeue, and no failure has to happen.
Fairness ==
    /\ \A from \in {"request", "dequeue"}, p \in Procs : WF_vars(Send(from, p))
    /\ \A p \in Procs : WF_vars(\E r \in Runs : Receive(r, p))
    /\ \A r \in Runs : WF_vars(Step(r)) /\ SF_vars(Finalize(r))
    /\ \A w \in Dequeuers : WF_vars(Dequeue(w) /\ dq[w].phase = "picked")

FairSpec == Spec /\ Fairness

-----------------------------------------------------------------------------
(* Properties.                                                             *)

\* The variables of this module have their types.
TypeOK ==
    /\ SchedTypeOK
    /\ LoopTypeOK
    /\ sessOf \in [Procs -> Sessions]
    /\ owed \subseteq {"request", "dequeue"} \X Procs
    /\ queue \in [Procs -> Nat]
    /\ job \in [Runs -> 0..NumProcs]
    /\ closed \subseteq Runs
    /\ redelivered \in 0..MaxRedeliveries
    /\ lost \in 0..MaxLost
    /\ late \in 0..MaxLate

\* A process recorded as succeeded belongs to a session that succeeded, however
\* many runs it had and in whatever order they ended.  The one way to lie is an
\* exception after orchestrator.run has returned: the session is rolled back
\* and the process still marked with the verdict.  Each such exception can spoil
\* one process, no more.
TruthfulSuccess ==
    Cardinality({p \in Procs : /\ status[p] = "succeeded"
                               /\ session[sessOf[p]] # "succeeded"}) <= late

\* With one run of its session, begun and finished, a process says exactly what
\* became of the session: succeeded or not.
AgreementWhenAlone ==
    \A r \in closed :
        /\ \A q \in Runs \ {r} : job[q] = 0 \/ sessOf[job[q]] # sessOf[job[r]]
        /\ lost = 0
        /\ late = 0
        => (status[job[r]] = "succeeded" <=> session[sessOf[job[r]]] = "succeeded")

\* Nothing is on its way: no task to send, none in the broker, no run at work,
\* no dequeue begun.
Quiet ==
    /\ owed = {}
    /\ \A p \in Procs : queue[p] = 0
    /\ \A r \in Runs : ~Unfinished(r)
    /\ \A w \in Dequeuers : dq[w].phase = "idle"

\* When a slot of the running cap is leaked: a running process still has a
\* task to be sent, waiting or at work, unless both the task of its request and
\* that of its dequeue were lost (LoseSend, a child killed, LoseFinalize), since
\* the end of either puts it into a terminal status.  Nothing else leaks one,
\* and nothing ever reclaims one.
NoLeakedSlot ==
    Quiet => 2 * Cardinality({p \in Procs : status[p] = "running"}) <= lost

\* Every process that is enqueued reaches a terminal status, worker deaths and
\* redelivery included, unless a task was lost or the instance has no run left
\* for a delivery that is waiting.
EveryProcessEnds ==
    \A p \in Procs :
        status[p] = "queued" ~> \/ status[p] \in {"succeeded", "failed"}
                                \/ lost > 0
                                \/ queue[p] > 0 /\ \A r \in Runs : job[r] # 0

\* Every run of a process is accounted for: the endpoint's own task, the starts
\* that attempts counts ("How many times this process has been started", which
\* leaves out the endpoint's), or a redelivery.
RunsAccounted ==
    \A p \in Procs : Cardinality({r \in Runs : job[r] = p}) <= 1 + attempts[p] + redelivered

\* What a process says of its session, and how many runs it has had.
ProcessInv ==
    /\ TypeOK
    /\ TruthfulSuccess
    /\ AgreementWhenAlone
    /\ RunsAccounted

=============================================================================
