---------------------------- MODULE PipelineTasks ---------------------------
(***************************************************************************)
(* Pipeline tasks and their dead letter queue                              *)
(* (backend/app/services/sla_scheduler_service.py,                         *)
(* dead_letter_queue_service.py, api/v1/endpoints/pipeline_tasks.py).      *)
(*                                                                         *)
(* A worker dequeues a task under a row lock and later marks it.  The      *)
(* marks ask neither for the task's status nor for who calls them: any     *)
(* session may mark any task.  Marks, cancellations and retries read the   *)
(* row without a lock, decide, and write at the end of their transaction   *)
(* only the columns whose value differs from the one they read; dequeues   *)
(* skip locked rows and writers wait for them.  READ COMMITTED throughout. *)
(* Which eligible task is the most urgent is abstracted: a dequeue takes   *)
(* any.                                                                    *)
(***************************************************************************)
EXTENDS Naturals, FiniteSets

CONSTANTS
    Tasks,             \* rows of pipeline_tasks
    Workers,           \* sessions that dequeue a task and mark it
    Admins,            \* other sessions: the endpoints, marks of any task
    MaxAttempts,       \* max_attempts
    PoisonThreshold,   \* POISON_MESSAGE_FAILURE_THRESHOLD
    MaxEntries         \* dead letters of a task (bounds the model)

ASSUME PipelineAssumption ==
    /\ MaxAttempts \in Nat \ {0}
    /\ PoisonThreshold \in Nat \ {0}
    /\ MaxEntries \in Nat \ {0}
    /\ Tasks # {} /\ IsFiniteSet(Tasks)
    /\ Workers \cap Admins = {}

Sessions == Workers \cup Admins

Statuses == {"none", "queued", "running", "blocked", "succeeded", "failed"}
Finished == {"succeeded", "failed"}
Cancellable == {"queued", "running", "blocked"}
Marks == {"succeed", "fail", "block", "quota"}

VARIABLES
    \* pipeline_tasks
    status, attempts, quota,
    \* dead_letter_queue, per original task
    entries,     \* rows
    discarded,   \* rows that are resolved
    \* workers
    step, task,
    \* sessions
    saw,         \* the row as it read it, to pick or to mark it
    \* admins
    call, target,
    todo,        \* detect_poison_messages: tasks of the patterns, still to examine
    add,         \* and the dead letters it has added
    \* history
    starts,      \* dequeues committed
    cancels,     \* tasks ever cancelled
    abandoned,   \* tasks that some worker dropped
    strays,      \* tasks ever marked by a session that was not executing them
    contested    \* tasks that another session had in hand when they succeeded,
                 \* or that a stray mark took up since

rowVars == <<status, attempts, quota>>
letterVars == <<entries, discarded>>
workerVars == <<step, task, saw>>
adminVars == <<call, target, todo, add>>
historyVars == <<starts, cancels, abandoned, strays, contested>>
vars == <<rowVars, letterVars, workerVars, adminVars, historyVars>>

ATask == CHOOSE t \in Tasks : TRUE
NoRow == [status |-> "none", attempts |-> 0, quota |-> FALSE]
Row(t) == [status |-> status[t], attempts |-> attempts[t], quota |-> quota[t]]

Init ==
    /\ status = [t \in Tasks |-> "none"]
    /\ attempts = [t \in Tasks |-> 0]
    /\ quota = [t \in Tasks |-> FALSE]
    /\ entries = [t \in Tasks |-> 0]
    /\ discarded = [t \in Tasks |-> 0]
    /\ step = [w \in Workers |-> "idle"]
    /\ task = [w \in Workers |-> ATask]
    /\ saw = [s \in Sessions |-> NoRow]
    /\ call = [a \in Admins |-> "idle"]
    /\ target = [a \in Admins |-> ATask]
    /\ todo = [a \in Admins |-> {}]
    /\ add = [a \in Admins |-> {}]
    /\ starts = [t \in Tasks |-> 0]
    /\ cancels = {}
    /\ abandoned = {}
    /\ strays = {}
    /\ contested = {}

-----------------------------------------------------------------------------
(* SLASchedulerService.                                                    *)

\* A transaction ends, and what its session read is gone.
Forget(s) == saw' = [saw EXCEPT ![s] = NoRow]

\* enqueue_pipeline_task, and the commit of its caller.
Enqueue(t) ==
    /\ status[t] = "none"
    /\ status' = [status EXCEPT ![t] = "queued"]
    /\ UNCHANGED <<attempts, quota, letterVars, workerVars, adminVars, historyVars>>

Locked(t) == \E w \in Workers : step[w] = "picked" /\ task[w] = t

\* Mutant of Eligible: running tasks are picked too.
EligibleRunning(t) ==
    status[t] \in {"queued", "running"} /\ attempts[t] < MaxAttempts /\ ~quota[t] /\ ~Locked(t)

\* The rows that the SELECT ... FOR UPDATE SKIP LOCKED of a dequeue returns.
Eligible(t) == status[t] = "queued" /\ attempts[t] < MaxAttempts /\ ~quota[t] /\ ~Locked(t)

\* dequeue_next_by_sla: the row is locked and changed.
Pick(w) ==
    /\ step[w] = "idle"
    /\ \E t \in Tasks :
          /\ Eligible(t)
          /\ task' = [task EXCEPT ![w] = t]
          /\ saw' = [saw EXCEPT ![w] = Row(t)]
    /\ step' = [step EXCEPT ![w] = "picked"]
    /\ UNCHANGED <<rowVars, letterVars, adminVars, historyVars>>

\* The dequeue commits, and the worker begins to execute the task.
CommitPick(w) ==
    /\ step[w] = "picked"
    /\ step' = [step EXCEPT ![w] = "working"]
    /\ status' = [status EXCEPT ![task[w]] = "running"]
    /\ attempts' = [attempts EXCEPT ![task[w]] = saw[w].attempts + 1]
    /\ starts' = [starts EXCEPT ![task[w]] = @ + 1]
    /\ Forget(w)
    /\ UNCHANGED <<quota, letterVars, task, adminVars, cancels, abandoned, strays, contested>>

\* mark_succeeded, mark_failed and mark_blocked read the row, whatever its
\* status: the worker that executes the task calls one of them.  Which one is
\* chosen at the write, since nothing before it depends on the mark.
ReadToMark(w) ==
    /\ step[w] = "working"
    /\ step' = [step EXCEPT ![w] = "marking"]
    /\ saw' = [saw EXCEPT ![w] = Row(task[w])]
    /\ UNCHANGED <<rowVars, letterVars, task, adminVars, historyVars>>

\* Any other session calls one of them for any task: one that nobody dequeued,
\* one that a worker executes, one that is finished.
ReadToMarkAny(a, t) ==
    /\ call[a] = "idle"
    /\ status[t] # "none"
    /\ call' = [call EXCEPT ![a] = "mark"]
    /\ target' = [target EXCEPT ![a] = t]
    /\ saw' = [saw EXCEPT ![a] = Row(t)]
    /\ strays' = strays \cup {t}
    /\ contested' = IF status[t] = "succeeded" THEN contested \cup {t} ELSE contested
    /\ UNCHANGED <<rowVars, letterVars, step, task, todo, add, starts, cancels, abandoned>>

\* Mutant of Exhausted: "exceeded" taken literally.
ExhaustedBeyond(row) == row.attempts > MaxAttempts

\* should_quarantine.
Exhausted(row) == row.attempts >= MaxAttempts

\* The status a mark assigns.
Marked(m, row) ==
    CASE m = "succeed" -> "succeeded"
      [] m = "fail" -> IF Exhausted(row) THEN "failed" ELSE "queued"
      [] OTHER -> "blocked"

\* Whether a mark makes a dead letter: check_and_quarantine finds none yet.
Quarantines(s, t, m) == m = "fail" /\ Exhausted(saw[s]) /\ entries[t] = 0

\* The sessions that read a task and will write it.
HasInHand(s, t) ==
    \/ s \in Workers /\ step[s] # "idle" /\ task[s] = t
    \/ s \in Admins /\ call[s] \in {"cancel", "retry", "mark"} /\ target[s] = t

\* A mark m is flushed, which waits for the row, and committed.  Two dead letters
\* of one task make the lookup of check_and_quarantine raise.
WriteMark(s, t, m) ==
    LET new == Marked(m, saw[s])
        flag == IF m = "quota" THEN TRUE ELSE IF m = "block" THEN FALSE ELSE saw[s].quota
    IN
    /\ ~Locked(t)
    /\ ~(m = "fail" /\ Exhausted(saw[s]) /\ entries[t] > 1)
    /\ status' = [status EXCEPT ![t] = IF new # saw[s].status THEN new ELSE @]
    /\ quota' = [quota EXCEPT ![t] = IF flag # saw[s].quota THEN flag ELSE @]
    /\ entries' = [entries EXCEPT ![t] = IF Quarantines(s, t, m) THEN @ + 1 ELSE @]
    /\ contested' =
          IF status'[t] = "succeeded" /\ \E o \in Sessions \ {s} : HasInHand(o, t)
          THEN contested \cup {t}
          ELSE contested \ {t}
    /\ Forget(s)
    /\ UNCHANGED <<attempts, discarded, starts, cancels, abandoned, strays>>

CommitMark(w) ==
    /\ step[w] = "marking"
    /\ \E m \in Marks : WriteMark(w, task[w], m)
    /\ step' = [step EXCEPT ![w] = "idle"]
    /\ UNCHANGED <<task, adminVars>>

CommitMarkAny(a) ==
    /\ call[a] = "mark"
    /\ \E m \in Marks : WriteMark(a, target[a], m)
    /\ call' = [call EXCEPT ![a] = "idle"]
    /\ UNCHANGED <<step, task, target, todo, add>>

\* The worker dies, or the mark raises: its transaction is rolled back, and
\* nobody else will mark the task.
Drop(w) ==
    /\ step[w] # "idle"
    /\ step' = [step EXCEPT ![w] = "idle"]
    /\ abandoned' = abandoned \cup {task[w]}
    /\ Forget(w)
    /\ UNCHANGED <<rowVars, letterVars, task, adminVars, starts, cancels, strays, contested>>

-----------------------------------------------------------------------------
(* cancel_pipeline_task, retry_pipeline_task.                              *)

ReadToCancel(a, t) ==
    /\ call[a] = "idle"
    /\ status[t] \in Cancellable
    /\ call' = [call EXCEPT ![a] = "cancel"]
    /\ target' = [target EXCEPT ![a] = t]
    /\ UNCHANGED <<rowVars, letterVars, workerVars, todo, add, historyVars>>

\* Mutant of ReadToRetry: any finished task is retried.
ReadToRetryFinished(a, t) ==
    /\ call[a] = "idle"
    /\ status[t] \in Finished
    /\ attempts[t] < MaxAttempts
    /\ call' = [call EXCEPT ![a] = "retry"]
    /\ target' = [target EXCEPT ![a] = t]
    /\ UNCHANGED <<rowVars, letterVars, workerVars, todo, add, historyVars>>

ReadToRetry(a, t) ==
    /\ call[a] = "idle"
    /\ status[t] = "failed"
    /\ attempts[t] < MaxAttempts
    /\ call' = [call EXCEPT ![a] = "retry"]
    /\ target' = [target EXCEPT ![a] = t]
    /\ UNCHANGED <<rowVars, letterVars, workerVars, todo, add, historyVars>>

\* The new status differs from the one that was read, so it is always written.
CommitCancel(a) ==
    /\ call[a] = "cancel"
    /\ ~Locked(target[a])
    /\ status' = [status EXCEPT ![target[a]] = "failed"]
    /\ cancels' = cancels \cup {target[a]}
    /\ call' = [call EXCEPT ![a] = "idle"]
    /\ UNCHANGED <<attempts, quota, letterVars, workerVars, target, todo, add,
                   starts, abandoned, strays, contested>>

CommitRetry(a) ==
    /\ call[a] = "retry"
    /\ ~Locked(target[a])
    /\ status' = [status EXCEPT ![target[a]] = "queued"]
    /\ call' = [call EXCEPT ![a] = "idle"]
    /\ UNCHANGED <<attempts, quota, letterVars, workerVars, target, todo, add, historyVars>>

-----------------------------------------------------------------------------
(* detect_poison_messages, discard_task.  requeue_task passes an argument  *)
(* that enqueue_pipeline_task does not have, and always raises.            *)

\* The tasks of the patterns that failed often enough.
Scan(a) ==
    /\ call[a] = "idle"
    /\ \E ts \in SUBSET {t \in Tasks : status[t] = "failed"} :
          /\ Cardinality(ts) >= PoisonThreshold
          /\ todo' = [todo EXCEPT ![a] = ts]
    /\ call' = [call EXCEPT ![a] = "detect"]
    /\ UNCHANGED <<rowVars, letterVars, workerVars, target, add, historyVars>>

\* check_and_quarantine makes a dead letter of a failed task that has none.
Suspect(t) == status[t] = "failed" /\ entries[t] = 0

\* One task is read again and examined; a second dead letter of a failed task
\* makes the lookup raise, and then the whole call.
Examine(a, t) ==
    /\ call[a] = "detect"
    /\ t \in todo[a]
    /\ IF status[t] = "failed" /\ entries[t] > 1
       THEN /\ call' = [call EXCEPT ![a] = "idle"]
            /\ todo' = [todo EXCEPT ![a] = {}]
            /\ add' = [add EXCEPT ![a] = {}]
       ELSE /\ add' = [add EXCEPT ![a] = IF Suspect(t) THEN @ \cup {t} ELSE @]
            /\ todo' = [todo EXCEPT ![a] = @ \ {t}]
            /\ UNCHANGED call
    /\ UNCHANGED <<rowVars, letterVars, workerVars, target, historyVars>>

CommitDetect(a) ==
    /\ call[a] = "detect"
    /\ todo[a] = {}
    /\ \A t \in add[a] : entries[t] < MaxEntries
    /\ entries' = [t \in Tasks |-> IF t \in add[a] THEN entries[t] + 1 ELSE entries[t]]
    /\ add' = [add EXCEPT ![a] = {}]
    /\ call' = [call EXCEPT ![a] = "idle"]
    /\ UNCHANGED <<rowVars, discarded, workerVars, target, todo, historyVars>>

\* discard_task.
Discard(t) ==
    /\ discarded[t] < entries[t]
    /\ discarded' = [discarded EXCEPT ![t] = @ + 1]
    /\ UNCHANGED <<rowVars, entries, workerVars, adminVars, historyVars>>

\* A request that fails is rolled back.
AbortCall(a) ==
    /\ call[a] # "idle"
    /\ call' = [call EXCEPT ![a] = "idle"]
    /\ todo' = [todo EXCEPT ![a] = {}]
    /\ add' = [add EXCEPT ![a] = {}]
    /\ Forget(a)
    /\ UNCHANGED <<rowVars, letterVars, step, task, target, historyVars>>

-----------------------------------------------------------------------------
Work(w) == Pick(w) \/ CommitPick(w) \/ ReadToMark(w) \/ CommitMark(w)

Next ==
    \/ \E t \in Tasks : Enqueue(t) \/ Discard(t)
    \/ \E w \in Workers : Work(w) \/ Drop(w)
    \/ \E a \in Admins :
          \/ \E t \in Tasks : ReadToMarkAny(a, t) \/ ReadToCancel(a, t) \/ ReadToRetry(a, t) \/ Examine(a, t)
          \/ CommitMarkAny(a) \/ CommitCancel(a) \/ CommitRetry(a) \/ Scan(a)
          \/ CommitDetect(a) \/ AbortCall(a)

Spec == Init /\ [][Next]_vars

\* Workers keep dequeuing, executing and marking.  Nothing makes one die, and
\* nothing makes another session act.
FairSpec == Spec /\ \A w \in Workers : WF_vars(Work(w))

-----------------------------------------------------------------------------
(* Properties.                                                             *)

TypeOK ==
    /\ status \in [Tasks -> Statuses]
    /\ attempts \in [Tasks -> Nat]
    /\ quota \in [Tasks -> BOOLEAN]
    /\ entries \in [Tasks -> Nat]
    /\ discarded \in [Tasks -> Nat]
    /\ step \in [Workers -> {"idle", "picked", "working", "marking"}]
    /\ task \in [Workers -> Tasks]
    /\ saw \in [Sessions -> [status : Statuses, attempts : Nat, quota : BOOLEAN]]
    /\ call \in [Admins -> {"idle", "mark", "cancel", "retry", "detect"}]
    /\ target \in [Admins -> Tasks]
    /\ todo \in [Admins -> SUBSET Tasks]
    /\ add \in [Admins -> SUBSET Tasks]
    /\ starts \in [Tasks -> Nat]
    /\ cancels \subseteq Tasks /\ abandoned \subseteq Tasks
    /\ strays \subseteq Tasks /\ contested \subseteq Tasks

\* The attempts column counts every start, whoever wrote to the row meanwhile,
\* and no chain of failures, cancellations and retries starts a task more than
\* max_attempts times.
StartsBounded ==
    \A t \in Tasks : attempts[t] = starts[t] /\ starts[t] <= MaxAttempts

Executes(w, t) == step[w] \in {"working", "marking"} /\ task[w] = t

\* Two workers execute one task only if somebody cancelled it meanwhile, or
\* marked it without executing it: neither reaches the worker, and the retry, or
\* the status "queued" of a failed mark, starts another one.
OneExecution ==
    \A w, v \in Workers : \A t \in Tasks :
        w # v /\ Executes(w, t) /\ Executes(v, t) => t \in cancels \cup strays

\* A task that ran out of attempts and failed has one dead letter ("Check if
\* already in DLQ"), unless it was cancelled, whoever failed it and how often.
\* The lookup takes no lock; it is enough because the letter commits with the
\* failure that scans look for.
ExhaustedIsQuarantined ==
    \A t \in Tasks :
        status[t] = "failed" /\ t \notin cancels => attempts[t] = MaxAttempts /\ entries[t] = 1

\* A success is undone only if another session had read the task when the
\* success was committed, or marked it since; and only of a task that was
\* cancelled or marked by a session that did not execute it.  Marks look at no
\* status and carry no version, so nothing else keeps a late one from writing.
SuccessIsFinal ==
    [][\A t \in Tasks :
          status[t] = "succeeded" /\ status'[t] # "succeeded" =>
              t \in contested /\ t \in cancels' \cup strays]_vars

\* A queued task is finished or blocked in the end, unless a worker died with
\* it, it was cancelled, or a session that did not execute it marked it: a
\* failed attempt is tried again, and the last one is not.
EveryTaskSettles ==
    \A t \in Tasks : status[t] = "queued" ~>
        status[t] \in Finished \cup {"blocked"} \/ t \in cancels \cup abandoned \cup strays

\* Who may execute a task, how often, and what is left of it in the end.
TaskInv ==
    /\ TypeOK
    /\ StartsBounded
    /\ OneExecution
    /\ ExhaustedIsQuarantined

=============================================================================
