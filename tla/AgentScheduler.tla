--------------------------- MODULE AgentScheduler ---------------------------
(***************************************************************************)
(* The table agent_processes and the operations of AgentSchedulerService   *)
(* on it (backend/app/services/agent_scheduler_service.py).                *)
(*                                                                         *)
(* A process is numbered in the order of its created_at.  A dequeuer is    *)
(* one running dequeue_next_process_task: its transaction counts the       *)
(* running processes of a tenant, picks a queued one with FOR UPDATE SKIP  *)
(* LOCKED, and commits the new status.  The database runs at READ          *)
(* COMMITTED, so each statement sees what has been committed when it       *)
(* starts, and a picked row stays "queued" for everybody else until the    *)
(* commit.  The marks and the reset lock the row with a plain FOR UPDATE:  *)
(* they wait while a dequeuer holds it, and are one step otherwise.        *)
(***************************************************************************)
EXTENDS Naturals, FiniteSets

CONSTANTS
    NumProcs,     \* how many processes are ever enqueued (bounds the model)
    Orgs,         \* tenants
    Priorities,   \* values of the priority column
    Dequeuers,    \* concurrent runs of dequeue_next_process_task
    MaxRunning,   \* max_running_per_org
    MaxAttempts   \* the max_attempts column, one value for every process

ASSUME SchedulerAssumption ==
    /\ NumProcs \in Nat
    /\ Orgs # {}
    /\ Priorities \subseteq Nat /\ Priorities # {}
    /\ IsFiniteSet(Dequeuers)
    /\ Dequeuers # {}
    /\ MaxRunning \in Nat
    /\ MaxAttempts \in Nat

Procs == 1..NumProcs

ProcStatus == {"none", "queued", "running", "blocked", "succeeded", "failed"}
TerminalStatus == {"blocked", "succeeded", "failed"}
DequeuePhases == {"idle", "counted", "picked"}
DequeuerState == [phase : DequeuePhases, org : Orgs, proc : 0..NumProcs, seen : Nat]

VARIABLES
    created,    \* how many rows agent_processes has
    org,        \* organization_id of each process
    prio,       \* priority of each process
    status,     \* committed status of each process, "none" before its row exists
    attempts,   \* committed attempts of each process
    dq,         \* what each dequeuer's transaction has done, and the row it holds
    starts      \* history: dequeues committed for each process

rowVars == <<created, org, prio, status, attempts>>
schedVars == <<created, org, prio, status, attempts, dq, starts>>

\* Values of the columns of a row that does not exist yet, and of the local
\* variables of a dequeuer between two calls: never read.  The states of a
\* dequeuer: between two calls, after the count, after the pick.
NoOrg == CHOOSE o \in Orgs : TRUE
NoPriority == CHOOSE r \in Priorities : TRUE
Idle == [phase |-> "idle", org |-> NoOrg, proc |-> 0, seen |-> 0]
Counted(o) == [phase |-> "counted", org |-> o, proc |-> 0, seen |-> 0]
Picked(o, p) == [phase |-> "picked", org |-> o, proc |-> p, seen |-> attempts[p]]

-----------------------------------------------------------------------------
(* Reads.                                                                  *)

Running(o) == {p \in Procs : org[p] = o /\ status[p] = "running"}

\* The row locks of dequeuers that have picked and not committed yet.
Holds(w, p) == dq[w].phase = "picked" /\ dq[w].proc = p
Locked(p) == \E w \in Dequeuers : Holds(w, p)

\* Mutants of Runnable: a plain SELECT that does not skip locked rows, and an
\* off-by-one in the test of the attempts.
RunnableUnlocked(o) == {p \in Procs : /\ org[p] = o
                                      /\ status[p] = "queued"
                                      /\ attempts[p] < MaxAttempts}
RunnableOnceMore(o) == {p \in Procs : /\ org[p] = o
                                      /\ status[p] = "queued"
                                      /\ attempts[p] <= MaxAttempts
                                      /\ ~Locked(p)}

\* Rows the SELECT of dequeue_next can return: SKIP LOCKED passes over the
\* ones another transaction holds.
Runnable(o) == {p \in Procs : /\ org[p] = o
                              /\ status[p] = "queued"
                              /\ attempts[p] < MaxAttempts
                              /\ ~Locked(p)}

\* ORDER BY priority DESC, created_at ASC.
Before(p, q) == \/ prio[p] > prio[q]
                \/ prio[p] = prio[q] /\ p <= q

-----------------------------------------------------------------------------
SchedInit ==
    /\ created = 0
    /\ org = [p \in Procs |-> NoOrg]
    /\ prio = [p \in Procs |-> NoPriority]
    /\ status = [p \in Procs |-> "none"]
    /\ attempts = [p \in Procs |-> 0]
    /\ dq = [w \in Dequeuers |-> Idle]
    /\ starts = [p \in Procs |-> 0]

\* enqueue: the row and its commit.
Enqueue(o, r) ==
    LET p == created + 1 IN
    /\ created < NumProcs
    /\ created' = p
    /\ org' = [org EXCEPT ![p] = o]
    /\ prio' = [prio EXCEPT ![p] = r]
    /\ status' = [status EXCEPT ![p] = "queued"]
    /\ attempts' = [attempts EXCEPT ![p] = 0]
    /\ UNCHANGED <<dq, starts>>

\* Mutant of CountRunning: the cap is compared with > instead of >=.
CountRunningOffByOne(w, o) ==
    /\ dq[w].phase = "idle"
    /\ Cardinality(Running(o)) <= MaxRunning
    /\ dq' = [dq EXCEPT ![w] = Counted(o)]
    /\ UNCHANGED <<rowVars, starts>>

\* dequeue_next, first statement: the running processes are counted, and at
\* the cap the call returns None, which changes nothing.
CountRunning(w, o) ==
    /\ dq[w].phase = "idle"
    /\ Cardinality(Running(o)) < MaxRunning
    /\ dq' = [dq EXCEPT ![w] = Counted(o)]
    /\ UNCHANGED <<rowVars, starts>>

\* dequeue_next, second statement: the first runnable row is locked, with the
\* attempts it had, or the call returns None.
Pick(w) ==
    LET o == dq[w].org IN
    /\ dq[w].phase = "counted"
    /\ \/ /\ Runnable(o) = {}
          /\ dq' = [dq EXCEPT ![w] = Idle]
       \/ \E p \in Runnable(o) :
            /\ \A q \in Runnable(o) : Before(p, q)
            /\ dq' = [dq EXCEPT ![w] = Picked(o, p)]
    /\ UNCHANGED <<rowVars, starts>>

\* dequeue_next's UPDATE becomes visible at the task's commit, which also
\* releases the row.
CommitDequeue(w) ==
    LET p == dq[w].proc IN
    /\ dq[w].phase = "picked"
    /\ status' = [status EXCEPT ![p] = "running"]
    /\ attempts' = [attempts EXCEPT ![p] = dq[w].seen + 1]
    /\ starts' = [starts EXCEPT ![p] = starts[p] + 1]
    /\ dq' = [dq EXCEPT ![w] = Idle]
    /\ UNCHANGED <<created, org, prio>>

\* The worker dies or the statement fails: the transaction is rolled back.
AbortDequeue(w) ==
    /\ dq[w].phase # "idle"
    /\ dq' = [dq EXCEPT ![w] = Idle]
    /\ UNCHANGED <<rowVars, starts>>

\* Mutant of MarkTerminal: the row is read without FOR UPDATE.
MarkTerminalUnlocked(p, st) ==
    /\ p <= created
    /\ status' = [status EXCEPT ![p] = st]
    /\ UNCHANGED <<created, org, prio, attempts, dq, starts>>

\* _mark_terminal (mark_blocked, mark_failed, mark_succeeded): whatever the
\* status is, it is overwritten.
MarkTerminal(p, st) ==
    /\ p <= created
    /\ ~Locked(p)
    /\ status' = [status EXCEPT ![p] = st]
    /\ UNCHANGED <<created, org, prio, attempts, dq, starts>>

\* reset_to_queue: attempts are kept.
ResetToQueue(p) ==
    /\ p <= created
    /\ ~Locked(p)
    /\ status' = [status EXCEPT ![p] = "queued"]
    /\ UNCHANGED <<created, org, prio, attempts, dq, starts>>

DequeueStep(w) ==
    \/ \E o \in Orgs : CountRunning(w, o)
    \/ Pick(w)
    \/ CommitDequeue(w)

SchedNext ==
    \/ \E o \in Orgs, r \in Priorities : Enqueue(o, r)
    \/ \E w \in Dequeuers : DequeueStep(w) \/ AbortDequeue(w)
    \/ \E p \in Procs, st \in TerminalStatus : MarkTerminal(p, st)
    \/ \E p \in Procs : ResetToQueue(p)

SchedSpec == SchedInit /\ [][SchedNext]_schedVars

-----------------------------------------------------------------------------
(* Properties.                                                             *)

\* The columns and the dequeuers' local state have their types, and a process
\* that is not enqueued yet has no history.
SchedTypeOK ==
    /\ created \in 0..NumProcs
    /\ org \in [Procs -> Orgs]
    /\ prio \in [Procs -> Priorities]
    /\ status \in [Procs -> ProcStatus]
    /\ attempts \in [Procs -> Nat]
    /\ starts \in [Procs -> Nat]
    /\ dq \in [Dequeuers -> DequeuerState]
    /\ \A w \in Dequeuers : dq[w].phase = "picked" => dq[w].proc # 0
    /\ \A p \in Procs : p > created => status[p] = "none" /\ starts[p] = 0

\* Two dequeuers never hand out the same process at the same time: the row
\* lock of dequeue_next, kept to the commit, is the only thing that stops them.
ExclusivePick ==
    \A v, w \in Dequeuers : \A p \in Procs :
        Holds(v, p) /\ Holds(w, p) => v = w

\* No start is lost: attempts, incremented from the value the SELECT returned,
\* counts every dequeue that committed ("How many times this process has been
\* started"), so max_attempts bounds the starts a process ever gets, through
\* every reset, failure and rollback.
StartsBounded ==
    \A p \in Procs : attempts[p] = starts[p] /\ starts[p] <= MaxAttempts

\* A held row is still the queued, unexhausted row of the right tenant that
\* the SELECT returned: nobody changed it between the read and the commit.
PickIsFresh ==
    \A w \in Dequeuers : \A p \in Procs : Holds(w, p) =>
        /\ p <= created
        /\ status[p] = "queued"
        /\ org[p] = dq[w].org
        /\ attempts[p] = dq[w].seen
        /\ dq[w].seen < MaxAttempts

\* How far the running cap of a tenant can be overshot.  dequeue_next counts
\* and then picks without holding anything in between, so each dequeuer that
\* counted before the others committed may add one process: the cap plus the
\* number of dequeuers, less one, is never exceeded.
InFlight(o) == {w \in Dequeuers : dq[w].phase # "idle" /\ dq[w].org = o}

CapOvershootBounded ==
    \A o \in Orgs :
        Cardinality(Running(o)) + Cardinality(InFlight(o))
            <= MaxRunning + Cardinality(Dequeuers) - 1

\* What the docstring of dequeue_next says ("Applies per-tenant running
\* caps"): a tenant never has more than max_running_per_org running processes.
RunningCap ==
    \A o \in Orgs : Cardinality(Running(o)) <= MaxRunning

=============================================================================
