# Ninai: a TLA+ model of the memory layer's concurrent core

Ninai is a multi-tenant memory layer for agents. A FastAPI server and Celery workers share one Postgres
database (SQLAlchemy 2 async over asyncpg, row level security per tenant, READ COMMITTED), a Redis
instance that is cache, short-term memory and Celery broker, a Qdrant vector store, and a directory of
attachments. Agents store and search memories; a chain of agents enriches each memory; cognitive sessions
reason over them in iterations of planner, executor and critic and work on a graph of goals; schedulers hand
out work to the workers; reviews, webhooks and permission checks surround all this.

There is no shared memory between the actors: they meet in database rows, broker deliveries, Redis keys,
vectors and files. What can go wrong is the order in which transactions of different actors read, decide
and write, and what is left behind when one of them stops half way. That is what these modules are about.
All paths below are relative to `backend/app/` unless they say otherwise.

## Files

| file | what it is |
|---|---|
| `AgentScheduler.tla` | table `agent_processes` and `AgentSchedulerService` |
| `SessionVerdict.tla` | abstract: what the runs promise about a session |
| `CognitiveLoop.tla` | `cognitive_loop_task` on cognitive sessions; implements `SessionVerdict` |
| `AgentRuntime.tla` | run endpoint, dequeue task, broker, workers; composes the scheduler and the loop |
| `AgentRuntime_proofs.tla` | theorems about the scheduler, the loop and their composition, the refinements among them |
| `GoalGraph.tla` | goals, nodes, edges and linked memories, changed by users and tasks |
| `AgentRuns.tla` | the enrichment chain of a memory, its agents' results, and the feedback learner |
| `MemoryStores.tla` | a memory across Redis, Postgres and Qdrant: promotion, creation, deletion |
| `MemoryStores_proofs.tla` | theorems about it |
| `MemoryAccess.tla` | permission checks, and the requests that act on their answer |
| `MemoryAccess_proofs.tla` | theorems about them |
| `MetaReview.tla` | the meta agent: reviews of memories and sessions, the calibration profile and its cache |
| `MetaReview_proofs.tla` | theorems about it |
| `KnowledgeReview.tla` | knowledge items, versions, review requests |
| `KnowledgeReview_proofs.tla` | theorems about it |
| `PipelineTasks.tla` | SLA pipeline scheduler and its dead letter queue |
| `Tasks_proofs.tla` | theorems about `PipelineTasks` and about `GoalGraph` |
| `EventOutbox.tla` | abstract: what a transactional outbox promises |
| `WebhookOutbox.tla` | subscriptions, emission of events, overlapping dispatches; implements `EventOutbox` |
| `WebhookOutbox_proofs.tla` | theorems about it, the refinement among them |
| `CircuitBreaker.tla` | one circuit breaker with overlapping calls |
| `Agents_proofs.tla` | theorems about `AgentRuns` and about `CircuitBreaker` |
| `MC*.tla`, `*.cfg` | instances for TLC: constant values and symmetry sets only |
| `PROJECT.json` | components, runs, mutants, the map from definitions to source lines, hazards, theorems |

Run `tlc -config X.cfg MCX.tla` and `tlapm M_proofs.tla` in this directory.

## Inventory

Each entry: state, operations, who it talks to, what is hard, what makes it correct.

### Running agents

**Agent process scheduler** (`services/agent_scheduler_service.py`, `models/agent_process.py`). State: rows
of `agent_processes` with status, priority, attempts. Operations: enqueue, dequeue_next, mark_succeeded,
mark_failed, mark_blocked, reset_to_queue. Hard: `dequeue_next` counts the tenant's running processes in one
statement and picks a queued one with `FOR UPDATE SKIP LOCKED` in another; `attempts` is incremented in
Python. Correct: no process is handed out twice, every start is counted, starts never exceed `max_attempts`,
the tenant's cap holds up to a known overshoot.

**Cognitive loop** (`tasks/cognitive_loop.py`, `services/cognitive_loop/`). State: `cognitive_sessions`,
`cognitive_iterations`, `evaluation_reports`, goal nodes. One run of the task is one transaction. Hard:
redelivery runs a session twice, possibly at once; a run replays iterations another run committed; reports
have no unique index; the `finally` block outlives the transaction. Correct: one verdict per session, final,
explained by its iterations, reported once; no run waits for ever.

**Run path and broker** (`api/v1/endpoints/cognitive_loop.py`, `tasks/agent_processes.py`,
`core/celery_app.py`). The endpoint commits a queued process and sends the task itself; the dequeue task
starts queued processes and sends the task too. At-least-once delivery with late acknowledgement. Hard: a
death between commit and send, redelivery, a failed finalization, two runs of one process. Correct: a process
that says "succeeded" tells the truth, a slot of the cap is leaked only when tasks are lost, queued processes
end.

**Goal graph** (`services/goal_service.py`, `goal_meta_supervisor.py`, `tasks/goals.py`). State: goals with
status, confidence, scope and a metadata column, nodes, edges, links to memories, a lock per memory in Redis.
Operations: create, update and link by users; progress, blockers, linking, planning and the end of a session by
tasks; feedback changes the classification of a memory whatever it is linked to. Hard: every transaction writes
from an unlocked read, what a review looked at changes afterwards, the metadata column is written whole, the lock
is never released. Correct: what the supervisor forbids does not happen whatever the interleaving, unless what it
looked at changed later; metadata and links are lost only in a race or after a failure.

**Agent runner and memory pipeline** (`services/agent_runner.py`, `tasks/memory_pipeline.py`,
`services/memory_feedback_service.py`). State: a row of `agent_runs` per memory, agent and version, feedback,
the calibration of the organization; Celery's chain with a group in it. Hard: retries, second deliveries, two
runs of one agent, feedback that arrives at any time, a new input hash stamped on an old result. Correct: a
result rests on all earlier stages and is not computed again, feedback is applied once and calibrated, the
chain ends.

**SLA pipeline scheduler** (`services/sla_scheduler_service.py`, `api/v1/endpoints/pipeline_tasks.py`). State:
`pipeline_tasks`. Operations: enqueue, dequeue_next_by_sla, mark_*, cancel, retry, priority updates, metrics.
Hard: marks, cancellation and retry read without a lock and write only the columns they changed; a mark looks
neither at the task's status nor at who calls it; a cancellation does not reach the worker. Correct: starts are
counted and bounded; exhausted tasks are quarantined; and as long as nobody but its workers touches a task, one
executes it at a time, its success stays and it settles.

**Dead letter queue** (`services/dead_letter_queue_service.py`). State: `dead_letter_queue`. Called by
mark_failed in its transaction and by an administrator's scan for poison messages. Hard: the lookup of an
existing letter takes no lock and no index backs it. Correct: an exhausted task has exactly one letter.

### Knowledge and memory

**Memory service, short-term memory and promotion** (`services/memory_service.py`, `short_term_memory.py`,
`memory_promoter.py`). State: `stm:*` and `stm_access:*` keys with expiry, rows of `memory_metadata` and
`memory_promotion_history`, vectors. Hard: Redis and Qdrant change at once and Postgres at the commit; every
promotion makes new ids, so only the history's unique index keeps one; a cycle goes on after a failed flush.
Correct: a memory is promoted once, a finished promotion loses nothing, rows and vectors differ only where a
request failed.

**Permissions and the requests that ask for them** (`services/permission_checker.py`, `memory_service.py`,
`memory_attachment_service.py`, `api/v1/endpoints/memories.py`, `teams.py`). State: the memory's row, team
members, shares, access counts and logs, attachments' rows and files. Hard: a decision is three queries between
which members and shares change, it is implemented twice, counters are read-modify-write, files do not take part
in transactions. Correct: the two implementations agree, a grant had a ground at some moment of the check, a ground
that is there throughout is not overlooked, counts and files keep up with the database.

**Meta agent** (`services/meta_agent/`, `tasks/meta_agent.py`). State: review runs with their conflicts, the
calibration profile and its cached copy. Hard: the cache is filled before the commit and by readers with what
they read earlier, and a failure to fill it is swallowed; get-or-create without a lock; a failed flush inside a
review leaves nothing to record the failure with. Correct: cache and profile agree unless transactions overlapped,
were rolled back or could not publish; verdicts rest on values some transaction has ended with; a review loses its
row only to the first profile. A review of a memory that exists always fails, before it decides anything, so
closing conflicts and revising beliefs are code that never runs (see "Where the code and its documents disagree").

**Knowledge review** (`services/knowledge_review_service.py`). State: items, versions, review requests.
Operations: submit, approve with promotion, reject, rollback. Hard: everything is read without a lock, the
ORM leaves out columns that equal what was read. Correct: distinct dense version numbers, final decisions,
promotion once after approval, the last repointing wins.

### Around the core

**Webhook outbox** (`services/webhook_service.py`, `tasks/webhooks.py`). State: subscriptions, outgoing events,
deliveries. Operations: create, delete, emit_event in or after a request, the dispatch every 30 s. Hard: due
rows are read without a lock by overlapping dispatches, a POST is out before the transaction commits, a
deletion cascades. Correct: no orphans, honest records, bounded posts, settled for good, everything settles.

**Circuit breaker** (`core/circuit_breaker.py`): state tested before an await and updated after it. Correct: it
opens when the service fails and closes when it has recovered.

The parts without a module (export jobs, self model, memory activation, consolidation, capability tokens, rate
limits, resource accounting, policy versions, batches, snapshots and backups, dead schedulers, HTTP and the
clients) are listed with the reason under "Not modelled".

## How the models correspond to the code

Common conventions. A transaction is a sequence of actions between which other actors act; its writes stay
in the actor's own variables until the commit action applies them to the committed rows, and an abort drops
them. A statement sees what is committed when it starts. An INSERT waits for the transaction that holds the
same unique key, an UPDATE for the row lock, `SKIP LOCKED` passes locked rows by. The ORM writes only the
columns whose new value differs from the one it read. Where one statement does all the reading and writing
that others could interfere with, it is one action. Rows that do not exist have status "none" or the value
`No...`. History variables (marked "history" in each VARIABLES list) are read by properties only; operators
commented "Mutant" are wrong variants of the operator after them, used to show that the properties can fail.

**AgentScheduler.** Processes are numbered in the order of `created_at`. `dq[w]` is the transaction of a
dequeuer: idle, counted, picked. `CountRunning`, `Pick` and `CommitDequeue` are the statements of
`dequeue_next`; `Pick` takes the first runnable process in the order of priority and age. `MarkTerminal` is
the three marks and `ResetToQueue` the reset: both lock the row, so they wait while it is picked and are one
step otherwise. Scopes, trace ids and metadata are left out.

**CognitiveLoop.** `pc[r]` is the next statement of run r: get the iteration, insert it, the whole of evidence,
plan, execution and critique with any evaluation (`Critique`), save the status, write the report, select and
mark a node, commit. `rows`, `saved`, `draft`, `target`, `marked` are what the transaction has written and
therefore locked; `Commit` publishes all of it. `Raise` is an exception anywhere in the block, `Die` the death
of the worker. A deadlock that Postgres detects is a `Raise`; so is a tool's database error, which the executor
swallows and the aborted transaction raises again at its next statement. One goal is modelled; node errors that
the code catches and swallows end in `Candidates = {}`. Reading a report through the API never generates one.
`SessionVerdict` is the promise: a session is running until one verdict is published with its report.

**AgentRuntime** extends both modules: their variables are its own, and its actions contain theirs (`Step` a `Work`
of the loop, `Dequeue` a step of the scheduler). `SchedSpec` and `LoopSpec` are the parts alone, `Spec` the whole. `owed` holds tasks that a request or a dequeue
must still send after its commit, `queue` the deliveries in the broker, `job` the process of each run.
`Redeliver` is the visibility timeout, `WorkerDies` has the two outcomes of a worker's death (the pool dies and the
task comes back; the child dies alone and the task is acknowledged), `Finalize` is the `finally` block.
`agent_processes` has no row level security, so the finalization sees the row in any tenant context.
`reset_to_queue` has no caller on this path.

**GoalGraph.** A request or a task is two steps: it reads and decides (`CreateGoal`, `UpdateGoal`, `UpdateNode`,
`LinkMemory`, `Recompute`, `DetectBlockers`, `SuggestLinks`, `PlanGoal`, `EndSession`, ...), which puts the columns
it is going to write into `work`, and `Commit` puts them over whatever is committed by then. Nothing is locked
or compared, so two steps have the interleavings of many. `StatusNeedsReview`, `StatusEscalates`,
`LinkNeedsReview`, `LinkEscalates` are the supervisor's rules; an escalation raises and rolls back its own
record except at the end of a session, a contested review proceeds. `Reclassify` is feedback that overrides the
classification of a memory (`services/memory_feedback_service.py:161`); it and a patch of the scope are what links
are not reviewed against again. `lock` is the idempotency key of a linking task, which nothing deletes: it ends by
its time to live of five minutes (`Expire`). Only the progress task is sent by the program, inside the
transaction of the session's end (`tasks/cognitive_loop.py:236`): it may run before that commits, and stays sent if
it does not. That the other tasks are sent at any time stands for an operator or a schedule that sends them. The first `goal_plan_from_session_task` is shadowed by the second of that name, which
takes no lock, so that one is modelled. A PATCH with a due date always fails (the activity log cannot serialize
it), and `create_goal` answers a bad request with an AttributeError; both change nothing and are not steps.

**AgentRuns.** `step[w]` walks a worker through `run_agent`: load the inputs and hash them, select the row, insert
it or restamp its hash, run, commit, acknowledge. The learner applies feedback in a transaction of its own
before that of its result (`ApplyFeedback`), which is why a rollback leaves feedback applied and not
calibrated (`orphaned`). A failed run's row and audit event are rolled back with the exception that Celery then
retries, so rows are "success" or absent. `Ack` is the chord of a group and the next link of the chain. The
result cache is off by default and left out; a result is the inputs it was computed from.

**MemoryStores.** A request or cycle is one process with one operation: create, smart create, get, promote,
cycle, delete. Rows and vectors are named by the request that made them. `Waits` is who waits for whose key of
the history's unique index; a circle in it ends in `FailFlush`. In a cycle the failed flush poisons the session
(`poisoned`): the loop goes on removing copies and the final commit raises. `Left` are copies that earlier failed
requests may have left in Redis; `missed` are rows whose vector failed and was swallowed. `get_memory_smart`,
`promote_all_eligible` and `run_promotion_cycle` have no endpoint: they are modelled as the public methods
they are. The user's index of keys, `extend_ttl`, listings and the ranking of search results are left out.

**MemoryAccess.** `CheckMemoryAccess` and `FilterIds` are the two implementations, built from the same pieces of
the row, the team and the shares; a session goes through them one query at a time (`work[c].at`), while
`AddMember`, removals and expiries change what the next query sees. Then the request does what it does: counts
and logs, shares, deletes, writes or unlinks a file, and commits or does not. Owner, scope and clearance never
change after creation, for `update_memory` always raises once it is permitted. A share that has expired still
occupies the unique key, so sharing again loses the whole batch; a removed member cannot be added again. A
refused read's access log is rolled back with the request. Department and division scopes behave like personal
ones. Permission strings of roles are left out.

**MetaReview.** A review, a calibration or a reader of the profile is one transaction with the steps of
`get_profile_for_read`, `get_or_create_profile`, `update_profile`, `learn_from_feedback`, `review_memory` and
`review_cognitive_session`. `read`, `mine` and `cols` are what the session loaded, has and has flushed of the
profile; `dirty` are sessions whose renormalized weights differ in the last digit, which makes the ORM write them.
Thresholds and weights are percentages; the arithmetic is exact in them. `Publish` fills the cache before the
commit, or does not if Redis fails, and goes on either way; `Expire` empties it. `Collide` is the flush that fails
on a key committed meanwhile: a review swallows it and leaves no row. `Verdicts` is what a review comes to: that of
a memory fails in every case and leaves its conflict open, if it found one; that of a session follows from its
report, which is an input, or fails if there is none. A cycle of learning that would take a weight below zero is
left out, since it has to normalize the others.

**WebhookOutbox.** A delivery is a pair of a subscription and an event. A request commits its change (`Work`),
reads the subscriptions, inserts the deliveries, commits; with an audited event all this is one transaction
that a failing flush takes with it. A dispatch selects due deliveries, loads the subscriptions, posts, flushes
and commits. `Flush` is SQLAlchemy's multi-row UPDATE: a row that is gone aborts the dispatch when it is alone
in the batch and may be passed over when it is not. The order in which a full batch picks deliveries is left
open. Subscriptions are never inactive in the program, only deleted. `EventOutbox` is the promise: an event
appears with its deliveries, with or after the change it is about, and a delivery is settled by an outcome that
happened and is not pending again. Its variables are the rows and the history of `WebhookOutbox`; selecting,
loading, failing and rolling back are stutters, `Post` may accept, `Dispatch` records.

**KnowledgeReview.** `step[u]` walks through read, check, flush, commit of each caller's transaction; `loaded` is
the published version it read. `overlapped` is a history variable: the items that two callers had open at
once. Texts and provenance are left out, a promotion is one counter.

**PipelineTasks.** A worker picks, commits, works, reads the row for its mark and commits the mark. Any other
session (`Admins`) cancels, retries or scans, and calls a mark for any task in any status (`ReadToMarkAny`), since
the marks look at neither. Which mark it is, is chosen at the write (`WriteMark`), on which the reading does not
depend. Any eligible task may be picked: the order by deadline is left out. No caller of `dequeue_next_by_sla`
and of the marks exists outside the tests (which block tasks that nobody has dequeued,
`backend/tests/test_sla_pipeline_scheduler.py:344`, `:386`), so a worker is any caller that marks what it has
dequeued. `strays` are the tasks that another session has marked, `contested` those that another session had in
hand when they succeeded, or has marked since. A poison pattern is any set of failed tasks of the threshold's size; the threshold of 1 stands for
other failing tasks that are not modelled. `requeue_task` and `POST /pipelines` always raise a TypeError
before they change anything, so they are not steps.

**CircuitBreaker.** Each body under the lock is one step. Time is one bit, `rested`: the recovery timeout has
passed since the last failure.

## Runs

| run | bounds | what it shows |
|---|---|---|
| `scheduler` | 3 processes, 2 tenants, 2 dequeuers, cap 1, 2 starts | exclusive and fresh picks, counted and bounded starts, overshoot of the cap by at most dequeuers - 1 |
| `loop` | 3 runs, 2 sessions (one of a goal, one blank), 2 iterations, 2 nodes | `SessionVerdict` is implemented; verdict, iterations, reports and nodes agree; all runs end |
| `runtime` | 2 processes of 1 session, 2 runs, 1 redelivery, 2 losses, 1 late exception | what a process says of its session, when slots leak, what runs go back to, every queued process ends |
| `goals` | 2 goals, 2 nodes, 1 memory of 2 classifications, 1 session, 1 user, 2 workers, 2 requests, 2 jobs, 1 slip | supervised status changes, restricted memories stay out unless something changed after the review, bounded proposals, metadata and links accounted for |
| `agents` | chain of 1, 2 and 1 agents, 1 feedback, 2 workers, 1 retry, 1 slip | results rest on earlier stages and stay, feedback once and calibrated, the chain ends |
| `memory` | 2 short-term memories, one left by a failure, 3 requests, every failure | stores diverge only by failures, promoted once, nothing dropped before it is stored |
| `access` | 2 memories, 2 users, 2 sessions, 2 attachments, 3 requests, 2 changes of rights | checker and filter agree, grants are grounded and lasting grounds found, counts and files keep up |
| `meta` | 3 transactions (a calibration; another or a session review; a memory review or reader), 1 threshold and 1 weighting sent, 1 shift | cache and profile agree but for overlaps, rollbacks and failed sets; verdicts are grounded; only the first profile loses a review; all settles |
| `review` | 1 item, 2 versions, 2 callers | numbers, promotions, and what holds as long as calls do not overlap |
| `pipeline` | 1 task of 2 attempts, 2 workers, 1 other session | bounded starts, one execution, quarantine, only contested successes end, every task settles |
| `webhook` | 2 subscriptions, 1 audited event, 2 dispatchers, 2 attempts, 1 rollback | no orphans, honest record, bounded posts, `EventOutbox` is implemented, every delivery settles |
| `breaker` | 2 calls, thresholds 3 and 2, rate 1/2, 10 outcomes | opens and closes when it should |

`VerdictInv`, `ProcessInv`, `GoalInv`, `ResultsInv`, `StoresInv`, `AccessInv`, `MetaInv`, `VersionInv`, `TaskInv` and
`DeliveryInv` are conjunctions of the type invariant of their module and of named invariants, each of which is
stated and commented at the end of its module.

Why the bounds are enough: every property relates at most two actors on one row plus one row of another kind
(a second tenant, a second session, a second subscription, a second goal), and the instances have these;
attempts, iterations and versions reach 2, so that "first", "middle" and "last" differ from each other, where
the code compares with the limit. One rollback, loss, slip or late exception is enough to break a property that
does not count them, and the properties that do count them (`TruthfulSuccess`, `NoLeakedSlot`, `PostsBounded`,
`RunsAccounted`, `ProposalsBounded`) compare with the counter. In `memory` three requests let two cycles wait
for each other's keys while a third request works. In `access` the user's rights change twice during a check of three queries,
which is what it takes to combine answers that never held together. In `meta` a calibration meets another, a review, or both a
review and a reader, with the default threshold of 60 and a sent one of 90, between which a passed session's
verdict turns. In `goals` one user is enough, since a user and two tasks race for the same rows; the second
classification is what a memory changes to and from. In `pipeline` one other session is enough for what the
properties say (two or more are in the theorems): each step of it may be any of its calls, one after the other.
Symmetry is used on dequeuers, dispatchers, callers, requests, sessions, calls, and the workers and nodes of `goals`, and never in a run
with a liveness property. Deadlock is not checked: all of these systems come to rest when their bounded inputs
are used up; that they do not get stuck is what the liveness properties say.

## Fairness

Runs without a liveness property (`scheduler`, `goals`, `memory`, `access`, `review`, `breaker`) assume none.

* `CognitiveLoop`: weak fairness of each run's next statement, for a worker that has begun keeps executing.
  Nothing makes a run begin, raise or die.
* `AgentRuntime`: weak fairness of sending, receiving and of statements. Strong fairness of `Finalize`: the
  UPDATE waits for a row that dequeuers lock again and again, and Postgres grants a released lock to the
  transaction that queues for it. Dequeues need not happen; one that holds a row is carried through. A lost task
  is never found again, since the program has no reaper, so `EveryProcessEnds` excuses losses, and a delivery for
  which the instance has no run left.
* `AgentRuns`: weak fairness of receiving and of the next step of each worker. Nothing makes feedback come, and
  nothing makes a task fail; a death's message comes back, or its job counts as stopped.
* `MetaReview`: weak fairness of the next step of each transaction and of the cache's expiry, which Redis
  guarantees. Nobody has to start, and nobody has to die.
* `WebhookOutbox`: Celery beat starts a dispatch every 30 s (`Select`), time passes (`Elapse`), a dispatch that has
  begun goes on. `Dispatch` is strongly fair, for the lock queue again. Rollbacks are bounded.
* `PipelineTasks`: workers keep dequeuing, executing and marking. Deaths, cancellations, retries and marks by
  others may happen at any time and are not required; the property excuses the tasks they touch.

## What is proved

**AgentRuntime_proofs** is about the scheduler, the loop, and both together.

*The scheduler*, for any number of processes, tenants, priorities and dequeuers, from
`SchedulerAssumption`. The inductive invariant is `RowInv`, the conjunction of `TypeOK`, `ExclusivePick`,
`PickIsFresh` and `StartsBounded`. None is inductive alone: `StartsBounded` says that the column equals the
number of committed starts, and a commit writes the value the pick has read plus one, so it needs the
freshness of that value; freshness needs that nobody else holds the row, which is exclusiveness; and `TypeOK`
needs freshness to know that a picked row exists. From it follow `TypeCorrect`, `PicksAreExclusive`,
`StartsAreBounded` and `PicksAreFresh`. `OvershootIsBounded` has an invariant of its own on top: running processes plus dequeues in
flight are at most the cap plus the dequeuers less one. It is a counting argument with the library's facts on
finite cardinalities: a dequeuer enters only when fewer than the cap are running and at most the other
dequeuers are in flight, and a commit moves one unit from "in flight" to "running". `OneDequeuerKeepsTheCap` is
the case of a single dequeuer, in which the docstring of `dequeue_next` is literally true.

*The loop*, for any sessions, runs, nodes and number of iterations, from `LoopAssumption`:
`VerdictsAreExplained` (`VerdictInv`), `VerdictsAreFinal` and `ImplementsPromise` (the simulation of
`SessionVerdict`). The heart is the key of a session's first iteration. Whoever writes iterations holds it, which
gives one writer; once it is committed, so is everything up to a deciding iteration (`Decided`), so that a run
that comes later replays to the same verdict and never inserts. The invariant has a part for what is committed,
one for runs outside and inside the loop, one for those that have decided, and one for the nodes. The commit is
where all of them meet and has lemmas of its own: a session is decided by its writer, or again as it was.

*The composition*, for finitely many runs and any bounds on faults, from all three assumptions. `PartsStep` says that a
step of the runtime is a step of each part or leaves it alone (`RuntimeImplementsParts`), so the theorems of the
parts hold of the whole, `RuntimeKeepsPromise` among them. `ProcessesAreTruthful` (`ProcessInv`) and
`SlotsLeakByLosses` (`NoLeakedSlot`) need what none of the parts knows: how tasks are passed on. The invariant counts
them. The tasks of a process that are owed, queued or taken by a run are at most its request, its starts and its
redeliveries, which bounds the runs. A running process has two tasks, its request's and its dequeue's; each of them
is on its way, has put it into a terminal status or has been lost, so a slot leaks after two losses. A run that is
done and has not marked its process yet will mark it with the session's verdict, unless a late exception rolled
the session back, and each such exception is charged with one process; the sum of processes that lie and of runs
that are going to is never more than the late exceptions.

**Agents_proofs** is about the runs of agents and about the breaker around their language models, which share
nothing else.

*The runs*, for any chain of stages, feedback, workers and bounds on faults, from `RunsAssumption`: `ResultsAreFed`
(`ResultsInv`), `FeedbackIsAccounted` and `OutputsStayStored`. The assumption says of the chain what
`tasks/memory_pipeline.py` builds: an agent has one stage, and an agent whose output feeds others has it to itself.
The invariant says which tasks of the chain may exist at all (`Sound`): one of stage k is sent only when the enriching agents
before k have succeeded, which is `BeforeNext` at an acknowledgement and survives every retry and second
delivery since successes stay. What a worker has loaded therefore holds what the chain is to feed it (`AtWork`),
although it was loaded long before its row is written. `OneHolder` is the lock on the row or its unique key: it
keeps two learners from having read the same feedback as pending, and a result from being overwritten.

*The breaker*, for any number of calls and any thresholds, from `BreakerAssumption`. The properties
speak of outcomes, the code of counters; `BreakerInv` adds `CountersTell`: `failure_count` is the number of
failures since the last success, `success_count` the number of successes since the last failure while
HALF_OPEN (in other states it may be stale, which is why `Probe` resets it), and `total_calls` counts each
success at most twice. `FailuresOpenIt`, `SuccessesCloseIt` and `ErrorRateOpensIt` follow from it.

**MetaReview_proofs**, for any number of transactions, thresholds, weights and shifts, from `MetaAssumption`:
`TablesAgree` (`MetaInv`, all of it). The invariant says what a transaction in the middle of its work has. `Sole`
says that one session at a time has the row of the profile unless two crossed; `Follows`, that the cache is what
this session has, unless it is between its flush and its publication, or a failed set or a rollback is noted: so its
commit makes the table what the cache says already. For the verdicts every profile in sight (committed, cached,
loaded, changed) takes its threshold and its weights, one independently of the other, from `Grounds`: the default,
what transactions have ended with, and what open ones have written (`GroundInv`); and a column that a calibration
may still change is from the ends of others (`Untouched`), so that what is published of it survives the change. For
the lost reviews (`FirstInv`), whoever waits to insert a profile was open before the first one was committed.

**WebhookOutbox_proofs**, for any subscriptions, events, interests, dispatchers, schedule and batch limit (the
instance has one audited event; the proof also covers events published after the request), from
`WebhookAssumption`: `RecordsAreHonest` (`DeliveryInv`), `ImplementsOutbox` (every step of `WebhookOutbox` is a step
of `EventOutbox` or a stutter) and, from that, `SettledStays`. A record is written from what a dispatcher read long
before, so the invariant is about what each dispatcher has in hand (`InHand`): the attempts it has read are at
most the posts that happened, an outcome it has noted did happen, its batch was published. `RequestsInv` and
`PostsInv` say the same of requests and of the rows. `PostsAreBounded` (`PostsBounded`) counts: the posts of a delivery that
no two dispatches had at once are its recorded attempts, one for each dispatch that was rolled back, and the one
which the only dispatcher that has it in hand has sent and not recorded (`AloneInv`).

**Tasks_proofs** is about the pipeline and about the goal graph, the two parts where workers and users write over
each other's rows without a lock.

For any pipeline tasks, workers, other sessions and limits, from `PipelineAssumption`: `TasksAreBounded` (`TaskInv`)
and `OnlyContestedSuccessesEnd` (`SuccessIsFinal`). No mark looks at the status it overwrites, so the invariant is
about who may hold a task: a picked row is queued and locked for one worker, an executed one is running, nobody
else's, and its mark has read it so. A cancellation breaks that, and a mark by somebody who does not execute the
task; each has its history variable. What a stray mark cannot break is the count of starts and the dead letter: it
has read as many attempts as there are, or fewer, and only one that read all of them fails the task, which leaves
the letter in the same commit. Only a cancelled task can be retried or get a letter from a scan. For the
successes, `ContestInv` says that one that is not contested is in nobody's hand; a cancellation and a retry do not
take up a success, and a mark that does is noted.

For any goals, nodes, memories, sessions, users, workers, jobs and patches, from `GoalAssumption`: `GoalsAreWhole`
(`GoalInv`), `NoEntryIsLost` (`MetadataMerged`), `LinksAreAccounted` (`LinksAccounted`) and `StatusesAreSupervised`
(`StatusSupervised`). The invariant (`GoalIInv`) is about what each open transaction is going to write. Some of it
is right on whatever row it will meet (`Proper`): goals are never deleted and stamps never taken away, so what
completes a goal leaves it stamped; and a reviewed link stays right until somebody narrows the scope or restricts the
memory, which is noted (`loosened`; `Monotone` is what steps of others must respect). The rest is right on the row that was read (`Fresh`): the status
was reviewed at the confidence of that row, and only the task's own entry of the metadata differs from it; whoever
commits to that goal meanwhile makes the transaction stale (`CommitIsNoticed`). `LinksInv` follows a linking task
from the broker to its end together with its key, and `ProposedInv` counts: the goals proposed for a session and the
messages left for it are together at most one more than the second deliveries.

**KnowledgeReview_proofs**, for any items, versions and callers (finitely many), from `ReviewAssumption`:
`VersionsAreSound` (`VersionInv`), `PromotionsAreBounded`, `DecisionsAreFinal`. The invariant says what an open
transaction knows: a submitter that all numbers below its own exist (`NumberInv`), and who is alone on the item
that its request is still pending and the pointer is the one it loaded (`ReadInv`). With overlapping calls
the bound on promotions is a counting argument: promotions made and callers that have read "pending" of the same
version are together at most the callers, since nobody joins them once the request is decided.

**MemoryStores_proofs**, for any number of requests, memories and thresholds, with all failures, from
`StoresAssumption`: `MemoriesArePromotedOnce`, `DoneIsStored`, `StoresAgree` (`StoresInv`). The invariant follows a row
from the transaction that writes it, which alone has its memory's key and only if nobody was committed with it
(`KeyInv`), through its vector (`WriteInv`) and the commit (`RowInv`) to its deletion (`EraseInv`); a session that a
failed flush has poisoned has lost what it wrote and can end in nothing but a failure.

**MemoryAccess_proofs**, for any memories, users, sessions, attachments and offer of operations, from
`AccessAssumption`: `CheckersAlwaysAgree` (`FilterAgrees`), `DecisionsAreGrounded` (`DecisionsHold`), `ReadsStayAccounted`
(`ReadsAccounted`) and `AttachmentsStayWhole` (`AccessInv`). Both checkers are reduced to the same four grounds
(owner, scope, team, share), which is an argument about operators alone. The decision is followed query by
query (`KnownInv`): what has been granted so far was grounded at some moment since the check began, and what has
not had none of the grounds asked about so far all along. That is all: a refusal is not that of any one moment, for
a ground that appears after its query and another that disappears before its own may take turns, and the check
misses both although one of them was there at every moment. A read under way has loaded a count that is no greater
than the logs, and the exact count if nobody raced it (`CountInv`); an attachment between its two stores is where its
request has left it (`FilesInv`).

Every theorem about a property that a run checks is a statement that TLC has confirmed on the run's instance.

**Only model-checked**: all liveness properties (fairness and ENABLED are beyond the prover). Every invariant and
every action property that a run checks has a theorem.

## Where the code and its documents disagree

Definitions that state what a comment or docstring says, and that TLC refutes when they are added to the
run's cfg as an INVARIANT (or PROPERTY, for `NoSecondDecision`). No run lists them, the passing properties state
what is true instead:

| definition | cfg | text | what the code does |
|---|---|---|---|
| `AgentScheduler!RunningCap` | `AgentScheduler.cfg` | "Applies per-tenant running caps" (`services/agent_scheduler_service.py:93`) | concurrent dequeuers count before either commits (`CapOvershootBounded`) |
| `CognitiveLoop!OneNodePerSession` | `CognitiveLoop.cfg` | "mark a single in-progress node as done" (`tasks/cognitive_loop.py:152`) | a run that finds its session succeeded completes another node |
| `WebhookOutbox!EmissionNeverBreaks` | `WebhookOutbox.cfg` | "Webhook emission must never break request paths" (`services/audit_service.py:134`) | a subscription deleted between the read and the flush of `emit_event` fails the audited request |
| `KnowledgeReview!NoSecondDecision` | `KnowledgeReview.cfg` | "Review request is not pending" (`services/knowledge_review_service.py:196`) | an approval and a rejection that both read "pending" both commit |
| `MemoryStores!RemovedMeansStored` | `MemoryStores.cfg` | "3. Store metadata in PostgreSQL ... 5. Delete from Redis" (`services/memory_promoter.py:45-54`) | the copy is deleted before the commit, which may fail |
| `AgentRuns!LearnsPending` | `AgentRuns.cfg` | "Without this, FeedbackLearningAgent could be incorrectly skipped when new feedback arrives" (`services/agent_runner.py:1037`) | the new hash is stamped on the row that says "success" before the status is tested, so the agent is skipped |

Stated by the conditions of passing properties:

* `RunsAccounted`: `attempts`, "How many times this process has been started", leaves out the run that the endpoint
  itself sends.
* `TruthfulSuccess`: an exception after `orchestrator.run` has returned rolls the session back, and the process is
  still marked with the verdict.
* `LastPointerWins`: a rollback to the version that was published when it was read writes nothing over an
  approval that commits meanwhile.
* `OneExecution`, `SuccessIsFinal`, `ExhaustedIsQuarantined`: a cancelled task goes on running, may be marked
  afterwards, and may run twice once it is retried. The marks take any task in any status from any caller
  (`services/sla_scheduler_service.py:210`, `:332`, `:404`): "Mark task as blocked" after a success overwrites it, and
  a task that is marked failed while it runs is queued and handed to a second worker.
* `ErrorRateOpens`: a success in CLOSED adds 2 to `total_calls` (`core/circuit_breaker.py:124`), so that "50%
  error rate" means two failures in three calls.
* `FilterAgrees`: "It mirrors the same permission semantics" (`services/permission_checker.py:395`) holds for reads
  and comments; for the other actions the filter grants less, for it leaves out team leads and admins. It is
  only asked for reads.
* `RestrictedStayOut`: narrowing the scope of a goal does not look at the memories that are linked already, and
  feedback that makes a memory restricted (`services/memory_feedback_service.py:164`) does not look at its links.
* `LinksAccounted`: the key of a linking task that failed stays for five minutes; a message that is delivered again
  meanwhile finds it, does nothing, and the links are lost.
* `DecisionsHold`: a refusal is not the decision of any one moment of the check; see the proofs of `MemoryAccess`.
* `MetadataMerged`: two that write the metadata at the same time lose one another's entries.
* `CacheAccounted`: `_cache_set` swallows every exception (`services/meta_agent/calibration_service.py:38`), so after
  a set that failed the updated profile is committed and the old one serves every reader until it expires.
* `OnlyTheFirstCollide`: a review whose flush collides leaves no row, although its task returns an id.
* `Verdicts`: "Belief revision: store classification belief" (`services/meta_agent/meta_supervisor.py:149`) never
  happens. Line 118 reads `c.value`, which `ClassificationCandidate` (`conflict_resolver.py:34-37`) does not have, and
  the candidates are never empty since a memory's classification is NOT NULL. Every review of a memory that exists
  ends as "escalated" for "meta_review_failed", a conflict it found stays open, and lines 119 to 170, with the belief
  store behind them, never run.

Met while reading and left out of the models, because they make a path fail always: `PATCH /memories/{id}`,
`POST /memories` and `POST` of a share open a transaction that the tenant context has already begun; promoting a
team-scoped memory reads an attribute that does not exist; "Log access attempt" (`services/memory_service.py:458`)
of a refused read is rolled back with the request.

## Not modelled

* **Memory syscalls and capability tokens**: no state of them survives. The five syscall endpoints never commit
  their session, so neither `tokens_used` nor what a call wrote is kept, and the revocation endpoint raises before
  its commit. `memory_syscall_api.py` is a placeholder.
* **Rate limiting, resource accounting, admission control**: the limiter and the two accounting services are
  imported by nothing that runs, the middleware is not installed, admission control always admits.
* **Policy versioning**: versions would be rows of `audit_events` with a column that `AuditEvent` does not have, so
  each operation raises.
* **Memory consolidation**: the task imports a session maker that `core/database.py` does not define; the endpoint
  is one `create_memory`, as in `MemoryStores`, with a record in the same transaction.
* **Memory activation**: scoring raises and the search swallows it, so the access and coactivation updates are
  never sent. The neighbours endpoint's filtered read is in `MemoryAccess`.
* **Self model**: its profile and cache have the shape of the calibration profile in `MetaReview`, except that the
  cache is deleted and not written; what is computed in it is floating point. Events are inserted with ON CONFLICT
  DO NOTHING under the id of their source row.
* **Export jobs, snapshots, backups and replication**: one request or task, one transaction, and file or process
  I/O. An export's "running" is never committed.
* **Events and batch operations**: one request, one transaction; the task that would send their webhooks is
  commented out.
* **Authentication and tenant context**: row level security is a policy evaluated inside the database on every
  statement, and the models take the rows of the tenants they name as given; logins, tokens and roles'
  permission strings are data to the models.
* **Duplicate and dead schedulers**: `unified_pipeline_scheduler.py` imports a name that does not exist,
  `dlq_service.py` reads columns that its model does not have.
* **Embeddings, ranking, scores, evidence and simulation**: floating point and the answers of language models;
  where they decide something, the models let them decide anything.
* **HTTP schemas, reporting, resource profiling, the frontend, the SDK, integrations and deployment**: no
  concurrent state of the backend.

What is missing of the modelled parts is named in the sections above and in the notes of `PROJECT.json`. The
cognitive loop's tool calls and evidence are one step with any outcome, since all their rows share the run's
transaction.

## Plan

1. Modelled: everything in "Files". Every part of the backend whose state several actors change, and whose code
   can run, has its module.
2. Proved: the safety of the scheduler, the loop and their composition, of the stores, the permission checks, the
   reviews of knowledge, the meta agent, the runs of agents, the goals, the pipeline, the outbox and the breaker, with
   both refinements.
