------------------------------ MODULE GoalGraph -----------------------------
(***************************************************************************)
(* The goal graph: goals with their nodes, edges and linked memories,      *)
(* changed by users (backend/app/services/goal_service.py), reviewed by    *)
(* the rules of goal_meta_supervisor.py, and kept up by Celery tasks       *)
(* (backend/app/tasks/goals.py) and by the end of a cognitive session.     *)
(*                                                                         *)
(* A request or task is one transaction.  It reads the rows it is about    *)
(* and computes from them the columns it will write; what it writes is     *)
(* visible from its commit on, on top of whatever others have committed    *)
(* meanwhile, for nothing is locked or compared with what was read.        *)
(***************************************************************************)
EXTENDS Naturals, FiniteSets

CONSTANTS
    Goal, Node, Memory, \* goals, nodes and memories there can be
    Session,            \* cognitive sessions whose outcome is planned for
    Classification,     \* of memories, among them "restricted" and "confidential"
    Confidence,         \* confidences of goals, in percent
    Payload,            \* what goals are created with
    Proposal,           \* what the planner proposes: a confidence and a scope
    Patch,              \* the updates users ask for
    Job,                \* the task messages that may be sent
    Told,               \* statuses that users give to nodes
    User, Worker,       \* those who may have a transaction open at a time
    MaxRequests,        \* bound: requests of users
    MaxSent,            \* bound: how many of them are
    MaxSlips            \* bound: deaths of workers and messages delivered again

Status == {"proposed", "active", "blocked", "completed", "abandoned"}
NodeStatus == {"todo", "in_progress", "blocked", "done", "cancelled"}
Scope == {"personal", "organization"}   \* team is like personal, division like organization
Nobody == "nobody"
Actor == User \cup Worker
NoMeta == [user |-> 0, progress |-> <<>>, blockers |-> {}]
NoGoal == [status |-> "none", conf |-> 0, scope |-> "personal", stamped |-> FALSE, meta |-> NoMeta]
Request(k) == [kind |-> k, of |-> Nobody]
Transaction(job, g, cols, nodes, links) ==
    [job |-> job, goal |-> g, cols |-> cols, nodes |-> nodes, links |-> links]
Change(job, g, cols) == Transaction(job, g, cols, <<>>, {})
Outcome(job, nodes, links) == Transaction(job, Nobody, <<>>, nodes, links)
NoWork == Outcome(Request("none"), <<>>, {})
JobKind(k) == {j \in Job : j.kind = k}

ASSUME GoalAssumption ==
    /\ Told \subseteq NodeStatus /\ Confidence \subseteq 0..100
    /\ MaxSlips \in Nat /\ MaxSent \in Nat /\ MaxRequests \in Nat
    /\ Nobody \notin Goal \cup Node \cup Session
    /\ Payload \subseteq [status : Status, conf : Confidence, scope : Scope]
    /\ Proposal \subseteq [conf : Confidence, scope : Scope]
    /\ \A p \in Patch :
          /\ DOMAIN p \subseteq {"status", "conf", "scope", "meta"}
          /\ "status" \in DOMAIN p => p.status \in Status
          /\ "conf" \in DOMAIN p => p.conf \in Confidence
          /\ "scope" \in DOMAIN p => p.scope \in Scope
    /\ Job \subseteq [kind : {"link"}, of : Memory] \cup [kind : {"plan"}, of : Session]
                     \cup [kind : {"progress", "blockers", "loop"}, of : Goal]

VARIABLES
    goal,    \* committed rows
    node,    \* of each node, its goal and status
    edge,    \* blocks or depends_on: pairs of nodes
    linked,  \* pairs of a goal and a memory
    class,   \* the classification of each memory
    origin,  \* of each goal, the session it was proposed for
    sent,    \* the jobs that are sent, sooner or later
    ready,   \* how many times each job is in the broker
    lock,    \* memories whose idempotency key is set in Redis
    asked,   \* requests that users have made
    work,    \* what each open transaction is about to write
    slips,
    stale,   \* history: open transactions whose goal has changed since they read it
    raced,   \* history: goals that such a transaction wrote
    loosened, \* history: links whose goal's scope shrank, or whose memory became
              \* restricted, after they were reviewed
    merged,  \* history: metadata as merging every commit into the row would make it
    served, failed   \* history: memories whose linking task has ended well, or badly

rows == <<goal, node, edge, linked, class, origin>>
broker == <<sent, ready, lock, slips>>
history == <<stale, raced, loosened, merged, served, failed>>
goalVars == <<rows, broker, asked, work, history>>

GoalInit ==
    /\ goal = [g \in Goal |-> NoGoal]
    /\ node = <<>> /\ edge = {} /\ linked = {}
    /\ class \in [Memory -> Classification]
    /\ origin = [g \in Goal |-> Nobody]
    /\ sent \in SUBSET (Job \ JobKind("progress")) /\ Cardinality(sent) <= MaxSent
    /\ ready = [j \in Job |-> IF j \in sent THEN 1 ELSE 0]
    /\ lock = {} /\ asked = 0 /\ slips = 0
    /\ work = [a \in Actor |-> NoWork]
    /\ stale = {} /\ raced = {} /\ loosened = {}
    /\ merged = [g \in Goal |-> NoMeta]
    /\ served = {} /\ failed = {}

Exists(g) == goal[g] # NoGoal
Open(a) == work[a] # NoWork

-----------------------------------------------------------------------------
(* goal_meta_supervisor.py.                                                *)

Transitions == {<<"proposed", "active">>, <<"active", "blocked">>, <<"active", "completed">>,
                <<"active", "abandoned">>, <<"blocked", "active">>}

StatusNeedsReview(row, new) ==
    \/ row.conf < 60
    \/ <<row.status, new>> \in Transitions
    \/ new \in {"completed", "abandoned"}

LinkNeedsReview(row, m, type) ==
    \/ row.conf < 60
    \/ class[m] \in {"restricted", "confidential"} /\ row.scope # "organization"
    \/ class[m] = "confidential" /\ type = "evidence"

\* Mutant of StatusEscalates: the threshold is too low.
ToleratesLowConfidence(row) == row.conf < 40

\* A review that escalates blocks the operation; one that contests does not.
StatusEscalates(row) == row.conf < 50
LinkEscalates(row, m) == class[m] = "restricted" /\ row.scope = "personal"

MayBecome(row, new) == StatusNeedsReview(row, new) => ~StatusEscalates(row)
MayLink(row, m, type) == LinkNeedsReview(row, m, type) => ~LinkEscalates(row, m)

-----------------------------------------------------------------------------
(* Reading, writing and committing.                                        *)

Only(x, value) == [y \in {x} |-> value]

\* A row, or a table, with new values in place of its own.
With(row, new) ==
    [f \in (DOMAIN row) \cup (DOMAIN new) |-> IF f \in DOMAIN new THEN new[f] ELSE row[f]]

\* Only columns that get another value than the one read are written.
Columns(row, new) == [f \in {f \in DOMAIN new : new[f] # row[f]} |-> new[f]]

Begin(a, w) == work' = [work EXCEPT ![a] = w] /\ stale' = stale \ {a}
End(a) == work' = [work EXCEPT ![a] = NoWork]

\* Links that are made, or reviewed and about to be.
Reviewed == linked \cup UNION {work[a].links : a \in Actor}

\* The goal row gets the columns; history notes who read it before that.
Write(a, g, cols) ==
    /\ goal' = [goal EXCEPT ![g] = With(@, cols)]
    /\ stale' = (stale \cup {b \in Actor : Open(b) /\ work[b].goal = g /\ cols # <<>>}) \ {a}
    /\ raced' = IF a \in stale /\ cols # <<>> THEN raced \cup {g} ELSE raced
    /\ loosened' = IF goal[g].scope = "organization" /\ goal'[g].scope = "personal"
                   THEN loosened \cup (Reviewed \cap ({g} \X Memory)) ELSE loosened

Merge(g, part) == merged' = [merged EXCEPT ![g] = With(@, part)]

-----------------------------------------------------------------------------
(* Users.  What only inserts rows has nothing to be read before.           *)

Ask == asked < MaxRequests /\ asked' = asked + 1

CreateGoal(g, p) ==
    /\ Ask /\ ~Exists(g)
    /\ goal' = [goal EXCEPT ![g] = With(NoGoal, p)]
    /\ UNCHANGED <<node, edge, linked, class, origin, broker, work, history>>

AddNode(n, g, s) ==
    /\ Ask /\ n \notin DOMAIN node /\ Exists(g)
    /\ node' = With(node, Only(n, [goal |-> g, status |-> s]))
    /\ UNCHANGED <<goal, edge, linked, class, origin, broker, work, history>>

\* Neither that it closes a cycle nor that it crosses goals keeps an edge out.
AddDependency(n, m) ==
    /\ Ask /\ n \in DOMAIN node /\ m \in DOMAIN node /\ <<n, m>> \notin edge
    /\ edge' = edge \cup {<<n, m>>}
    /\ UNCHANGED <<goal, node, linked, class, origin, broker, work, history>>

\* apply_pending_feedback: feedback overrides the classification of a memory,
\* whatever it is linked to.
Reclassify(m, c) ==
    /\ Ask /\ c # class[m]
    /\ class' = [class EXCEPT ![m] = c]
    /\ loosened' = IF c = "restricted" THEN loosened \cup (Reviewed \cap (Goal \X {m})) ELSE loosened
    /\ UNCHANGED <<goal, node, edge, linked, origin, broker, work, stale, raced, merged, served, failed>>

\* Mutant of StampOf: a goal is stamped when it turns completed from something else.
StampOnChange(row, p) ==
    IF "status" \in DOMAIN p /\ p.status = "completed" /\ row.status = "active"
    THEN [stamped |-> TRUE] ELSE <<>>

StampOf(row, p) ==
    IF "status" \in DOMAIN p /\ p.status = "completed" THEN [stamped |-> TRUE] ELSE <<>>

\* The confidence that counts in the review is the one before the update.
UpdateGoal(u, g, p) ==
    LET row == goal[g]
        metadata == IF "meta" \in DOMAIN p THEN [meta |-> [NoMeta EXCEPT !.user = asked + 1]] ELSE <<>>
    IN
    /\ Exists(g) /\ ~Open(u) /\ Ask
    /\ IF "status" \in DOMAIN p /\ p.status # row.status /\ ~MayBecome(row, p.status)
       THEN UNCHANGED <<work, stale>>
       ELSE Begin(u, Change(Request("patch"), g,
                            Columns(row, With(With(p, StampOf(row, p)), metadata))))
    /\ UNCHANGED <<rows, broker, raced, loosened, merged, served, failed>>

UpdateNode(u, n, s) ==
    /\ n \in DOMAIN node /\ ~Open(u) /\ Ask
    /\ Begin(u, Outcome(Request("node"), IF node[n].status = s THEN <<>> ELSE Only(n, s), {}))
    /\ UNCHANGED <<rows, broker, raced, loosened, merged, served, failed>>

LinkMemory(u, g, m, type) ==
    /\ Exists(g) /\ ~Open(u) /\ Ask
    /\ IF MayLink(goal[g], m, type)
       THEN Begin(u, Outcome(Request("link_memory"), <<>>, {<<g, m>>}))
       ELSE UNCHANGED <<work, stale>>
    /\ UNCHANGED <<rows, broker, raced, loosened, merged, served, failed>>

-----------------------------------------------------------------------------
(* Tasks.                                                                  *)

Nodes(g) == {n \in DOMAIN node : node[n].goal = g}
Done(g) == {n \in Nodes(g) : node[n].status = "done"}

\* compute_goal_progress, as the counts it is the quotient of.
Progress(g) == <<Cardinality(Done(g)), Cardinality(Nodes(g))>>

\* Nodes that are blocked, and those that a blocked node blocks directly.
ComputeBlockers(g) ==
    LET blocked == {n \in Nodes(g) : node[n].status = "blocked"} IN
    blocked \cup {n \in Nodes(g) : \E b \in blocked : <<b, n>> \in edge}

Receive(w, j) ==
    /\ ~Open(w) /\ ready[j] > 0
    /\ ready' = [ready EXCEPT ![j] = @ - 1]

\* Mutant of WithProgress: the other entries of the metadata are dropped.
ProgressAlone(meta, g) == [NoMeta EXCEPT !.progress = Progress(g)]

\* The whole metadata column is written back with one entry replaced.
WithProgress(meta, g) == [meta EXCEPT !.progress = Progress(g)]

Recompute(w, j) ==
    LET row == goal[j.of] IN
    /\ j.kind = "progress" /\ Receive(w, j)
    /\ IF Exists(j.of)
       THEN Begin(w, Change(j, j.of, Columns(row, [meta |-> WithProgress(row.meta, j.of)])))
       ELSE UNCHANGED <<work, stale>>
    /\ UNCHANGED <<rows, sent, lock, asked, slips, raced, loosened, merged, served, failed>>

\* An active goal with blocked nodes becomes blocked, without a review.
DetectBlockers(w, j) ==
    LET row == goal[j.of]
        found == ComputeBlockers(j.of)
        status == IF found # {} /\ row.status = "active" THEN [status |-> "blocked"] ELSE <<>>
    IN
    /\ j.kind = "blockers" /\ Receive(w, j)
    /\ IF Exists(j.of)
       THEN Begin(w, Change(j, j.of, Columns(row,
                            With([meta |-> [row.meta EXCEPT !.blockers = found]], status))))
       ELSE UNCHANGED <<work, stale>>
    /\ UNCHANGED <<rows, sent, lock, asked, slips, raced, loosened, merged, served, failed>>

\* The key is taken unless it is set; without Redis the task goes on as well.
TakeLock(m) == \/ m \notin lock /\ lock' = lock \cup {m}
               \/ UNCHANGED lock

\* Mutant of LockHeld: the answer of SET NX is read the wrong way round.
LockFree(m) == m \notin lock
LockHeld(m) == m \in lock

Candidates == {g \in Goal : goal[g].status \in {"proposed", "active", "blocked"}}

\* A run that may not read the memory, or finds nothing to link, links nothing.
\* One link that is escalated ends the task, and with it the others.
SuggestLinks(w, j, chosen, type) ==
    /\ j.kind = "link" /\ Receive(w, j)
    /\ chosen \subseteq Candidates
    /\ IF LockHeld(j.of) THEN UNCHANGED <<lock, work, stale, failed>>
       ELSE /\ TakeLock(j.of)
            /\ IF \A g \in chosen : MayLink(goal[g], j.of, type)
               THEN /\ Begin(w, Outcome(j, <<>>, chosen \X {j.of}))
                    /\ UNCHANGED failed
               ELSE /\ failed' = failed \cup {j.of}
                    /\ UNCHANGED <<work, stale>>
    /\ UNCHANGED <<rows, sent, asked, slips, raced, loosened, merged, served>>

\* The end of a session about a goal: if it succeeded, a node in progress, or
\* else one to do, is done; and the evidence is linked up to the first link that
\* is escalated.  If none is, the recomputation of the progress is sent, which
\* waits for no commit and comes back with no rollback.
EndSession(w, j, evidence, keeps) ==
    LET g == j.of
        at(s) == {n \in Nodes(g) : node[n].status = s}
        next == IF at("in_progress") # {} THEN at("in_progress") ELSE at("todo")
        may == {m \in evidence : Exists(g) /\ MayLink(goal[g], m, "evidence")}
    IN
    /\ j.kind = "loop" /\ ~Open(w) /\ ready[j] > 0
    /\ keeps \subseteq may /\ (may = evidence => keeps = may)
    /\ ready' = [k \in Job |->
                   IF k = j THEN ready[k] - 1
                   ELSE IF k = [kind |-> "progress", of |-> g] /\ may = evidence THEN ready[k] + 1
                   ELSE ready[k]]
    /\ IF Exists(g)
       THEN \E n \in next \cup {Nobody} :
              Begin(w, Outcome(j, IF n = Nobody THEN <<>> ELSE Only(n, "done"), {g} \X keeps))
       ELSE UNCHANGED <<work, stale>>
    /\ UNCHANGED <<rows, sent, lock, asked, slips, raced, loosened, merged, served, failed>>

\* A goal is proposed for a session, in a transaction that reads nothing it
\* depends on; the planner may also see no need for it.
PlanGoal(w, j, g, p, new, edges) ==
    /\ j.kind = "plan" /\ ~Open(w) /\ ready[j] > 0 /\ ~Exists(g)
    /\ p.conf >= 50 /\ new \cap DOMAIN node = {} /\ edges \subseteq new \X new
    /\ node' = With(node, [n \in new |-> [goal |-> g, status |-> "todo"]])
    /\ edge' = edge \cup edges
    /\ goal' = [goal EXCEPT ![g] = With(NoGoal, [status |-> "proposed", conf |-> p.conf, scope |-> p.scope])]
    /\ origin' = [origin EXCEPT ![g] = j.of]
    /\ \/ ready' = [ready EXCEPT ![j] = @ - 1] /\ UNCHANGED slips
       \/ slips < MaxSlips /\ slips' = slips + 1 /\ UNCHANGED ready
    /\ UNCHANGED <<linked, class, sent, lock, asked, work, history>>

PlanNothing(w, j) ==
    /\ j.kind = "plan" /\ Receive(w, j)
    /\ UNCHANGED <<rows, sent, lock, slips, asked, work, history>>

\* The transaction of a user or of a task commits.  The message of the task has
\* been acknowledged only now, which Die and Redeliver allow for.
Commit(a) ==
    LET w == work[a] IN
    /\ Open(a)
    /\ IF w.goal # Nobody
       THEN /\ Write(a, w.goal, w.cols)
            /\ Merge(w.goal,
                 IF "meta" \notin DOMAIN w.cols THEN <<>>
                 ELSE IF w.job.kind = "patch" THEN w.cols.meta
                 ELSE IF w.job.kind = "progress" THEN [progress |-> w.cols.meta.progress]
                 ELSE [blockers |-> w.cols.meta.blockers])
       ELSE UNCHANGED <<goal, stale, raced, loosened, merged>>
    /\ node' = [n \in DOMAIN node |->
                  IF n \in DOMAIN w.nodes THEN [node[n] EXCEPT !.status = w.nodes[n]] ELSE node[n]]
    /\ linked' = linked \cup w.links
    /\ served' = IF w.job \in JobKind("link") THEN served \cup {w.job.of} ELSE served
    /\ End(a)
    /\ UNCHANGED <<edge, class, origin, broker, asked, failed>>

\* The request or task fails; tasks are not retried.
Abort(a) ==
    /\ Open(a)
    /\ failed' = IF work[a].job \in JobKind("link") THEN failed \cup {work[a].job.of} ELSE failed
    /\ End(a)
    /\ UNCHANGED <<rows, broker, asked, stale, raced, loosened, merged, served>>

\* The message of an open task comes back, with its worker dead or alive.
Redeliver(w) ==
    /\ Open(w) /\ slips < MaxSlips /\ slips' = slips + 1
    /\ ready' = [ready EXCEPT ![work[w].job] = @ + 1]
    /\ UNCHANGED <<rows, sent, lock, asked, work, history>>

\* The time to live of the key passes: five minutes.
Expire(m) ==
    /\ m \in lock /\ lock' = lock \ {m}
    /\ UNCHANGED <<rows, sent, ready, slips, asked, work, history>>

-----------------------------------------------------------------------------
Take(w) ==
    \/ \E j \in Job : Recompute(w, j) \/ DetectBlockers(w, j) \/ PlanNothing(w, j)
    \/ \E j \in JobKind("link"), chosen \in SUBSET Goal, type \in {"evidence", "progress"} :
          SuggestLinks(w, j, chosen, type)
    \/ \E j \in JobKind("loop"), evidence \in SUBSET Memory : \E keeps \in SUBSET evidence :
          EndSession(w, j, evidence, keeps)
    \/ \E j \in JobKind("plan"), g \in Goal, p \in Proposal, new \in SUBSET Node :
          \E edges \in {{}} \cup {{e} : e \in new \X new} : PlanGoal(w, j, g, p, new, edges)

GoalNext ==
    \/ \E g \in Goal, p \in Payload : CreateGoal(g, p)
    \/ \E n \in Node, g \in Goal, s \in Told : AddNode(n, g, s)
    \/ \E n, m \in Node : AddDependency(n, m)
    \/ \E m \in Memory, c \in Classification : Reclassify(m, c)
    \/ \E u \in User :
         \/ \E g \in Goal, p \in Patch : UpdateGoal(u, g, p)
         \/ \E n \in Node, s \in Told : UpdateNode(u, n, s)
         \/ \E g \in Goal, m \in Memory, type \in {"evidence", "progress"} : LinkMemory(u, g, m, type)
    \/ \E w \in Worker : Take(w) \/ Redeliver(w)
    \/ \E a \in Actor : Commit(a) \/ Abort(a)
    \/ \E m \in Memory : Expire(m)

GoalSpec == GoalInit /\ [][GoalNext]_goalVars

-----------------------------------------------------------------------------
GoalTypeOK ==
    /\ \A g \in Goal : ~Exists(g) \/
          /\ goal[g].status \in Status /\ goal[g].conf \in Confidence
          /\ goal[g].scope \in Scope /\ goal[g].stamped \in BOOLEAN
          /\ goal[g].meta.user \in 0..MaxRequests /\ goal[g].meta.blockers \subseteq Node
    /\ DOMAIN node \subseteq Node /\ edge \subseteq (DOMAIN node) \X (DOMAIN node)
    /\ linked \subseteq Goal \X Memory /\ class \in [Memory -> Classification]
    /\ loosened \subseteq Goal \X Memory /\ origin \in [Goal -> Session \cup {Nobody}]
    /\ DOMAIN ready = Job /\ lock \subseteq Memory /\ asked \in 0..MaxRequests
    /\ slips \in 0..MaxSlips

\* A goal says when it was completed, unless it was created as completed.
CompletedIsStamped ==
    \A g \in Goal : goal[g].status = "completed" =>
        \/ goal[g].stamped
        \/ \E p \in Payload : p.status = "completed" /\ origin[g] = Nobody

\* A restricted memory is linked to a goal of a team or person only if the scope
\* of the goal was narrowed, or the memory was made restricted, after the link
\* was reviewed: neither of the two looks at the links there are.
RestrictedStayOut ==
    \A g \in Goal, m \in Memory :
        <<g, m>> \in linked /\ class[m] = "restricted" =>
            goal[g].scope = "organization" \/ <<g, m>> \in loosened

\* A session is proposed as a goal once, and once more per second delivery.
ProposalsBounded ==
    \A s \in Session : Cardinality({g \in Goal : origin[g] = s}) <= 1 + slips

GoalInv == GoalTypeOK /\ CompletedIsStamped /\ RestrictedStayOut /\ ProposalsBounded

\* A goal below the confidence that reviews ask for does not change its status,
\* except that blocked nodes block it, or that its confidence fell meanwhile.
StatusSupervised ==
    [][\A g \in Goal : Exists(g) /\ goal'[g].status # goal[g].status =>
        \/ goal[g].conf >= 50
        \/ goal[g].status = "active" /\ goal'[g].status = "blocked"
        \/ g \in raced']_goalVars

\* What the tasks and users put into the metadata of a goal is there until they
\* replace it, if no two of them were ever at it at the same time.
MetadataMerged == \A g \in Goal : goal[g].meta = merged[g] \/ g \in raced

\* A memory whose linking task is over was looked at to the end by a run of it,
\* unless one of its runs has failed and left the key behind.
LinksAccounted ==
    \A j \in JobKind("link") \cap sent :
        ready[j] = 0 /\ (\A w \in Worker : work[w].job # j) => j.of \in served \cup failed

=============================================================================
