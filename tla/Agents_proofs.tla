---------------------------- MODULE Agents_proofs ---------------------------
(***************************************************************************)
(* Proofs about the enrichment of a memory, for every chain of agents, and *)
(* about the circuit breaker around the language models that agents call,  *)
(* for every number of calls and every threshold.  The two components      *)
(* share nothing but this module.                                          *)
(***************************************************************************)
EXTENDS AgentRuns, CircuitBreaker, TLAPS

-----------------------------------------------------------------------------
(* The chain.                                                              *)

\* The enriching agents of the stages before stage k.
Before(k) == {e \in Enriching : StageOf(e) < k}

\* Every agent has one stage.
LEMMA StagesAreDisjoint ==
    /\ Len(Stages) \in Nat /\ Enriching \subseteq Agent
    /\ \A a \in Agent : StageOf(a) \in 1..Len(Stages) /\ a \in Stages[StageOf(a)]
    /\ \A k \in 1..Len(Stages) : \A a \in Stages[k] : a \in Agent /\ StageOf(a) = k
<1>1. Stages \in Seq(SUBSET Agent) /\ Enriching \subseteq Agent
  BY RunsAssumption
<1>2. Len(Stages) \in Nat
  BY <1>1
<1>3. ASSUME NEW a \in Agent PROVE StageOf(a) \in 1..Len(Stages) /\ a \in Stages[StageOf(a)]
  <2>1. \E k \in 1..Len(Stages) : a \in Stages[k]
    BY DEF Agent
  <2>2. QED
    BY <2>1 DEF StageOf
<1>4. ASSUME NEW k \in 1..Len(Stages), NEW a \in Stages[k] PROVE a \in Agent /\ StageOf(a) = k
  <2>1. a \in Agent
    BY DEF Agent
  <2>2. StageOf(a) \in 1..Len(Stages) /\ a \in Stages[StageOf(a)]
    BY <1>3, <2>1
  <2>3. QED
    BY <2>1, <2>2, RunsAssumption
<1>5. QED
  BY <1>1, <1>2, <1>3, <1>4

\* Which are those that the chain is to feed to stage k.
LEMMA BeforeIs ==
    ASSUME NEW k \in 1..Len(Stages)
    PROVE  Enriching \cap UNION {Stages[i] : i \in 1..(k - 1)} \subseteq Before(k)
<1>1. ASSUME NEW e \in Enriching, NEW i \in 1..(k - 1), e \in Stages[i] PROVE StageOf(e) < k
  <2>1. i \in 1..Len(Stages) /\ i < k
    BY StagesAreDisjoint
  <2>2. StageOf(e) = i
    BY <1>1, <2>1, StagesAreDisjoint
  <2>3. QED
    BY <2>1, <2>2
<1>2. QED
  BY <1>1 DEF Before

\* A stage adds its only agent to what is before, if that enriches, or nothing.
LEMMA BeforeNext ==
    ASSUME NEW k \in 1..Len(Stages)
    PROVE  Before(k + 1) \subseteq Before(k) \cup (Enriching \cap Stages[k])
<1>1. ASSUME NEW e \in Enriching, StageOf(e) < k + 1, ~(StageOf(e) < k)
      PROVE  e \in Stages[k]
  <2>1. StageOf(e) \in 1..Len(Stages) /\ e \in Stages[StageOf(e)] /\ Len(Stages) \in Nat
    BY StagesAreDisjoint
  <2>2. StageOf(e) = k
    BY <1>1, <2>1
  <2>3. QED
    BY <2>1, <2>2
<1>2. QED
  BY <1>1 DEF Before

\* Who shares the stage of an enriching agent is that agent.
LEMMA EnrichesAlone ==
    ASSUME NEW k \in 1..Len(Stages), NEW a \in Stages[k]
    PROVE  Enriching \cap Stages[k] \subseteq {a}
BY RunsAssumption

-----------------------------------------------------------------------------
\* Which messages there are when some are sent or one is received.
LEMMA Messages ==
    ASSUME NEW B, NEW S
    PROVE  /\ DOMAIN (B (+) SetToBag(S)) = (DOMAIN B) \cup S
           /\ DOMAIN (B (-) SetToBag(S)) \subseteq DOMAIN B
           /\ DOMAIN SetToBag(S) = S
BY DEF (+), (-), SetToBag

-----------------------------------------------------------------------------
(* The inductive invariant.                                                *)

Rows == {NoRow} \cup [status : {"success"}, hash : Inputs, out : Inputs]
Succeeded(a) == run[a].status = "success"

\* A task of the chain is sent when the enriching agents before it have
\* succeeded, and no other task is the chain's.
Sound(t) == IF t.job = Pipeline THEN Before(StageOf(t.agent)) \subseteq PriorEnrichment
                                ELSE t.agent = Learner

\* What a worker has in hand: a task, inputs that hold what the chain is to feed
\* it, and between its reading and its result the feedback it has read, which
\* it applies first.
AtWork(w) ==
    /\ step[w] # "idle" => Sound(task[w])
    /\ step[w] \notin {"idle", "ack"} /\ task[w].job = Pipeline =>
          Before(StageOf(Me(w))) \subseteq seen[w].prior
    /\ step[w] \in {"restamp", "return", "ack"} => Succeeded(Me(w))
    /\ step[w] \in {"run", "apply", "commit"} => ~Succeeded(Me(w))
    /\ step[w] \notin {"apply", "commit"} => batch[w] = {}
    /\ batch[w] # {} => Me(w) = Learner
    /\ step[w] = "apply" => Me(w) = Learner /\ batch[w] \cap applied = {}
    /\ step[w] = "commit" => batch[w] \subseteq applied
    /\ batch[w] \subseteq submitted

\* The row of an agent, or its key, is held by one worker.
OneHolder ==
    \A v, w \in Worker : step[v] \in Holding /\ step[w] \in Holding /\ Me(v) = Me(w) => v = w

QueueInv == \A t \in DOMAIN ready : Sound(t)

\* The feedback that has been applied was so once.
AppliedOnce == \A f \in Feedback : times[f] = IF f \in applied THEN 1 ELSE 0

NotLost == \A f \in applied : \/ f \in calibrated \cup orphaned
                              \/ \E w \in Worker : f \in batch[w]

Fed == \A a \in Agent \ {Learner} : Succeeded(a) => Before(StageOf(a)) \subseteq run[a].out.prior

Types ==
    /\ TypeOK
    /\ run \in [Agent -> Rows]
    /\ times \in [Feedback -> Nat]

WorkInv == Types /\ (\A w \in Worker : AtWork(w)) /\ OneHolder /\ QueueInv

Inv == WorkInv /\ Fed /\ AppliedOnce /\ NotLost

-----------------------------------------------------------------------------
(* What steps leave alone, and types.                                      *)

\* What the step of a worker leaves the others.
Apart(w) ==
    \A v \in Worker \ {w} :
       step'[v] = step[v] /\ task'[v] = task[v] /\ seen'[v] = seen[v] /\ batch'[v] = batch[v]

WorkerStep(w) == Receive(w) \/ Continue(w) \/ Raise(w) \/ Reject(w) \/ Die(w) \/ Redeliver(w)

\* A worker's step leaves the step, task, inputs and batch of the others alone.
LEMMA StepsApart ==
    ASSUME Types, NEW w \in Worker, WorkerStep(w)
    PROVE  Apart(w)
<1> SUFFICES ASSUME NEW v \in Worker \ {w}
             PROVE  /\ step'[v] = step[v] /\ task'[v] = task[v]
                    /\ seen'[v] = seen[v] /\ batch'[v] = batch[v]
  BY DEF Apart
<1>1. /\ step \in [Worker -> Steps] /\ task \in [Worker -> Task]
      /\ seen \in [Worker -> Inputs] /\ batch \in [Worker -> SUBSET Feedback]
  BY DEF Types, TypeOK
<1>2. CASE Receive(w)
  BY <1>1, <1>2 DEF Receive, LoadInputs, Goto
<1>3. CASE SelectRow(w) \/ InsertRow(w) \/ Restamp(w) \/ RunAgent(w) \/ ApplyFeedback(w) \/ Commit(w)
  BY <1>1, <1>3 DEF SelectRow, InsertRow, Restamp, RunAgent, ApplyFeedback, Commit, Goto
<1>4. CASE Ack(w)
  BY <1>1, <1>4 DEF Ack, Rest, Goto
<1>5. CASE RollBack(w)
  BY <1>1, <1>5 DEF RollBack, Rest, Goto
<1>6. CASE Redeliver(w)
  BY <1>6 DEF Redeliver
<1>7. QED
  BY <1>2, <1>3, <1>4, <1>5, <1>6 DEF WorkerStep, Continue, Collide, Raise, Reject, Die

\* Inputs and tasks there are.
LEMMA SomeInputs ==
    /\ NoInputs \in Inputs /\ NoTask \in Task /\ NoRow \in Rows /\ NoRow.status # "success"
    /\ \A r \in Rows : r = NoRow \/ (r.status = "success" /\ r.hash \in Inputs /\ r.out \in Inputs)
    /\ \A r \in Rows : r.status = "none" <=> r = NoRow
    /\ Learner \in Agent /\ Pipeline \in Job /\ Feedback \subseteq Job /\ Pipeline \notin Feedback
    /\ MaxSlips \in Nat /\ MaxRetries \in Nat
<1>1. Learner \in Agent /\ MaxRetries \in Nat /\ MaxSlips \in Nat /\ Pipeline \notin Feedback
  BY RunsAssumption
<1>2. Pipeline \in Job /\ Feedback \subseteq Job
  BY DEF Job
<1>3. NoInputs \in Inputs
  BY DEF NoInputs, Inputs
<1>4. NoTask \in Task
  BY <1>1, <1>2 DEF NoTask, Task
<1>5. QED
  BY <1>1, <1>2, <1>3, <1>4 DEF Rows, NoRow

\* The tasks of a stage.
LEMMA FirstTasks ==
    ASSUME NEW k \in 1..Len(Stages), NEW j \in Job
    PROVE  First(k, j) \subseteq Task
           /\ \A t \in First(k, j) : t.job = j /\ t.agent \in Stages[k] /\ t.retries = 0
<1>1. \A a \in Stages[k] : a \in Agent
  BY StagesAreDisjoint
<1>2. QED
  BY <1>1, SomeInputs DEF First, Task

\* The tasks that the chain sends after one are tasks of the next stage.
LEMMA FollowingTasks ==
    ASSUME NEW t \in Task
    PROVE  /\ Following(t) \subseteq Task
           /\ \A n \in Following(t) : /\ t.job = Pipeline /\ n.job = Pipeline
                                      /\ StageOf(t.agent) + 1 \in 1..Len(Stages)
                                      /\ StageOf(n.agent) = StageOf(t.agent) + 1
<1>1. StageOf(t.agent) \in 1..Len(Stages) /\ Len(Stages) \in Nat
  BY StagesAreDisjoint DEF Task
<1>2. CASE t.job = Pipeline /\ StageOf(t.agent) < Len(Stages)
  <2>1. StageOf(t.agent) + 1 \in 1..Len(Stages)
    BY <1>1, <1>2
  <2>2. Following(t) = First(StageOf(t.agent) + 1, Pipeline)
    BY <1>2 DEF Following
  <2>3. \A a \in Stages[StageOf(t.agent) + 1] : StageOf(a) = StageOf(t.agent) + 1
    BY <2>1, StagesAreDisjoint
  <2>4. QED
    BY <1>2, <2>1, <2>2, <2>3, FirstTasks, SomeInputs
<1>3. CASE ~(t.job = Pipeline /\ StageOf(t.agent) < Len(Stages))
  BY <1>3 DEF Following
<1>4. QED
  BY <1>2, <1>3

-----------------------------------------------------------------------------
(* The steps of a worker.                                                  *)

\* What succeeds stays so.
Lasting == \A a \in Agent : Succeeded(a) => Succeeded(a)'

\* A task that may be run may be run later.
LEMMA SoundStays ==
    ASSUME Lasting
    PROVE  /\ PriorEnrichment \subseteq PriorEnrichment'
           /\ \A t : Sound(t) => Sound(t)'
<1>1. PriorEnrichment \subseteq PriorEnrichment'
  BY StagesAreDisjoint DEF Lasting, PriorEnrichment, Succeeded
<1>2. QED
  BY <1>1 DEF Sound, Before

\* What the step of a worker does to its own work and to what others may count on.
OwnWork(w) ==
    /\ Types' /\ AtWork(w)' /\ Lasting
    /\ \A t \in DOMAIN ready' : t \in DOMAIN ready \/ Sound(t)'
    /\ step'[w] \in Holding =>
          Me(w)' = Me(w) /\ (step[w] \in Holding \/ ~LockedByOther(w, Me(w)))
    /\ \A a \in Agent : Succeeded(a)' => Succeeded(a) \/ (a = Me(w) /\ step[w] \in Holding)
    /\ applied \subseteq applied' /\ (applied' = applied \/ step[w] = "apply")
    /\ submitted' = submitted

\* A worker that receives a task of the chain finds what the chain is to feed it.
LEMMA LoadWork ==
    ASSUME WorkInv, NEW w \in Worker, NEW t \in DOMAIN ready, LoadInputs(w, t)
    PROVE  OwnWork(w) /\ UNCHANGED run /\ batch' = batch /\ step[w] = "idle"
           /\ UNCHANGED <<calibrated, orphaned, times>> /\ UNCHANGED applied
<1>1. Types /\ TypeOK /\ Sound(t) /\ AtWork(w)
  BY DEF WorkInv, Types, QueueInv
<1>2. t \in Task /\ t.agent \in Agent
  BY <1>1 DEF TypeOK, BagToSet, Task
<1> DEFINE s == [prior |-> PriorEnrichment, pending |-> PendingFingerprint(t.agent)]
<1>3. s \in Inputs
  BY <1>1 DEF Inputs, PriorEnrichment, PendingFingerprint, Pending, TypeOK
<1>4. /\ step[w] = "idle" /\ ready' = ready (-) SetToBag({t})
      /\ task' = [task EXCEPT ![w] = t] /\ seen' = [seen EXCEPT ![w] = s]
      /\ step' = [step EXCEPT ![w] = "select"]
      /\ UNCHANGED <<submitted, enqueued>> /\ UNCHANGED <<applied, times>>
      /\ UNCHANGED <<calibrated, run, joined, stopped, slips, batch, orphaned>>
  BY DEF LoadInputs, Goto, feedbackVars, learnt
<1> HIDE DEF s
<1>5. DOMAIN ready' \subseteq DOMAIN ready
  BY <1>4, Messages
<1>6. Types'
  <2>1. task' \in [Worker -> Task] /\ seen' \in [Worker -> Inputs] /\ step' \in [Worker -> Steps]
    BY <1>1, <1>2, <1>3, <1>4 DEF TypeOK, Steps
  <2>2. BagToSet(ready') \subseteq Task
    BY <1>1, <1>5 DEF TypeOK, BagToSet
  <2>3. QED
    BY <1>1, <1>4, <2>1, <2>2 DEF Types, TypeOK
<1>7. step'[w] = "select" /\ task'[w] = t /\ seen'[w] = s /\ batch'[w] = {}
  BY <1>1, <1>4 DEF TypeOK, AtWork
<1>8. t.job = Pipeline => Before(StageOf(t.agent)) \subseteq s.prior
  BY <1>1 DEF Sound, s
<1>9. Lasting /\ Sound(t)' /\ \A a \in Agent : Succeeded(a)' => Succeeded(a)
  BY <1>1, <1>4 DEF Lasting, Succeeded, Sound, PriorEnrichment, Before
<1>10. AtWork(w)'
  BY <1>7, <1>8, <1>9 DEF AtWork, Me, Before
<1>11. QED
  BY <1>4, <1>5, <1>6, <1>7, <1>9, <1>10 DEF OwnWork, Holding

\* Steps inside the transaction.
LEMMA InsideWork ==
    ASSUME WorkInv, NEW w \in Worker,
           SelectRow(w) \/ InsertRow(w) \/ Restamp(w) \/ RunAgent(w) \/ ApplyFeedback(w)
    PROVE  OwnWork(w) /\ UNCHANGED run /\ UNCHANGED <<calibrated, orphaned>>
<1>1. Types /\ TypeOK /\ AtWork(w) /\ Me(w) \in Agent
  BY DEF WorkInv, Types, TypeOK, Task, Me
<1>2. /\ step \in [Worker -> Steps] /\ seen \in [Worker -> Inputs] /\ NoInputs \in Inputs
      /\ batch \in [Worker -> SUBSET Feedback] /\ run[Me(w)] \in Rows
      /\ applied \subseteq submitted /\ submitted \subseteq Feedback
      /\ calibrated \subseteq applied /\ orphaned \subseteq applied
      /\ times \in [Feedback -> Nat]
  BY <1>1, SomeInputs DEF Types, TypeOK
<1>3. /\ UNCHANGED <<submitted, enqueued, run, ready, joined, stopped, slips>>
      /\ UNCHANGED <<task, calibrated, orphaned>>
  BY DEF SelectRow, InsertRow, Restamp, RunAgent, ApplyFeedback, feedbackVars, broker
<1>4. Lasting /\ (\A a \in Agent : Succeeded(a)' => Succeeded(a)) /\ Sound(task[w])' = Sound(task[w])
      /\ (Succeeded(Me(w))' <=> Succeeded(Me(w))) /\ Me(w)' = Me(w)
  BY <1>3 DEF Lasting, Succeeded, Sound, PriorEnrichment, Before, Me
<1>5. Types' <=> /\ step' \in [Worker -> Steps] /\ seen' \in [Worker -> Inputs]
                 /\ batch' \in [Worker -> SUBSET Feedback]
                 /\ applied' \subseteq submitted /\ calibrated \subseteq applied'
                 /\ orphaned \subseteq applied' /\ times' \in [Feedback -> Nat]
  BY <1>1, <1>3 DEF Types, TypeOK
<1>6. Succeeded(Me(w)) <=> run[Me(w)].status # "none"
  BY <1>2, SomeInputs DEF Succeeded
<1>7. CASE SelectRow(w)
  <2> DEFINE same == run[Me(w)].status = "success" /\ run[Me(w)].hash = seen[w]
             next == CASE run[Me(w)].status = "none" -> "insert"
                       [] same                       -> "ack"
                       [] OTHER                      -> "restamp"
  <2>1. /\ step[w] = "select" /\ UNCHANGED <<applied, times, batch>>
        /\ step' = [step EXCEPT ![w] = next]
        /\ seen' = [seen EXCEPT ![w] = IF same THEN NoInputs ELSE seen[w]]
    BY <1>2, <1>7 DEF SelectRow, Goto, learnt
  <2>2. /\ next \in {"insert", "ack", "restamp"}
        /\ next \in {"ack", "restamp"} => Succeeded(Me(w))
        /\ next # "ack" => ~same
    <3>1. same => run[Me(w)].status # "none"
      BY DEF Succeeded
    <3> HIDE DEF same
    <3>2. CASE run[Me(w)].status = "none"
      BY <3>1, <3>2
    <3>3. CASE run[Me(w)].status # "none"
      BY <1>6, <3>1, <3>3
    <3>4. QED
      BY <3>2, <3>3
  <2> HIDE DEF next, same
  <2>3. step'[w] = next /\ (next # "ack" => seen'[w] = seen[w]) /\ batch'[w] = {}
    BY <1>1, <1>2, <2>1, <2>2 DEF AtWork
  <2>4. Types'
    <3>1. step' \in [Worker -> Steps] /\ seen' \in [Worker -> Inputs]
      BY <1>2, <2>1, <2>2 DEF Steps
    <3>2. QED
      BY <1>2, <1>5, <2>1, <3>1
  <2>5. AtWork(w)'
    BY <1>1, <1>3, <1>4, <2>1, <2>2, <2>3 DEF AtWork, Me, Before
  <2>6. QED
    BY <1>3, <1>4, <2>1, <2>2, <2>3, <2>4, <2>5 DEF OwnWork, Holding
<1>8. CASE InsertRow(w) \/ Restamp(w)
  <2>1. /\ step[w] \in {"insert", "restamp"} /\ UNCHANGED <<applied, times, batch, seen>>
        /\ ~LockedByOther(w, Me(w))
    BY <1>8 DEF InsertRow, Restamp, learnt
  <2>2. \E next \in {"run", "return"} :
           /\ step' = [step EXCEPT ![w] = next]
           /\ next = "run" => ~Succeeded(Me(w))
           /\ next = "return" => Succeeded(Me(w))
    <3>1. CASE InsertRow(w)
      BY <1>6, <3>1 DEF InsertRow, Goto
    <3>2. CASE Restamp(w)
      BY <3>2 DEF Restamp, Goto, Succeeded
    <3>3. QED
      BY <1>8, <3>1, <3>2
  <2>3. PICK next \in {"run", "return"} :
           /\ step' = [step EXCEPT ![w] = next]
           /\ next = "run" => ~Succeeded(Me(w))
           /\ next = "return" => Succeeded(Me(w))
    BY <2>2
  <2>4. step'[w] = next /\ batch'[w] = {} /\ seen'[w] = seen[w]
    BY <1>1, <1>2, <2>1, <2>3 DEF AtWork
  <2>5. Types'
    BY <1>1, <1>2, <1>5, <2>1, <2>3 DEF Steps, Types
  <2>6. AtWork(w)'
    BY <1>1, <1>3, <1>4, <2>1, <2>3, <2>4 DEF AtWork, Me, Before
  <2>7. QED
    BY <1>3, <1>4, <2>1, <2>4, <2>5, <2>6 DEF OwnWork, Holding
<1>9. CASE RunAgent(w)
  <2>1. /\ step[w] = "run" /\ UNCHANGED <<applied, times, seen>>
        /\ batch' = [batch EXCEPT ![w] = PendingFingerprint(Me(w))]
        /\ step' = [step EXCEPT ![w] = IF Me(w) = Learner THEN "apply" ELSE "commit"]
    BY <1>9 DEF RunAgent, learnt, Goto
  <2>2. PendingFingerprint(Me(w)) \subseteq submitted
        /\ PendingFingerprint(Me(w)) \cap applied = {}
        /\ (Me(w) # Learner => PendingFingerprint(Me(w)) = {})
    BY DEF PendingFingerprint, Pending
  <2>3. /\ step'[w] = IF Me(w) = Learner THEN "apply" ELSE "commit"
        /\ batch'[w] = PendingFingerprint(Me(w)) /\ seen'[w] = seen[w]
    BY <1>2, <2>1
  <2>4. Types'
    BY <1>1, <1>2, <1>5, <2>1, <2>2 DEF Steps, Types
  <2>5. AtWork(w)'
    BY <1>1, <1>3, <1>4, <2>1, <2>2, <2>3 DEF AtWork, Me, Before
  <2>6. QED
    BY <1>3, <1>4, <2>1, <2>3, <2>4, <2>5 DEF OwnWork, Holding
<1>10. CASE ApplyFeedback(w)
  <2>1. /\ step[w] = "apply" /\ UNCHANGED <<batch, seen>> /\ applied' = applied \cup batch[w]
        /\ times' = [f \in Feedback |-> IF f \in batch[w] THEN times[f] + 1 ELSE times[f]]
        /\ step' = [step EXCEPT ![w] = "commit"]
    BY <1>10 DEF ApplyFeedback, Goto
  <2>2. times' \in [Feedback -> Nat]
    BY <1>1, <2>1 DEF Types
  <2>3. step'[w] = "commit" /\ batch'[w] = batch[w] /\ seen'[w] = seen[w]
    BY <1>2, <2>1
  <2>4. batch[w] \subseteq submitted
    BY <1>1 DEF AtWork
  <2>5. Types'
    <3>1. step' \in [Worker -> Steps]
      BY <1>2, <2>1 DEF Steps
    <3>2. applied' \subseteq submitted /\ calibrated \subseteq applied' /\ orphaned \subseteq applied'
      BY <1>2, <2>1, <2>4
    <3>3. QED
      BY <1>2, <1>5, <2>1, <2>2, <3>1, <3>2
  <2>6. AtWork(w)'
    BY <1>1, <1>3, <1>4, <2>1, <2>3 DEF AtWork, Me, Before
  <2>7. QED
    BY <1>3, <1>4, <2>1, <2>3, <2>5, <2>6 DEF OwnWork, Holding
<1>11. QED
  BY <1>7, <1>8, <1>9, <1>10


\* The result of an agent of the chain holds what the chain is to feed it, and
\* stored outputs stay.
LEMMA CommitWork ==
    ASSUME WorkInv, NEW w \in Worker, Commit(w)
    PROVE  /\ OwnWork(w) /\ UNCHANGED <<applied, times, orphaned>> /\ batch'[w] = {}
           /\ calibrated' = calibrated \cup batch[w]
           /\ \A a \in Agent \ {Me(w)} : run'[a] = run[a]
           /\ Succeeded(Me(w)) => run'[Me(w)].out = run[Me(w)].out
           /\ Me(w) # Learner /\ ~Succeeded(Me(w)) =>
                 Before(StageOf(Me(w))) \subseteq run'[Me(w)].out.prior
<1>1. Types /\ TypeOK /\ AtWork(w) /\ Me(w) \in Agent /\ w \in Worker
  BY DEF WorkInv, Types, TypeOK, Task, Me
<1>2. /\ step \in [Worker -> Steps] /\ seen \in [Worker -> Inputs] /\ NoInputs \in Inputs
      /\ batch \in [Worker -> SUBSET Feedback] /\ run \in [Agent -> Rows]
      /\ calibrated \subseteq applied
  BY <1>1, SomeInputs DEF Types, TypeOK
<1> DEFINE out == IF step[w] = "return" THEN run[Me(w)].out
                  ELSE [prior |-> seen[w].prior, pending |-> batch[w]]
           result == [status |-> "success", hash |-> seen[w], out |-> out]
<1>3. /\ step[w] \in {"commit", "return"} /\ run' = [run EXCEPT ![Me(w)] = result]
      /\ calibrated' = calibrated \cup batch[w]
      /\ batch' = [batch EXCEPT ![w] = {}] /\ seen' = [seen EXCEPT ![w] = NoInputs]
      /\ step' = [step EXCEPT ![w] = "ack"]
      /\ UNCHANGED <<submitted, enqueued, applied, times>>
      /\ UNCHANGED <<ready, joined, stopped, slips, task, orphaned>>
  BY <1>1, <1>2 DEF Commit, Materialize, Goto, feedbackVars, learnt, broker
<1>4. step[w] = "return" <=> Succeeded(Me(w))
  BY <1>1, <1>3 DEF AtWork
<1>5. out \in Inputs
  <2>1. CASE step[w] = "return"
    <3>1. run[Me(w)] \in Rows /\ run[Me(w)].status = "success"
      BY <1>1, <1>2, <1>4, <2>1 DEF Succeeded
    <3>2. QED
      BY <2>1, <3>1, SomeInputs
  <2>2. CASE step[w] # "return"
    <3>1. seen[w].prior \subseteq Enriching /\ batch[w] \subseteq Feedback
      BY <1>2 DEF Inputs
    <3>2. QED
      BY <2>2, <3>1 DEF Inputs
  <2>3. QED
    BY <2>1, <2>2
<1>6. /\ Succeeded(Me(w)) => out = run[Me(w)].out
      /\ ~Succeeded(Me(w)) => out.prior = seen[w].prior
  BY <1>3, <1>4
<1> HIDE DEF out
<1>7. result \in Rows /\ result.status = "success" /\ result.out = out
  <2>1. seen[w] \in Inputs
    BY <1>2
  <2>2. QED
    BY <1>5, <2>1 DEF Rows
<1> HIDE DEF result
<1>8. /\ run' \in [Agent -> Rows] /\ run'[Me(w)] = result
      /\ \A a \in Agent \ {Me(w)} : run'[a] = run[a]
  BY <1>1, <1>2, <1>3, <1>7
<1>9. step'[w] = "ack" /\ batch'[w] = {} /\ Me(w)' = Me(w) /\ task'[w] = task[w]
  BY <1>2, <1>3 DEF Me
<1>10. Lasting /\ Succeeded(Me(w))' /\ \A a \in Agent : Succeeded(a)' => Succeeded(a) \/ a = Me(w)
  BY <1>7, <1>8, <1>9 DEF Lasting, Succeeded
<1>11. Types'
  <2>1. step' \in [Worker -> Steps] /\ seen' \in [Worker -> Inputs] /\ batch' \in [Worker -> SUBSET Feedback]
    BY <1>2, <1>3 DEF Steps
  <2>2. batch[w] \subseteq applied
    BY <1>1, <1>3 DEF AtWork
  <2>3. \A a \in Agent : run'[a] = NoRow \/
           (run'[a].status = "success" /\ run'[a].hash \in Inputs /\ run'[a].out \in Inputs)
    BY <1>8, SomeInputs
  <2>4. calibrated' \subseteq applied
    BY <1>2, <1>3, <2>2
  <2>5. QED
    BY <1>1, <1>3, <1>8, <2>1, <2>3, <2>4 DEF Types, TypeOK
<1>12. Sound(task[w])'
  <2>1. Sound(task[w])
    BY <1>1, <1>3 DEF AtWork
  <2>2. QED
    BY <1>9, <1>10, <2>1, SoundStays DEF Sound
<1>13. AtWork(w)'
  BY <1>9, <1>10, <1>12 DEF AtWork, Me
<1>14. Me(w) # Learner /\ ~Succeeded(Me(w)) => Before(StageOf(Me(w))) \subseteq out.prior
  <2> SUFFICES ASSUME Me(w) # Learner, ~Succeeded(Me(w)) PROVE Before(StageOf(Me(w))) \subseteq out.prior
    OBVIOUS
  <2>1. task[w].job = Pipeline
    BY <1>1, <1>3 DEF AtWork, Sound, Me
  <2>2. QED
    BY <1>1, <1>3, <1>6, <2>1 DEF AtWork
<1>15. OwnWork(w)
  BY <1>3, <1>9, <1>10, <1>11, <1>13 DEF OwnWork, Holding
<1>16. Succeeded(Me(w)) => run'[Me(w)].out = run[Me(w)].out
  BY <1>6, <1>7, <1>8
<1>17. QED
  BY <1>3, <1>7, <1>8, <1>9, <1>14, <1>15, <1>16


\* A task that has returned leaves the next stage what the chain is to feed it.
LEMMA FollowingSound ==
    ASSUME NEW t \in Task, Sound(t), Succeeded(t.agent)
    PROVE  \A n \in Following(t) : Sound(n)
<1> SUFFICES ASSUME NEW n \in Following(t) PROVE Sound(n)
  OBVIOUS
<1> DEFINE k == StageOf(t.agent)
<1>1. t.agent \in Agent
  BY DEF Task
<1>2. k \in 1..Len(Stages) /\ t.agent \in Stages[k]
  BY <1>1, StagesAreDisjoint
<1>3. t.job = Pipeline /\ n.job = Pipeline /\ StageOf(n.agent) = k + 1
  BY FollowingTasks
<1> HIDE DEF k
<1>4. Before(k + 1) \subseteq Before(k) \cup (Enriching \cap Stages[k])
  BY <1>2, BeforeNext
<1>5. Enriching \cap Stages[k] \subseteq PriorEnrichment
  BY <1>2, EnrichesAlone DEF PriorEnrichment, Succeeded
<1>6. Before(k) \subseteq PriorEnrichment
  BY <1>3 DEF Sound, k
<1>7. QED
  BY <1>3, <1>4, <1>5, <1>6 DEF Sound

\* What an acknowledged task leaves.
LEMMA AckWork ==
    ASSUME WorkInv, NEW w \in Worker, Ack(w)
    PROVE  /\ OwnWork(w) /\ UNCHANGED run
           /\ UNCHANGED <<applied, times, calibrated, orphaned>> /\ batch' = batch
<1>1. Types /\ TypeOK /\ AtWork(w) /\ task[w] \in Task /\ Me(w) \in Agent
  BY DEF WorkInv, Types, TypeOK, Task, Me
<1>2. /\ step \in [Worker -> Steps] /\ seen \in [Worker -> Inputs] /\ NoInputs \in Inputs
      /\ task \in [Worker -> Task] /\ NoTask \in Task
  BY <1>1, SomeInputs DEF Types, TypeOK
<1>3. /\ step[w] = "ack" /\ step' = [step EXCEPT ![w] = "idle"]
      /\ task' = [task EXCEPT ![w] = NoTask] /\ seen' = [seen EXCEPT ![w] = NoInputs]
      /\ UNCHANGED <<submitted, enqueued, applied, times, calibrated>>
      /\ UNCHANGED <<run, stopped, slips, batch, orphaned>>
  BY DEF Ack, Rest, Goto, feedbackVars, learnt
<1>4. DOMAIN ready' \subseteq (DOMAIN ready) \cup Following(task[w])
  <2>1. ready' = ready \/ ready' = ready (+) SetToBag(Following(task[w]))
    BY DEF Ack
  <2>2. DOMAIN (ready (+) SetToBag(Following(task[w]))) = (DOMAIN ready) \cup Following(task[w])
    BY Messages
  <2>3. QED
    BY <2>1, <2>2
<1>5. joined' \subseteq Agent \X (0..MaxSlips)
  <2>1. joined \subseteq Agent \X (0..MaxSlips) /\ slips \in 0..MaxSlips
    BY <1>1 DEF TypeOK
  <2>2. PICK n \in 0..MaxSlips : joined' \in {joined, {}, {<<Me(w), n>>}, {<<Me(w), n>>} \cup joined}
    BY <2>1, SomeInputs DEF Ack, Me
  <2>3. QED
    BY <1>1, <2>1, <2>2
<1>6. step'[w] = "idle" /\ batch'[w] = {} /\ seen'[w] = NoInputs
  BY <1>1, <1>2, <1>3 DEF AtWork
<1>7. Types'
  <2>1. step' \in [Worker -> Steps] /\ seen' \in [Worker -> Inputs] /\ task' \in [Worker -> Task]
    BY <1>2, <1>3 DEF Steps
  <2>2. BagToSet(ready') \subseteq Task
    BY <1>1, <1>4, FollowingTasks DEF TypeOK, BagToSet
  <2>3. QED
    BY <1>1, <1>3, <1>5, <2>1, <2>2 DEF Types, TypeOK
<1>8. Lasting /\ \A a \in Agent : Succeeded(a)' => Succeeded(a)
  BY <1>3 DEF Lasting, Succeeded
<1>9. \A n \in Following(task[w]) : Sound(n)'
  <2>1. Sound(task[w]) /\ Succeeded(task[w].agent)
    BY <1>1, <1>3 DEF AtWork, Me
  <2>2. \A n \in Following(task[w]) : Sound(n)
    BY <1>1, <2>1, FollowingSound
  <2>3. QED
    BY <1>8, <2>2, SoundStays
<1>10. AtWork(w)'
  BY <1>6 DEF AtWork
<1>11. QED
  BY <1>3, <1>4, <1>6, <1>7, <1>8, <1>9, <1>10 DEF OwnWork, Holding

\* A worker that gives up its transaction, and puts its task back or not.
LEMMA RollBackWork ==
    ASSUME WorkInv, NEW w \in Worker, RollBack(w), step[w] # "idle",
           UNCHANGED <<submitted, enqueued, applied, times, calibrated>>,
           UNCHANGED <<run, joined>>,
           stopped' \subseteq Job, slips' \in 0..MaxSlips,
           NEW t \in Task, t.job = task[w].job, t.agent = Me(w),
           DOMAIN ready' \subseteq (DOMAIN ready) \cup {t}
    PROVE  /\ OwnWork(w) /\ batch'[w] = {}
           /\ orphaned' = IF step[w] = "commit" THEN orphaned \cup batch[w] ELSE orphaned
<1>1. Types /\ TypeOK /\ AtWork(w)
  BY DEF WorkInv, Types
<1>2. /\ step \in [Worker -> Steps] /\ seen \in [Worker -> Inputs] /\ NoInputs \in Inputs
      /\ task \in [Worker -> Task] /\ NoTask \in Task
      /\ batch \in [Worker -> SUBSET Feedback] /\ orphaned \subseteq applied
  BY <1>1, SomeInputs DEF Types, TypeOK
<1>3. /\ step' = [step EXCEPT ![w] = "idle"] /\ batch' = [batch EXCEPT ![w] = {}]
      /\ task' = [task EXCEPT ![w] = NoTask] /\ seen' = [seen EXCEPT ![w] = NoInputs]
      /\ orphaned' = IF step[w] = "commit" THEN orphaned \cup batch[w] ELSE orphaned
  BY DEF RollBack, Rest, Goto
<1>4. step'[w] = "idle" /\ batch'[w] = {}
  BY <1>2, <1>3
<1>5. orphaned' \subseteq applied
  BY <1>1, <1>2, <1>3 DEF AtWork
<1>6. Types'
  <2>1. /\ step' \in [Worker -> Steps] /\ seen' \in [Worker -> Inputs]
        /\ task' \in [Worker -> Task] /\ batch' \in [Worker -> SUBSET Feedback]
    BY <1>2, <1>3 DEF Steps
  <2>2. BagToSet(ready') \subseteq Task
    BY <1>1 DEF TypeOK, BagToSet
  <2>3. QED
    BY <1>1, <1>5, <2>1, <2>2 DEF Types, TypeOK
<1>7. Lasting /\ \A a \in Agent : Succeeded(a)' => Succeeded(a)
  BY DEF Lasting, Succeeded
<1>8. Sound(t)'
  <2>1. Sound(task[w])
    BY <1>1 DEF AtWork
  <2>2. Sound(t)
    BY <2>1 DEF Sound, Me
  <2>3. QED
    BY <1>7, <2>2, SoundStays
<1>9. AtWork(w)'
  BY <1>4 DEF AtWork
<1>10. QED
  BY <1>3, <1>4, <1>6, <1>7, <1>8, <1>9 DEF OwnWork, Holding


\* A worker whose task has failed, or that dies.
LEMMA FailedWork ==
    ASSUME WorkInv, NEW w \in Worker, Raise(w) \/ Reject(w) \/ Die(w)
    PROVE  /\ OwnWork(w) /\ UNCHANGED run /\ UNCHANGED <<applied, times, calibrated>>
           /\ batch'[w] = {}
           /\ orphaned' = IF step[w] = "commit" THEN orphaned \cup batch[w] ELSE orphaned
<1>1. Types /\ TypeOK /\ task[w] \in Task /\ task[w].job \in Job /\ MaxRetries \in Nat /\ MaxSlips \in Nat
  BY SomeInputs DEF WorkInv, Types, TypeOK, Task
<1>2. /\ RollBack(w) /\ step[w] # "idle"
      /\ UNCHANGED <<submitted, enqueued, applied, times, calibrated>> /\ UNCHANGED <<run, joined>>
  <2>1. CASE Raise(w)
    BY <2>1 DEF Raise, feedbackVars, learnt
  <2>2. CASE Reject(w)
    BY <2>2 DEF Reject, feedbackVars, learnt
  <2>3. CASE Die(w)
    BY <2>3 DEF Die, feedbackVars, learnt
  <2>4. QED
    BY <2>1, <2>2, <2>3
<1>3. stopped' = stopped \/ stopped' = stopped \cup {task[w].job}
  BY DEF Raise, Reject, Die
<1>4. slips' \in 0..MaxSlips
  <2>1. slips \in 0..MaxSlips
    BY <1>1 DEF TypeOK
  <2>2. slips' = slips \/ (slips < MaxSlips /\ slips' = slips + 1)
    BY DEF Raise, Reject, Die
  <2>3. QED
    BY <1>1, <2>1, <2>2
<1>5. stopped' \subseteq Job
  BY <1>1, <1>3 DEF TypeOK
<1>6. PICK t \in Task : t.job = task[w].job /\ t.agent = Me(w)
                        /\ ready' \in {ready, ready (+) SetToBag({t})}
  <2>1. CASE Raise(w) /\ task[w].retries < MaxRetries
    <3> DEFINE t == [task[w] EXCEPT !.retries = @ + 1]
    <3>1. t \in Task /\ t.job = task[w].job /\ t.agent = task[w].agent
      <4>1. task[w].retries \in 0..MaxRetries /\ task[w].retries + 1 \in 0..MaxRetries
        BY <1>1, <2>1 DEF Task
      <4>2. QED
        BY <1>1, <4>1 DEF Task
    <3>2. ready' = ready (+) SetToBag({t})
      BY <2>1 DEF Raise
    <3> HIDE DEF t
    <3>3. QED
      BY <3>1, <3>2 DEF Me
  <2>2. CASE ~(Raise(w) /\ task[w].retries < MaxRetries)
    <3>1. ready' \in {ready, ready (+) SetToBag({task[w]})}
      BY <2>2 DEF Raise, Reject, Die
    <3>2. QED
      BY <1>1, <3>1 DEF Me
  <2>3. QED
    BY <2>1, <2>2
<1>7. DOMAIN ready' \subseteq (DOMAIN ready) \cup {t}
  <2>1. DOMAIN (ready (+) SetToBag({t})) = (DOMAIN ready) \cup {t}
    BY Messages
  <2>2. QED
    BY <1>6, <2>1
<1>8. /\ OwnWork(w) /\ batch'[w] = {}
      /\ orphaned' = IF step[w] = "commit" THEN orphaned \cup batch[w] ELSE orphaned
  BY <1>2, <1>4, <1>5, <1>6, <1>7, RollBackWork
<1>9. QED
  BY <1>2, <1>8

\* A message that comes back while its task is at work.
LEMMA RedeliverWork ==
    ASSUME WorkInv, NEW w \in Worker, Redeliver(w)
    PROVE  /\ OwnWork(w) /\ UNCHANGED run
           /\ UNCHANGED <<applied, times, calibrated, orphaned>> /\ batch' = batch
<1>1. Types /\ TypeOK /\ AtWork(w) /\ task[w] \in Task /\ MaxSlips \in Nat
  BY SomeInputs DEF WorkInv, Types, TypeOK
<1>2. /\ step[w] # "idle" /\ slips < MaxSlips /\ slips' = slips + 1
      /\ ready' = ready (+) SetToBag({task[w]})
      /\ UNCHANGED <<submitted, enqueued, applied, times, calibrated>>
      /\ UNCHANGED <<run, joined, stopped, orphaned>> /\ UNCHANGED <<step, task, seen, batch>>
  BY DEF Redeliver, feedbackVars, learnt
<1>3. slips' \in 0..MaxSlips
  <2>1. slips \in 0..MaxSlips
    BY <1>1 DEF TypeOK
  <2>2. QED
    BY <1>1, <1>2, <2>1
<1>4. DOMAIN ready' = (DOMAIN ready) \cup {task[w]}
  BY <1>2, Messages
<1>5. BagToSet(ready') \subseteq Task
  BY <1>1, <1>4 DEF TypeOK, BagToSet
<1>6. Types'
  BY <1>1, <1>2, <1>3, <1>5 DEF Types, TypeOK
<1>7. Lasting /\ \A a \in Agent : Succeeded(a)' <=> Succeeded(a)
  BY <1>2 DEF Lasting, Succeeded
<1>8. \A t : Sound(t)' <=> Sound(t)
  BY <1>2 DEF Sound, PriorEnrichment, Before
<1>9. Sound(task[w])
  BY <1>1, <1>2 DEF AtWork
<1>10. AtWork(w)' <=> AtWork(w)
  BY <1>2, <1>8 DEF AtWork, Me, Succeeded, Before
<1>11. QED
  BY <1>1, <1>2, <1>4, <1>6, <1>7, <1>8, <1>9, <1>10 DEF OwnWork, Holding, Me


-----------------------------------------------------------------------------
(* What every step of a worker does, to the invariant.                     *)

\* Stored outputs stay, and a new result is fed.
OutputsKept ==
    /\ \A a \in Agent : Succeeded(a) => run'[a].out = run[a].out
    /\ \A a \in Agent \ {Learner} :
          Succeeded(a)' /\ ~Succeeded(a) => Before(StageOf(a)) \subseteq run'[a].out.prior

\* Feedback that is applied is in the batch, the calibration or lost with a run
\* that is rolled back.
FeedbackKept(w) ==
    /\ calibrated \subseteq calibrated' /\ orphaned \subseteq orphaned'
    /\ applied' \subseteq applied \cup batch'[w]
    /\ batch[w] \cap applied \subseteq batch'[w] \cup calibrated' \cup orphaned'

\* All this holds of every step of a worker.
LEMMA EachStep ==
    ASSUME WorkInv, NEW w \in Worker, WorkerStep(w)
    PROVE  OwnWork(w) /\ OutputsKept /\ FeedbackKept(w)
<1>1. Types /\ TypeOK /\ AtWork(w) /\ batch \in [Worker -> SUBSET Feedback]
  BY DEF WorkInv, Types, TypeOK
<1>2. UNCHANGED run => OutputsKept
  BY DEF OutputsKept, Succeeded
<1>3. batch' = batch /\ UNCHANGED <<applied, calibrated, orphaned>> => FeedbackKept(w)
  BY DEF FeedbackKept
<1>4. CASE Receive(w)
  <2>1. PICK t \in DOMAIN ready : LoadInputs(w, t)
    BY <1>4 DEF Receive
  <2>2. OwnWork(w) /\ UNCHANGED run /\ batch' = batch /\ UNCHANGED <<applied, calibrated, orphaned>>
    BY <2>1, LoadWork
  <2>3. QED
    BY <1>2, <1>3, <2>2
<1>5. CASE SelectRow(w) \/ InsertRow(w) \/ Restamp(w) \/ RunAgent(w) \/ ApplyFeedback(w)
  <2>1. OwnWork(w) /\ UNCHANGED run /\ UNCHANGED <<calibrated, orphaned>>
    BY <1>5, InsideWork
  <2>2. applied' \subseteq applied \cup batch'[w] /\ batch[w] \cap applied \subseteq batch'[w]
    <3>1. CASE RunAgent(w)
      <4>1. batch[w] = {} /\ UNCHANGED applied
        BY <1>1, <3>1 DEF RunAgent, AtWork, learnt
      <4>2. QED
        BY <4>1
    <3>2. CASE ApplyFeedback(w)
      BY <3>2 DEF ApplyFeedback
    <3>3. CASE SelectRow(w) \/ InsertRow(w) \/ Restamp(w)
      BY <3>3 DEF SelectRow, InsertRow, Restamp, learnt
    <3>4. QED
      BY <1>5, <3>1, <3>2, <3>3
  <2>3. FeedbackKept(w)
    BY <2>1, <2>2 DEF FeedbackKept
  <2>4. QED
    BY <1>2, <2>1, <2>3
<1>6. CASE Commit(w)
  <2>1. OwnWork(w) /\ FeedbackKept(w)
    BY <1>6, CommitWork DEF FeedbackKept
  <2>2. OutputsKept
    <3>1. Me(w) \in Agent /\ \A a \in Agent \ {Me(w)} : run'[a] = run[a]
      BY <1>1, <1>6, CommitWork DEF TypeOK, Me, Task
    <3>2. \A a \in Agent : Succeeded(a) => run'[a].out = run[a].out
      BY <1>6, <3>1, CommitWork
    <3>3. ASSUME NEW a \in Agent \ {Learner}, Succeeded(a)', ~Succeeded(a)
          PROVE  Before(StageOf(a)) \subseteq run'[a].out.prior
      <4>1. a = Me(w)
        BY <3>1, <3>3 DEF Succeeded
      <4>2. QED
        BY <1>6, <3>3, <4>1, CommitWork
    <3>4. QED
      BY <3>2, <3>3 DEF OutputsKept
  <2>3. QED
    BY <2>1, <2>2
<1>7. CASE Ack(w)
  BY <1>2, <1>3, <1>7, AckWork
<1>8. CASE Raise(w) \/ Reject(w) \/ Die(w)
  <2>1. /\ OwnWork(w) /\ UNCHANGED run /\ UNCHANGED <<applied, times, calibrated>>
        /\ batch'[w] = {}
        /\ orphaned' = IF step[w] = "commit" THEN orphaned \cup batch[w] ELSE orphaned
    BY <1>8, FailedWork
  <2>2. step[w] # "commit" => batch[w] \cap applied = {}
    BY <1>1 DEF AtWork
  <2>3. FeedbackKept(w)
    BY <2>1, <2>2 DEF FeedbackKept
  <2>4. QED
    BY <1>2, <2>1, <2>3
<1>9. CASE Redeliver(w)
  BY <1>2, <1>3, <1>9, RedeliverWork
<1>10. QED
  BY <1>4, <1>5, <1>6, <1>7, <1>8, <1>9 DEF WorkerStep, Continue, Collide

\* The other workers' work stands.
LEMMA WorkStays ==
    ASSUME WorkInv, NEW w \in Worker, OwnWork(w), Apart(w)
    PROVE  WorkInv'
<1>1. Types' /\ AtWork(w)' /\ AtWork(w) /\ Lasting /\ OneHolder
  BY DEF OwnWork, WorkInv
<1>2. ASSUME NEW v \in Worker \ {w} PROVE AtWork(v)'
  <2>1. /\ step'[v] = step[v] /\ task'[v] = task[v] /\ seen'[v] = seen[v] /\ batch'[v] = batch[v]
        /\ AtWork(v) /\ Me(v)' = Me(v) /\ Me(v) \in Agent
    BY DEF Apart, WorkInv, Me, Types, TypeOK, Task
  <2>2. Sound(task[v]) => Sound(task[v])'
    <3>1. PICK t : t = task[v]
      OBVIOUS
    <3>2. Sound(t) => Sound(t)'
      BY <1>1, SoundStays
    <3>3. Sound(t)' => Sound(task[v])'
      BY <2>1, <3>1 DEF Sound, Before
    <3>4. QED
      BY <3>1, <3>2, <3>3
  <2>3. step[v] \in Holding /\ step[w] \in Holding => Me(v) # Me(w)
    BY <1>1 DEF OneHolder
  <2>4. Succeeded(Me(v)) => Succeeded(Me(v))'
    BY <1>1, <2>1 DEF Lasting
  <2>5. step[v] \in Holding => (Succeeded(Me(v))' => Succeeded(Me(v)))
    BY <2>1, <2>3 DEF OwnWork
  <2>6. step[v] = "apply" => applied' = applied
    BY <1>1, <2>1, <2>3 DEF OwnWork, AtWork, Holding
  <2>7. applied \subseteq applied' /\ submitted' = submitted
    BY DEF OwnWork
  <2>8. step[v] \in {"run", "apply", "commit"} => ~Succeeded(Me(v))'
    BY <2>1, <2>5 DEF AtWork, Holding
  <2>9. step[v] \in {"restamp", "return", "ack"} => Succeeded(Me(v))'
    BY <2>1, <2>4 DEF AtWork
  <2>10. (step[v] # "idle" => Sound(task[v])')
    BY <2>1, <2>2 DEF AtWork
  <2>11. /\ step[v] \notin {"idle", "ack"} /\ task[v].job = Pipeline =>
               Before(StageOf(Me(v))) \subseteq seen[v].prior
         /\ step[v] \notin {"apply", "commit"} => batch[v] = {}
         /\ batch[v] # {} => Me(v) = Learner
         /\ step[v] = "apply" => Me(v) = Learner /\ batch[v] \cap applied' = {}
         /\ step[v] = "commit" => batch[v] \subseteq applied'
         /\ batch[v] \subseteq submitted'
    BY <2>1, <2>6, <2>7 DEF AtWork
  <2>12. QED
    BY <2>1, <2>8, <2>9, <2>10, <2>11 DEF AtWork, Succeeded, Before, Me, Sound, PriorEnrichment
<1>3. OneHolder'
  <2>1. ASSUME NEW v \in Worker \ {w} PROVE ~(step'[v] \in Holding /\ step'[w] \in Holding /\ Me(v)' = Me(w)')
    <3> SUFFICES ASSUME step'[v] \in Holding, step'[w] \in Holding, Me(v)' = Me(w)' PROVE FALSE
      OBVIOUS
    <3>1. step[v] \in Holding /\ Me(v) = Me(w)
      BY DEF Apart, OwnWork, Me
    <3>2. LockedByOther(w, Me(w))
      BY <3>1 DEF LockedByOther
    <3>3. QED
      BY <1>1, <3>1, <3>2 DEF OwnWork, OneHolder
  <2>2. ASSUME NEW u \in Worker, NEW v \in Worker,
               step'[u] \in Holding, step'[v] \in Holding, Me(u)' = Me(v)', u # v
        PROVE  FALSE
    <3>1. u # w /\ v # w
      BY <2>1, <2>2
    <3>2. step[u] \in Holding /\ step[v] \in Holding /\ Me(u) = Me(v)
      BY <2>2, <3>1 DEF Apart, Me
    <3>3. QED
      BY <1>1, <2>2, <3>2 DEF OneHolder
  <2>3. QED
    BY <2>2 DEF OneHolder, Holding
<1>4. QueueInv'
  <2>1. ASSUME NEW t \in DOMAIN ready' PROVE Sound(t)'
    <3>1. t \in DOMAIN ready \/ Sound(t)'
      BY DEF OwnWork
    <3>2. t \in DOMAIN ready => Sound(t)
      BY DEF WorkInv, QueueInv
    <3>3. QED
      BY <1>1, <3>1, <3>2, SoundStays
  <2>2. QED
    BY <2>1 DEF QueueInv
<1>5. QED
  BY <1>1, <1>2, <1>3, <1>4 DEF WorkInv


-----------------------------------------------------------------------------
(* The other steps.                                                        *)

\* Steps that change no run keep what is known of the workers.
LEMMA WorkersRest ==
    ASSUME WorkInv, Types', UNCHANGED <<run, step, task, seen, batch, applied>>,
           submitted \subseteq submitted',
           \A t \in DOMAIN ready' : t \in DOMAIN ready \/ Sound(t)
    PROVE  WorkInv'
<1>1. \A t : Sound(t)' <=> Sound(t)
  BY DEF Sound, PriorEnrichment, Before
<1>2. ASSUME NEW w \in Worker PROVE AtWork(w)'
  <2>1. AtWork(w)
    BY DEF WorkInv
  <2>2. QED
    BY <2>1 DEF AtWork, Me, Succeeded, Sound, PriorEnrichment, Before
<1>3. OneHolder'
  BY DEF WorkInv, OneHolder, Holding, Me
<1>4. QueueInv'
  BY <1>1 DEF WorkInv, QueueInv
<1>5. QED
  BY <1>2, <1>3, <1>4 DEF WorkInv

\* Users add feedback and the learner's tasks.
LEMMA UserWork ==
    ASSUME WorkInv, NEW f \in Feedback, SubmitFeedback(f) \/ EnqueueLearning(f)
    PROVE  WorkInv' /\ UNCHANGED <<run, applied, times, calibrated, orphaned, batch>>
<1>1. Types /\ TypeOK /\ Learner \in Agent /\ f \in Job /\ f # Pipeline /\ MaxRetries \in Nat
  BY SomeInputs DEF WorkInv, Types
<1>2. /\ UNCHANGED <<applied, times, calibrated>> /\ UNCHANGED <<run, joined, stopped, slips>>
      /\ UNCHANGED <<step, task, seen, batch, orphaned>>
  BY DEF SubmitFeedback, EnqueueLearning, learnt, broker
<1> DEFINE t == [job |-> f, agent |-> Learner, retries |-> 0]
<1>3. t \in Task /\ Sound(t)
  <2>1. 0 \in 0..MaxRetries
    BY <1>1
  <2>2. QED
    BY <1>1, <2>1 DEF Task, Sound
<1>4. /\ enqueued' \subseteq submitted' /\ submitted' \subseteq Feedback /\ submitted \subseteq submitted'
      /\ ready' \in {ready, ready (+) SetToBag({t})}
  BY <1>1 DEF SubmitFeedback, EnqueueLearning, TypeOK, broker
<1> HIDE DEF t
<1>5. DOMAIN ready' \subseteq (DOMAIN ready) \cup {t}
  <2>1. DOMAIN (ready (+) SetToBag({t})) = (DOMAIN ready) \cup {t}
    BY Messages
  <2>2. QED
    BY <1>4, <2>1
<1>6. BagToSet(ready') \subseteq Task
  BY <1>1, <1>3, <1>5 DEF TypeOK, BagToSet
<1>7. Types'
  BY <1>1, <1>2, <1>4, <1>6 DEF Types, TypeOK
<1>8. \A n \in DOMAIN ready' : n \in DOMAIN ready \/ Sound(n)
  BY <1>3, <1>5
<1>9. QED
  BY <1>2, <1>4, <1>7, <1>8, WorkersRest

\* The chain starts with a stage that no enriching agent is before.
LEMMA StartWork == Init => WorkInv
<1> SUFFICES ASSUME Init PROVE WorkInv
  OBVIOUS
<1>1. 1 \in 1..Len(Stages)
  BY RunsAssumption
<1>2. BagToSet(ready) = First(1, Pipeline)
  BY Messages DEF Init, BagToSet
<1>3. \A t \in First(1, Pipeline) : t \in Task /\ t.job = Pipeline /\ t.agent \in Stages[1]
  BY <1>1, FirstTasks, SomeInputs
<1>4. Before(1) = {}
  <2>1. \A e \in Enriching : StageOf(e) \in 1..Len(Stages) /\ Len(Stages) \in Nat
    BY StagesAreDisjoint
  <2>2. QED
    BY <2>1 DEF Before
<1>5. \A a \in Stages[1] : StageOf(a) = 1
  BY <1>1, StagesAreDisjoint
<1>6. QueueInv
  BY <1>2, <1>3, <1>4, <1>5 DEF QueueInv, Sound, BagToSet
<1>7. /\ step = [w \in Worker |-> "idle"] /\ task = [w \in Worker |-> NoTask]
      /\ seen = [w \in Worker |-> NoInputs] /\ batch = [w \in Worker |-> {}]
      /\ run = [a \in Agent |-> NoRow] /\ times = [f \in Feedback |-> 0]
      /\ submitted = {} /\ enqueued = {} /\ applied = {} /\ calibrated = {}
      /\ joined = {} /\ stopped = {} /\ slips = 0 /\ orphaned = {}
  BY DEF Init
<1>8. Types
  <2>1. step \in [Worker -> Steps] /\ task \in [Worker -> Task] /\ seen \in [Worker -> Inputs]
        /\ batch \in [Worker -> SUBSET Feedback] /\ run \in [Agent -> Rows]
        /\ times \in [Feedback -> Nat] /\ slips \in 0..MaxSlips
    BY <1>7, SomeInputs DEF Steps
  <2>2. BagToSet(ready) \subseteq Task
    BY <1>2, <1>3
  <2>3. \A a \in Agent : run[a] = NoRow
    BY <1>7
  <2>4. QED
    BY <1>7, <2>1, <2>2, <2>3 DEF Types, TypeOK
<1>9. ASSUME NEW w \in Worker PROVE AtWork(w)
  <2>1. step[w] = "idle" /\ batch[w] = {}
    BY <1>7
  <2>2. QED
    BY <2>1 DEF AtWork
<1>10. OneHolder
  BY <1>7 DEF OneHolder, Holding
<1>11. QED
  BY <1>6, <1>8, <1>9, <1>10 DEF WorkInv

-----------------------------------------------------------------------------
(* The results.                                                            *)

\* A worker keeps the feedback accounted.
LEMMA FeedbackStays ==
    ASSUME Inv, NEW w \in Worker, WorkerStep(w), Apart(w)
    PROVE  AppliedOnce' /\ NotLost'
<1>1. /\ WorkInv /\ AppliedOnce /\ NotLost /\ AtWork(w) /\ Types
      /\ applied \subseteq submitted /\ submitted \subseteq Feedback
  BY DEF Inv, WorkInv, Types, TypeOK
<1>2. FeedbackKept(w)
  BY <1>1, EachStep
<1>3. AppliedOnce'
  <2>1. CASE ApplyFeedback(w)
    <3>1. /\ step[w] = "apply" /\ applied' = applied \cup batch[w]
          /\ times' = [f \in Feedback |-> IF f \in batch[w] THEN times[f] + 1 ELSE times[f]]
      BY <2>1 DEF ApplyFeedback
    <3>2. batch[w] \cap applied = {}
      BY <1>1, <3>1 DEF AtWork
    <3>3. ASSUME NEW f \in Feedback PROVE times'[f] = IF f \in applied' THEN 1 ELSE 0
      <4>1. times[f] = IF f \in applied THEN 1 ELSE 0
        BY <1>1 DEF AppliedOnce
      <4>2. QED
        BY <3>1, <3>2, <4>1
    <3>4. QED
      BY <3>3 DEF AppliedOnce
  <2>2. CASE ~ApplyFeedback(w)
    <3>1. UNCHANGED <<applied, times>>
      BY <2>2 DEF WorkerStep, Receive, LoadInputs, Continue, SelectRow, InsertRow, Collide, Restamp,
                  RunAgent, Commit, Ack, Raise, Reject, Die, Redeliver, learnt
    <3>2. QED
      BY <1>1, <3>1 DEF AppliedOnce
  <2>3. QED
    BY <2>1, <2>2
<1>4. ASSUME NEW f \in applied'
      PROVE  f \in calibrated' \cup orphaned' \/ \E v \in Worker : f \in batch'[v]
  <2>1. CASE f \notin applied
    BY <1>2, <2>1 DEF FeedbackKept
  <2>2. CASE f \in calibrated \cup orphaned
    BY <1>2, <2>2 DEF FeedbackKept
  <2>3. ASSUME NEW v \in Worker, f \in batch[v], f \in applied
        PROVE  f \in calibrated' \cup orphaned' \/ \E u \in Worker : f \in batch'[u]
    <3>1. CASE v = w
      BY <1>2, <2>3, <3>1 DEF FeedbackKept
    <3>2. CASE v # w
      BY <2>3, <3>2 DEF Apart
    <3>3. QED
      BY <3>1, <3>2
  <2>4. QED
    BY <1>1, <2>1, <2>2, <2>3 DEF NotLost
<1>5. QED
  BY <1>3, <1>4 DEF NotLost

\* Outputs are fed, and stay.
LEMMA FedStays ==
    ASSUME Fed, OutputsKept
    PROVE  Fed'
<1>1. ASSUME NEW a \in Agent \ {Learner}, Succeeded(a)'
      PROVE  Before(StageOf(a)) \subseteq run'[a].out.prior
  <2>1. CASE Succeeded(a)
    <3>1. run'[a].out = run[a].out
      BY <2>1 DEF OutputsKept
    <3>2. QED
      BY <2>1, <3>1 DEF Fed
  <2>2. CASE ~Succeeded(a)
    BY <1>1, <2>2 DEF OutputsKept
  <2>3. QED
    BY <2>1, <2>2
<1>2. QED
  BY <1>1 DEF Fed, Before

\* Every step keeps the invariant, and the outputs that are stored.
LEMMA Invariance == Inv /\ [Next]_vars => Inv' /\ OutputsKept
<1> SUFFICES ASSUME Inv, [Next]_vars PROVE Inv' /\ OutputsKept
  OBVIOUS
<1>1. WorkInv /\ Fed /\ AppliedOnce /\ NotLost /\ Types
  BY DEF Inv, WorkInv
<1>2. ASSUME NEW w \in Worker, WorkerStep(w) PROVE Inv' /\ OutputsKept
  <2>1. Apart(w)
    BY <1>1, <1>2, StepsApart
  <2>2. OwnWork(w) /\ OutputsKept
    BY <1>1, <1>2, EachStep
  <2>3. WorkInv' /\ Fed'
    BY <1>1, <2>1, <2>2, WorkStays, FedStays
  <2>4. AppliedOnce' /\ NotLost'
    BY <1>2, <2>1, FeedbackStays
  <2>5. QED
    BY <2>2, <2>3, <2>4 DEF Inv
<1>3. ASSUME WorkInv', UNCHANGED <<run, applied, times, calibrated, orphaned, batch>>
      PROVE  Inv' /\ OutputsKept
  <2>1. OutputsKept
    BY <1>3 DEF OutputsKept, Succeeded
  <2>2. AppliedOnce'
    BY <1>1, <1>3 DEF AppliedOnce
  <2>3. NotLost'
    BY <1>1, <1>3 DEF NotLost
  <2>4. Fed'
    BY <1>1, <2>1, FedStays
  <2>5. QED
    BY <1>3, <2>1, <2>2, <2>3, <2>4 DEF Inv
<1>4. ASSUME NEW f \in Feedback, SubmitFeedback(f) \/ EnqueueLearning(f) PROVE Inv' /\ OutputsKept
  BY <1>1, <1>3, <1>4, UserWork
<1>5. ASSUME UNCHANGED vars PROVE Inv' /\ OutputsKept
  <2>1. /\ UNCHANGED <<submitted, enqueued, applied, times, calibrated>>
        /\ UNCHANGED <<run, ready, joined, stopped, slips>>
        /\ UNCHANGED <<step, task, seen, batch, orphaned>>
    BY <1>5 DEF vars, feedbackVars, learnt, broker
  <2>2. Types'
    BY <1>1, <2>1 DEF Types, TypeOK
  <2>3. WorkInv'
    BY <1>1, <2>1, <2>2, WorkersRest
  <2>4. QED
    BY <1>3, <2>1, <2>3
<1>6. QED
  BY <1>2, <1>4, <1>5 DEF Next, WorkerStep

\* It holds in the beginning.
LEMMA Start == Init => Inv
<1> SUFFICES ASSUME Init PROVE Inv
  OBVIOUS
<1>1. WorkInv
  BY StartWork
<1>2. /\ run = [a \in Agent |-> NoRow] /\ times = [f \in Feedback |-> 0] /\ applied = {}
  BY DEF Init
<1>3. \A a \in Agent : ~Succeeded(a)
  BY <1>2, SomeInputs DEF Succeeded
<1>4. QED
  BY <1>1, <1>2, <1>3 DEF Inv, Fed, AppliedOnce, NotLost

-----------------------------------------------------------------------------

\* Every agent of the chain that has succeeded has computed its outputs from
\* those of the enriching agents of all stages before it: for chains of any
\* length and groups, any numbers of workers and feedback, retries, deaths and
\* second deliveries (memory_pipeline.py, agent_runner.py).
THEOREM ResultsAreFed == Spec => []ResultsInv
<1>1. Inv => ResultsInv
  <2> SUFFICES ASSUME Inv PROVE ResultsInv
    OBVIOUS
  <2>1. TypeOK /\ Fed
    BY DEF Inv, WorkInv, Types
  <2>2. ASSUME NEW k \in 1..Len(Stages), NEW a \in Stages[k] \ {Learner}, run[a].status = "success"
        PROVE  Enriching \cap UNION {Stages[i] : i \in 1..(k - 1)} \subseteq run[a].out.prior
    <3>1. a \in Agent \ {Learner} /\ StageOf(a) = k
      BY StagesAreDisjoint
    <3>2. Before(k) \subseteq run[a].out.prior
      BY <2>1, <2>2, <3>1 DEF Fed, Succeeded
    <3>3. QED
      BY <3>2, BeforeIs
  <2>3. QED
    BY <2>1, <2>2 DEF ResultsInv, FedByEarlierStages
<1>2. QED
  BY <1>1, Start, Invariance, PTL DEF Spec

\* No feedback is applied twice by however many learners at once, and what is
\* applied is calibrated unless its run is open or was rolled back
\* (feedback_learning_agent.py, memory_feedback_service.py).
THEOREM FeedbackIsAccounted == Spec => []FeedbackAccounted
<1>1. Inv => FeedbackAccounted
  BY DEF Inv, AppliedOnce, NotLost, FeedbackAccounted
<1>2. QED
  BY <1>1, Start, Invariance, PTL DEF Spec

\* The outputs that an agent has stored for a memory are never replaced
\* (agent_runner.py: a stamped row that has succeeded is returned as it is).
THEOREM OutputsStayStored == Spec => OutputsStay
<1>1. Inv /\ [Next]_vars => [\A a \in Agent : run[a].status = "success" => run'[a].out = run[a].out]_vars
  BY Invariance DEF OutputsKept, Succeeded
<1>2. QED
  BY <1>1, Start, Invariance, PTL DEF Spec, OutputsStay

-----------------------------------------------------------------------------
(* The circuit breaker.  Its properties speak of what was recorded, its    *)
(* code of counters, so the inductive invariant says that the counters     *)
(* tell the truth where the code relies on them: failure_count always,     *)
(* success_count in HALF_OPEN, and total_calls up to the successes that    *)
(* are counted twice.                                                      *)

CountersTell ==
    /\ failure_count = row
    /\ state = "half_open" => success_count = streak
    /\ total_calls <= total_failures + 2 * good

BreakerInv == BreakerTypeOK /\ CountersTell /\ ConsecutiveFailuresOpen

\* The breaker starts CLOSED with nothing recorded.
LEMMA InitBreakerInv == BreakerInit => BreakerInv
<1> SUFFICES ASSUME BreakerInit PROVE BreakerInv
    OBVIOUS
<1>1. BreakerTypeOK
    BY DEF BreakerInit, BreakerTypeOK, States
<1>2. CountersTell
    BY DEF BreakerInit, CountersTell
<1>3. ConsecutiveFailuresOpen
    BY BreakerAssumption DEF BreakerInit, ConsecutiveFailuresOpen
<1> QED
    BY <1>1, <1>2, <1>3 DEF BreakerInv

\* Every step keeps the types.
LEMMA NextBreakerTypeOK == BreakerTypeOK /\ [BreakerNext]_breakerVars => BreakerTypeOK'
<1> SUFFICES ASSUME BreakerTypeOK, [BreakerNext]_breakerVars PROVE BreakerTypeOK'
    OBVIOUS
<1> USE DEF BreakerTypeOK, States, counters, historyVars
<1>1. ASSUME NEW c \in Calls, Begin(c) PROVE BreakerTypeOK'
    BY <1>1 DEF Begin, Admit
<1>2. ASSUME NEW c \in Calls, Probe(c) PROVE BreakerTypeOK'
    BY <1>2 DEF Probe, Admit
<1>3. ASSUME NEW c \in Calls, Succeed(c) PROVE BreakerTypeOK'
    BY <1>3 DEF Succeed
<1>4. ASSUME NEW c \in Calls, Fail(c) PROVE BreakerTypeOK'
    <2>1. AfterFailure \in States
        BY DEF AfterFailure
    <2>2. pc' \in [Calls -> {"idle", "awaiting"}]
        BY <1>4 DEF Fail
    <2>3. failure_count' \in Nat /\ total_calls' \in Nat /\ total_failures' \in Nat /\ row' \in Nat
        BY <1>4 DEF Fail
    <2>4. rested' \in BOOLEAN /\ state' \in States
        BY <1>4, <2>1 DEF Fail
    <2>5. /\ success_count' \in Nat /\ streak' \in Nat /\ good' \in Nat
        BY <1>4 DEF Fail
    <2> QED
        BY <2>2, <2>3, <2>4, <2>5
<1>5. ASSUME NEW c \in Calls, Cancel(c) PROVE BreakerTypeOK'
    BY <1>5 DEF Cancel
<1>6. CASE Elapse
    BY <1>6 DEF Elapse
<1>7. CASE Reset
    BY <1>7 DEF Reset
<1>8. CASE UNCHANGED breakerVars
    BY <1>8 DEF breakerVars
<1> QED
    BY <1>1, <1>2, <1>3, <1>4, <1>5, <1>6, <1>7, <1>8 DEF BreakerNext

\* Every step keeps the counters true to the history, and a CLOSED breaker below
\* its threshold: a failure recorded in CLOSED that reaches it opens the breaker,
\* and the breaker is closed again only by a success or a reset.
LEMMA NextBreakerInv == BreakerInv /\ [BreakerNext]_breakerVars => BreakerInv'
<1> SUFFICES ASSUME BreakerInv, [BreakerNext]_breakerVars PROVE BreakerInv'
    OBVIOUS
<1>t. BreakerTypeOK /\ BreakerTypeOK'
    BY NextBreakerTypeOK DEF BreakerInv
<1> USE <1>t, BreakerAssumption
    DEF BreakerInv, CountersTell, ConsecutiveFailuresOpen, counters, historyVars
<1>1. ASSUME NEW c \in Calls, Begin(c) PROVE BreakerInv'
    BY <1>1 DEF Begin
<1>2. ASSUME NEW c \in Calls, Probe(c) PROVE BreakerInv'
    BY <1>2 DEF Probe
<1>3. ASSUME NEW c \in Calls, Succeed(c) PROVE BreakerInv'
    BY <1>3 DEF Succeed, BreakerTypeOK
<1>4. ASSUME NEW c \in Calls, Fail(c) PROVE BreakerInv'
    <2>1. CountersTell'
        BY <1>4 DEF Fail, AfterFailure, BreakerTypeOK, States
    <2>2. ConsecutiveFailuresOpen'
        <3> SUFFICES ASSUME state' = "closed" PROVE failure_count + 1 < FailureThreshold
            BY <1>4 DEF Fail
        <3>1. ~TooMany
            BY <1>4 DEF Fail, AfterFailure, BreakerTypeOK, States
        <3> QED
            BY <3>1 DEF TooMany, BreakerTypeOK
    <2> QED
        BY <2>1, <2>2
<1>5. ASSUME NEW c \in Calls, Cancel(c) PROVE BreakerInv'
    BY <1>5 DEF Cancel
<1>6. CASE Elapse
    BY <1>6 DEF Elapse
<1>7. CASE Reset
    BY <1>7 DEF Reset
<1>8. CASE UNCHANGED breakerVars
    BY <1>8 DEF breakerVars
<1> QED
    BY <1>1, <1>2, <1>3, <1>4, <1>5, <1>6, <1>7, <1>8 DEF BreakerNext

\* The invariant holds throughout.
LEMMA BreakerInvariant == BreakerSpec => []BreakerInv
BY InitBreakerInv, NextBreakerInv, PTL DEF BreakerSpec

\* The breaker's variables keep their types.
THEOREM BreakerTypeCorrect == BreakerSpec => []BreakerTypeOK
<1>1. BreakerInv => BreakerTypeOK
    BY DEF BreakerInv
<1> QED
    BY BreakerInvariant, <1>1, PTL

\* As many consecutive failures as the threshold always open the breaker,
\* whatever calls they come from and however they overlap.
THEOREM FailuresOpenIt == BreakerSpec => []ConsecutiveFailuresOpen
<1>1. BreakerInv => ConsecutiveFailuresOpen
    BY DEF BreakerInv
<1> QED
    BY BreakerInvariant, <1>1, PTL

\* The breaker closes only after success_threshold successes in a row, all
\* recorded since it last became HALF_OPEN, or by a reset.
THEOREM SuccessesCloseIt == BreakerSpec => ClosesOnSuccesses
<1> DEFINE Close == state = "half_open" /\ state' = "closed" /\ good' # 0
                        => streak' >= SuccessThreshold
<1>1. ASSUME BreakerInv, BreakerNext PROVE Close
    <2> SUFFICES ASSUME state = "half_open", state' = "closed", good' # 0
                 PROVE streak' >= SuccessThreshold
        OBVIOUS
    <2> USE DEF counters, historyVars
    <2>1. ASSUME NEW c \in Calls, Succeed(c) PROVE streak' >= SuccessThreshold
        BY <1>1, <2>1 DEF Succeed, BreakerInv, CountersTell, BreakerTypeOK
    <2>2. ASSUME NEW c \in Calls, Begin(c) \/ Probe(c) \/ Cancel(c) PROVE FALSE
        BY <2>2 DEF Begin, Probe, Cancel
    <2>3. ASSUME NEW c \in Calls, Fail(c) PROVE FALSE
        BY <2>3 DEF Fail, AfterFailure
    <2>4. CASE Elapse
        BY <2>4 DEF Elapse
    <2>5. CASE Reset
        BY <2>5 DEF Reset
    <2> QED
        BY <1>1, <2>1, <2>2, <2>3, <2>4, <2>5 DEF BreakerNext
<1>2. BreakerInv /\ [BreakerNext]_breakerVars => [Close]_breakerVars
    BY <1>1
<1> QED
    BY BreakerInvariant, <1>2, PTL DEF BreakerSpec, ClosesOnSuccesses

\* Multiplication by a natural number is monotonic.
LEMMA TimesMonotonic ==
  ASSUME NEW k \in Nat, NEW a \in Nat, NEW b \in Nat, a <= b
  PROVE  k * a <= k * b
<1>1. PICK d \in Nat : b = a + d
    <2>1. b - a \in Nat /\ b = a + (b - a)
        OBVIOUS
    <2> QED
        BY <2>1
<1>2. k * b = k * a + k * d /\ k * d \in Nat /\ k * a \in Nat
    BY <1>1
<1> QED
    BY <1>2

\* Counting every success twice, a failure that reaches the error rate opens
\* the breaker.
THEOREM ErrorRateOpensIt == BreakerSpec => ErrorRateOpens
<1> DEFINE Below == total_failures' * RateDen < RateNum * (total_failures' + 2 * good')
           Rate == state = "closed" /\ total_failures' > total_failures /\ state' = "closed"
                      => Below
<1>1. ASSUME BreakerInv, BreakerNext PROVE Rate
    <2> SUFFICES ASSUME state = "closed", total_failures' > total_failures, state' = "closed"
                 PROVE Below
        OBVIOUS
    <2>t. BreakerTypeOK /\ total_calls <= total_failures + 2 * good
        BY <1>1 DEF BreakerInv, CountersTell
    <2>1. ASSUME NEW c \in Calls, Fail(c) PROVE Below
        <3>1. ~RateReached
            BY <2>1 DEF Fail, AfterFailure
        <3>2. total_failures' = total_failures + 1 /\ good' = good
            BY <2>1 DEF Fail
        <3> DEFINE all == total_failures + 1 + 2 * good
        <3>3. total_calls + 1 \in Nat /\ all \in Nat /\ total_calls + 1 <= all
            BY <2>t DEF BreakerTypeOK
        <3>4. RateNum * (total_calls + 1) <= RateNum * all
            BY <3>3, TimesMonotonic, BreakerAssumption
        <3>5. (total_failures + 1) * RateDen < RateNum * (total_calls + 1)
            BY <3>1, <2>t, BreakerAssumption DEF RateReached, BreakerTypeOK
        <3>6. (total_failures + 1) * RateDen < RateNum * all
            BY <3>4, <3>5, <3>3, <2>t, BreakerAssumption DEF BreakerTypeOK
        <3> QED
            BY <3>2, <3>6
    <2>2. ASSUME NEW c \in Calls, Begin(c) \/ Probe(c) \/ Succeed(c) \/ Cancel(c) PROVE FALSE
        BY <2>2, <2>t DEF Begin, Probe, Succeed, Cancel, counters, BreakerTypeOK
    <2>3. CASE Elapse
        BY <2>3, <2>t DEF Elapse, counters, BreakerTypeOK
    <2>4. CASE Reset
        BY <2>4, <2>t DEF Reset, BreakerTypeOK
    <2> QED
        BY <1>1, <2>1, <2>2, <2>3, <2>4 DEF BreakerNext
<1>2. BreakerInv /\ [BreakerNext]_breakerVars => [Rate]_breakerVars
    BY <1>1
<1> QED
    BY BreakerInvariant, <1>2, PTL DEF BreakerSpec, ErrorRateOpens

=============================================================================
