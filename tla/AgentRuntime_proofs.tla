------------------------ MODULE AgentRuntime_proofs -------------------------
(***************************************************************************)
(* Proofs about the runtime of the agents and its two parts, for every     *)
(* number of processes, tenants, dequeuers, sessions and runs.             *)
(*                                                                         *)
(* 1. AgentScheduler.  RowInv is inductive for what concerns single rows,  *)
(*    and CapOvershootBounded on top of it: a dequeuer that counted and    *)
(*    has not committed is charged in advance for the process it may       *)
(*    start, which makes the bound on the running processes inductive.     *)
(* 2. CognitiveLoop implements SessionVerdict.  The heart of it is the key *)
(*    of a session's first iteration.  Whoever writes iterations holds it, *)
(*    so there is one writer at a time; and once it is committed, so is    *)
(*    everything up to a deciding iteration, so that whoever comes later   *)
(*    replays to the same verdict and never inserts.                       *)
(* 3. The runtime's steps are steps of its parts, and the invariant of the *)
(*    whole counts: the tasks of a process that are owed, queued or taken, *)
(*    the ends of a running process that have been lost, and the processes *)
(*    that lie, each of which is charged to a late exception.              *)
(***************************************************************************)
EXTENDS AgentRuntime, FiniteSetTheorems, TLAPS

-----------------------------------------------------------------------------
(* AgentScheduler: rows and their locks.                                   *)

RowInv == SchedTypeOK /\ ExclusivePick /\ PickIsFresh /\ StartsBounded

-----------------------------------------------------------------------------
(* The columns and the dequeuers keep their types.                         *)

\* The values the scheduler gives to a dequeuer's local state are of its type.
LEMMA DequeuerStates ==
    /\ NoOrg \in Orgs
    /\ NoPriority \in Priorities
    /\ Idle \in DequeuerState
    /\ \A o \in Orgs : Counted(o) \in DequeuerState
    /\ \A o \in Orgs, p \in Procs :
          attempts[p] \in Nat => Picked(o, p) \in DequeuerState
<1>1. NoOrg \in Orgs /\ NoPriority \in Priorities
  BY SchedulerAssumption DEF NoOrg, NoPriority
<1>2. 0 \in 0..NumProcs /\ 0 \in Nat /\ Procs \subseteq 0..NumProcs
  BY SchedulerAssumption DEF Procs
<1>. QED
  BY <1>1, <1>2 DEF Idle, Counted, Picked, DequeuerState, DequeuePhases

\* A dequeuer that has picked names a process.
LEMMA HeldProcess ==
  ASSUME SchedTypeOK, NEW w \in Dequeuers, dq[w].phase = "picked"
  PROVE  dq[w].proc \in Procs /\ dq[w].seen \in Nat /\ dq[w].org \in Orgs
<1>1. dq[w] \in DequeuerState /\ dq[w].proc # 0
  BY DEF SchedTypeOK
<1>2. dq[w].proc \in 0..NumProcs /\ dq[w].seen \in Nat /\ dq[w].org \in Orgs
  BY <1>1 DEF DequeuerState
<1>. QED
  BY <1>1, <1>2, SchedulerAssumption DEF Procs

\* Every initial state of the scheduler is well typed.
LEMMA InitTypeOK == SchedInit => SchedTypeOK
<1> SUFFICES ASSUME SchedInit PROVE SchedTypeOK
  OBVIOUS
<1>1. \A w \in Dequeuers : dq[w] = Idle
  BY DEF SchedInit
<1>2. \A w \in Dequeuers : dq[w].phase # "picked"
  BY <1>1 DEF Idle
<1>3. \A p \in Procs : status[p] = "none" /\ starts[p] = 0
  BY DEF SchedInit
<1>. QED
  BY <1>2, <1>3, SchedulerAssumption, DequeuerStates
     DEF SchedInit, SchedTypeOK, ProcStatus

\* Every operation of the scheduler keeps the types.
LEMMA NextTypeOK == SchedTypeOK /\ PickIsFresh /\ [SchedNext]_schedVars => SchedTypeOK'
<1> SUFFICES ASSUME SchedTypeOK, PickIsFresh, [SchedNext]_schedVars
             PROVE  SchedTypeOK'
  OBVIOUS
<1> USE SchedulerAssumption, DequeuerStates
<1>1. ASSUME NEW o \in Orgs, NEW r \in Priorities, Enqueue(o, r)
      PROVE  SchedTypeOK'
  BY <1>1 DEF Enqueue, SchedTypeOK, Procs, ProcStatus
<1>2. ASSUME NEW w \in Dequeuers, NEW o \in Orgs, CountRunning(w, o)
      PROVE  SchedTypeOK'
  <2>1. dq' \in [Dequeuers -> DequeuerState]
    BY <1>2 DEF CountRunning, SchedTypeOK
  <2>2. \A v \in Dequeuers : dq'[v].phase = "picked" => dq'[v].proc # 0
    BY <1>2 DEF CountRunning, SchedTypeOK, Counted
  <2>. QED
    BY <1>2, <2>1, <2>2 DEF CountRunning, rowVars, SchedTypeOK
<1>3. ASSUME NEW w \in Dequeuers, Pick(w)
      PROVE  SchedTypeOK'
  <2>1. CASE dq' = [dq EXCEPT ![w] = Idle]
    <3>1. dq' \in [Dequeuers -> DequeuerState]
      BY <2>1 DEF SchedTypeOK
    <3>2. \A v \in Dequeuers : dq'[v].phase = "picked" => dq'[v].proc # 0
      BY <2>1 DEF SchedTypeOK, Idle
    <3>. QED
      BY <1>3, <3>1, <3>2 DEF Pick, rowVars, SchedTypeOK
  <2>2. ASSUME NEW p \in Runnable(dq[w].org),
               dq' = [dq EXCEPT ![w] = Picked(dq[w].org, p)]
        PROVE  SchedTypeOK'
    <3>1. p \in Procs /\ p # 0 /\ dq[w].org \in Orgs
      <4>1. dq[w] \in DequeuerState
        BY DEF SchedTypeOK
      <4>. QED
        BY <4>1 DEF Runnable, Procs, DequeuerState
    <3>2. Picked(dq[w].org, p) \in DequeuerState
      BY <3>1 DEF SchedTypeOK
    <3>3. dq' \in [Dequeuers -> DequeuerState]
      BY <2>2, <3>2 DEF SchedTypeOK
    <3>4. \A v \in Dequeuers : dq'[v].phase = "picked" => dq'[v].proc # 0
      BY <2>2, <3>1 DEF SchedTypeOK, Picked
    <3>. QED
      BY <1>3, <3>3, <3>4 DEF Pick, rowVars, SchedTypeOK
  <2>. QED
    BY <1>3, <2>1, <2>2 DEF Pick
<1>4. ASSUME NEW w \in Dequeuers, CommitDequeue(w)
      PROVE  SchedTypeOK'
  <2>1. dq[w].proc \in Procs /\ dq[w].seen \in Nat
    BY <1>4, HeldProcess DEF CommitDequeue
  <2>3. dq[w].proc <= created
    BY <1>4, <2>1 DEF PickIsFresh, Holds, CommitDequeue
  <2>2. \A v \in Dequeuers : dq'[v].phase = "picked" => dq'[v].proc # 0
    BY <1>4 DEF CommitDequeue, SchedTypeOK, Idle
  <2>. QED
    <3>1. \A p \in Procs : p > created => p # dq[w].proc
      BY <2>1, <2>3 DEF Procs, SchedTypeOK
    <3>. QED
      BY <1>4, <2>1, <2>2, <3>1 DEF CommitDequeue, SchedTypeOK, ProcStatus
<1>5. ASSUME NEW w \in Dequeuers, AbortDequeue(w)
      PROVE  SchedTypeOK'
  <2>1. \A v \in Dequeuers : dq'[v].phase = "picked" => dq'[v].proc # 0
    BY <1>5 DEF AbortDequeue, SchedTypeOK, Idle
  <2>. QED
    BY <1>5, <2>1 DEF AbortDequeue, rowVars, SchedTypeOK
<1>6. ASSUME NEW p \in Procs, NEW st \in TerminalStatus, MarkTerminal(p, st)
      PROVE  SchedTypeOK'
  <2>1. \A q \in Procs : q > created => q # p
    BY <1>6 DEF MarkTerminal, Procs, SchedTypeOK
  <2>. QED
    BY <1>6, <2>1 DEF MarkTerminal, TerminalStatus, SchedTypeOK, ProcStatus
<1>7. ASSUME NEW p \in Procs, ResetToQueue(p)
      PROVE  SchedTypeOK'
  <2>1. \A q \in Procs : q > created => q # p
    BY <1>7 DEF ResetToQueue, Procs, SchedTypeOK
  <2>. QED
    BY <1>7, <2>1 DEF ResetToQueue, SchedTypeOK, ProcStatus
<1>8. CASE UNCHANGED schedVars
  BY <1>8 DEF schedVars, SchedTypeOK
<1>. QED
  BY <1>1, <1>2, <1>3, <1>4, <1>5, <1>6, <1>7, <1>8 DEF SchedNext, DequeueStep

-----------------------------------------------------------------------------
(* Single rows: exclusive, fresh picks, and starts that are never lost.    *)

\* No row is held at the start, and every counter is zero.
LEMMA InitRowInv == SchedInit => RowInv
<1> SUFFICES ASSUME SchedInit PROVE RowInv
  OBVIOUS
<1>1. \A w \in Dequeuers : \A p \in Procs : ~Holds(w, p)
  BY DEF SchedInit, Idle, Holds
<1>2. StartsBounded
  BY SchedulerAssumption DEF SchedInit, StartsBounded
<1>. QED
  BY <1>1, <1>2, InitTypeOK DEF RowInv, ExclusivePick, PickIsFresh

\* What keeps the row invariant when the dequeuers hold no new row: the rows
\* still held are held by the same dequeuer, and their columns have not moved.
LEMMA NoNewPick ==
  ASSUME RowInv, SchedTypeOK',
         \A w \in Dequeuers : \A p \in Procs :
            Holds(w, p)' => /\ Holds(w, p)
                            /\ dq'[w] = dq[w]
                            /\ p <= created'
                            /\ status'[p] = status[p]
                            /\ org'[p] = org[p]
                            /\ attempts'[p] = attempts[p]
  PROVE  ExclusivePick' /\ PickIsFresh'
<1>1. ExclusivePick'
  BY DEF RowInv, ExclusivePick
<1>2. PickIsFresh'
  BY DEF RowInv, PickIsFresh
<1>. QED
  BY <1>1, <1>2

\* Every operation keeps the row invariant.
LEMMA NextRowInv == RowInv /\ [SchedNext]_schedVars => RowInv'
<1> SUFFICES ASSUME RowInv, [SchedNext]_schedVars
             PROVE  RowInv'
  OBVIOUS
<1>0. SchedTypeOK /\ SchedTypeOK'
  BY NextTypeOK DEF RowInv
<1>10. \A w \in Dequeuers : \A p \in Procs : Holds(w, p) => p <= created
  BY DEF RowInv, PickIsFresh
<1> USE SchedulerAssumption
<1>1. ASSUME NEW o \in Orgs, NEW r \in Priorities, Enqueue(o, r)
      PROVE  RowInv'
  <2>1. created + 1 \in Procs /\ created \in Nat /\ created' = created + 1
    BY <1>0, <1>1 DEF Enqueue, SchedTypeOK, Procs
  <2>2. \A w \in Dequeuers : \A p \in Procs :
           Holds(w, p) => p # created + 1 /\ p <= created'
    BY <1>10, <2>1 DEF Procs
  <2>3. \A p \in Procs : p # created + 1 =>
           /\ status'[p] = status[p] /\ org'[p] = org[p]
           /\ attempts'[p] = attempts[p]
    BY <1>0, <1>1 DEF Enqueue, SchedTypeOK
  <2>4. dq' = dq
    BY <1>1 DEF Enqueue
  <2>5. ExclusivePick' /\ PickIsFresh'
    BY <1>0, <2>2, <2>3, <2>4, NoNewPick DEF Holds
  <2>6. starts[created + 1] = 0
    BY <1>0, <2>1 DEF SchedTypeOK
  <2>7. StartsBounded'
    BY <1>0, <1>1, <2>1, <2>6 DEF Enqueue, RowInv, StartsBounded, SchedTypeOK
  <2>. QED
    BY <1>0, <2>5, <2>7 DEF RowInv
<1>2. ASSUME NEW w \in Dequeuers, NEW o \in Orgs, CountRunning(w, o)
      PROVE  RowInv'
  <2>1. ExclusivePick' /\ PickIsFresh'
    BY <1>0, <1>2, <1>10, NoNewPick DEF CountRunning, rowVars, Holds, Counted, SchedTypeOK
  <2>. QED
    BY <1>0, <1>2, <2>1 DEF CountRunning, rowVars, RowInv, StartsBounded
<1>3. ASSUME NEW w \in Dequeuers, Pick(w)
      PROVE  RowInv'
  <2>1. StartsBounded'
    BY <1>3 DEF Pick, rowVars, RowInv, StartsBounded
  <2>2. CASE dq' = [dq EXCEPT ![w] = Idle]
    <3>1. ExclusivePick' /\ PickIsFresh'
      BY <1>0, <1>3, <1>10, <2>2, NoNewPick DEF Pick, rowVars, Holds, Idle, SchedTypeOK
    <3>. QED
      BY <1>0, <2>1, <3>1 DEF RowInv
  <2>3. ASSUME NEW p \in Runnable(dq[w].org),
               dq' = [dq EXCEPT ![w] = Picked(dq[w].org, p)]
        PROVE  RowInv'
    <3>1. /\ p \in Procs /\ org[p] = dq[w].org /\ status[p] = "queued"
          /\ attempts[p] < MaxAttempts
          /\ \A v \in Dequeuers : ~Holds(v, p)
      BY DEF Runnable, Locked
    <3>2. p <= created
      BY <1>0, <3>1 DEF SchedTypeOK, Procs
    <3>3. /\ dq'[w] = Picked(dq[w].org, p)
          /\ \A v \in Dequeuers : v # w => dq'[v] = dq[v]
      BY <1>0, <2>3 DEF SchedTypeOK
    <3>4. \A q \in Procs : Holds(w, q)' <=> q = p
      BY <3>3 DEF Holds, Picked
    <3>5. \A v \in Dequeuers : \A q \in Procs :
             v # w => (Holds(v, q)' <=> Holds(v, q))
      BY <3>3 DEF Holds
    <3>6. ExclusivePick'
      BY <3>1, <3>4, <3>5 DEF RowInv, ExclusivePick
    <3>7. /\ dq'[w].org = dq[w].org /\ dq'[w].seen = attempts[p]
      BY <3>3 DEF Picked
    <3>8. PickIsFresh'
      BY <1>3, <3>1, <3>2, <3>3, <3>4, <3>5, <3>7
         DEF Pick, rowVars, RowInv, PickIsFresh
    <3>. QED
      BY <1>0, <2>1, <3>6, <3>8 DEF RowInv
  <2>. QED
    BY <1>3, <2>2, <2>3 DEF Pick
<1>4. ASSUME NEW w \in Dequeuers, CommitDequeue(w)
      PROVE  RowInv'
  <2> DEFINE p == dq[w].proc
  <2>1. p \in Procs /\ Holds(w, p)
    BY <1>0, <1>4, HeldProcess DEF CommitDequeue, Holds
  <2>2. attempts[p] = dq[w].seen /\ dq[w].seen < MaxAttempts /\ dq[w].seen \in Nat
    BY <1>0, <1>4, <2>1, HeldProcess DEF RowInv, PickIsFresh, CommitDequeue
  <2>3. \A v \in Dequeuers : \A q \in Procs :
           Holds(v, q)' => Holds(v, q) /\ v # w /\ dq'[v] = dq[v]
    BY <1>0, <1>4 DEF CommitDequeue, Holds, Idle, SchedTypeOK
  <2>4. \A v \in Dequeuers : \A q \in Procs : Holds(v, q)' => q # p
    BY <2>1, <2>3 DEF RowInv, ExclusivePick
  <2>5. \A q \in Procs : q # p => /\ status'[q] = status[q]
                                  /\ attempts'[q] = attempts[q]
                                  /\ starts'[q] = starts[q]
    BY <1>0, <1>4 DEF CommitDequeue, SchedTypeOK
  <2>6. created' = created /\ org' = org
    BY <1>4 DEF CommitDequeue
  <2>7. ExclusivePick' /\ PickIsFresh'
    BY <1>0, <1>10, <2>3, <2>4, <2>5, <2>6, NoNewPick
  <2>8. attempts'[p] = dq[w].seen + 1 /\ starts'[p] = starts[p] + 1
    BY <1>0, <1>4, <2>1 DEF CommitDequeue, SchedTypeOK
  <2>9. StartsBounded'
    BY <2>1, <2>2, <2>5, <2>8 DEF RowInv, StartsBounded
  <2>. QED
    BY <1>0, <2>7, <2>9 DEF RowInv
<1>5. ASSUME NEW w \in Dequeuers, AbortDequeue(w)
      PROVE  RowInv'
  <2>1. ExclusivePick' /\ PickIsFresh'
    BY <1>0, <1>5, <1>10, NoNewPick DEF AbortDequeue, rowVars, Holds, Idle, SchedTypeOK
  <2>. QED
    BY <1>0, <1>5, <2>1 DEF AbortDequeue, rowVars, RowInv, StartsBounded
<1>6. ASSUME NEW p \in Procs, NEW st \in TerminalStatus, MarkTerminal(p, st)
      PROVE  RowInv'
  <2>1. \A w \in Dequeuers : \A q \in Procs : Holds(w, q) => status'[q] = status[q]
    BY <1>0, <1>6 DEF MarkTerminal, Locked, SchedTypeOK
  <2>2. ExclusivePick' /\ PickIsFresh'
    BY <1>0, <1>6, <1>10, <2>1, NoNewPick DEF MarkTerminal, Holds
  <2>. QED
    BY <1>0, <1>6, <2>2 DEF MarkTerminal, RowInv, StartsBounded
<1>7. ASSUME NEW p \in Procs, ResetToQueue(p)
      PROVE  RowInv'
  <2>1. \A w \in Dequeuers : \A q \in Procs : Holds(w, q) => status'[q] = status[q]
    BY <1>0, <1>7 DEF ResetToQueue, Locked, SchedTypeOK
  <2>2. ExclusivePick' /\ PickIsFresh'
    BY <1>0, <1>7, <1>10, <2>1, NoNewPick DEF ResetToQueue, Holds
  <2>. QED
    BY <1>0, <1>7, <2>2 DEF ResetToQueue, RowInv, StartsBounded
<1>8. CASE UNCHANGED schedVars
  BY <1>0, <1>8 DEF schedVars, RowInv, ExclusivePick, PickIsFresh, StartsBounded, Holds
<1>. QED
  BY <1>1, <1>2, <1>3, <1>4, <1>5, <1>6, <1>7, <1>8 DEF SchedNext, DequeueStep

\* The row invariant holds in every reachable state.
LEMMA RowInvariant == SchedSpec => []RowInv
  BY InitRowInv, NextRowInv, PTL DEF SchedSpec

\* The columns and the dequeuers' local state always have their types.
THEOREM TypeCorrect == SchedSpec => []SchedTypeOK
<1>1. RowInv => SchedTypeOK
  BY DEF RowInv
<1>. QED
  BY <1>1, RowInvariant, PTL

\* dequeue_next never hands one process to two callers at the same time.
THEOREM PicksAreExclusive == SchedSpec => []ExclusivePick
<1>1. RowInv => ExclusivePick
  BY DEF RowInv
<1>. QED
  BY <1>1, RowInvariant, PTL

\* Between the SELECT of a dequeue and its commit the row it returned stays
\* queued, unexhausted, of the same tenant, and its attempts as they were read.
THEOREM PicksAreFresh == SchedSpec => []PickIsFresh
<1>1. RowInv => PickIsFresh
  BY DEF RowInv
<1>. QED
  BY <1>1, RowInvariant, PTL

\* The attempts column counts every start and never exceeds max_attempts.
THEOREM StartsAreBounded == SchedSpec => []StartsBounded
<1>1. RowInv => StartsBounded
  BY DEF RowInv
<1>. QED
  BY <1>1, RowInvariant, PTL

-----------------------------------------------------------------------------
(* How far the running cap can be overshot.                                *)

RunningCount(o) == Cardinality(Running(o))
InFlightCount(o) == Cardinality(InFlight(o))

\* The sets counted by the bound are finite, and no more than all dequeuers
\* are in flight.
LEMMA CountsAreNat ==
  ASSUME NEW o
  PROVE  /\ IsFiniteSet(Running(o)) /\ RunningCount(o) \in Nat
         /\ IsFiniteSet(InFlight(o)) /\ InFlightCount(o) \in Nat
         /\ Cardinality(Dequeuers) \in Nat
         /\ InFlightCount(o) <= Cardinality(Dequeuers)
<1>1. IsFiniteSet(Procs)
  BY SchedulerAssumption, FS_Interval DEF Procs
<1>2. Running(o) \subseteq Procs /\ InFlight(o) \subseteq Dequeuers
  BY DEF Running, InFlight
<1>3. IsFiniteSet(Running(o))
  BY <1>1, <1>2, FS_Subset
<1>4. IsFiniteSet(InFlight(o)) /\ InFlightCount(o) <= Cardinality(Dequeuers)
  BY <1>2, SchedulerAssumption, FS_Subset DEF InFlightCount
<1>5. Cardinality(Dequeuers) \in Nat
  BY SchedulerAssumption, FS_CardinalityType
<1>. QED
  BY <1>3, <1>4, <1>5, FS_CardinalityType DEF RunningCount, InFlightCount

\* At the start nothing runs and nothing is in flight.
LEMMA InitCapOvershoot == SchedInit => CapOvershootBounded
<1> SUFFICES ASSUME SchedInit, NEW o \in Orgs
             PROVE  RunningCount(o) + InFlightCount(o)
                       <= MaxRunning + Cardinality(Dequeuers) - 1
  BY DEF CapOvershootBounded, RunningCount, InFlightCount
<1>1. Running(o) = {} /\ InFlight(o) = {}
  BY DEF SchedInit, Running, InFlight, Idle
<1>2. RunningCount(o) = 0 /\ InFlightCount(o) = 0
  BY <1>1, FS_EmptySet DEF RunningCount, InFlightCount
<1>3. Cardinality(Dequeuers) \in Nat /\ Cardinality(Dequeuers) # 0
  BY SchedulerAssumption, FS_CardinalityType, FS_EmptySet
<1>. QED
  BY <1>2, <1>3, SchedulerAssumption

\* A step that adds no running process and no dequeuer in flight keeps the
\* bound.
LEMMA NothingAdded ==
  ASSUME CapOvershootBounded, NEW o \in Orgs,
         Running(o)' \subseteq Running(o), InFlight(o)' \subseteq InFlight(o)
  PROVE  RunningCount(o)' + InFlightCount(o)'
            <= MaxRunning + Cardinality(Dequeuers) - 1
<1>1. RunningCount(o)' <= RunningCount(o) /\ RunningCount(o)' \in Nat
  BY CountsAreNat, FS_Subset, FS_CardinalityType DEF RunningCount
<1>2. InFlightCount(o)' <= InFlightCount(o) /\ InFlightCount(o)' \in Nat
  BY CountsAreNat, FS_Subset, FS_CardinalityType DEF InFlightCount
<1>3. RunningCount(o) + InFlightCount(o)
         <= MaxRunning + Cardinality(Dequeuers) - 1
  BY DEF CapOvershootBounded, RunningCount, InFlightCount
<1>. QED
  BY <1>1, <1>2, <1>3, CountsAreNat, SchedulerAssumption

\* Every operation keeps the bound.
LEMMA NextCapOvershoot ==
  RowInv /\ CapOvershootBounded /\ [SchedNext]_schedVars => CapOvershootBounded'
<1> SUFFICES ASSUME RowInv, CapOvershootBounded, [SchedNext]_schedVars, NEW o \in Orgs
             PROVE  RunningCount(o)' + InFlightCount(o)'
                       <= MaxRunning + Cardinality(Dequeuers) - 1
  BY DEF CapOvershootBounded, RunningCount, InFlightCount
<1> DEFINE Bounded == RunningCount(o)' + InFlightCount(o)'
                         <= MaxRunning + Cardinality(Dequeuers) - 1
<1>0. SchedTypeOK
  BY DEF RowInv
<1>1. ASSUME NEW c \in Orgs, NEW r \in Priorities, Enqueue(c, r)
      PROVE  Bounded
  <2>1. created + 1 \in Procs
    BY <1>0, <1>1, SchedulerAssumption DEF Enqueue, SchedTypeOK, Procs
  <2>2. Running(o)' \subseteq Running(o)
    BY <1>0, <1>1, <2>1 DEF Enqueue, Running, SchedTypeOK
  <2>3. InFlight(o)' \subseteq InFlight(o)
    BY <1>1 DEF Enqueue, InFlight
  <2>. QED
    BY <2>2, <2>3, NothingAdded
<1>2. ASSUME NEW w \in Dequeuers, NEW c \in Orgs, CountRunning(w, c)
      PROVE  Bounded
  <2>1. Running(o)' = Running(o)
    BY <1>2 DEF CountRunning, rowVars, Running
  <2>2. CASE c = o
    <3>1. RunningCount(o)' < MaxRunning
      BY <1>2, <2>1, <2>2 DEF CountRunning, RunningCount
    <3>2. InFlight(o)' \subseteq Dequeuers
      BY DEF InFlight
    <3>3. InFlightCount(o)' <= Cardinality(Dequeuers) /\ InFlightCount(o)' \in Nat
      BY <3>2, SchedulerAssumption, FS_Subset, FS_CardinalityType DEF InFlightCount
    <3>4. RunningCount(o)' \in Nat
      BY <2>1, CountsAreNat DEF RunningCount
    <3>5. Cardinality(Dequeuers) \in Nat
      BY CountsAreNat
    <3>. QED
      BY <3>1, <3>3, <3>4, <3>5, SchedulerAssumption
  <2>3. CASE c # o
    <3>1. InFlight(o)' \subseteq InFlight(o)
      BY <1>0, <1>2, <2>3 DEF CountRunning, InFlight, Counted, SchedTypeOK
    <3>. QED
      BY <2>1, <3>1, NothingAdded
  <2>. QED
    BY <2>2, <2>3
<1>3. ASSUME NEW w \in Dequeuers, Pick(w)
      PROVE  Bounded
  <2>1. Running(o)' = Running(o)
    BY <1>3 DEF Pick, rowVars, Running
  <2>2. InFlight(o)' \subseteq InFlight(o)
    <3>1. CASE dq' = [dq EXCEPT ![w] = Idle]
      BY <1>0, <3>1 DEF InFlight, Idle, SchedTypeOK
    <3>2. ASSUME NEW p, dq' = [dq EXCEPT ![w] = Picked(dq[w].org, p)]
          PROVE  InFlight(o)' \subseteq InFlight(o)
      BY <1>0, <1>3, <3>2 DEF Pick, InFlight, Picked, SchedTypeOK
    <3>. QED
      BY <1>3, <3>1, <3>2 DEF Pick
  <2>. QED
    BY <2>1, <2>2, NothingAdded
<1>4. ASSUME NEW w \in Dequeuers, CommitDequeue(w)
      PROVE  Bounded
  <2> DEFINE p == dq[w].proc
  <2>1. p \in Procs /\ org[p] = dq[w].org
    BY <1>0, <1>4, HeldProcess DEF CommitDequeue, RowInv, PickIsFresh, Holds
  <2>2. InFlight(o)' = InFlight(o) \ {w}
    BY <1>0, <1>4 DEF CommitDequeue, InFlight, Idle, SchedTypeOK
  <2>3. CASE dq[w].org # o
    <3>1. Running(o)' \subseteq Running(o)
      BY <1>0, <1>4, <2>1, <2>3 DEF CommitDequeue, Running, SchedTypeOK
    <3>. QED
      BY <2>2, <3>1, NothingAdded
  <2>4. CASE dq[w].org = o
    <3>1. Running(o)' = Running(o) \cup {p}
      BY <1>0, <1>4, <2>1, <2>4 DEF CommitDequeue, Running, SchedTypeOK
    <3>2. w \in InFlight(o)
      BY <1>4, <2>4 DEF CommitDequeue, InFlight
    <3>3. RunningCount(o)' <= RunningCount(o) + 1 /\ RunningCount(o)' \in Nat
      <4>1. IsFiniteSet(Running(o)) /\ RunningCount(o) \in Nat
        BY CountsAreNat
      <4>2. \/ Cardinality(Running(o) \cup {p}) = Cardinality(Running(o))
            \/ Cardinality(Running(o) \cup {p}) = Cardinality(Running(o)) + 1
        BY <4>1, FS_AddElement
      <4>. QED
        BY <3>1, <4>1, <4>2 DEF RunningCount
    <3>4. InFlightCount(o)' = InFlightCount(o) - 1 /\ InFlightCount(o)' \in Nat
      BY <2>2, <3>2, CountsAreNat, FS_RemoveElement, FS_CardinalityType DEF InFlightCount
    <3>5. RunningCount(o) + InFlightCount(o)
             <= MaxRunning + Cardinality(Dequeuers) - 1
      BY DEF CapOvershootBounded, RunningCount, InFlightCount
    <3>. QED
      BY <3>3, <3>4, <3>5, CountsAreNat, SchedulerAssumption
  <2>. QED
    BY <2>3, <2>4
<1>5. ASSUME NEW w \in Dequeuers, AbortDequeue(w)
      PROVE  Bounded
  <2>1. Running(o)' = Running(o)
    BY <1>5 DEF AbortDequeue, rowVars, Running
  <2>2. InFlight(o)' \subseteq InFlight(o)
    BY <1>0, <1>5 DEF AbortDequeue, InFlight, Idle, SchedTypeOK
  <2>. QED
    BY <2>1, <2>2, NothingAdded
<1>6. ASSUME NEW p \in Procs, NEW st \in TerminalStatus, MarkTerminal(p, st)
      PROVE  Bounded
  <2>1. Running(o)' \subseteq Running(o)
    BY <1>0, <1>6 DEF MarkTerminal, Running, TerminalStatus, SchedTypeOK
  <2>2. InFlight(o)' = InFlight(o)
    BY <1>6 DEF MarkTerminal, InFlight
  <2>. QED
    BY <2>1, <2>2, NothingAdded
<1>7. ASSUME NEW p \in Procs, ResetToQueue(p)
      PROVE  Bounded
  <2>1. Running(o)' \subseteq Running(o)
    BY <1>0, <1>7 DEF ResetToQueue, Running, SchedTypeOK
  <2>2. InFlight(o)' = InFlight(o)
    BY <1>7 DEF ResetToQueue, InFlight
  <2>. QED
    BY <2>1, <2>2, NothingAdded
<1>8. CASE UNCHANGED schedVars
  <2>1. Running(o)' = Running(o) /\ InFlight(o)' = InFlight(o)
    BY <1>8 DEF schedVars, Running, InFlight
  <2>. QED
    BY <2>1, NothingAdded
<1>. QED
  BY <1>1, <1>2, <1>3, <1>4, <1>5, <1>6, <1>7, <1>8 DEF SchedNext, DequeueStep

\* The running processes of a tenant and the dequeuers about to start another
\* never exceed the cap plus the number of dequeuers, less one.
THEOREM OvershootIsBounded == SchedSpec => []CapOvershootBounded
  BY RowInvariant, InitCapOvershoot, NextCapOvershoot, PTL DEF SchedSpec

\* The consequence for a reader of the docstring of dequeue_next: with a single
\* dequeuer the running cap is exact.
THEOREM OneDequeuerKeepsTheCap ==
  ASSUME Cardinality(Dequeuers) = 1
  PROVE  SchedSpec => []RunningCap
<1>1. CapOvershootBounded => RunningCap
  <2> SUFFICES ASSUME CapOvershootBounded, NEW o \in Orgs
               PROVE  RunningCount(o) <= MaxRunning
    BY DEF RunningCap, RunningCount
  <2>1. RunningCount(o) + InFlightCount(o) <= MaxRunning + 1 - 1
    BY DEF CapOvershootBounded, RunningCount, InFlightCount
  <2>. QED
    BY <2>1, CountsAreNat, SchedulerAssumption
<1>. QED
  BY <1>1, OvershootIsBounded, PTL

-----------------------------------------------------------------------------
(* CognitiveLoop: the invariant of sessions and runs.                       *)

Deciding == {"save", "report", "select", "mark", "commit"}

\* Iterations before k ask for another attempt, and from k on there are none.
Open(its, k) ==
    \A i \in Iterations : IF i < k THEN its[i] \in TryAgain ELSE its[i] = "none"

\* The k-th iteration is the last, and v is its verdict.
DecidedAt(its, v, k) ==
    /\ \A i \in Iterations : /\ i < k => its[i] \in TryAgain
                             /\ i > k => its[i] = "none"
    /\ its[k] # "none"
    /\ its[k] \in TryAgain => k = MaxIter
    /\ v = "succeeded" <=> its[k] = "pass"

Decided(its, v) == \E k \in Iterations : DecidedAt(its, v, k)

\* What is committed of a session: nothing while it is running, otherwise its
\* iterations, unless its goal is blank, and one report.
CommittedInv ==
    \A s \in Sessions :
        /\ session[s] = "running" => iters[s] = NoRows /\ \A r \in Runs : reports[s][r] = "none"
        /\ session[s] # "running" =>
              /\ IF s \in Blank THEN session[s] = "failed" /\ iters[s] = NoRows
                                ELSE Decided(iters[s], session[s])
              /\ \E r \in Runs :
                    /\ reports[s][r] = FinalDecision(session[s], iters[s])
                    /\ \A q \in Runs \ {r} : reports[s][q] = "none"

\* A run that has not begun, or has ended, has nothing open; one that has not
\* ended has reported nothing.
OutsideInv(r) ==
    /\ pc[r] \in {"idle", "ended", "dead"} =>
          rows[r] = NoRows /\ ~saved[r] /\ target[r] = 0 /\ ~marked[r]
    /\ pc[r] = "idle" => verdict[r] = "failed" /\ n[r] = 1
    /\ pc[r] \notin {"ended", "dead"} => \A s \in Sessions : reports[s][r] = "none"

\* In the loop a run has written all iterations before the current one, or
\* replayed them.
LoopInv(r) ==
    /\ pc[r] = "next" =>
          \/ Open(rows[r], n[r])
          \/ /\ rows[r] = NoRows /\ session[on[r]] # "running"
             /\ \A i \in Iterations : i < n[r] => iters[on[r]][i] \in TryAgain
    /\ pc[r] = "insert" => Open(rows[r], n[r])
    /\ pc[r] = "critique" => Open(rows[r], n[r] + 1)
    /\ pc[r] \in {"next", "insert", "critique"} => on[r] \notin Blank
    /\ rows[r] # NoRows => rows[r][1] # "none" /\ on[r] \notin Blank

\* After the loop a run has decided the session, or says what it says.
DecisionInv(r) ==
    /\ pc[r] \in Deciding =>
          \/ rows[r] # NoRows /\ Decided(rows[r], verdict[r])
          \/ rows[r] = NoRows /\ session[on[r]] # "running" /\ verdict[r] = session[on[r]]
          \/ rows[r] = NoRows /\ on[r] \in Blank /\ verdict[r] = "failed"
    /\ saved[r] => pc[r] \in Deciding \ {"save"}
    /\ pc[r] \in Deciding \ {"save"} /\ session[on[r]] = "running" => saved[r]
    /\ pc[r] \in {"select", "mark", "commit"} =>
          draft[r] = IF session[on[r]] = "running" THEN FinalDecision(verdict[r], Visible(r))
                                                   ELSE "none"
    /\ pc[r] \in {"select", "mark"} \/ target[r] # 0 \/ marked[r] =>
          verdict[r] = "succeeded" /\ on[r] \in Attached
    /\ target[r] # 0 => pc[r] \in {"mark", "commit"}
    /\ marked[r] \/ pc[r] = "mark" => target[r] # 0

RunsInv == \A r \in Runs : OutsideInv(r) /\ LoopInv(r) /\ DecisionInv(r)

\* The row of a session is updated by one transaction at a time.
OneSaver == \A q, r \in Runs : saved[q] /\ saved[r] /\ on[q] = on[r] => q = r

\* The inductive invariant.
LoopIInv ==
    /\ LoopTypeOK
    /\ CommittedInv
    /\ RunsInv
    /\ OneWriterPerSession
    /\ OneSaver
    /\ NodesDoneBySuccess


-----------------------------------------------------------------------------
(* Iterations.                                                             *)

LEMMA Numbers ==
    /\ MaxIter \in Nat /\ MaxIter >= 1
    /\ \A i \in Iterations : i \in Nat /\ 1 <= i /\ i <= MaxIter
    /\ 1 \in Iterations
BY LoopAssumption DEF Iterations

\* The last evaluation is that of the last row.
LEMMA LastOne ==
    ASSUME NEW its, NEW k \in Iterations, its[k] # "none",
           \A i \in Iterations : i > k => its[i] = "none"
    PROVE  LastEvaluation(its) = its[k]
<1> DEFINE IsLast(i) == /\ its[i] # "none"
                        /\ \A j \in Iterations : j > i => its[j] = "none"
           last == CHOOSE i \in Iterations : IsLast(i)
<1>1. last \in Iterations /\ IsLast(last)
  OBVIOUS
<1>2. last = k
  BY <1>1, Numbers
<1>3. LastEvaluation(its) = its[last]
  BY DEF LastEvaluation
<1>4. QED
  BY <1>2, <1>3

LEMMA NoRowsOpen ==
    /\ Open(NoRows, 1)
    /\ \A i \in Iterations : NoRows[i] = "none"
BY Numbers DEF Open, NoRows

\* Somebody who replays decided iterations never finds one missing before the
\* deciding one, and stops there with the same verdict.
LEMMA Replayed ==
    ASSUME NEW its, NEW v \in {"succeeded", "failed"}, Decided(its, v),
           NEW m \in Iterations, \A i \in Iterations : i < m => its[i] \in TryAgain
    PROVE  /\ its[m] # "none"
           /\ ~(its[m] \in TryAgain /\ m < MaxIter) =>
                 v = (IF its[m] = "pass" THEN "succeeded" ELSE "failed")
<1>1. PICK k \in Iterations : DecidedAt(its, v, k)
  BY DEF Decided
<1>2. m <= k
  <2>1. CASE k < m
    BY <1>1, <2>1, Numbers DEF DecidedAt
  <2>2. QED
    BY <2>1, Numbers
<1>3. CASE m < k
  BY <1>1, <1>3, Numbers DEF DecidedAt, TryAgain
<1>4. CASE m = k
  BY <1>1, <1>4 DEF DecidedAt
<1>5. QED
  BY <1>2, <1>3, <1>4, Numbers

\* The decision of a report of decided iterations is consistent with the verdict.
LEMMA DecisionConsistent ==
    ASSUME NEW v \in {"succeeded", "failed"}, NEW its
    PROVE  /\ FinalDecision(v, its) \in {"pass", "fail", "needs_evidence"}
           /\ v = "succeeded" <=> FinalDecision(v, its) = "pass"
BY DEF FinalDecision

-----------------------------------------------------------------------------
(* Types.                                                                  *)

LEMMA InitType == LoopInit => LoopTypeOK
<1> SUFFICES ASSUME LoopInit PROVE LoopTypeOK
  OBVIOUS
<1>1. NoSession \in Sessions
  BY LoopAssumption DEF NoSession
<1>2. NoRows \in [Iterations -> Evaluations \cup {"none"}]
  BY DEF NoRows
<1>3. 0 \in 0..NumNodes
  BY LoopAssumption
<1>4. QED
  BY <1>1, <1>2, <1>3, Numbers DEF LoopInit, LoopTypeOK, Phases

LEMMA DiscardType ==
    ASSUME LoopTypeOK, NEW r \in Runs, Discard(r)
    PROVE  /\ rows' \in [Runs -> [Iterations -> Evaluations \cup {"none"}]]
           /\ saved' \in [Runs -> BOOLEAN]
           /\ draft' \in [Runs -> {"none", "pass", "fail", "needs_evidence"}]
           /\ target' \in [Runs -> 0..NumNodes]
           /\ marked' \in [Runs -> BOOLEAN]
BY LoopAssumption DEF Discard, LoopTypeOK, NoRows

LEMMA FollowType ==
    ASSUME LoopTypeOK, NEW r \in Runs, NEW ev, Follow(r, ev)
    PROVE  /\ n' \in [Runs -> Iterations]
           /\ verdict' \in [Runs -> {"succeeded", "failed"}]
           /\ pc' \in [Runs -> Phases]
<1>1. CASE ev \in TryAgain /\ n[r] < MaxIter
  <2>1. n[r] + 1 \in Iterations
    BY <1>1, LoopAssumption DEF LoopTypeOK, Iterations
  <2>2. n' = [n EXCEPT ![r] = n[r] + 1] /\ verdict' = verdict /\ pc' = [pc EXCEPT ![r] = "next"]
    BY <1>1 DEF Follow, Goto
  <2>3. QED
    BY <2>1, <2>2 DEF LoopTypeOK, Phases
<1>2. CASE ~(ev \in TryAgain /\ n[r] < MaxIter)
  <2>1. n' = n /\ pc' = [pc EXCEPT ![r] = "save"]
    BY <1>2 DEF Follow, Goto
  <2>2. \E v \in {"succeeded", "failed"} : verdict' = [verdict EXCEPT ![r] = v]
    BY <1>2 DEF Follow
  <2>3. QED
    BY <2>1, <2>2 DEF LoopTypeOK, Phases
<1>3. QED
  BY <1>1, <1>2

LEMMA RollBackType ==
    ASSUME LoopTypeOK, NEW r \in Runs, RollBack(r)
    PROVE  LoopTypeOK'
<1>1. /\ verdict' \in [Runs -> {"succeeded", "failed"}]
      /\ pc' \in [Runs -> Phases]
  BY DEF RollBack, Goto, LoopTypeOK, Phases
<1>2. QED
  BY <1>1, DiscardType DEF RollBack, LoopTypeOK, committed

LEMMA VisibleType ==
    ASSUME LoopTypeOK, NEW r \in Runs
    PROVE  Visible(r) \in [Iterations -> Evaluations \cup {"none"}]
BY DEF LoopTypeOK, Visible

LEMMA CommitType ==
    ASSUME LoopTypeOK, NEW r \in Runs, Commit(r), marked[r] => target[r] # 0
    PROVE  LoopTypeOK'
<1>1. session' \in [Sessions -> {"running", "succeeded", "failed"}]
  BY DEF Commit, LoopTypeOK
<1>2. iters' \in [Sessions -> [Iterations -> Evaluations \cup {"none"}]]
  BY VisibleType DEF Commit, LoopTypeOK
<1>3. reports' \in [Sessions -> [Runs -> {"none", "pass", "fail", "needs_evidence"}]]
  BY DEF Commit, LoopTypeOK
<1>4. node' \in [Nodes -> {"todo", "in_progress", "done"}]
  BY DEF Commit, LoopTypeOK
<1>5. pc' \in [Runs -> Phases]
  BY DEF Commit, Goto, LoopTypeOK, Phases
<1>6. credit' \in [Sessions -> SUBSET Nodes]
  <2>1. marked[r] => target[r] \in Nodes
    BY LoopAssumption DEF LoopTypeOK, Nodes
  <2>2. QED
    BY <2>1 DEF Commit, LoopTypeOK
<1>7. QED
  BY <1>1, <1>2, <1>3, <1>4, <1>5, <1>6, DiscardType DEF Commit, LoopTypeOK

\* Every action keeps the types.
LEMMA WorkType ==
    ASSUME LoopTypeOK, NEW r \in Runs, Work(r), marked[r] => target[r] # 0
    PROVE  LoopTypeOK'
<1>1. CASE GetIteration(r)
  <2> DEFINE ev == iters[on[r]][n[r]]
  <2>1. CASE Follow(r, ev)
    BY <1>1, <2>1, FollowType DEF GetIteration, LoopTypeOK, committed
  <2>2. CASE Goto(r, "insert") /\ UNCHANGED <<n, verdict>>
    BY <1>1, <2>2 DEF GetIteration, Goto, LoopTypeOK, committed, Phases
  <2>3. QED
    BY <1>1, <2>1, <2>2 DEF GetIteration
<1>2. CASE CreateIteration(r)
  <2>1. CASE RollBack(r)
    BY <2>1, RollBackType
  <2>2. CASE /\ rows' = [rows EXCEPT ![r][n[r]] = "retry"]
             /\ Goto(r, "critique")
             /\ UNCHANGED <<committed, on, n, verdict, saved, draft, target, marked>>
    BY <2>2 DEF Goto, LoopTypeOK, committed, Phases, Evaluations
  <2>3. QED
    BY <1>2, <2>1, <2>2 DEF CreateIteration
<1>3. CASE Critique(r)
  <2>1. PICK ev \in Evaluations : rows' = [rows EXCEPT ![r][n[r]] = ev] /\ Follow(r, ev)
    BY <1>3 DEF Critique
  <2>2. QED
    BY <1>3, <2>1, FollowType DEF Critique, LoopTypeOK, committed
<1>4. CASE SaveStatus(r)
  BY <1>4 DEF SaveStatus, Goto, LoopTypeOK, committed, Phases
<1>5. CASE GenerateReport(r)
  <2>1. FinalDecision(verdict[r], Visible(r)) \in {"pass", "fail", "needs_evidence"}
    BY DEF FinalDecision
  <2>2. QED
    BY <1>5, <2>1 DEF GenerateReport, Goto, LoopTypeOK, committed, Phases
<1>6. CASE SelectNode(r)
  <2>1. Candidates \subseteq 0..NumNodes
    BY LoopAssumption DEF Candidates, InProgress, Todo, Nodes
  <2>2. \/ target' = target
        \/ \E k \in Candidates : target' = [target EXCEPT ![r] = k]
    BY <1>6 DEF SelectNode
  <2>3. target' \in [Runs -> 0..NumNodes]
    BY <2>1, <2>2 DEF LoopTypeOK
  <2>4. \E l \in {"commit", "mark"} : pc' = [pc EXCEPT ![r] = l]
    BY <1>6 DEF SelectNode, Goto
  <2>5. QED
    BY <1>6, <2>3, <2>4 DEF SelectNode, LoopTypeOK, Phases, committed
<1>7. CASE MarkNode(r)
  BY <1>7 DEF MarkNode, Goto, LoopTypeOK, committed, Phases
<1>8. CASE Commit(r)
  BY <1>8, CommitType
<1>9. QED
  BY <1>1, <1>2, <1>3, <1>4, <1>5, <1>6, <1>7, <1>8 DEF Work

LEMMA NextType ==
    ASSUME LoopTypeOK, \A r \in Runs : marked[r] => target[r] # 0, [LoopNext]_loopVars
    PROVE  LoopTypeOK'
<1>1. ASSUME NEW r \in Runs, NEW s \in Sessions, Begin(r, s)
      PROVE  LoopTypeOK'
  <2>1. \E l \in {"report", "save", "next"} : pc' = [pc EXCEPT ![r] = l]
    BY <1>1 DEF Begin, Goto
  <2>2. \E v \in {"succeeded", "failed"} : verdict' = [verdict EXCEPT ![r] = v]
    BY <1>1 DEF Begin, LoopTypeOK
  <2>3. QED
    BY <1>1, <2>1, <2>2 DEF Begin, LoopTypeOK, committed, Phases
<1>2. ASSUME NEW r \in Runs, Raise(r)
      PROVE  LoopTypeOK'
  BY <1>2, RollBackType DEF Raise
<1>3. ASSUME NEW r \in Runs, Die(r)
      PROVE  LoopTypeOK'
  BY <1>3, DiscardType DEF Die, Goto, LoopTypeOK, committed, Phases
<1>4. CASE UNCHANGED loopVars
  BY <1>4 DEF loopVars, committed, locals, LoopTypeOK
<1>5. QED
  BY <1>1, <1>2, <1>3, <1>4, WorkType DEF LoopNext

-----------------------------------------------------------------------------
(* Steps within a transaction: nobody else sees them.                      *)

\* The variables of the other runs are left alone.
Others(r) ==
    \A q \in Runs \ {r} :
        /\ pc'[q] = pc[q] /\ on'[q] = on[q] /\ n'[q] = n[q] /\ verdict'[q] = verdict[q]
        /\ rows'[q] = rows[q] /\ saved'[q] = saved[q] /\ draft'[q] = draft[q]
        /\ target'[q] = target[q] /\ marked'[q] = marked[q]

LEMMA SameRun ==
    ASSUME NEW q \in Runs, OutsideInv(q), LoopInv(q), DecisionInv(q), UNCHANGED committed,
           pc'[q] = pc[q], on'[q] = on[q], n'[q] = n[q], verdict'[q] = verdict[q],
           rows'[q] = rows[q], saved'[q] = saved[q], draft'[q] = draft[q],
           target'[q] = target[q], marked'[q] = marked[q]
    PROVE  OutsideInv(q)' /\ LoopInv(q)' /\ DecisionInv(q)'
<1>1. OutsideInv(q)'
  BY DEF OutsideInv, committed
<1>2. LoopInv(q)'
  BY DEF LoopInv, Open, committed
<1>3. Visible(q)' = Visible(q)
  BY DEF Visible, committed
<1>4. FinalDecision(verdict[q], Visible(q))' = FinalDecision(verdict[q], Visible(q))
  BY <1>3 DEF FinalDecision, LastEvaluation
<1>5. DecisionInv(q)'
  BY <1>4 DEF DecisionInv, Decided, DecidedAt, committed
<1>6. QED
  BY <1>1, <1>2, <1>5

\* What is left to show of a step of r that publishes nothing.
LEMMA LocalStep ==
    ASSUME LoopIInv, LoopTypeOK', NEW r \in Runs, UNCHANGED committed, Others(r),
           OutsideInv(r)', LoopInv(r)', DecisionInv(r)',
           rows'[r] # NoRows => /\ session[on'[r]] = "running"
                                /\ iters[on'[r]] = NoRows
                                /\ \A q \in Runs \ {r} : on[q] = on'[r] => rows[q] = NoRows,
           saved'[r] => \A q \in Runs \ {r} : on[q] = on'[r] => ~saved[q]
    PROVE  LoopIInv'
<1>1. CommittedInv' /\ NodesDoneBySuccess'
  <2>1. \A s \in Sessions : /\ Decided(iters[s], session[s])' <=> Decided(iters[s], session[s])
                            /\ FinalDecision(session[s], iters[s])' = FinalDecision(session[s], iters[s])
    BY DEF Decided, DecidedAt, FinalDecision, LastEvaluation, committed
  <2>2. QED
    BY <2>1 DEF LoopIInv, CommittedInv, NodesDoneBySuccess, committed
<1>2. RunsInv'
  BY SameRun DEF LoopIInv, RunsInv, Others
<1>3. OneWriterPerSession'
  BY DEF LoopIInv, OneWriterPerSession, Others, committed
<1>4. OneSaver'
  BY DEF LoopIInv, OneSaver, Others
<1>5. QED
  BY <1>1, <1>2, <1>3, <1>4 DEF LoopIInv

\* A run that ends without a commit leaves nothing.
LEMMA EndStep ==
    ASSUME LoopIInv, LoopTypeOK', NEW r \in Runs, NEW l \in {"ended", "dead"}, Goto(r, l), Discard(r),
           UNCHANGED <<committed, on, n>>, \A q \in Runs \ {r} : verdict'[q] = verdict[q]
    PROVE  LoopIInv'
<1>1. /\ pc'[r] = l /\ rows'[r] = NoRows /\ saved'[r] = FALSE /\ target'[r] = 0
      /\ marked'[r] = FALSE
      /\ Others(r)
  BY DEF LoopIInv, LoopTypeOK, Goto, Discard, Others
<1>2. OutsideInv(r)' /\ LoopInv(r)' /\ DecisionInv(r)'
  BY <1>1 DEF OutsideInv, LoopInv, DecisionInv, Deciding
<1>3. QED
  BY <1>1, <1>2, LocalStep

LEMMA RollBackStep ==
    ASSUME LoopIInv, NEW r \in Runs, RollBack(r)
    PROVE  LoopIInv'
<1>1. LoopTypeOK'
  BY RollBackType DEF LoopIInv
<1>2. \A q \in Runs \ {r} : verdict'[q] = verdict[q]
  BY DEF RollBack, LoopIInv, LoopTypeOK
<1>3. QED
  BY <1>1, <1>2, EndStep DEF RollBack

LEMMA DieStep ==
    ASSUME LoopIInv, LoopTypeOK', NEW r \in Runs, Die(r)
    PROVE  LoopIInv'
<1>1. \A q \in Runs \ {r} : verdict'[q] = verdict[q]
  BY DEF Die
<1>2. QED
  BY <1>1, EndStep DEF Die

\* A run that has not begun has its initial variables.
LEMMA BeginStep ==
    ASSUME LoopIInv, LoopTypeOK', NEW r \in Runs, NEW s \in Sessions, Begin(r, s)
    PROVE  LoopIInv'
<1>1. /\ on'[r] = s /\ n'[r] = 1 /\ rows'[r] = NoRows /\ ~saved'[r] /\ target'[r] = 0
      /\ ~marked'[r]
      /\ \A t \in Sessions : reports[t][r] = "none"
      /\ Others(r) /\ UNCHANGED committed
  <2>1. OutsideInv(r) /\ pc[r] = "idle"
    BY DEF Begin, LoopIInv, RunsInv
  <2>2. on' = [on EXCEPT ![r] = s] /\ UNCHANGED <<committed, n, rows, saved, draft, target, marked>>
    BY DEF Begin
  <2>3. \A q \in Runs \ {r} : pc'[q] = pc[q] /\ verdict'[q] = verdict[q]
    BY DEF Begin, Goto, LoopIInv, LoopTypeOK
  <2>4. Others(r) /\ on'[r] = s
    BY <2>2, <2>3 DEF Others, LoopIInv, LoopTypeOK
  <2>5. QED
    BY <2>1, <2>2, <2>4 DEF OutsideInv
<1>2. CASE session[s] # "running"
  <2>1. pc'[r] = "report" /\ verdict'[r] = session[s]
    BY <1>2 DEF Begin, Goto, LoopIInv, LoopTypeOK
  <2>2. OutsideInv(r)' /\ LoopInv(r)' /\ DecisionInv(r)'
    BY <1>1, <1>2, <2>1 DEF OutsideInv, LoopInv, DecisionInv, Deciding, committed
  <2>3. QED
    BY <1>1, <2>2, LocalStep
<1>3. CASE session[s] = "running"
  <2>1. pc'[r] = (IF s \in Blank THEN "save" ELSE "next") /\ verdict'[r] = "failed"
    BY <1>3 DEF Begin, Goto, LoopIInv, LoopTypeOK, RunsInv, OutsideInv
  <2>2. Open(rows[r], n[r])'
    BY <1>1, NoRowsOpen DEF Open
  <2>3. OutsideInv(r)' /\ LoopInv(r)' /\ DecisionInv(r)'
    BY <1>1, <2>1, <2>2 DEF OutsideInv, LoopInv, DecisionInv, Deciding, committed
  <2>4. QED
    BY <1>1, <2>3, LocalStep
<1>4. QED
  BY <1>2, <1>3

LEMMA FollowEffects ==
    ASSUME LoopIInv, NEW r \in Runs, NEW ev, Follow(r, ev)
    PROVE  /\ \/ /\ ev \in TryAgain /\ n[r] < MaxIter
                 /\ n'[r] = n[r] + 1 /\ pc'[r] = "next"
              \/ /\ ~(ev \in TryAgain /\ n[r] < MaxIter)
                 /\ n'[r] = n[r] /\ pc'[r] = "save"
                 /\ verdict'[r] = (IF ev = "pass" THEN "succeeded" ELSE "failed")
           /\ \A q \in Runs \ {r} : pc'[q] = pc[q] /\ n'[q] = n[q] /\ verdict'[q] = verdict[q]
BY DEF Follow, Goto, LoopIInv, LoopTypeOK

\* A run that finds an iteration replays it; one that has to write one has
\* written all that went before.
LEMMA GetIterationStep ==
    ASSUME LoopIInv, LoopTypeOK', NEW r \in Runs, GetIteration(r)
    PROVE  LoopIInv'
<1> DEFINE s == on[r]
           ev == iters[s][n[r]]
<1>1. /\ pc[r] = "next" /\ s \in Sessions \ Blank /\ n[r] \in Iterations
      /\ OutsideInv(r) /\ LoopInv(r) /\ DecisionInv(r)
      /\ UNCHANGED <<committed, on, rows, saved, draft, target, marked>>
  BY DEF GetIteration, LoopIInv, LoopTypeOK, RunsInv, LoopInv
<1>2. ~saved[r] /\ target[r] = 0 /\ ~marked[r]
  BY <1>1 DEF DecisionInv, Deciding
<1>3. session[s] # "running" => Decided(iters[s], session[s]) /\ session[s] \in {"succeeded", "failed"}
  BY <1>1 DEF LoopIInv, LoopTypeOK, CommittedInv
<1>4. rows[r] # NoRows => session[s] = "running"
  BY DEF LoopIInv, OneWriterPerSession
<1>5. session[s] = "running" => iters[s] = NoRows
  BY <1>1 DEF LoopIInv, CommittedInv
<1>6. CASE ev = "none"
  <2>1. pc'[r] = "insert" /\ n' = n /\ verdict' = verdict /\ Others(r)
    BY <1>1, <1>6 DEF GetIteration, Goto, Others, LoopIInv, LoopTypeOK
  <2>2. Open(rows[r], n[r])
    BY <1>1, <1>3, <1>6, Replayed DEF LoopInv
  <2>3. Open(rows[r], n[r])'
    BY <1>1, <2>1, <2>2 DEF Open
  <2>4. OutsideInv(r)' /\ LoopInv(r)' /\ DecisionInv(r)'
    BY <1>1, <1>2, <2>1, <2>3 DEF OutsideInv, LoopInv, DecisionInv, Deciding, committed
  <2>5. QED
    BY <1>1, <1>2, <2>1, <2>4, LocalStep DEF LoopIInv, OneWriterPerSession
<1>7. CASE ev # "none"
  <2>1. Follow(r, ev)
    BY <1>7 DEF GetIteration
  <2>2. session[s] # "running" /\ rows[r] = NoRows
    BY <1>1, <1>4, <1>5, <1>7, NoRowsOpen
  <2>3. \A i \in Iterations : i < n[r] => iters[s][i] \in TryAgain
    <3>1. CASE Open(NoRows, n[r])
      BY <1>1, <3>1, Numbers, NoRowsOpen DEF Open, TryAgain
    <3>2. QED
      BY <1>1, <2>2, <3>1 DEF LoopInv
  <2>4. Others(r)
    BY <1>1, <2>1, FollowEffects DEF Others
  <2>5. CASE ev \in TryAgain /\ n[r] < MaxIter
    <3>1. n'[r] = n[r] + 1 /\ pc'[r] = "next"
      BY <2>1, <2>5, FollowEffects
    <3>2. \A i \in Iterations : i < n'[r] => iters[s][i] \in TryAgain
      BY <1>1, <2>3, <2>5, <3>1, Numbers
    <3>3. OutsideInv(r)' /\ LoopInv(r)' /\ DecisionInv(r)'
      BY <1>1, <1>2, <2>2, <3>1, <3>2 DEF OutsideInv, LoopInv, DecisionInv, Deciding, committed
    <3>4. QED
      BY <1>1, <1>2, <2>2, <2>4, <3>3, LocalStep
  <2>6. CASE ~(ev \in TryAgain /\ n[r] < MaxIter)
    <3>1. pc'[r] = "save" /\ verdict'[r] = (IF ev = "pass" THEN "succeeded" ELSE "failed")
      BY <2>1, <2>6, FollowEffects
    <3>2. verdict'[r] = session[s]
      BY <1>1, <1>3, <2>2, <2>3, <2>6, <3>1, Replayed
    <3>3. OutsideInv(r)' /\ LoopInv(r)' /\ DecisionInv(r)'
      BY <1>1, <1>2, <2>2, <3>1, <3>2 DEF OutsideInv, LoopInv, DecisionInv, Deciding, committed
    <3>4. QED
      BY <1>1, <1>2, <2>2, <2>4, <3>3, LocalStep
  <2>7. QED
    BY <2>5, <2>6
<1>8. QED
  BY <1>6, <1>7

\* The INSERT succeeds only for the one writer of a session without iterations:
\* whoever has written any holds the key of the first.
LEMMA CreateIterationStep ==
    ASSUME LoopIInv, LoopTypeOK', NEW r \in Runs, CreateIteration(r)
    PROVE  LoopIInv'
<1> DEFINE s == on[r]
<1>1. CASE RollBack(r)
  BY <1>1, RollBackStep
<1>2. CASE /\ iters[s][n[r]] = "none"
           /\ rows' = [rows EXCEPT ![r][n[r]] = "retry"]
           /\ Goto(r, "critique")
           /\ UNCHANGED <<committed, on, n, verdict, saved, draft, target, marked>>
  <2>1. /\ pc[r] = "insert" /\ s \in Sessions \ Blank /\ n[r] \in Iterations
        /\ OutsideInv(r) /\ LoopInv(r) /\ DecisionInv(r)
        /\ Open(rows[r], n[r])
    BY DEF CreateIteration, LoopIInv, LoopTypeOK, RunsInv, LoopInv
  <2>2. ~saved[r] /\ target[r] = 0 /\ ~marked[r]
    BY <2>1 DEF DecisionInv, Deciding
  <2>3. rows[r] = NoRows => n[r] = 1
    BY <2>1, Numbers, NoRowsOpen DEF Open, TryAgain
  <2>4. session[s] = "running" /\ iters[s] = NoRows
    <3>1. CASE rows[r] # NoRows
      BY <3>1 DEF LoopIInv, OneWriterPerSession
    <3>2. CASE rows[r] = NoRows
      <4>1. \A i \in Iterations : ~(i < n[r])
        BY <2>1, <2>3, <3>2, Numbers
      <4>2. ~(session[s] # "running")
        <5>1. session[s] # "running" => /\ Decided(iters[s], session[s])
                                        /\ session[s] \in {"succeeded", "failed"}
          BY <2>1 DEF LoopIInv, LoopTypeOK, CommittedInv
        <5>2. QED
          BY <1>2, <2>1, <4>1, <5>1, Replayed
      <4>3. QED
        BY <2>1, <4>2 DEF LoopIInv, CommittedInv
    <3>3. QED
      BY <3>1, <3>2
  <2>5. ASSUME NEW q \in Runs \ {r}, on[q] = s
        PROVE  rows[q] = NoRows
    <3>1. CASE rows[r] # NoRows
      BY <2>5, <3>1 DEF LoopIInv, OneWriterPerSession
    <3>2. CASE rows[r] = NoRows
      <4>1. ~HoldsKey(q, s, 1)
        BY <2>3, <3>2 DEF CreateIteration
      <4>2. rows[q] # NoRows => rows[q][1] # "none"
        BY DEF LoopIInv, RunsInv, LoopInv
      <4>3. QED
        BY <2>5, <4>1, <4>2 DEF HoldsKey
    <3>3. QED
      BY <3>1, <3>2
  <2>6. /\ pc'[r] = "critique" /\ n'[r] = n[r] /\ on' = on
        /\ \A i \in Iterations : rows'[r][i] = IF i = n[r] THEN "retry" ELSE rows[r][i]
        /\ Others(r)
    BY <1>2, <2>1 DEF Goto, Others, LoopIInv, LoopTypeOK
  <2>7. Open(rows'[r], n[r] + 1)
    BY <2>1, <2>6, Numbers DEF Open, TryAgain
  <2>8. rows'[r][1] # "none"
    BY <2>1, <2>7, Numbers DEF Open, TryAgain
  <2>9. Open(rows[r], n[r] + 1)'
    BY <2>6, <2>7 DEF Open
  <2>10. OutsideInv(r)' /\ LoopInv(r)' /\ DecisionInv(r)'
    BY <1>2, <2>1, <2>2, <2>6, <2>8, <2>9 DEF OutsideInv, LoopInv, DecisionInv, Deciding, committed
  <2>11. QED
    BY <1>2, <2>2, <2>4, <2>5, <2>6, <2>10, LocalStep
<1>3. QED
  BY <1>1, <1>2 DEF CreateIteration

\* The writer goes on to its next iteration, or has decided.
LEMMA CritiqueStep ==
    ASSUME LoopIInv, LoopTypeOK', NEW r \in Runs, Critique(r)
    PROVE  LoopIInv'
<1> DEFINE s == on[r]
<1>1. PICK ev \in Evaluations : rows' = [rows EXCEPT ![r][n[r]] = ev] /\ Follow(r, ev)
  BY DEF Critique
<1>2. /\ pc[r] = "critique" /\ s \in Sessions \ Blank /\ n[r] \in Iterations
      /\ OutsideInv(r) /\ LoopInv(r) /\ DecisionInv(r)
      /\ Open(rows[r], n[r] + 1)
      /\ UNCHANGED <<committed, on, saved, draft, target, marked>>
  BY DEF Critique, LoopIInv, LoopTypeOK, RunsInv, LoopInv
<1>3. ~saved[r] /\ target[r] = 0 /\ ~marked[r]
  BY <1>2 DEF DecisionInv, Deciding
<1>4. /\ \A i \in Iterations : rows'[r][i] = IF i = n[r] THEN ev ELSE rows[r][i]
      /\ Others(r)
  BY <1>1, <1>2, FollowEffects DEF Others, LoopIInv, LoopTypeOK
<1>5. \A i \in Iterations : /\ i < n[r] => rows'[r][i] \in TryAgain
                            /\ i > n[r] => rows'[r][i] = "none"
  BY <1>2, <1>4, Numbers DEF Open
<1>6. ev # "none"
  BY DEF Evaluations
<1>7. rows'[r][1] # "none" /\ rows'[r] # NoRows
  <2>1. rows'[r][1] # "none"
    BY <1>2, <1>4, <1>5, <1>6, Numbers DEF TryAgain
  <2>2. QED
    BY <2>1, Numbers, NoRowsOpen
<1>8. rows[r] # NoRows
  <2>1. rows[r][1] \in TryAgain
    BY <1>2, Numbers DEF Open
  <2>2. QED
    BY <2>1, Numbers, NoRowsOpen DEF TryAgain
<1>9. /\ session[s] = "running" /\ iters[s] = NoRows
      /\ \A q \in Runs \ {r} : on[q] = s => rows[q] = NoRows
  BY <1>8 DEF LoopIInv, OneWriterPerSession
<1>10. CASE ev \in TryAgain /\ n[r] < MaxIter
  <2>1. n'[r] = n[r] + 1 /\ pc'[r] = "next"
    BY <1>1, <1>10, FollowEffects
  <2>2. Open(rows[r], n[r])'
    BY <1>2, <1>4, <1>5, <1>10, <2>1, Numbers DEF Open
  <2>3. OutsideInv(r)' /\ LoopInv(r)' /\ DecisionInv(r)'
    BY <1>2, <1>3, <1>7, <2>1, <2>2 DEF OutsideInv, LoopInv, DecisionInv, Deciding, committed
  <2>4. QED
    BY <1>2, <1>3, <1>4, <1>9, <2>3, LocalStep
<1>11. CASE ~(ev \in TryAgain /\ n[r] < MaxIter)
  <2>1. pc'[r] = "save" /\ verdict'[r] = (IF ev = "pass" THEN "succeeded" ELSE "failed")
    BY <1>1, <1>11, FollowEffects
  <2>2. ev \in TryAgain => n[r] = MaxIter
    BY <1>2, <1>11, Numbers
  <2>3. DecidedAt(rows[r], verdict[r], n[r])'
    <3>1. n'[r] = n[r] /\ rows'[r][n[r]] = ev
      BY <1>1, <1>2, <1>4, <1>11, FollowEffects
    <3>2. QED
      BY <1>5, <1>6, <2>1, <2>2, <3>1 DEF DecidedAt
  <2>4. Decided(rows[r], verdict[r])'
    <3>1. n'[r] \in Iterations
      BY DEF LoopTypeOK
    <3>2. QED
      BY <2>3, <3>1 DEF Decided
  <2>5. OutsideInv(r)' /\ LoopInv(r)' /\ DecisionInv(r)'
    BY <1>2, <1>3, <1>7, <2>1, <2>4 DEF OutsideInv, LoopInv, DecisionInv, Deciding, committed
  <2>6. QED
    BY <1>2, <1>3, <1>4, <1>9, <2>5, LocalStep
<1>12. QED
  BY <1>10, <1>11

\* What a run keeps when it goes on after the loop.
LEMMA LateStep ==
    ASSUME LoopIInv, LoopTypeOK', NEW r \in Runs, pc[r] \in Deciding, pc'[r] \in Deciding \ {"save"},
           UNCHANGED <<committed, on, n, verdict, rows>>, Others(r),
           DecisionInv(r)', saved'[r] => \A q \in Runs \ {r} : on[q] = on[r] => ~saved[q]
    PROVE  LoopIInv'
<1>1. OutsideInv(r) /\ LoopInv(r) /\ DecisionInv(r)
  BY DEF LoopIInv, RunsInv
<1>2. OutsideInv(r)' /\ LoopInv(r)'
  BY <1>1 DEF OutsideInv, LoopInv, Deciding, committed
<1>3. rows[r] # NoRows => /\ session[on[r]] = "running" /\ iters[on[r]] = NoRows
                          /\ \A q \in Runs \ {r} : on[q] = on[r] => rows[q] = NoRows
  BY DEF LoopIInv, OneWriterPerSession
<1>4. QED
  BY <1>2, <1>3, LocalStep

LEMMA SaveStatusStep ==
    ASSUME LoopIInv, LoopTypeOK', NEW r \in Runs, SaveStatus(r)
    PROVE  LoopIInv'
<1>1. /\ pc[r] = "save" /\ pc'[r] = "report" /\ saved'[r] /\ Others(r)
      /\ DecisionInv(r)
      /\ UNCHANGED <<committed, on, n, verdict, rows, draft, target, marked>>
  BY DEF SaveStatus, Goto, Others, LoopIInv, LoopTypeOK, RunsInv
<1>2. \A q \in Runs \ {r} : on[q] = on[r] => ~saved[q]
  BY DEF SaveStatus
<1>3. Decided(rows[r], verdict[r])' <=> Decided(rows[r], verdict[r])
  BY <1>1 DEF Decided, DecidedAt
<1>4. DecisionInv(r)'
  BY <1>1, <1>3 DEF DecisionInv, Deciding, committed
<1>5. QED
  BY <1>1, <1>2, <1>4, LateStep DEF Deciding

\* A report is there exactly when the session is over.
LEMMA ReportsTell ==
    ASSUME LoopIInv, NEW s \in Sessions
    PROVE  HasReport(s) <=> session[s] # "running"
<1>1. session[s] # "running" => FinalDecision(session[s], iters[s]) # "none"
  BY DEF FinalDecision
<1>2. QED
  BY <1>1 DEF HasReport, LoopIInv, CommittedInv

\* A run whose session is running holds its row lock, so nobody else decides it
\* between this look for a report and the commit.
LEMMA GenerateReportStep ==
    ASSUME LoopIInv, LoopTypeOK', NEW r \in Runs, GenerateReport(r)
    PROVE  LoopIInv'
<1>1. /\ pc[r] = "report" /\ Others(r) /\ on[r] \in Sessions
      /\ DecisionInv(r)
      /\ UNCHANGED <<committed, on, n, verdict, rows, saved, target, marked>>
  BY DEF GenerateReport, Goto, Others, LoopIInv, LoopTypeOK, RunsInv
<1>2. pc'[r] = IF verdict[r] = "succeeded" /\ on[r] \in Attached THEN "select" ELSE "commit"
  BY DEF GenerateReport, Goto, LoopIInv, LoopTypeOK
<1>3. draft'[r] = IF session[on[r]] = "running" THEN FinalDecision(verdict[r], Visible(r))
                                                ELSE "none"
  BY <1>1, ReportsTell DEF GenerateReport, LoopIInv, LoopTypeOK
<1>4. Visible(r)' = Visible(r)
  BY <1>1 DEF Visible, committed
<1>5. FinalDecision(verdict[r], Visible(r))' = FinalDecision(verdict[r], Visible(r))
  BY <1>1, <1>4 DEF FinalDecision, LastEvaluation
<1>6. Decided(rows[r], verdict[r])' <=> Decided(rows[r], verdict[r])
  BY <1>1 DEF Decided, DecidedAt
<1>7. DecisionInv(r)'
  BY <1>1, <1>2, <1>3, <1>5, <1>6 DEF DecisionInv, Deciding, committed
<1>8. saved'[r] => \A q \in Runs \ {r} : on[q] = on[r] => ~saved[q]
  BY <1>1 DEF LoopIInv, OneSaver
<1>9. QED
  BY <1>1, <1>2, <1>7, <1>8, LateStep DEF Deciding

\* The choice of a node, and its update.
LEMMA NodeStep ==
    ASSUME LoopIInv, LoopTypeOK', NEW r \in Runs, SelectNode(r) \/ MarkNode(r)
    PROVE  LoopIInv'
<1>1. /\ pc[r] \in {"select", "mark"} /\ on[r] \in Sessions
      /\ DecisionInv(r)
      /\ UNCHANGED <<committed, on, n, verdict, rows, saved, draft>>
  BY DEF SelectNode, MarkNode, LoopIInv, LoopTypeOK, RunsInv
<1>2. /\ pc'[r] \in {"mark", "commit"}
      /\ pc'[r] = "mark" => target'[r] # 0
      /\ marked'[r] => target'[r] # 0
      /\ Others(r)
  <2>1. CASE SelectNode(r)
    <3>1. Candidates \subseteq Nodes
      BY DEF Candidates, InProgress, Todo
    <3>2. \A k \in Nodes : k # 0
      BY DEF Nodes
    <3>3. ~marked[r] \/ target[r] # 0
      BY <1>1 DEF DecisionInv
    <3>4. \/ pc' = [pc EXCEPT ![r] = "commit"] /\ target' = target
          \/ \E k \in Nodes : pc' = [pc EXCEPT ![r] = "mark"] /\ target' = [target EXCEPT ![r] = k]
      BY <2>1, <3>1 DEF SelectNode, Goto
    <3>5. marked' = marked
      BY <2>1 DEF SelectNode
    <3>6. QED
      BY <1>1, <3>2, <3>3, <3>4, <3>5 DEF Others, LoopIInv, LoopTypeOK
  <2>2. CASE MarkNode(r)
    BY <1>1, <2>2 DEF MarkNode, Goto, Others, LoopIInv, LoopTypeOK, DecisionInv
  <2>3. QED
    BY <2>1, <2>2
<1>3. Visible(r)' = Visible(r)
  BY <1>1 DEF Visible, committed
<1>4. FinalDecision(verdict[r], Visible(r))' = FinalDecision(verdict[r], Visible(r))
  BY <1>1, <1>3 DEF FinalDecision, LastEvaluation
<1>5. Decided(rows[r], verdict[r])' <=> Decided(rows[r], verdict[r])
  BY <1>1 DEF Decided, DecidedAt
<1>6. DecisionInv(r)'
  BY <1>1, <1>2, <1>4, <1>5 DEF DecisionInv, Deciding, committed
<1>7. saved'[r] => \A q \in Runs \ {r} : on[q] = on[r] => ~saved[q]
  BY <1>1 DEF LoopIInv, OneSaver
<1>8. QED
  BY <1>1, <1>2, <1>6, <1>7, LateStep DEF Deciding

-----------------------------------------------------------------------------
(* The commit.                                                             *)

\* The commit of a run on a session that is over changes nothing of it.
LEMMA CommitAgain ==
    ASSUME LoopIInv, NEW r \in Runs, Commit(r), session[on[r]] # "running"
    PROVE  UNCHANGED <<session, iters, reports>> /\ verdict[r] = session[on[r]]
<1> DEFINE s == on[r]
<1>1. /\ s \in Sessions /\ pc[r] = "commit"
      /\ OutsideInv(r) /\ DecisionInv(r)
  BY DEF Commit, LoopIInv, LoopTypeOK, RunsInv
<1>2. rows[r] = NoRows
  BY DEF LoopIInv, OneWriterPerSession
<1>3. verdict[r] = session[s]
  BY <1>1, <1>2 DEF DecisionInv, Deciding, LoopIInv, CommittedInv
<1>4. session' = session
  BY <1>1, <1>3 DEF Commit, LoopIInv, LoopTypeOK
<1>5. Visible(r) = iters[s]
  <2>1. iters[s] \in [Iterations -> Evaluations \cup {"none"}]
    BY <1>1 DEF LoopIInv, LoopTypeOK
  <2>2. QED
    BY <1>2, <2>1, NoRowsOpen DEF Visible
<1>6. iters' = iters
  BY <1>1, <1>5 DEF Commit, LoopIInv, LoopTypeOK
<1>7. draft[r] = "none" /\ reports[s][r] = "none"
  BY <1>1 DEF DecisionInv, OutsideInv
<1>8. reports' = reports
  BY <1>1, <1>7 DEF Commit, LoopIInv, LoopTypeOK
<1>9. QED
  BY <1>3, <1>4, <1>6, <1>8

\* The commit that decides a session publishes its iterations and its report.
LEMMA CommitFirst ==
    ASSUME LoopIInv, NEW r \in Runs, Commit(r), session[on[r]] = "running"
    PROVE  LET s == on[r] IN
           /\ saved[r]
           /\ session' = [session EXCEPT ![s] = verdict[r]]
           /\ iters' = [iters EXCEPT ![s] = Visible(r)]
           /\ \/ Visible(r) = rows[r] /\ rows[r] # NoRows /\ s \notin Blank
                 /\ Decided(rows[r], verdict[r])
              \/ Visible(r) = NoRows /\ s \in Blank /\ verdict[r] = "failed"
           /\ \A q \in Runs : reports[s][q] = "none"
           /\ reports' = [reports EXCEPT ![s] =
                            [reports[s] EXCEPT ![r] = FinalDecision(verdict[r], Visible(r))]]
<1> DEFINE s == on[r]
<1>1. /\ s \in Sessions /\ pc[r] = "commit"
      /\ OutsideInv(r) /\ LoopInv(r) /\ DecisionInv(r)
  BY DEF Commit, LoopIInv, LoopTypeOK, RunsInv
<1>2. saved[r]
  BY <1>1 DEF DecisionInv, Deciding
<1>3. session' = [session EXCEPT ![s] = verdict[r]] /\ iters' = [iters EXCEPT ![s] = Visible(r)]
  BY <1>2 DEF Commit
<1>4. iters[s] = NoRows /\ \A q \in Runs : reports[s][q] = "none"
  BY <1>1 DEF LoopIInv, CommittedInv
<1>5. Visible(r) = rows[r]
  <2>1. rows[r] \in [Iterations -> Evaluations \cup {"none"}]
    BY DEF LoopIInv, LoopTypeOK
  <2>2. QED
    BY <1>4, <2>1, NoRowsOpen DEF Visible
<1>6. \/ Visible(r) = rows[r] /\ rows[r] # NoRows /\ s \notin Blank /\ Decided(rows[r], verdict[r])
      \/ Visible(r) = NoRows /\ s \in Blank /\ verdict[r] = "failed"
  BY <1>1, <1>5 DEF DecisionInv, LoopInv, Deciding
<1>7. draft[r] = FinalDecision(verdict[r], Visible(r))
  BY <1>1 DEF DecisionInv
<1>8. reports' = [reports EXCEPT ![s] = [reports[s] EXCEPT ![r] = FinalDecision(verdict[r], Visible(r))]]
  BY <1>7 DEF Commit
<1>9. QED
  BY <1>2, <1>3, <1>4, <1>6, <1>8

\* In both cases the run is over, and the other runs are as they were.
LEMMA CommitEnds ==
    ASSUME LoopIInv, NEW r \in Runs, Commit(r)
    PROVE  /\ Others(r)
           /\ pc'[r] = "ended" /\ rows'[r] = NoRows /\ ~saved'[r] /\ target'[r] = 0 /\ ~marked'[r]
           /\ on' = on
BY DEF Commit, Goto, Discard, Others, LoopIInv, LoopTypeOK

\* Another run does not notice a commit: on a session that was running it has
\* neither written nor saved anything, since r has.
LEMMA CommitOther ==
    ASSUME LoopIInv, NEW r \in Runs, Commit(r), NEW q \in Runs \ {r}
    PROVE  OutsideInv(q)' /\ LoopInv(q)' /\ DecisionInv(q)'
<1>1. OutsideInv(q) /\ LoopInv(q) /\ DecisionInv(q) /\ on[q] \in Sessions /\ on[r] \in Sessions
  BY DEF LoopIInv, RunsInv, LoopTypeOK
<1>2. /\ pc'[q] = pc[q] /\ on'[q] = on[q] /\ n'[q] = n[q] /\ verdict'[q] = verdict[q]
      /\ rows'[q] = rows[q] /\ saved'[q] = saved[q] /\ draft'[q] = draft[q]
      /\ target'[q] = target[q] /\ marked'[q] = marked[q]
  BY CommitEnds DEF Others
<1>3. \A s \in Sessions : reports'[s][q] = reports[s][q]
  BY DEF Commit, LoopIInv, LoopTypeOK
<1>4. OutsideInv(q)'
  BY <1>1, <1>2, <1>3 DEF OutsideInv
<1>5. Decided(rows[q], verdict[q])' <=> Decided(rows[q], verdict[q])
  BY <1>2 DEF Decided, DecidedAt
<1>6. Open(rows[q], n[q])' <=> Open(rows[q], n[q])
  BY <1>2 DEF Open
<1>7. Open(rows[q], n[q] + 1)' <=> Open(rows[q], n[q] + 1)
  BY <1>2 DEF Open
<1>8. CASE session'[on[q]] = session[on[q]] /\ iters'[on[q]] = iters[on[q]]
  <2>1. LoopInv(q)'
    BY <1>1, <1>2, <1>6, <1>7, <1>8 DEF LoopInv
  <2>2. Visible(q)' = Visible(q)
    BY <1>2, <1>8 DEF Visible
  <2>3. FinalDecision(verdict[q], Visible(q))' = FinalDecision(verdict[q], Visible(q))
    BY <1>2, <2>2 DEF FinalDecision, LastEvaluation
  <2>4. DecisionInv(q)'
    BY <1>1, <1>2, <1>5, <1>8, <2>3 DEF DecisionInv
  <2>5. QED
    BY <1>4, <2>1, <2>4
<1>9. CASE on[q] = on[r] /\ session[on[r]] = "running"
  <2>1. saved[r] /\ ~saved[q]
    BY <1>9, CommitFirst DEF LoopIInv, OneSaver
  <2>2. pc[q] \notin Deciding \ {"save"}
    BY <1>1, <1>9, <2>1 DEF DecisionInv
  <2>3. rows[q] = NoRows
    <3>1. CASE rows[r] # NoRows
      BY <1>9, <3>1 DEF LoopIInv, OneWriterPerSession
    <3>2. CASE rows[r] = NoRows
      BY <1>1, <1>9, <3>2, CommitFirst DEF LoopInv
    <3>3. QED
      BY <3>1, <3>2
  <2>4. pc[q] = "save" => on[q] \in Blank /\ verdict[q] = "failed"
    BY <1>1, <1>9, <2>3 DEF DecisionInv, Deciding
  <2>5. LoopInv(q)'
    BY <1>1, <1>2, <1>6, <1>7, <1>9, <2>3 DEF LoopInv
  <2>6. DecisionInv(q)'
    BY <1>1, <1>2, <2>1, <2>2, <2>3, <2>4 DEF DecisionInv, Deciding
  <2>7. QED
    BY <1>4, <2>5, <2>6
<1>10. QED
  <2>1. CASE session[on[r]] # "running"
    BY <1>8, <2>1, CommitAgain
  <2>2. CASE session[on[r]] = "running" /\ on[q] # on[r]
    BY <1>1, <1>8, <2>2, CommitFirst DEF LoopIInv, LoopTypeOK
  <2>3. QED
    BY <1>9, <2>1, <2>2

\* A verdict, once published, stays.
LEMMA CommitFinal ==
    ASSUME LoopIInv, NEW r \in Runs, Commit(r), NEW s \in Sessions, session[s] # "running"
    PROVE  session'[s] = session[s] /\ iters'[s] = iters[s] /\ reports'[s] = reports[s]
<1>1. CASE session[on[r]] # "running"
  BY <1>1, CommitAgain
<1>2. CASE session[on[r]] = "running"
  BY <1>2, CommitFirst DEF LoopIInv, LoopTypeOK
<1>3. QED
  BY <1>1, <1>2

LEMMA CommitCommitted ==
    ASSUME LoopIInv, NEW r \in Runs, Commit(r)
    PROVE  CommittedInv'
<1>1. CASE session[on[r]] # "running"
  <2>1. UNCHANGED <<session, iters, reports>>
    BY <1>1, CommitAgain
  <2>2. \A s \in Sessions : /\ Decided(iters[s], session[s])' <=> Decided(iters[s], session[s])
                            /\ FinalDecision(session[s], iters[s])' = FinalDecision(session[s], iters[s])
    BY <2>1 DEF Decided, DecidedAt, FinalDecision, LastEvaluation
  <2>3. QED
    BY <2>1, <2>2 DEF LoopIInv, CommittedInv
<1>2. CASE session[on[r]] = "running"
  <2> DEFINE s == on[r]
             v == verdict[r]
             its == Visible(r)
  <2>1. s \in Sessions /\ v \in {"succeeded", "failed"}
    BY DEF LoopIInv, LoopTypeOK
  <2>2. session'[s] = v /\ iters'[s] = its
    BY <1>2, <2>1, CommitFirst DEF LoopIInv, LoopTypeOK
  <2>3. /\ reports'[s][r] = FinalDecision(v, its)
        /\ \A q \in Runs \ {r} : reports'[s][q] = "none"
    BY <1>2, <2>1, CommitFirst DEF LoopIInv, LoopTypeOK
  <2>4. IF s \in Blank THEN v = "failed" /\ its = NoRows ELSE Decided(its, v)
    BY <1>2, CommitFirst
  <2>5. ASSUME NEW t \in Sessions, t # s
        PROVE  session'[t] = session[t] /\ iters'[t] = iters[t] /\ reports'[t] = reports[t]
    BY <1>2, <2>1, <2>5, CommitFirst DEF LoopIInv, LoopTypeOK
  <2> HIDE DEF s, v, its
  <2>6. ASSUME NEW t \in Sessions
        PROVE  /\ session'[t] = "running" =>
                     iters'[t] = NoRows /\ \A q \in Runs : reports'[t][q] = "none"
               /\ session'[t] # "running" =>
                     /\ IF t \in Blank THEN session'[t] = "failed" /\ iters'[t] = NoRows
                                       ELSE Decided(iters'[t], session'[t])
                     /\ \E p \in Runs :
                           /\ reports'[t][p] = FinalDecision(session'[t], iters'[t])
                           /\ \A q \in Runs \ {p} : reports'[t][q] = "none"
    <3>1. CASE t = s
      BY <2>1, <2>2, <2>3, <2>4, <3>1
    <3>2. CASE t # s
      BY <2>5, <3>2 DEF LoopIInv, CommittedInv
    <3>3. QED
      BY <3>1, <3>2
  <2>7. ASSUME NEW t \in Sessions
        PROVE  /\ Decided(iters[t], session[t])' <=> Decided(iters'[t], session'[t])
               /\ FinalDecision(session[t], iters[t])' = FinalDecision(session'[t], iters'[t])
    BY DEF Decided, DecidedAt, FinalDecision, LastEvaluation
  <2>8. QED
    BY <2>6, <2>7 DEF CommittedInv
<1>3. QED
  BY <1>1, <1>2

LEMMA CommitNodes ==
    ASSUME LoopIInv, NEW r \in Runs, Commit(r)
    PROVE  NodesDoneBySuccess'
<1> SUFFICES ASSUME NEW k \in Nodes, node'[k] = "done"
             PROVE  \E s \in Attached : session'[s] = "succeeded" /\ k \in credit'[s]
  BY DEF NodesDoneBySuccess
<1>1. on[r] \in Sessions /\ DecisionInv(r)
  BY DEF LoopIInv, LoopTypeOK, RunsInv
<1>2. CASE marked[r] /\ k = target[r]
  <2>1. verdict[r] = "succeeded" /\ on[r] \in Attached
    BY <1>1, <1>2 DEF DecisionInv
  <2>2. session'[on[r]] = "succeeded"
    <3>1. CASE session[on[r]] # "running"
      BY <2>1, <3>1, CommitAgain
    <3>2. CASE session[on[r]] = "running"
      BY <1>1, <2>1, <3>2, CommitFirst DEF LoopIInv, LoopTypeOK
    <3>3. QED
      BY <3>1, <3>2
  <2>3. k \in credit'[on[r]]
    BY <1>1, <1>2 DEF Commit, LoopIInv, LoopTypeOK
  <2>4. QED
    BY <2>1, <2>2, <2>3
<1>3. CASE ~(marked[r] /\ k = target[r])
  <2>1. node[k] = "done"
    BY <1>3 DEF Commit
  <2>2. PICK s \in Attached : session[s] = "succeeded" /\ k \in credit[s]
    BY <2>1 DEF LoopIInv, NodesDoneBySuccess
  <2>3. s \in Sessions
    BY LoopAssumption
  <2>4. session'[s] = "succeeded"
    BY <2>2, <2>3, CommitFinal
  <2>5. k \in credit'[s]
    BY <1>1, <2>2, <2>3 DEF Commit, LoopIInv, LoopTypeOK
  <2>6. QED
    BY <2>4, <2>5
<1>4. QED
  BY <1>2, <1>3

LEMMA CommitStep ==
    ASSUME LoopIInv, LoopTypeOK', NEW r \in Runs, Commit(r)
    PROVE  LoopIInv'
<1>1. OutsideInv(r)' /\ LoopInv(r)' /\ DecisionInv(r)'
  BY CommitEnds DEF OutsideInv, LoopInv, DecisionInv, Deciding
<1>2. RunsInv'
  BY <1>1, CommitOther DEF RunsInv
<1>3. OneSaver'
  BY CommitEnds DEF LoopIInv, OneSaver, Others
<1>4. OneWriterPerSession'
  <2> SUFFICES ASSUME NEW q \in Runs, rows'[q] # NoRows
               PROVE  /\ session'[on'[q]] = "running"
                      /\ iters'[on'[q]] = NoRows
                      /\ \A p \in Runs : on'[p] = on'[q] /\ rows'[p] # NoRows => p = q
    BY DEF OneWriterPerSession
  <2>1. q # r /\ rows[q] # NoRows /\ on'[q] = on[q] /\ on[q] \in Sessions
    BY CommitEnds DEF Others, LoopIInv, LoopTypeOK
  <2>2. session[on[q]] = "running" /\ iters[on[q]] = NoRows
    BY <2>1 DEF LoopIInv, OneWriterPerSession
  <2>3. ~(on[q] = on[r] /\ session[on[r]] = "running")
    <3>1. ASSUME on[q] = on[r], session[on[r]] = "running" PROVE FALSE
      <4>1. rows[r] = NoRows
        BY <2>1, <3>1 DEF LoopIInv, OneWriterPerSession
      <4>2. on[r] \in Blank
        BY <3>1, <4>1, CommitFirst
      <4>3. on[q] \notin Blank
        BY <2>1 DEF LoopIInv, RunsInv, LoopInv
      <4>4. QED
        BY <3>1, <4>2, <4>3
    <3>2. QED
      BY <3>1
  <2>4. session'[on[q]] = session[on[q]] /\ iters'[on[q]] = iters[on[q]]
    <3>1. CASE on[q] # on[r]
      <4>1. CASE session[on[r]] = "running"
        BY <2>1, <3>1, <4>1, CommitFirst DEF LoopIInv, LoopTypeOK
      <4>2. CASE session[on[r]] # "running"
        BY <2>1, <3>1, <4>2, CommitAgain DEF LoopIInv, LoopTypeOK
      <4>3. QED
        BY <4>1, <4>2
    <3>2. CASE on[q] = on[r] /\ session[on[r]] # "running"
      BY <2>1, <3>2, CommitAgain DEF LoopIInv, LoopTypeOK
    <3>3. QED
      BY <2>3, <3>1, <3>2
  <2>5. \A p \in Runs : on'[p] = on'[q] /\ rows'[p] # NoRows => p = q
    BY <2>1, CommitEnds DEF Others, LoopIInv, OneWriterPerSession
  <2>6. QED
    BY <2>1, <2>2, <2>4, <2>5
<1>5. QED
  BY <1>2, <1>3, <1>4, CommitCommitted, CommitNodes DEF LoopIInv

-----------------------------------------------------------------------------
(* The theorems.                                                           *)

LEMMA InitIInv == LoopInit => LoopIInv
<1> SUFFICES ASSUME LoopInit PROVE LoopIInv
  OBVIOUS
<1>1. CommittedInv /\ OneWriterPerSession /\ OneSaver /\ NodesDoneBySuccess
  BY DEF LoopInit, CommittedInv, OneWriterPerSession, OneSaver, NodesDoneBySuccess
<1>2. RunsInv
  BY DEF LoopInit, RunsInv, OutsideInv, LoopInv, DecisionInv, Deciding
<1>3. QED
  BY <1>1, <1>2, InitType DEF LoopIInv

LEMMA NextIInv == LoopIInv /\ [LoopNext]_loopVars => LoopIInv'
<1> SUFFICES ASSUME LoopIInv, [LoopNext]_loopVars PROVE LoopIInv'
  OBVIOUS
<1>1. LoopTypeOK'
  BY NextType DEF LoopIInv, RunsInv, DecisionInv
<1>2. ASSUME NEW r \in Runs, NEW s \in Sessions, Begin(r, s) PROVE LoopIInv'
  BY <1>1, <1>2, BeginStep
<1>3. ASSUME NEW r \in Runs, Work(r) PROVE LoopIInv'
  BY <1>1, <1>3, GetIterationStep, CreateIterationStep, CritiqueStep, SaveStatusStep,
     GenerateReportStep, NodeStep, CommitStep DEF Work
<1>4. ASSUME NEW r \in Runs, Raise(r) \/ Die(r) PROVE LoopIInv'
  BY <1>1, <1>4, RollBackStep, DieStep DEF Raise
<1>5. CASE UNCHANGED loopVars
  <2>1. CommittedInv' /\ NodesDoneBySuccess'
    <3>1. \A s \in Sessions : /\ Decided(iters[s], session[s])' <=> Decided(iters[s], session[s])
                              /\ FinalDecision(session[s], iters[s])' = FinalDecision(session[s], iters[s])
      BY <1>5 DEF Decided, DecidedAt, FinalDecision, LastEvaluation, loopVars, committed
    <3>2. QED
      BY <1>5, <3>1 DEF LoopIInv, CommittedInv, NodesDoneBySuccess, loopVars, committed
  <2>2. RunsInv'
    BY <1>5, SameRun DEF LoopIInv, RunsInv, loopVars, locals
  <2>3. OneWriterPerSession' /\ OneSaver'
    BY <1>5 DEF LoopIInv, OneWriterPerSession, OneSaver, loopVars, committed, locals
  <2>4. QED
    BY <1>1, <2>1, <2>2, <2>3 DEF LoopIInv
<1>6. QED
  BY <1>2, <1>3, <1>4, <1>5 DEF LoopNext

THEOREM Invariant == LoopSpec => []LoopIInv
BY InitIInv, NextIInv, PTL DEF LoopSpec

LEMMA IterationsExplain == LoopIInv => IterationsExplainVerdict
<1> SUFFICES ASSUME LoopIInv, NEW s \in Sessions
             PROVE  LET its == iters[s] IN
                    /\ \A i, j \in Iterations : j < i /\ its[i] # "none" => its[j] \in TryAgain
                    /\ session[s] = "running" => its = NoRows
                    /\ session[s] = "succeeded" <=> LastEvaluation(its) = "pass"
                    /\ session[s] = "failed" /\ s \notin Blank =>
                          LastEvaluation(its) = "fail" \/ its[MaxIter] \in TryAgain
  BY DEF IterationsExplainVerdict
<1> DEFINE its == iters[s]
<1>1. session[s] = "running" => its = NoRows
  BY DEF LoopIInv, CommittedInv
<1>2. CASE its = NoRows /\ session[s] # "succeeded" /\ (session[s] = "failed" => s \in Blank)
  BY <1>2, NoRowsOpen DEF LastEvaluation
<1>3. CASE session[s] # "running" /\ Decided(its, session[s])
  <2>1. PICK k \in Iterations : DecidedAt(its, session[s], k)
    BY <1>3 DEF Decided
  <2>2. LastEvaluation(its) = its[k]
    BY <2>1, LastOne DEF DecidedAt
  <2>3. its[k] \in Evaluations
    BY <2>1 DEF LoopIInv, LoopTypeOK, DecidedAt
  <2>4. \A i, j \in Iterations : j < i /\ its[i] # "none" => its[j] \in TryAgain
    BY <2>1, Numbers DEF DecidedAt
  <2>5. session[s] = "failed" => its[k] = "fail" \/ its[MaxIter] \in TryAgain
    BY <2>1, <2>3 DEF DecidedAt, Evaluations, TryAgain
  <2>6. QED
    BY <1>3, <2>1, <2>2, <2>4, <2>5 DEF DecidedAt
<1>4. QED
  BY <1>1, <1>2, <1>3 DEF LoopIInv, LoopTypeOK, CommittedInv

LEMMA OneReport == LoopIInv => OneReportPerVerdict
<1> SUFFICES ASSUME LoopIInv, NEW s \in Sessions, NEW writers,
                    writers = {r \in Runs : reports[s][r] # "none"}
             PROVE  IF session[s] = "running" THEN writers = {}
                    ELSE /\ Cardinality(writers) = 1
                         /\ \A r \in writers : reports[s][r] = FinalDecision(session[s], iters[s])
  BY DEF OneReportPerVerdict
<1>1. CASE session[s] = "running"
  BY <1>1 DEF LoopIInv, CommittedInv
<1>2. CASE session[s] # "running"
  <2>1. PICK r \in Runs : /\ reports[s][r] = FinalDecision(session[s], iters[s])
                          /\ \A q \in Runs \ {r} : reports[s][q] = "none"
    BY <1>2 DEF LoopIInv, CommittedInv
  <2>2. reports[s][r] # "none"
    BY <2>1 DEF FinalDecision
  <2>3. writers = {r}
    BY <2>1, <2>2
  <2>4. Cardinality(writers) = 1
    BY <2>3, FS_Singleton
  <2>5. QED
    BY <1>2, <2>1, <2>3, <2>4
<1>3. QED
  BY <1>1, <1>2

\* At every commit the iterations of a session explain its status, it has one
\* report that agrees with both, one transaction at most is writing it, and
\* nodes are done on account of a success.
THEOREM VerdictsAreExplained == LoopSpec => []VerdictInv
<1>1. LoopIInv => VerdictInv
  BY IterationsExplain, OneReport DEF LoopIInv, VerdictInv
<1>2. QED
  BY <1>1, Invariant, PTL

\* A step that is no commit publishes nothing.
LEMMA OnlyCommits ==
    ASSUME [LoopNext]_loopVars
    PROVE  UNCHANGED committed \/ \E r \in Runs : Commit(r)
<1>1. ASSUME NEW r \in Runs, NEW s \in Sessions, Begin(r, s) PROVE UNCHANGED committed
  BY <1>1 DEF Begin
<1>2. ASSUME NEW r \in Runs, Work(r), ~Commit(r) PROVE UNCHANGED committed
  BY <1>2 DEF Work, GetIteration, CreateIteration, RollBack, Critique, SaveStatus, GenerateReport,
              SelectNode, MarkNode
<1>3. ASSUME NEW r \in Runs, Raise(r) \/ Die(r) PROVE UNCHANGED committed
  BY <1>3 DEF Raise, RollBack, Die
<1>4. QED
  BY <1>1, <1>2, <1>3 DEF LoopNext, loopVars

\* The status of a session that is over never changes ("If the session is
\* already succeeded/failed/aborted, no work is done").
THEOREM VerdictsAreFinal == LoopSpec => VerdictIsFinal
<1>1. LoopIInv /\ [LoopNext]_loopVars =>
          [\A s \in Sessions : session[s] # "running" => session'[s] = session[s]]_loopVars
  BY OnlyCommits, CommitFinal DEF committed
<1>2. QED
  BY <1>1, Invariant, PTL DEF LoopSpec, VerdictIsFinal

-----------------------------------------------------------------------------
(* The step simulation.                                                    *)

LEMMA InitSimulated == LoopInit => Promise!Init
<1> SUFFICES ASSUME LoopInit PROVE Promise!Init
  OBVIOUS
<1>1. \A s \in Sessions : {reports[s][r] : r \in Runs} \ {"none"} = {}
  BY DEF LoopInit
<1>2. QED
  BY <1>1 DEF LoopInit, Promise!Init

\* The commit that decides a session is the step that decides it.
LEMMA CommitSimulated ==
    ASSUME LoopIInv, NEW r \in Runs, Commit(r), NEW s \in Sessions, on[r] = s, session[s] = "running"
    PROVE  Promise!Decide(s)
<1>1. PICK d : d = FinalDecision(verdict[r], Visible(r))
  OBVIOUS
<1>2. verdict[r] \in {"succeeded", "failed"}
  BY DEF LoopIInv, LoopTypeOK
<1>3. d \in {"pass", "fail", "needs_evidence"} /\ Promise!Consistent(verdict[r], d)
  BY <1>1, <1>2, DecisionConsistent DEF Promise!Consistent
<1>4. session' = [session EXCEPT ![s] = verdict[r]]
  BY CommitFirst
<1>5. /\ \A q \in Runs : reports'[s][q] = IF q = r THEN d ELSE "none"
      /\ \A t \in Sessions \ {s} : reports'[t] = reports[t]
  BY <1>1, CommitFirst DEF LoopIInv, LoopTypeOK
<1>6. {reports'[s][q] : q \in Runs} \ {"none"} = {d}
  BY <1>3, <1>5
<1>7. [t \in Sessions |-> {reports'[t][q] : q \in Runs} \ {"none"}]
        = [[t \in Sessions |-> {reports[t][q] : q \in Runs} \ {"none"}] EXCEPT ![s] = {d}]
  <2> DEFINE before == [t \in Sessions |-> {reports[t][q] : q \in Runs} \ {"none"}]
             after == [t \in Sessions |-> {reports'[t][q] : q \in Runs} \ {"none"}]
  <2>1. ASSUME NEW t \in Sessions \ {s}
        PROVE  {reports'[t][q] : q \in Runs} = {reports[t][q] : q \in Runs}
    BY <1>5
  <2>2. \A t \in Sessions : after[t] = IF t = s THEN {d} ELSE before[t]
    BY <1>6, <2>1
  <2>3. after = [t \in Sessions |-> after[t]] /\ before = [t \in Sessions |-> before[t]]
    OBVIOUS
  <2> HIDE DEF before, after
  <2>4. after = [before EXCEPT ![s] = {d}]
    BY <2>2, <2>3
  <2>5. QED
    BY <2>4 DEF before, after
<1>8. QED
  BY <1>2, <1>3, <1>4, <1>7 DEF Promise!Decide, Promise!Verdicts, Promise!Decisions

LEMMA StepSimulated == LoopIInv /\ [LoopNext]_loopVars => [Promise!Next]_(Promise!absVars)
<1> SUFFICES ASSUME LoopIInv, [LoopNext]_loopVars PROVE [Promise!Next]_(Promise!absVars)
  OBVIOUS
<1>1. UNCHANGED <<session, reports>> => [Promise!Next]_(Promise!absVars)
  BY DEF Promise!absVars
<1>2. ASSUME NEW r \in Runs, Commit(r) PROVE [Promise!Next]_(Promise!absVars)
  <2>1. CASE session[on[r]] = "running"
    <3>1. PICK s \in Sessions : on[r] = s
      BY DEF LoopIInv, LoopTypeOK
    <3>2. Promise!Decide(s)
      BY <1>2, <2>1, <3>1, CommitSimulated
    <3>3. Promise!Next
      BY <3>2 DEF Promise!Next
    <3>4. QED
      BY <3>3
  <2>2. CASE session[on[r]] # "running"
    BY <1>1, <1>2, <2>2, CommitAgain
  <2>3. QED
    BY <2>1, <2>2
<1>3. QED
  BY <1>1, <1>2, OnlyCommits DEF committed

\* The runs implement the promise: a session is decided once, by the commit of
\* one of them, and published consistently.
THEOREM ImplementsPromise == LoopSpec => KeepsPromise
BY Invariant, InitSimulated, StepSimulated, PTL DEF LoopSpec, KeepsPromise, Promise!Spec

-----------------------------------------------------------------------------
(* AgentRuntime: processes, tasks and runs.                                *)

From == {"request", "dequeue"}

\* The tasks of a process: still to be sent, received by a run, and at work.
Owed(p) == {from \in From : <<from, p>> \in owed}
Jobs(p) == {r \in Runs : job[r] = p}
AtWork(p) == {r \in Jobs(p) : Unfinished(r)}

BrokerTypes ==
    /\ sessOf \in [Procs -> Sessions]
    /\ owed \subseteq From \X Procs
    /\ queue \in [Procs -> Nat]
    /\ job \in [Runs -> 0..NumProcs]
    /\ closed \subseteq Runs
    /\ redelivered \in 0..MaxRedeliveries
    /\ lost \in 0..MaxLost
    /\ late \in 0..MaxLate

\* Tasks are those of processes that exist, a run works on the session of its
\* process, and a process for which the dequeue owes a task is not queued.
TasksInv ==
    /\ \A x \in owed : x[2] <= created
    /\ \A p \in Procs : queue[p] > 0 => p <= created
    /\ \A p \in Procs : <<"dequeue", p>> \in owed => status[p] # "queued"
    /\ \A r \in Runs : /\ pc[r] = "idle" <=> job[r] = 0
                       /\ job[r] # 0 => job[r] <= created /\ on[r] = sessOf[job[r]]
                       /\ r \in closed => pc[r] = "ended"

\* A run that ends well has told the truth while nothing was raised late.
EndsTold ==
    \A r \in Runs : late = 0 /\ pc[r] = "ended" /\ verdict[r] = "succeeded" =>
        session[on[r]] = "succeeded"

\* The verdict of a session is that of a run that has ended.
VerdictsReached ==
    \A s \in Sessions : session[s] # "running" =>
        \E r \in Runs : on[r] = s /\ pc[r] = "ended" /\ verdict[r] = session[s]

\* A process that was finalized, and no finalization was lost, says what one of
\* its runs said.
LastWord ==
    \A r \in closed : lost = 0 =>
        \E q \in closed : job[q] = job[r] /\ status[job[r]] = verdict[q]

\* The invariants of the parts, and what ties them together.
RuntimeInv ==
    /\ RowInv
    /\ LoopIInv
    /\ BrokerTypes
    /\ TasksInv
    /\ EndsTold
    /\ VerdictsReached
    /\ LastWord

LEMMA InitRuntimeInv == Init => RuntimeInv
<1> SUFFICES ASSUME Init PROVE RuntimeInv
  OBVIOUS
<1>1. RowInv /\ LoopIInv
  BY InitRowInv, InitIInv DEF Init
<1>2. NoSession \in Sessions /\ NumProcs \in Nat
  BY LoopAssumption, SchedulerAssumption DEF NoSession
<1>3. BrokerTypes
  BY <1>2, RuntimeAssumption DEF Init, BrokerTypes
<1>4. TasksInv /\ EndsTold /\ VerdictsReached /\ LastWord
  BY DEF Init, LoopInit, TasksInv, EndsTold, VerdictsReached, LastWord
<1>5. QED
  BY <1>1, <1>3, <1>4 DEF RuntimeInv

\* What a statement of a run does to its session, and to its own end.
LEMMA WorkEffects ==
    ASSUME LoopIInv, NEW r \in Runs, Work(r)
    PROVE  /\ pc[r] \in InTransaction /\ on' = on
           /\ \A q \in Runs \ {r} : pc'[q] = pc[q] /\ verdict'[q] = verdict[q]
           /\ \/ pc'[r] \in InTransaction /\ UNCHANGED session
              \/ pc'[r] = "ended" /\ verdict'[r] = "failed" /\ UNCHANGED session
              \/ /\ pc'[r] = "ended" /\ verdict'[r] = verdict[r]
                 /\ session'[on[r]] = verdict[r]
                 /\ \A s \in Sessions : session'[s] # session[s] => s = on[r]
<1>0. r \in Runs /\ on[r] \in Sessions /\ LoopTypeOK
  BY DEF LoopIInv, LoopTypeOK
<1>1. CASE GetIteration(r) \/ Critique(r)
  <2>1. /\ pc[r] \in {"next", "critique"} /\ on' = on /\ UNCHANGED session
        /\ (\E ev : Follow(r, ev)) \/ (Goto(r, "insert") /\ UNCHANGED verdict)
    BY <1>1 DEF GetIteration, Critique, committed
  <2>2. CASE \E ev : Follow(r, ev)
    BY <2>1, <2>2, FollowEffects DEF InTransaction
  <2>3. CASE Goto(r, "insert") /\ UNCHANGED verdict
    BY <1>0, <2>1, <2>3 DEF Goto, InTransaction, LoopTypeOK
  <2>4. QED
    BY <2>1, <2>2, <2>3
<1>2. CASE CreateIteration(r)
  <2>1. pc[r] = "insert" /\ (RollBack(r) \/ (Goto(r, "critique") /\ UNCHANGED <<committed, on, verdict>>))
    BY <1>2 DEF CreateIteration
  <2>2. CASE RollBack(r)
    BY <1>0, <2>1, <2>2 DEF RollBack, Goto, Returned, InTransaction, LoopTypeOK, committed
  <2>3. CASE Goto(r, "critique") /\ UNCHANGED <<committed, on, verdict>>
    BY <1>0, <2>1, <2>3 DEF Goto, InTransaction, LoopTypeOK, committed
  <2>4. QED
    BY <2>1, <2>2, <2>3
<1>3. CASE SaveStatus(r) \/ GenerateReport(r) \/ SelectNode(r) \/ MarkNode(r)
  <2>1. /\ pc[r] \in {"save", "report", "select", "mark"}
        /\ UNCHANGED <<session, on, verdict>>
        /\ \E l \in {"report", "select", "mark", "commit"} : Goto(r, l)
    BY <1>3 DEF SaveStatus, GenerateReport, SelectNode, MarkNode, committed
  <2>2. QED
    BY <1>0, <2>1 DEF Goto, InTransaction, LoopTypeOK
<1>4. CASE Commit(r)
  <2>1. /\ pc[r] = "commit" /\ on' = on /\ verdict' = verdict /\ pc'[r] = "ended"
        /\ \A q \in Runs \ {r} : pc'[q] = pc[q]
    BY <1>0, <1>4 DEF Commit, Goto, LoopTypeOK
  <2>2. session'[on[r]] = verdict[r] /\ \A s \in Sessions : session'[s] # session[s] => s = on[r]
    <3>1. CASE session[on[r]] # "running"
      BY <1>4, <3>1, CommitAgain
    <3>2. CASE session[on[r]] = "running"
      BY <1>0, <1>4, <3>2, CommitFirst DEF LoopTypeOK
    <3>3. QED
      BY <3>1, <3>2
  <2>3. QED
    BY <2>1, <2>2 DEF InTransaction
<1>5. QED
  BY <1>1, <1>2, <1>3, <1>4 DEF Work

LEMMA RaiseEffects ==
    ASSUME LoopIInv, NEW r \in Runs, Raise(r)
    PROVE  /\ pc[r] \in InTransaction /\ UNCHANGED <<on, session>> /\ pc'[r] = "ended"
           /\ verdict'[r] = IF pc[r] \in Returned THEN verdict[r] ELSE "failed"
           /\ \A q \in Runs \ {r} : pc'[q] = pc[q] /\ verdict'[q] = verdict[q]
BY DEF Raise, RollBack, Goto, committed, LoopIInv, LoopTypeOK

LEMMA DieEffects ==
    ASSUME LoopIInv, NEW r \in Runs, Die(r)
    PROVE  /\ pc[r] \in InTransaction /\ UNCHANGED <<on, session, verdict>> /\ pc'[r] = "dead"
           /\ \A q \in Runs \ {r} : pc'[q] = pc[q]
BY DEF Die, Goto, committed, LoopIInv, LoopTypeOK

LEMMA BeginEffects ==
    ASSUME LoopIInv, NEW r \in Runs, NEW s \in Sessions, Begin(r, s)
    PROVE  /\ pc[r] = "idle" /\ pc'[r] \in InTransaction /\ on'[r] = s /\ UNCHANGED session
           /\ \A q \in Runs \ {r} : pc'[q] = pc[q] /\ on'[q] = on[q] /\ verdict'[q] = verdict[q]
BY DEF Begin, Goto, committed, InTransaction, LoopIInv, LoopTypeOK

\* A step of the runtime is a step of each part, or leaves it alone.
LEMMA PartsStep ==
    ASSUME RuntimeInv, [Next]_vars
    PROVE  [SchedNext]_schedVars /\ [LoopNext]_loopVars
<1>1. ASSUME NEW s \in Sessions, NEW o \in Orgs, NEW r \in Priorities, RunSession(s, o, r)
      PROVE  SchedNext /\ UNCHANGED loopVars
  BY <1>1 DEF RunSession, SchedNext
<1>2. ASSUME NEW from, NEW p, Send(from, p) \/ LoseSend(from, p)
      PROVE  UNCHANGED <<schedVars, loopVars>>
  BY <1>2 DEF Send, LoseSend
<1>3. ASSUME NEW w \in Dequeuers, Dequeue(w)
      PROVE  SchedNext /\ UNCHANGED loopVars
  BY <1>3 DEF Dequeue, SchedNext, DequeueStep
<1>4. ASSUME NEW r \in Runs, NEW p \in Procs, Receive(r, p)
      PROVE  UNCHANGED schedVars /\ LoopNext
  BY <1>4 DEF Receive, LoopNext, RuntimeInv, BrokerTypes
<1>5. ASSUME NEW r \in Runs, Step(r) \/ RunRaises(r) \/ WorkerDies(r)
      PROVE  UNCHANGED schedVars /\ LoopNext
  BY <1>5 DEF Step, RunRaises, WorkerDies, LoopNext
<1>6. ASSUME NEW r \in Runs, Finalize(r)
      PROVE  SchedNext /\ UNCHANGED loopVars
  <2>1. job[r] \in Procs
    BY <1>6, SchedulerAssumption DEF Finalize, RuntimeInv, BrokerTypes, TasksInv, Procs
  <2>2. verdict[r] \in TerminalStatus
    BY DEF RuntimeInv, LoopIInv, LoopTypeOK, TerminalStatus
  <2>3. QED
    BY <1>6, <2>1, <2>2 DEF Finalize, SchedNext
<1>7. ASSUME NEW r \in Runs, LoseFinalize(r) \/ Redeliver(r)
      PROVE  UNCHANGED <<schedVars, loopVars>>
  BY <1>7 DEF LoseFinalize, Redeliver
<1>8. CASE UNCHANGED vars
  BY <1>8 DEF vars
<1>9. QED
  BY <1>1, <1>2, <1>3, <1>4, <1>5, <1>6, <1>7, <1>8 DEF Next

LEMMA PartsKept ==
    ASSUME RuntimeInv, [Next]_vars
    PROVE  RowInv' /\ LoopIInv'
BY PartsStep, NextRowInv, NextIInv DEF RuntimeInv

\* A session that is over keeps its verdict.
LEMMA VerdictsStay ==
    ASSUME RuntimeInv, [Next]_vars, NEW s \in Sessions, session[s] # "running"
    PROVE  session'[s] = session[s]
BY PartsStep, OnlyCommits, CommitFinal DEF RuntimeInv, committed

\* A step that leaves the runs and sessions alone, and the statuses of the
\* processes that were finalized.
LEMMA NoRunMoves ==
    ASSUME RuntimeInv, UNCHANGED <<pc, on, verdict, session, late, closed, job>>, lost <= lost',
           \A r \in closed : lost = 0 => status'[job[r]] = status[job[r]]
    PROVE  EndsTold' /\ VerdictsReached' /\ LastWord'
<1>1. EndsTold' /\ VerdictsReached'
  BY DEF RuntimeInv, EndsTold, VerdictsReached
<1>2. lost' = 0 => lost = 0
  BY RuntimeAssumption DEF RuntimeInv, BrokerTypes
<1>3. LastWord'
  BY <1>2 DEF RuntimeInv, LastWord
<1>4. QED
  BY <1>1, <1>3

\* A step of a run that has not ended.
LEMMA OneRunMoves ==
    ASSUME RuntimeInv, [Next]_vars, LoopTypeOK', NEW r \in Runs, pc[r] # "ended",
           UNCHANGED <<closed, status>>, late <= late', late' \in Nat, lost <= lost',
           \A q \in Runs \ {r} : /\ pc'[q] = pc[q] /\ verdict'[q] = verdict[q]
                                  /\ on'[q] = on[q] /\ job'[q] = job[q],
           pc'[r] = "ended" /\ verdict'[r] = "succeeded" =>
              late' # 0 \/ session'[on'[r]] = "succeeded",
           \A s \in Sessions : session'[s] # session[s] =>
              s = on'[r] /\ pc'[r] = "ended" /\ verdict'[r] = session'[s]
    PROVE  EndsTold' /\ VerdictsReached' /\ LastWord'
<1>1. /\ late' = 0 => late = 0
      /\ lost' = 0 => lost = 0
  BY RuntimeAssumption DEF RuntimeInv, BrokerTypes
<1>2. EndsTold'
  <2>1. ASSUME NEW q \in Runs, late' = 0, pc'[q] = "ended", verdict'[q] = "succeeded"
        PROVE  session'[on'[q]] = "succeeded"
    <3>1. CASE q = r
      BY <2>1, <3>1
    <3>2. CASE q # r
      <4>1. session[on[q]] = "succeeded" /\ on[q] \in Sessions
        BY <1>1, <2>1, <3>2 DEF RuntimeInv, EndsTold, LoopIInv, LoopTypeOK
      <4>2. QED
        BY <3>2, <4>1, VerdictsStay
    <3>3. QED
      BY <3>1, <3>2
  <2>2. QED
    BY <2>1 DEF EndsTold
<1>3. VerdictsReached'
  <2>1. ASSUME NEW s \in Sessions, session'[s] # "running"
        PROVE  \E q \in Runs : on'[q] = s /\ pc'[q] = "ended" /\ verdict'[q] = session'[s]
    <3>1. CASE session'[s] # session[s]
      BY <3>1
    <3>2. CASE session'[s] = session[s]
      <4>1. PICK q \in Runs : on[q] = s /\ pc[q] = "ended" /\ verdict[q] = session[s]
        BY <2>1, <3>2 DEF RuntimeInv, VerdictsReached
      <4>2. QED
        BY <3>2, <4>1
    <3>3. QED
      BY <3>1, <3>2
  <2>2. QED
    BY <2>1 DEF VerdictsReached
<1>4. r \notin closed /\ closed \subseteq Runs
  BY DEF RuntimeInv, TasksInv, BrokerTypes
<1>5. LastWord'
  BY <1>1, <1>4 DEF RuntimeInv, LastWord
<1>6. QED
  BY <1>2, <1>3, <1>5

LEMMA RunSessionStep ==
    ASSUME RuntimeInv, NEW s \in Sessions, NEW o \in Orgs, NEW r \in Priorities, RunSession(s, o, r)
    PROVE  BrokerTypes' /\ TasksInv' /\ EndsTold' /\ VerdictsReached' /\ LastWord'
<1> DEFINE p == created + 1
<1>1. /\ p \in Procs /\ created \in Nat /\ created' = p
      /\ \A q \in Procs : q # p => status'[q] = status[q] /\ sessOf'[q] = sessOf[q]
  BY SchedulerAssumption DEF RunSession, Enqueue, Procs, RuntimeInv, RowInv, SchedTypeOK, BrokerTypes
<1>2. /\ UNCHANGED <<pc, on, verdict, session, queue, job, closed, redelivered, lost, late>>
      /\ owed' = owed \cup {<<"request", p>>} /\ sessOf' = [sessOf EXCEPT ![p] = s]
  BY DEF RunSession, loopVars, committed, locals, faultVars
<1>3. BrokerTypes'
  BY <1>1, <1>2 DEF RuntimeInv, BrokerTypes, From
<1>4. \A q \in Runs : job[q] # 0 => job[q] \in Procs /\ job[q] # p
  BY <1>1 DEF RuntimeInv, BrokerTypes, TasksInv, Procs
<1>5. TasksInv'
  <2>1. \A x \in owed : x[2] <= created /\ x[2] \in Procs
    BY DEF RuntimeInv, TasksInv, BrokerTypes
  <2>2. \A x \in owed' : x[2] <= created'
    BY <1>1, <1>2, <2>1 DEF Procs
  <2>3. \A q \in Procs : queue'[q] > 0 => q <= created'
    BY <1>1, <1>2 DEF RuntimeInv, TasksInv, Procs
  <2>4. \A q \in Procs : <<"dequeue", q>> \in owed' => status'[q] # "queued"
    <3>1. \A q \in Procs : <<"dequeue", q>> \in owed' => <<"dequeue", q>> \in owed /\ q # p
      BY <1>1, <1>2, <2>1
    <3>2. QED
      BY <1>1, <3>1 DEF RuntimeInv, TasksInv
  <2>5. ASSUME NEW q \in Runs
        PROVE  /\ pc'[q] = "idle" <=> job'[q] = 0
               /\ job'[q] # 0 => job'[q] <= created' /\ on'[q] = sessOf'[job'[q]]
               /\ q \in closed' => pc'[q] = "ended"
    BY <1>1, <1>2, <1>4 DEF RuntimeInv, TasksInv, Procs
  <2>6. QED
    BY <2>2, <2>3, <2>4, <2>5 DEF TasksInv
<1>6. \A q \in closed : status'[job[q]] = status[job[q]]
  BY <1>1, <1>4 DEF RuntimeInv, TasksInv, BrokerTypes
<1>7. QED
  BY <1>2, <1>3, <1>5, <1>6, NoRunMoves, RuntimeAssumption DEF RuntimeInv, BrokerTypes

LEMMA SendStep ==
    ASSUME RuntimeInv, NEW from \in From, NEW p \in Procs, Send(from, p) \/ LoseSend(from, p)
    PROVE  BrokerTypes' /\ TasksInv' /\ EndsTold' /\ VerdictsReached' /\ LastWord'
<1>1. /\ UNCHANGED <<pc, on, verdict, session, created, status, sessOf, job, closed, redelivered, late>>
      /\ <<from, p>> \in owed /\ owed' = owed \ {<<from, p>>}
      /\ queue' \in {queue, [queue EXCEPT ![p] = @ + 1]}
      /\ lost' \in 0..MaxLost /\ lost <= lost'
  BY RuntimeAssumption DEF Send, LoseSend, loopVars, committed, locals, schedVars, faultVars, RuntimeInv, BrokerTypes
<1>2. BrokerTypes'
  BY <1>1 DEF RuntimeInv, BrokerTypes
<1>3. p <= created
  BY <1>1 DEF RuntimeInv, TasksInv
<1>4. \A q \in Procs : queue'[q] > 0 => q <= created
  BY <1>1, <1>3 DEF RuntimeInv, TasksInv, BrokerTypes
<1>5. TasksInv'
  BY <1>1, <1>4 DEF RuntimeInv, TasksInv
<1>6. QED
  BY <1>1, <1>2, <1>5, NoRunMoves

LEMMA DequeueStepKept ==
    ASSUME RuntimeInv, NEW w \in Dequeuers, Dequeue(w)
    PROVE  BrokerTypes' /\ TasksInv' /\ EndsTold' /\ VerdictsReached' /\ LastWord'
<1>1. /\ UNCHANGED <<pc, on, verdict, session, sessOf, queue, job, closed, redelivered, lost, late>>
  BY DEF Dequeue, loopVars, committed, locals, faultVars
<1>2. CASE UNCHANGED <<created, status, owed>>
  <2>1. BrokerTypes' /\ TasksInv'
    BY <1>1, <1>2 DEF RuntimeInv, BrokerTypes, TasksInv
  <2>2. QED
    BY <1>1, <1>2, <2>1, NoRunMoves, RuntimeAssumption DEF RuntimeInv, BrokerTypes
<1>3. CASE CommitDequeue(w) /\ owed' = owed \cup {<<"dequeue", dq[w].proc>>}
  <2> DEFINE p == dq[w].proc
  <2>1. /\ p \in Procs /\ status[p] = "queued" /\ p <= created
        /\ created' = created /\ status' = [status EXCEPT ![p] = "running"]
    BY <1>3, HeldProcess DEF RuntimeInv, RowInv, PickIsFresh, Holds, CommitDequeue
  <2>2. \A q \in Procs : status'[q] = IF q = p THEN "running" ELSE status[q]
    BY <2>1 DEF RuntimeInv, RowInv, SchedTypeOK
  <2>3. BrokerTypes'
    BY <1>1, <1>3, <2>1 DEF RuntimeInv, BrokerTypes, From
  <2>4. TasksInv'
    BY <1>1, <1>3, <2>1, <2>2 DEF RuntimeInv, TasksInv
  <2>5. ASSUME NEW r \in closed, lost = 0
        PROVE  status'[job[r]] = status[job[r]]
    <3>1. PICK q \in closed : job[q] = job[r] /\ status[job[r]] = verdict[q]
      BY <2>5 DEF RuntimeInv, LastWord
    <3>2. status[job[r]] \in {"succeeded", "failed"}
      BY <3>1 DEF RuntimeInv, BrokerTypes, LoopIInv, LoopTypeOK
    <3>3. QED
      BY <2>1, <3>2 DEF RuntimeInv, RowInv, SchedTypeOK
  <2>6. QED
    BY <1>1, <2>3, <2>4, <2>5, NoRunMoves, RuntimeAssumption DEF RuntimeInv, BrokerTypes
<1>4. QED
  BY <1>2, <1>3 DEF Dequeue, CountRunning, Pick, AbortDequeue, rowVars

LEMMA ReceiveStep ==
    ASSUME RuntimeInv, [Next]_vars, NEW r \in Runs, NEW p \in Procs, Receive(r, p)
    PROVE  BrokerTypes' /\ TasksInv' /\ EndsTold' /\ VerdictsReached' /\ LastWord'
<1>1. /\ UNCHANGED <<created, status, sessOf, owed, closed, redelivered, lost, late>>
      /\ queue[p] > 0 /\ queue' = [queue EXCEPT ![p] = @ - 1]
      /\ job' = [job EXCEPT ![r] = p]
      /\ sessOf[p] \in Sessions /\ Begin(r, sessOf[p])
  BY DEF Receive, schedVars, faultVars, RuntimeInv, BrokerTypes
<1>2. /\ pc[r] = "idle" /\ pc'[r] \in InTransaction /\ on'[r] = sessOf[p] /\ UNCHANGED session
      /\ \A q \in Runs \ {r} : pc'[q] = pc[q] /\ on'[q] = on[q] /\ verdict'[q] = verdict[q]
  BY <1>1, BeginEffects DEF RuntimeInv
<1>3. /\ p \in 0..NumProcs /\ p # 0 /\ p <= created
      /\ job'[r] = p /\ \A q \in Runs \ {r} : job'[q] = job[q]
  BY <1>1, SchedulerAssumption DEF RuntimeInv, BrokerTypes, TasksInv, Procs
<1>4. queue' \in [Procs -> Nat] /\ \A q \in Procs : queue'[q] <= queue[q]
  BY <1>1 DEF RuntimeInv, BrokerTypes
<1>5. BrokerTypes'
  BY <1>1, <1>3, <1>4 DEF RuntimeInv, BrokerTypes
<1>6. TasksInv'
  <2>1. \A q \in Procs : queue'[q] > 0 => q <= created
    BY <1>4 DEF RuntimeInv, BrokerTypes, TasksInv
  <2>2. r \notin closed
    BY <1>2 DEF RuntimeInv, TasksInv
  <2>3. QED
    BY <1>1, <1>2, <1>3, <2>1, <2>2 DEF RuntimeInv, TasksInv, InTransaction
<1>7. EndsTold' /\ VerdictsReached' /\ LastWord'
  <2>1. LoopTypeOK'
    BY PartsKept DEF LoopIInv
  <2>2. late <= late' /\ late' \in Nat /\ lost <= lost'
    BY <1>1, RuntimeAssumption DEF RuntimeInv, BrokerTypes
  <2>3. QED
    BY <1>1, <1>2, <1>3, <2>1, <2>2, OneRunMoves DEF InTransaction
<1>8. QED
  BY <1>5, <1>6, <1>7

\* A run at work goes on, ends or dies.
LEMMA RunStep ==
    ASSUME RuntimeInv, [Next]_vars, NEW r \in Runs, Step(r) \/ RunRaises(r) \/ WorkerDies(r)
    PROVE  BrokerTypes' /\ TasksInv' /\ EndsTold' /\ VerdictsReached' /\ LastWord'
<1>1. /\ UNCHANGED <<created, status, sessOf, owed, closed, job>>
      /\ queue' \in {queue, [queue EXCEPT ![job[r]] = @ + 1]}
  BY DEF Step, RunRaises, WorkerDies, schedVars, brokerVars, faultVars
<1>2. /\ redelivered' \in 0..MaxRedeliveries /\ lost' \in 0..MaxLost /\ late' \in 0..MaxLate
      /\ lost <= lost' /\ late <= late'
      /\ late' = late \/ late' = late + 1
  BY RuntimeAssumption DEF Step, RunRaises, WorkerDies, schedVars, brokerVars, faultVars, RuntimeInv, BrokerTypes
<1>3. /\ pc[r] \in InTransaction /\ on' = on
      /\ pc'[r] \in InTransaction \cup {"ended", "dead"}
      /\ \A q \in Runs \ {r} : pc'[q] = pc[q] /\ verdict'[q] = verdict[q]
  BY WorkEffects, RaiseEffects, DieEffects DEF Step, RunRaises, WorkerDies, RuntimeInv
<1>4. job[r] \in Procs /\ job[r] <= created /\ r \notin closed
  BY <1>3, SchedulerAssumption DEF RuntimeInv, BrokerTypes, TasksInv, InTransaction, Procs
<1>5. queue' \in [Procs -> Nat] /\ \A q \in Procs : queue'[q] > 0 => q <= created
  BY <1>1, <1>4 DEF RuntimeInv, BrokerTypes, TasksInv
<1>6. BrokerTypes'
  BY <1>1, <1>2, <1>5 DEF RuntimeInv, BrokerTypes
<1>7. TasksInv'
  BY <1>1, <1>3, <1>4, <1>5 DEF RuntimeInv, TasksInv, InTransaction
<1>8. /\ pc'[r] = "ended" /\ verdict'[r] = "succeeded" => late' # 0 \/ session'[on[r]] = "succeeded"
      /\ \A s \in Sessions : session'[s] # session[s] =>
            s = on[r] /\ pc'[r] = "ended" /\ verdict'[r] = session'[s]
  <2>1. CASE Step(r)
    BY <2>1, WorkEffects DEF Step, RuntimeInv, InTransaction
  <2>2. CASE RunRaises(r)
    <3>1. pc[r] \in Returned => late' # 0
      BY <2>2, RuntimeAssumption DEF RunRaises, RuntimeInv, BrokerTypes
    <3>2. QED
      BY <2>2, <3>1, RaiseEffects DEF RunRaises, RuntimeInv
  <2>3. CASE WorkerDies(r)
    BY <2>3, DieEffects DEF WorkerDies, RuntimeInv
  <2>4. QED
    BY <2>1, <2>2, <2>3
<1>9. EndsTold' /\ VerdictsReached' /\ LastWord'
  <2>1. LoopTypeOK' /\ late' \in Nat
    BY <1>2, PartsKept, RuntimeAssumption DEF LoopIInv
  <2>2. QED
    BY <1>1, <1>2, <1>3, <1>8, <2>1, OneRunMoves DEF InTransaction
<1>10. QED
  BY <1>6, <1>7, <1>9

LEMMA FinalizeStep ==
    ASSUME RuntimeInv, NEW r \in Runs, Finalize(r) \/ LoseFinalize(r) \/ Redeliver(r)
    PROVE  BrokerTypes' /\ TasksInv' /\ EndsTold' /\ VerdictsReached' /\ LastWord'
<1>1. UNCHANGED <<pc, on, verdict, session, created, sessOf, owed, job, late>>
  BY DEF Finalize, LoseFinalize, Redeliver, MarkTerminal, loopVars, committed, locals, schedVars, brokerVars, faultVars
<1>2. job[r] \in Procs /\ job[r] <= created
  BY SchedulerAssumption
     DEF RuntimeInv, BrokerTypes, TasksInv, Finalize, LoseFinalize, Redeliver, Unfinished, Procs
<1>3. /\ redelivered' \in 0..MaxRedeliveries /\ lost' \in 0..MaxLost /\ lost <= lost'
      /\ closed' \subseteq Runs
  BY RuntimeAssumption
     DEF Finalize, LoseFinalize, Redeliver, schedVars, brokerVars, faultVars, RuntimeInv, BrokerTypes
<1>4. queue' \in {queue, [queue EXCEPT ![job[r]] = @ + 1]}
  BY DEF Finalize, LoseFinalize, Redeliver, brokerVars
<1>5. BrokerTypes'
  BY <1>1, <1>2, <1>3, <1>4 DEF RuntimeInv, BrokerTypes
<1>6. \/ closed' = closed
      \/ closed' = closed \cup {r} /\ pc[r] = "ended"
  BY DEF Finalize, LoseFinalize, Redeliver
<1>7. verdict[r] \in {"succeeded", "failed"}
  BY DEF RuntimeInv, LoopIInv, LoopTypeOK
<1>8. \/ status' = status
      \/ Finalize(r) /\ \A p \in Procs : status'[p] = IF p = job[r] THEN verdict[r] ELSE status[p]
  BY DEF Finalize, LoseFinalize, Redeliver, MarkTerminal, schedVars, RuntimeInv, RowInv, SchedTypeOK
<1>9. TasksInv'
  <2>1. \A p \in Procs : queue'[p] > 0 => p <= created
    BY <1>2, <1>4 DEF RuntimeInv, BrokerTypes, TasksInv
  <2>2. \A p \in Procs : <<"dequeue", p>> \in owed => status'[p] # "queued"
    BY <1>7, <1>8 DEF RuntimeInv, TasksInv
  <2>3. QED
    BY <1>1, <1>6, <2>1, <2>2 DEF RuntimeInv, TasksInv
<1>10. EndsTold' /\ VerdictsReached'
  BY <1>1 DEF RuntimeInv, EndsTold, VerdictsReached
<1>11. LastWord'
  <2>1. CASE Finalize(r)
    <3>1. ASSUME NEW q \in closed \cup {r}, lost = 0
          PROVE  \E f \in closed \cup {r} : job[f] = job[q] /\ status'[job[q]] = verdict[f]
      <4>1. CASE job[q] = job[r]
        <5>1. status'[job[r]] = verdict[r]
          BY <1>2, <2>1 DEF Finalize, MarkTerminal, RuntimeInv, RowInv, SchedTypeOK
        <5>2. QED
          BY <4>1, <5>1
      <4>2. CASE job[q] # job[r]
        <5>1. q \in closed /\ q \in Runs
          BY <4>2 DEF RuntimeInv, BrokerTypes
        <5>2. job[q] \in Procs
          BY <5>1, SchedulerAssumption DEF RuntimeInv, BrokerTypes, TasksInv, Procs
        <5>3. status'[job[q]] = status[job[q]]
          BY <2>1, <4>2, <5>2 DEF Finalize, MarkTerminal, RuntimeInv, RowInv, SchedTypeOK
        <5>4. QED
          BY <3>1, <5>1, <5>3 DEF RuntimeInv, LastWord
      <4>3. QED
        BY <4>1, <4>2
    <3>2. closed' = closed \cup {r} /\ lost' = lost
      BY <2>1 DEF Finalize, faultVars
    <3>3. QED
      BY <1>1, <3>1, <3>2 DEF LastWord
  <2>2. CASE LoseFinalize(r)
    <3>1. lost' # 0
      BY <2>2, RuntimeAssumption DEF LoseFinalize, RuntimeInv, BrokerTypes
    <3>2. QED
      BY <3>1 DEF LastWord
  <2>3. CASE Redeliver(r)
    BY <1>1, <2>3 DEF Redeliver, schedVars, RuntimeInv, LastWord
  <2>4. QED
    BY <2>1, <2>2, <2>3
<1>12. QED
  BY <1>5, <1>9, <1>10, <1>11

LEMMA NextRuntimeInv == RuntimeInv /\ [Next]_vars => RuntimeInv'
<1> SUFFICES ASSUME RuntimeInv, [Next]_vars PROVE RuntimeInv'
  OBVIOUS
<1> DEFINE Kept == BrokerTypes' /\ TasksInv' /\ EndsTold' /\ VerdictsReached' /\ LastWord'
<1>1. CASE UNCHANGED vars
  <2>1. UNCHANGED <<pc, on, verdict, session, created, status, sessOf, owed, queue, job, closed,
                    redelivered, lost, late>>
    BY <1>1 DEF vars, loopVars, committed, locals, schedVars, brokerVars, faultVars
  <2>2. Kept
    BY <2>1 DEF RuntimeInv, BrokerTypes, TasksInv, EndsTold, VerdictsReached, LastWord
  <2>3. QED
    BY <2>2, PartsKept DEF RuntimeInv
<1>2. CASE Next
  <2>1. Kept
    BY <1>2, RunSessionStep, SendStep, DequeueStepKept, ReceiveStep, RunStep, FinalizeStep DEF Next, From
  <2>2. QED
    BY <2>1, PartsKept DEF RuntimeInv
<1>3. QED
  BY <1>1, <1>2

\* The invariant holds in every reachable state of the runtime.
LEMMA RuntimeInvariant == Spec => []RuntimeInv
BY InitRuntimeInv, NextRuntimeInv, PTL DEF Spec

-----------------------------------------------------------------------------
(* AgentRuntime: how many tasks a process has.                             *)

\* The tasks of a process that can still reach an end, and all that were ever
\* handed out and not lost on their way to a worker.
Live(p) == Cardinality(Owed(p)) + queue[p] + Cardinality(AtWork(p))
Handed(p) == Cardinality(Owed(p)) + queue[p] + Cardinality(Jobs(p))

\* The tasks and the runs of a process are finite in number, before a step and
\* after it.
LEMMA TasksAreFinite ==
    ASSUME NEW p
    PROVE  /\ IsFiniteSet(Owed(p)) /\ Cardinality(Owed(p)) \in Nat
           /\ IsFiniteSet(Jobs(p)) /\ Cardinality(Jobs(p)) \in Nat
           /\ IsFiniteSet(AtWork(p)) /\ Cardinality(AtWork(p)) \in Nat
           /\ IsFiniteSet(Owed(p)') /\ Cardinality(Owed(p)') \in Nat
           /\ IsFiniteSet(Jobs(p)') /\ Cardinality(Jobs(p)') \in Nat
           /\ IsFiniteSet(AtWork(p)') /\ Cardinality(AtWork(p)') \in Nat
<1>1. IsFiniteSet(From)
  <2>1. From = {"request"} \cup {"dequeue"}
    BY DEF From
  <2>2. QED
    BY <2>1, FS_Singleton, FS_Union
<1>2. /\ Owed(p) \subseteq From /\ Owed(p)' \subseteq From
      /\ Jobs(p) \subseteq Runs /\ Jobs(p)' \subseteq Runs
      /\ AtWork(p) \subseteq Runs /\ AtWork(p)' \subseteq Runs
  BY DEF Owed, Jobs, AtWork
<1>3. /\ IsFiniteSet(Owed(p)) /\ IsFiniteSet(Jobs(p)) /\ IsFiniteSet(AtWork(p))
      /\ IsFiniteSet(Owed(p)') /\ IsFiniteSet(Jobs(p)') /\ IsFiniteSet(AtWork(p)')
  BY <1>1, <1>2, RuntimeAssumption, FS_Subset
<1>4. QED
  BY <1>3, FS_CardinalityType

\* Both counts are natural numbers as long as the broker's queue is.
LEMMA CountsAreNumbers ==
    ASSUME NEW p \in Procs
    PROVE  /\ BrokerTypes => Live(p) \in Nat /\ Handed(p) \in Nat
           /\ BrokerTypes' => Live(p)' \in Nat /\ Handed(p)' \in Nat
BY TasksAreFinite DEF BrokerTypes, Live, Handed

\* What leaves a process's tasks alone leaves its counts alone.
LEMMA SameCounts ==
    ASSUME NEW p, Owed(p)' = Owed(p), queue'[p] = queue[p],
           Jobs(p)' = Jobs(p), AtWork(p)' = AtWork(p)
    PROVE  Live(p)' = Live(p) /\ Handed(p)' = Handed(p)
BY DEF Live, Handed

\* The request of a new process is its first task.
LEMMA RunSessionCounts ==
    ASSUME RuntimeInv, NEW s \in Sessions, NEW o \in Orgs, NEW r \in Priorities, RunSession(s, o, r)
    PROVE  \E p \in Procs :
              /\ p = created + 1
              /\ Live(p)' = 1 /\ Handed(p)' = 1
              /\ \A q \in Procs \ {p} : Live(q)' = Live(q) /\ Handed(q)' = Handed(q)
<1>0. PICK p \in Procs : p = created + 1
  BY SchedulerAssumption DEF RunSession, Enqueue, RuntimeInv, RowInv, SchedTypeOK, Procs
<1>1. created \in Nat /\ p = created + 1
  BY <1>0, SchedulerAssumption DEF RuntimeInv, RowInv, SchedTypeOK
<1>2. /\ owed' = owed \cup {<<"request", p>>}
      /\ UNCHANGED <<queue, job, closed, pc>>
  BY <1>0 DEF RunSession, loopVars, locals
<1>3. \A q : Jobs(q)' = Jobs(q) /\ AtWork(q)' = AtWork(q)
  BY <1>2 DEF Jobs, AtWork, Unfinished
<1>4. Owed(p)' = {"request"} /\ queue[p] = 0 /\ Jobs(p) = {} /\ AtWork(p) = {}
  <2>1. \A x \in owed : x[2] # p
    BY <1>1 DEF RuntimeInv, TasksInv
  <2>2. \A from \in From : <<from, p>> \notin owed
    BY <2>1
  <2>3. Owed(p)' = {"request"}
    BY <1>2, <2>2 DEF Owed, From
  <2>4. queue[p] = 0
    BY <1>1 DEF RuntimeInv, TasksInv, BrokerTypes
  <2>5. \A q \in Runs : job[q] # p
    BY <1>1, SchedulerAssumption DEF RuntimeInv, TasksInv, BrokerTypes, Procs
  <2>6. QED
    BY <2>3, <2>4, <2>5 DEF Jobs, AtWork
<1>5. Live(p)' = 1 /\ Handed(p)' = 1
  <2>1. Cardinality({"request"}) = 1 /\ Cardinality({}) = 0
    BY FS_Singleton, FS_EmptySet
  <2>2. QED
    BY <1>2, <1>3, <1>4, <2>1 DEF Live, Handed
<1>6. ASSUME NEW q \in Procs \ {p}
      PROVE  Live(q)' = Live(q) /\ Handed(q)' = Handed(q)
  <2>1. Owed(q)' = Owed(q)
    BY <1>2, <1>6 DEF Owed
  <2>2. QED
    BY <1>2, <1>3, <2>1, SameCounts
<1>7. QED
  BY <1>1, <1>5, <1>6

\* A task that is sent is one task fewer to send and one more in the broker; a
\* task that is not sent is one fewer.
LEMMA SendCounts ==
    ASSUME RuntimeInv, NEW from \in From, NEW p \in Procs, Send(from, p) \/ LoseSend(from, p)
    PROVE  /\ \A q \in Procs \ {p} : Live(q)' = Live(q) /\ Handed(q)' = Handed(q)
           /\ Send(from, p) => Live(p)' = Live(p) /\ Handed(p)' = Handed(p)
           /\ LoseSend(from, p) => Live(p)' = Live(p) - 1 /\ Handed(p)' = Handed(p) - 1
<1>1. /\ <<from, p>> \in owed /\ owed' = owed \ {<<from, p>>}
      /\ UNCHANGED <<job, closed, pc>>
      /\ Send(from, p) => queue' = [queue EXCEPT ![p] = @ + 1]
      /\ LoseSend(from, p) => UNCHANGED queue
  BY DEF Send, LoseSend, loopVars, locals
<1>2. \A q : Jobs(q)' = Jobs(q) /\ AtWork(q)' = AtWork(q)
  BY <1>1 DEF Jobs, AtWork, Unfinished
<1>3. ASSUME NEW q \in Procs \ {p}
      PROVE  Live(q)' = Live(q) /\ Handed(q)' = Handed(q)
  <2>1. Owed(q)' = Owed(q)
    BY <1>1, <1>3 DEF Owed
  <2>2. queue'[q] = queue[q]
    BY <1>1, <1>3 DEF RuntimeInv, BrokerTypes
  <2>3. QED
    BY <1>2, <2>1, <2>2, SameCounts
<1>4. Owed(p)' = Owed(p) \ {from} /\ from \in Owed(p)
  BY <1>1 DEF Owed
<1>5. Cardinality(Owed(p)') = Cardinality(Owed(p)) - 1
  BY <1>4, TasksAreFinite, FS_RemoveElement
<1>6. /\ Send(from, p) => queue'[p] = queue[p] + 1
      /\ LoseSend(from, p) => queue'[p] = queue[p]
      /\ queue[p] \in Nat
  BY <1>1 DEF RuntimeInv, BrokerTypes
<1>7. QED
  BY <1>2, <1>3, <1>5, <1>6, TasksAreFinite DEF Live, Handed

\* A dequeue that commits owes a second task.
LEMMA DequeueCounts ==
    ASSUME RuntimeInv, NEW w \in Dequeuers, Dequeue(w)
    PROVE  \/ UNCHANGED <<status, attempts>>
              /\ \A q \in Procs : Live(q)' = Live(q) /\ Handed(q)' = Handed(q)
           \/ \E p \in Procs :
                /\ status[p] = "queued" /\ status' = [status EXCEPT ![p] = "running"]
                /\ attempts' = [attempts EXCEPT ![p] = @ + 1]
                /\ Live(p)' = Live(p) + 1 /\ Handed(p)' = Handed(p) + 1
                /\ \A q \in Procs \ {p} : Live(q)' = Live(q) /\ Handed(q)' = Handed(q)
<1>1. UNCHANGED <<queue, job, closed, pc>>
  BY DEF Dequeue, loopVars, locals
<1>2. \A q : Jobs(q)' = Jobs(q) /\ AtWork(q)' = AtWork(q)
  BY <1>1 DEF Jobs, AtWork, Unfinished
<1>3. CASE UNCHANGED <<status, attempts, owed>>
  <2>1. \A q : Owed(q)' = Owed(q)
    BY <1>3 DEF Owed
  <2>2. QED
    BY <1>1, <1>2, <1>3, <2>1, SameCounts
<1>4. CASE CommitDequeue(w) /\ owed' = owed \cup {<<"dequeue", dq[w].proc>>}
  <2>0. PICK p \in Procs : p = dq[w].proc
    BY <1>4, HeldProcess DEF RuntimeInv, RowInv, CommitDequeue
  <2>1. /\ status[p] = "queued" /\ attempts[p] = dq[w].seen
        /\ owed' = owed \cup {<<"dequeue", p>>}
        /\ status' = [status EXCEPT ![p] = "running"]
        /\ attempts' = [attempts EXCEPT ![p] = @ + 1]
    BY <1>4, <2>0, HeldProcess DEF RuntimeInv, RowInv, PickIsFresh, Holds, CommitDequeue
  <2>2. ASSUME NEW q \in Procs \ {p}
        PROVE  Live(q)' = Live(q) /\ Handed(q)' = Handed(q)
    <3>1. Owed(q)' = Owed(q)
      BY <2>1, <2>2 DEF Owed
    <3>2. QED
      BY <1>1, <1>2, <3>1, SameCounts
  <2>3. Owed(p)' = Owed(p) \cup {"dequeue"} /\ "dequeue" \notin Owed(p)
    BY <2>1 DEF Owed, From, RuntimeInv, TasksInv
  <2>4. Cardinality(Owed(p)') = Cardinality(Owed(p)) + 1
    BY <2>3, TasksAreFinite, FS_AddElement
  <2>5. queue'[p] = queue[p] /\ queue[p] \in Nat
    BY <1>1, <2>1 DEF RuntimeInv, BrokerTypes
  <2>6. Live(p)' = Live(p) + 1 /\ Handed(p)' = Handed(p) + 1
    BY <1>2, <2>4, <2>5, TasksAreFinite DEF Live, Handed
  <2>7. QED
    BY <2>1, <2>2, <2>6
<1>5. QED
  BY <1>3, <1>4 DEF Dequeue, CountRunning, Pick, AbortDequeue, rowVars

\* A run that receives a task takes it from the broker.
LEMMA ReceiveCounts ==
    ASSUME RuntimeInv, NEW r \in Runs, NEW p \in Procs, Receive(r, p)
    PROVE  \A q \in Procs : Live(q)' = Live(q) /\ Handed(q)' = Handed(q)
<1>1. /\ UNCHANGED <<owed, closed>>
      /\ queue[p] > 0 /\ queue' = [queue EXCEPT ![p] = @ - 1]
      /\ job' = [job EXCEPT ![r] = p] /\ sessOf[p] \in Sessions /\ Begin(r, sessOf[p])
  BY DEF Receive, RuntimeInv, BrokerTypes
<1>2. /\ pc[r] = "idle" /\ pc'[r] \in InTransaction
      /\ \A q \in Runs \ {r} : pc'[q] = pc[q]
  BY <1>1, BeginEffects DEF RuntimeInv
<1>3. /\ job[r] = 0 /\ r \notin closed /\ p # 0
      /\ job'[r] = p /\ \A q \in Runs \ {r} : job'[q] = job[q]
  BY <1>1, <1>2, SchedulerAssumption DEF RuntimeInv, TasksInv, BrokerTypes, Procs
<1>4. \A q : Owed(q)' = Owed(q)
  BY <1>1 DEF Owed
<1>5. ASSUME NEW q \in Procs \ {p}
      PROVE  Live(q)' = Live(q) /\ Handed(q)' = Handed(q)
  <2>1. Jobs(q)' = Jobs(q) /\ r \notin Jobs(q)
    BY <1>3, <1>5, SchedulerAssumption DEF Jobs, Procs
  <2>2. AtWork(q)' = AtWork(q)
    BY <1>1, <1>2, <1>3, <2>1 DEF AtWork, Jobs, Unfinished
  <2>3. queue'[q] = queue[q]
    BY <1>1, <1>5 DEF RuntimeInv, BrokerTypes
  <2>4. QED
    BY <1>4, <2>1, <2>2, <2>3, SameCounts
<1>6. Live(p)' = Live(p) /\ Handed(p)' = Handed(p)
  <2>1. Jobs(p)' = Jobs(p) \cup {r} /\ r \notin Jobs(p)
    BY <1>3 DEF Jobs
  <2>2. AtWork(p)' = AtWork(p) \cup {r} /\ r \notin AtWork(p)
    BY <1>1, <1>2, <1>3, <2>1 DEF AtWork, Jobs, Unfinished, InTransaction
  <2>3. /\ Cardinality(Jobs(p)') = Cardinality(Jobs(p)) + 1
        /\ Cardinality(AtWork(p)') = Cardinality(AtWork(p)) + 1
    BY <2>1, <2>2, TasksAreFinite, FS_AddElement
  <2>4. queue'[p] = queue[p] - 1 /\ queue[p] \in Nat
    BY <1>1 DEF RuntimeInv, BrokerTypes
  <2>5. QED
    BY <1>4, <2>3, <2>4, TasksAreFinite DEF Live, Handed
<1>7. QED
  BY <1>5, <1>6

\* A run at work that goes on, or ends, is at work until its finally block is
\* over.
LEMMA WorkCounts ==
    ASSUME RuntimeInv, NEW r \in Runs, Step(r) \/ RunRaises(r)
    PROVE  \A q \in Procs : Live(q)' = Live(q) /\ Handed(q)' = Handed(q)
<1>1. UNCHANGED <<owed, queue, job, closed>>
  BY DEF Step, RunRaises, brokerVars
<1>2. /\ pc[r] \in InTransaction /\ pc'[r] \in InTransaction \cup {"ended"}
      /\ \A q \in Runs \ {r} : pc'[q] = pc[q]
  BY WorkEffects, RaiseEffects DEF Step, RunRaises, RuntimeInv
<1>3. \A q \in Runs : pc'[q] = "dead" <=> pc[q] = "dead"
  BY <1>2 DEF InTransaction
<1>4. ASSUME NEW q \in Procs
      PROVE  Owed(q)' = Owed(q) /\ Jobs(q)' = Jobs(q) /\ AtWork(q)' = AtWork(q)
  BY <1>1, <1>3 DEF Owed, Jobs, AtWork, Unfinished
<1>5. QED
  BY <1>1, <1>4, SameCounts

\* Which runs of a process are at work, when one of them stops working.
LEMMA OneStops ==
    ASSUME RuntimeInv, NEW r \in Runs, NEW p \in Procs, p = job[r], Unfinished(r),
           UNCHANGED <<owed, job>>, ~Unfinished(r)',
           \A q \in Runs \ {r} : Unfinished(q)' <=> Unfinished(q)
    PROVE  /\ \A q \in Procs : Owed(q)' = Owed(q) /\ Jobs(q)' = Jobs(q)
           /\ \A q \in Procs \ {p} : AtWork(q)' = AtWork(q)
           /\ Cardinality(AtWork(p)') = Cardinality(AtWork(p)) - 1
<1>1. \A q \in Procs : Owed(q)' = Owed(q) /\ Jobs(q)' = Jobs(q)
  BY DEF Owed, Jobs
<1>2. ASSUME NEW q \in Procs \ {p} PROVE AtWork(q)' = AtWork(q)
  BY <1>1, <1>2 DEF AtWork, Jobs
<1>3. AtWork(p)' = AtWork(p) \ {r} /\ r \in AtWork(p)
  BY <1>1 DEF AtWork, Jobs
<1>4. QED
  BY <1>1, <1>2, <1>3, TasksAreFinite, FS_RemoveElement

\* The task of a run whose finally block is over is gone.
LEMMA FinishCounts ==
    ASSUME RuntimeInv, NEW r \in Runs, Finalize(r) \/ LoseFinalize(r)
    PROVE  /\ job[r] \in Procs
           /\ \A q \in Procs : /\ Handed(q)' = Handed(q)
                               /\ q # job[r] => Live(q)' = Live(q)
                               /\ q = job[r] => Live(q)' = Live(q) - 1
<1>1. /\ UNCHANGED <<owed, queue, job, pc>> /\ pc[r] = "ended" /\ r \notin closed
      /\ closed' = closed \cup {r}
  BY DEF Finalize, LoseFinalize, loopVars, locals, brokerVars
<1>2. PICK p \in Procs : p = job[r]
  BY <1>1, SchedulerAssumption DEF RuntimeInv, TasksInv, BrokerTypes, Procs
<1>3. Unfinished(r) /\ ~Unfinished(r)' /\ \A q \in Runs \ {r} : Unfinished(q)' <=> Unfinished(q)
  BY <1>1, <1>2, SchedulerAssumption DEF Unfinished, Procs
<1>4. /\ \A q \in Procs : Owed(q)' = Owed(q) /\ Jobs(q)' = Jobs(q)
      /\ \A q \in Procs \ {p} : AtWork(q)' = AtWork(q)
      /\ Cardinality(AtWork(p)') = Cardinality(AtWork(p)) - 1
  BY <1>1, <1>2, <1>3, OneStops
<1>5. \A q \in Procs : queue'[q] = queue[q] /\ queue[q] \in Nat
  BY <1>1 DEF RuntimeInv, BrokerTypes
<1>6. \A q \in Procs \ {p} : Live(q)' = Live(q) /\ Handed(q)' = Handed(q)
  BY <1>4, <1>5, SameCounts
<1>7. Live(p)' = Live(p) - 1 /\ Handed(p)' = Handed(p)
  BY <1>4, <1>5, TasksAreFinite DEF Live, Handed
<1>8. QED
  BY <1>2, <1>6, <1>7

\* A redelivery is one task more.
LEMMA RedeliverCounts ==
    ASSUME RuntimeInv, NEW r \in Runs, Redeliver(r)
    PROVE  \A q \in Procs : /\ q # job[r] => Live(q)' = Live(q) /\ Handed(q)' = Handed(q)
                            /\ q = job[r] => Live(q)' = Live(q) + 1 /\ Handed(q)' = Handed(q) + 1
<1>1. /\ UNCHANGED <<owed, job, closed, pc>> /\ queue' = [queue EXCEPT ![job[r]] = @ + 1]
  BY DEF Redeliver, loopVars, locals
<1>2. \A q \in Procs : Owed(q)' = Owed(q) /\ Jobs(q)' = Jobs(q) /\ AtWork(q)' = AtWork(q)
  BY <1>1 DEF Owed, Jobs, AtWork, Unfinished
<1>3. \A q \in Procs : queue[q] \in Nat /\ queue'[q] = IF q = job[r] THEN queue[q] + 1 ELSE queue[q]
  BY <1>1 DEF RuntimeInv, BrokerTypes
<1>4. QED
  BY <1>2, <1>3, TasksAreFinite DEF Live, Handed

\* The task of a dead worker is delivered again, or lost.
LEMMA DieCounts ==
    ASSUME RuntimeInv, NEW r \in Runs, WorkerDies(r)
    PROVE  \/ /\ redelivered' = redelivered + 1 /\ UNCHANGED lost
              /\ \A q \in Procs : /\ Live(q)' = Live(q)
                                  /\ Handed(q)' <= Handed(q) + 1
           \/ /\ lost' = lost + 1 /\ UNCHANGED redelivered
              /\ \A q \in Procs : /\ Handed(q)' = Handed(q)
                                  /\ q # job[r] => Live(q)' = Live(q)
                                  /\ q = job[r] => Live(q)' = Live(q) - 1
<1>1. UNCHANGED <<owed, job, closed>>
  BY DEF WorkerDies
<1>2. pc[r] \in InTransaction /\ pc'[r] = "dead" /\ \A q \in Runs \ {r} : pc'[q] = pc[q]
  BY DieEffects DEF WorkerDies, RuntimeInv
<1>3. PICK p \in Procs : p = job[r]
  BY <1>2, SchedulerAssumption DEF RuntimeInv, TasksInv, BrokerTypes, Procs, InTransaction
<1>4. Unfinished(r) /\ ~Unfinished(r)' /\ \A q \in Runs \ {r} : Unfinished(q)' <=> Unfinished(q)
  BY <1>1, <1>2, <1>3, SchedulerAssumption DEF Unfinished, Procs, InTransaction, RuntimeInv, TasksInv
<1>5. /\ \A q \in Procs : Owed(q)' = Owed(q) /\ Jobs(q)' = Jobs(q)
      /\ \A q \in Procs \ {p} : AtWork(q)' = AtWork(q)
      /\ Cardinality(AtWork(p)') = Cardinality(AtWork(p)) - 1
  BY <1>1, <1>3, <1>4, OneStops
<1>6. queue \in [Procs -> Nat]
  BY DEF RuntimeInv, BrokerTypes
<1>7. CASE redelivered' = redelivered + 1 /\ queue' = [queue EXCEPT ![job[r]] = @ + 1] /\ UNCHANGED lost
  <2>1. \A q \in Procs \ {p} : queue'[q] = queue[q]
    BY <1>3, <1>6, <1>7
  <2>2. queue'[p] = queue[p] + 1 /\ queue[p] \in Nat
    BY <1>3, <1>6, <1>7
  <2>3. \A q \in Procs \ {p} : Live(q)' = Live(q) /\ Handed(q)' = Handed(q)
    BY <1>5, <2>1, SameCounts
  <2>4. Live(p)' = Live(p) /\ Handed(p)' = Handed(p) + 1
    BY <1>5, <2>2, TasksAreFinite DEF Live, Handed
  <2>5. \A q \in Procs : Handed(q) \in Nat
    BY CountsAreNumbers DEF RuntimeInv
  <2>6. QED
    BY <1>7, <2>3, <2>4, <2>5
<1>8. CASE lost' = lost + 1 /\ UNCHANGED <<redelivered, queue>>
  <2>1. \A q \in Procs \ {p} : Live(q)' = Live(q) /\ Handed(q)' = Handed(q)
    BY <1>5, <1>8, SameCounts
  <2>2. Live(p)' = Live(p) - 1 /\ Handed(p)' = Handed(p)
    BY <1>5, <1>6, <1>8, TasksAreFinite DEF Live, Handed
  <2>3. QED
    BY <1>3, <1>8, <2>1, <2>2
<1>9. QED
  BY <1>7, <1>8 DEF WorkerDies

-----------------------------------------------------------------------------
(* AgentRuntime: runs are accounted for, and slots are leaked only by losses. *)

\* What was handed out for a process: the task of its request, one for each
\* start, one for each redelivery.
AccountedInv == \A p \in Procs : Handed(p) <= 1 + attempts[p] + redelivered

\* A queued process is owed an end by one task, a running one by two: that of
\* its request and that of its dequeue.  Each end that no task is left for is
\* charged to a loss.
Need(p) == CASE status[p] = "queued" -> 1
             [] status[p] = "running" -> 2
             [] OTHER -> 0
Missing == {x \in Procs \X {1, 2} : Live(x[1]) < x[2] /\ x[2] <= Need(x[1])}
LeakInv == Cardinality(Missing) <= lost

LEMMA NextAccounted ==
    ASSUME RuntimeInv, RuntimeInv', AccountedInv, [Next]_vars
    PROVE  AccountedInv'
<1>1. /\ \A p \in Procs : /\ Handed(p) \in Nat /\ Handed(p)' \in Nat
                          /\ attempts[p] \in Nat
                          /\ Handed(p) <= 1 + attempts[p] + redelivered
      /\ redelivered \in Nat
  <2>1. BrokerTypes /\ BrokerTypes' /\ SchedTypeOK
    BY DEF RuntimeInv, RowInv
  <2>2. QED
    BY <2>1, CountsAreNumbers, RuntimeAssumption DEF BrokerTypes, SchedTypeOK, AccountedInv
<1>2. ASSUME \A p \in Procs : Handed(p)' <= Handed(p), UNCHANGED attempts, redelivered' >= redelivered,
             redelivered' \in Nat
      PROVE  AccountedInv'
  BY <1>1, <1>2 DEF AccountedInv
<1>3. ASSUME \A p \in Procs : Handed(p)' <= Handed(p) + 1, UNCHANGED attempts,
             redelivered' = redelivered + 1
      PROVE  AccountedInv'
  BY <1>1, <1>3 DEF AccountedInv
<1>4. ASSUME NEW s \in Sessions, NEW o \in Orgs, NEW r \in Priorities, RunSession(s, o, r)
      PROVE  AccountedInv'
  <2>1. PICK p \in Procs : /\ p = created + 1 /\ Handed(p)' = 1
                           /\ \A q \in Procs \ {p} : Handed(q)' = Handed(q)
    BY <1>4, RunSessionCounts
  <2>2. /\ redelivered' = redelivered
        /\ attempts' = [attempts EXCEPT ![p] = 0]
    BY <1>4, <2>1 DEF RunSession, Enqueue, faultVars
  <2>3. attempts'[p] = 0 /\ \A q \in Procs \ {p} : attempts'[q] = attempts[q]
    BY <2>2 DEF RuntimeInv, RowInv, SchedTypeOK
  <2>4. QED
    BY <1>1, <2>1, <2>2, <2>3 DEF AccountedInv
<1>5. ASSUME NEW from \in From, NEW p \in Procs, Send(from, p) \/ LoseSend(from, p)
      PROVE  AccountedInv'
  <2>1. \A q \in Procs : Handed(q)' <= Handed(q)
    BY <1>1, <1>5, SendCounts
  <2>2. UNCHANGED <<attempts, redelivered>>
    BY <1>5 DEF Send, LoseSend, schedVars, rowVars, faultVars
  <2>3. QED
    BY <1>1, <1>2, <2>1, <2>2
<1>6. ASSUME NEW w \in Dequeuers, Dequeue(w)
      PROVE  AccountedInv'
  <2>1. UNCHANGED redelivered
    BY <1>6 DEF Dequeue, faultVars
  <2>2. CASE UNCHANGED attempts /\ \A q \in Procs : Handed(q)' = Handed(q)
    BY <1>1, <1>2, <2>1, <2>2
  <2>3. ASSUME NEW p \in Procs, attempts' = [attempts EXCEPT ![p] = @ + 1],
               Handed(p)' = Handed(p) + 1, \A q \in Procs \ {p} : Handed(q)' = Handed(q)
        PROVE  AccountedInv'
    <3>1. attempts'[p] = attempts[p] + 1 /\ \A q \in Procs \ {p} : attempts'[q] = attempts[q]
      BY <2>3 DEF RuntimeInv, RowInv, SchedTypeOK
    <3>2. QED
      BY <1>1, <2>1, <2>3, <3>1 DEF AccountedInv
  <2>4. QED
    BY <1>6, <2>2, <2>3, DequeueCounts
<1>7. ASSUME NEW r \in Runs,
             \/ \E p \in Procs : Receive(r, p)
             \/ Step(r) \/ RunRaises(r) \/ Finalize(r) \/ LoseFinalize(r)
      PROVE  AccountedInv'
  <2>1. \A q \in Procs : Handed(q)' = Handed(q)
    BY <1>7, ReceiveCounts, WorkCounts, FinishCounts
  <2>2. UNCHANGED <<attempts, redelivered>>
    BY <1>7 DEF Receive, Step, RunRaises, Finalize, LoseFinalize, MarkTerminal, schedVars, rowVars, faultVars
  <2>3. QED
    BY <1>1, <1>2, <2>1, <2>2
<1>8. ASSUME NEW r \in Runs, Redeliver(r) \/ WorkerDies(r)
      PROVE  AccountedInv'
  <2>1. UNCHANGED attempts
    BY <1>8 DEF Redeliver, WorkerDies, schedVars, rowVars
  <2>2. CASE Redeliver(r)
    <3>1. redelivered' = redelivered + 1
      BY <2>2 DEF Redeliver
    <3>2. QED
      BY <1>1, <1>3, <2>1, <2>2, <3>1, RedeliverCounts
  <2>3. CASE WorkerDies(r)
    BY <1>1, <1>2, <1>3, <2>1, <2>3, DieCounts
  <2>4. QED
    BY <1>8, <2>2, <2>3
<1>9. CASE UNCHANGED vars
  <2>1. UNCHANGED <<attempts, redelivered, owed, queue, job>>
    BY <1>9 DEF vars, schedVars, rowVars, brokerVars, faultVars
  <2>2. \A q \in Procs : Handed(q)' = Handed(q)
    BY <2>1 DEF Handed, Owed, Jobs
  <2>3. QED
    BY <1>1, <1>2, <2>1, <2>2
<1>10. QED
  BY <1>4, <1>5, <1>6, <1>7, <1>8, <1>9 DEF Next, From

\* Sets that gain at most one element, and sets that swap one for another.
LEMMA AtMostOneMore ==
    ASSUME NEW S, NEW x, NEW T, IsFiniteSet(S), T \subseteq S \cup {x}
    PROVE  Cardinality(T) \in Nat /\ Cardinality(S) \in Nat /\ Cardinality(T) <= Cardinality(S) + 1
<1>1. IsFiniteSet(S \cup {x})
  BY FS_AddElement
<1>2. \/ Cardinality(S \cup {x}) = Cardinality(S)
      \/ Cardinality(S \cup {x}) = Cardinality(S) + 1
  BY FS_AddElement
<1>3. IsFiniteSet(T) /\ Cardinality(T) <= Cardinality(S \cup {x})
  BY <1>1, FS_Subset
<1>4. Cardinality(T) \in Nat /\ Cardinality(S) \in Nat
  BY <1>3, FS_CardinalityType
<1>5. QED
  BY <1>2, <1>3, <1>4

LEMMA Swapped ==
    ASSUME NEW S, NEW x \in S, NEW y, NEW T, IsFiniteSet(S), T \subseteq (S \ {x}) \cup {y}
    PROVE  Cardinality(T) \in Nat /\ Cardinality(S) \in Nat /\ Cardinality(T) <= Cardinality(S)
<1>1. IsFiniteSet(S \ {x}) /\ Cardinality(S \ {x}) = Cardinality(S) - 1
  BY FS_RemoveElement
<1>2. /\ Cardinality(T) \in Nat /\ Cardinality(S \ {x}) \in Nat
      /\ Cardinality(T) <= Cardinality(S \ {x}) + 1
  BY <1>1, AtMostOneMore
<1>3. Cardinality(S) \in Nat
  BY FS_CardinalityType
<1>4. QED
  BY <1>1, <1>2, <1>3

LEMMA TwoEnds == IsFiniteSet({1, 2}) /\ Cardinality({1, 2}) = 2
<1>1. IsFiniteSet({1}) /\ Cardinality({1}) = 1
  BY FS_Singleton
<1>2. IsFiniteSet({1} \cup {2}) /\ Cardinality({1} \cup {2}) = Cardinality({1}) + 1
  BY <1>1, FS_AddElement
<1>3. {1, 2} = {1} \cup {2}
  OBVIOUS
<1>4. QED
  BY <1>1, <1>2, <1>3

LEMMA MissingIsFinite ==
    /\ IsFiniteSet(Missing) /\ Cardinality(Missing) \in Nat
    /\ IsFiniteSet(Missing') /\ Cardinality(Missing') \in Nat
<1>1. IsFiniteSet(Procs)
  BY SchedulerAssumption, FS_Interval DEF Procs
<1>2. IsFiniteSet(Procs \X {1, 2})
  BY <1>1, TwoEnds, FS_Product
<1>3. Missing \subseteq Procs \X {1, 2} /\ Missing' \subseteq Procs \X {1, 2}
  BY DEF Missing
<1>4. IsFiniteSet(Missing) /\ IsFiniteSet(Missing')
  BY <1>2, <1>3, FS_Subset
<1>5. QED
  BY <1>4, FS_CardinalityType

\* A step that takes no task from a process that needs it keeps the bound.
LEMMA NoneMissed ==
    ASSUME RuntimeInv, RuntimeInv', LeakInv, lost' >= lost,
           \A q \in Procs : \/ status'[q] = status[q] /\ Live(q)' >= Live(q)
                            \/ status'[q] \notin {"queued", "running"}
                            \/ status'[q] = "queued" /\ Live(q)' >= 1
    PROVE  LeakInv'
<1>1. \A q \in Procs : Live(q) \in Nat /\ Live(q)' \in Nat
  BY CountsAreNumbers DEF RuntimeInv
<1>2. Missing' \subseteq Missing
  <2> SUFFICES ASSUME NEW q \in Procs, NEW k \in {1, 2}, Live(q)' < k, k <= Need(q)'
               PROVE  Live(q) < k /\ k <= Need(q)
    BY DEF Missing
  <2>1. status'[q] \in {"queued", "running"} /\ ~(status'[q] = "queued" /\ Live(q)' >= 1)
    BY <1>1 DEF Need
  <2>2. QED
    BY <1>1, <2>1 DEF Need
<1>3. Cardinality(Missing') <= Cardinality(Missing)
  BY <1>2, MissingIsFinite, FS_Subset
<1>4. QED
  BY <1>3, MissingIsFinite, RuntimeAssumption DEF LeakInv, RuntimeInv, BrokerTypes

\* A loss takes one task from one process.
LEMMA OneMissed ==
    ASSUME RuntimeInv, RuntimeInv', LeakInv, lost' = lost + 1, UNCHANGED status, NEW p \in Procs,
           Live(p)' = Live(p) - 1, \A q \in Procs \ {p} : Live(q)' = Live(q)
    PROVE  LeakInv'
<1>1. \A q \in Procs : Live(q) \in Nat /\ Live(q)' \in Nat
  BY CountsAreNumbers DEF RuntimeInv
<1>2. Missing' \subseteq Missing \cup {<<p, Live(p)>>}
  <2> SUFFICES ASSUME NEW q \in Procs, NEW k \in {1, 2}, Live(q)' < k, k <= Need(q)'
               PROVE  (Live(q) < k /\ k <= Need(q)) \/ (q = p /\ k = Live(p))
    BY DEF Missing
  <2>1. Need(q)' = Need(q)
    BY DEF Need
  <2>2. QED
    BY <1>1, <2>1
<1>3. Cardinality(Missing') <= Cardinality(Missing) + 1
  BY <1>2, MissingIsFinite, AtMostOneMore
<1>4. QED
  BY <1>3, MissingIsFinite, RuntimeAssumption DEF LeakInv, RuntimeInv, BrokerTypes

\* A start asks for one end more and brings one task more.
LEMMA StartMissesNone ==
    ASSUME RuntimeInv, RuntimeInv', LeakInv, UNCHANGED lost, NEW p \in Procs,
           status[p] = "queued", status' = [status EXCEPT ![p] = "running"],
           Live(p)' = Live(p) + 1, \A q \in Procs \ {p} : Live(q)' = Live(q)
    PROVE  LeakInv'
<1>1. \A q \in Procs : Live(q) \in Nat /\ Live(q)' \in Nat
  BY CountsAreNumbers DEF RuntimeInv
<1>2. /\ Need(p) = 1 /\ Need(p)' = 2
      /\ \A q \in Procs \ {p} : Need(q)' = Need(q)
  BY DEF Need, RuntimeInv, RowInv, SchedTypeOK
<1>3. CASE <<p, 1>> \notin Missing
  <2>1. Missing' \subseteq Missing
    <3> SUFFICES ASSUME NEW q \in Procs, NEW k \in {1, 2}, Live(q)' < k, k <= Need(q)'
                 PROVE  Live(q) < k /\ k <= Need(q)
      BY DEF Missing
    <3>1. Live(p) >= 1
      BY <1>1, <1>2, <1>3 DEF Missing
    <3>2. q # p
      BY <1>1, <3>1
    <3>3. QED
      BY <1>2, <3>2
  <2>2. Cardinality(Missing') <= Cardinality(Missing)
    BY <2>1, MissingIsFinite, FS_Subset
  <2>3. QED
    BY <2>2, MissingIsFinite, RuntimeAssumption DEF LeakInv, RuntimeInv, BrokerTypes
<1>4. CASE <<p, 1>> \in Missing
  <2>1. Missing' \subseteq (Missing \ {<<p, 1>>}) \cup {<<p, 2>>}
    <3> SUFFICES ASSUME NEW q \in Procs, NEW k \in {1, 2}, Live(q)' < k, k <= Need(q)'
                 PROVE  \/ Live(q) < k /\ k <= Need(q) /\ <<q, k>> # <<p, 1>>
                        \/ q = p /\ k = 2
      BY DEF Missing
    <3>1. CASE q = p
      BY <1>1, <3>1
    <3>2. CASE q # p
      BY <1>2, <3>2
    <3>3. QED
      BY <3>1, <3>2
  <2>2. Cardinality(Missing') <= Cardinality(Missing)
    BY <1>4, <2>1, MissingIsFinite, Swapped
  <2>3. QED
    BY <2>2, MissingIsFinite, RuntimeAssumption DEF LeakInv, RuntimeInv, BrokerTypes
<1>5. QED
  BY <1>3, <1>4

LEMMA NextLeak ==
    ASSUME RuntimeInv, RuntimeInv', LeakInv, [Next]_vars
    PROVE  LeakInv'
<1>1. /\ \A q \in Procs : Live(q) \in Nat /\ Live(q)' \in Nat
      /\ lost \in Nat
  BY CountsAreNumbers, RuntimeAssumption DEF RuntimeInv, BrokerTypes
<1>2. ASSUME NEW s \in Sessions, NEW o \in Orgs, NEW r \in Priorities, RunSession(s, o, r)
      PROVE  LeakInv'
  <2>1. PICK p \in Procs : /\ p = created + 1 /\ Live(p)' = 1
                           /\ \A q \in Procs \ {p} : Live(q)' = Live(q)
    BY <1>2, RunSessionCounts
  <2>2. lost' = lost /\ status' = [status EXCEPT ![p] = "queued"]
    BY <1>2, <2>1 DEF RunSession, Enqueue, faultVars
  <2>3. status'[p] = "queued" /\ \A q \in Procs \ {p} : status'[q] = status[q]
    BY <2>2 DEF RuntimeInv, RowInv, SchedTypeOK
  <2>4. QED
    BY <1>1, <2>1, <2>2, <2>3, NoneMissed
<1>3. ASSUME NEW from \in From, NEW p \in Procs, Send(from, p) \/ LoseSend(from, p)
      PROVE  LeakInv'
  <2>1. UNCHANGED status
    BY <1>3 DEF Send, LoseSend, schedVars, rowVars
  <2>2. CASE Send(from, p)
    <3>1. UNCHANGED lost
      BY <2>2 DEF Send, faultVars
    <3>2. QED
      BY <1>1, <2>1, <2>2, <3>1, SendCounts, NoneMissed
  <2>3. CASE LoseSend(from, p)
    <3>1. lost' = lost + 1
      BY <2>3 DEF LoseSend
    <3>2. Live(p)' = Live(p) - 1 /\ \A q \in Procs \ {p} : Live(q)' = Live(q)
      BY <2>3, SendCounts
    <3>3. QED
      BY <2>1, <3>1, <3>2, OneMissed
  <2>4. QED
    BY <1>3, <2>2, <2>3
<1>4. ASSUME NEW w \in Dequeuers, Dequeue(w)
      PROVE  LeakInv'
  <2>1. UNCHANGED lost
    BY <1>4 DEF Dequeue, faultVars
  <2>2. CASE UNCHANGED status /\ \A q \in Procs : Live(q)' = Live(q)
    BY <1>1, <2>1, <2>2, NoneMissed
  <2>3. QED
    BY <1>4, <2>1, <2>2, DequeueCounts, StartMissesNone
<1>5. ASSUME NEW r \in Runs, \/ \E p \in Procs : Receive(r, p)
                             \/ Step(r) \/ RunRaises(r)
      PROVE  LeakInv'
  <2>1. \A q \in Procs : Live(q)' = Live(q)
    BY <1>5, ReceiveCounts, WorkCounts
  <2>2. UNCHANGED <<status, lost>>
    BY <1>5 DEF Receive, Step, RunRaises, schedVars, rowVars, faultVars
  <2>3. QED
    BY <1>1, <2>1, <2>2, NoneMissed
<1>6. ASSUME NEW r \in Runs, Finalize(r)
      PROVE  LeakInv'
  <2>1. lost' = lost /\ status' = [status EXCEPT ![job[r]] = verdict[r]]
    BY <1>6 DEF Finalize, MarkTerminal, faultVars
  <2>2. verdict[r] \in {"succeeded", "failed"} /\ job[r] \in Procs
    BY <1>6, FinishCounts DEF RuntimeInv, LoopIInv, LoopTypeOK
  <2>3. \A q \in Procs : status'[q] = IF q = job[r] THEN verdict[r] ELSE status[q]
    BY <2>1 DEF RuntimeInv, RowInv, SchedTypeOK
  <2>4. \A q \in Procs : q # job[r] => Live(q)' = Live(q)
    BY <1>6, FinishCounts
  <2>5. QED
    BY <1>1, <2>1, <2>2, <2>3, <2>4, NoneMissed
<1>7. ASSUME NEW r \in Runs, LoseFinalize(r)
      PROVE  LeakInv'
  <2>1. PICK p \in Procs : p = job[r]
    BY <1>7, FinishCounts
  <2>2. lost' = lost + 1 /\ UNCHANGED status
    BY <1>7 DEF LoseFinalize, schedVars, rowVars
  <2>3. QED
    BY <1>7, <2>1, <2>2, FinishCounts, OneMissed
<1>8. ASSUME NEW r \in Runs, Redeliver(r)
      PROVE  LeakInv'
  <2>1. UNCHANGED <<status, lost>>
    BY <1>8 DEF Redeliver, schedVars, rowVars
  <2>2. \A q \in Procs : Live(q)' >= Live(q)
    BY <1>1, <1>8, RedeliverCounts
  <2>3. QED
    BY <1>1, <2>1, <2>2, NoneMissed
<1>9. ASSUME NEW r \in Runs, WorkerDies(r)
      PROVE  LeakInv'
  <2>1. UNCHANGED status
    BY <1>9 DEF WorkerDies, schedVars, rowVars
  <2>2. CASE UNCHANGED lost /\ \A q \in Procs : Live(q)' = Live(q)
    BY <1>1, <2>1, <2>2, NoneMissed
  <2>3. CASE /\ lost' = lost + 1
             /\ \A q \in Procs : /\ q # job[r] => Live(q)' = Live(q)
                                 /\ q = job[r] => Live(q)' = Live(q) - 1
    <3>1. job[r] \in Procs
      BY <1>9, DieEffects, SchedulerAssumption
         DEF WorkerDies, RuntimeInv, TasksInv, BrokerTypes, Procs, InTransaction
    <3>2. PICK p \in Procs : p = job[r]
      BY <3>1
    <3>3. QED
      BY <2>1, <2>3, <3>2, OneMissed
  <2>4. QED
    BY <1>9, <2>2, <2>3, DieCounts
<1>10. CASE UNCHANGED vars
  <2>1. UNCHANGED <<status, lost, owed, queue, job, closed, pc>>
    BY <1>10 DEF vars, schedVars, rowVars, loopVars, locals, brokerVars, faultVars
  <2>2. \A q \in Procs : Live(q)' = Live(q)
    BY <2>1 DEF Live, Owed, AtWork, Jobs, Unfinished
  <2>3. QED
    BY <1>1, <2>1, <2>2, NoneMissed
<1>11. QED
  BY <1>2, <1>3, <1>4, <1>5, <1>6, <1>7, <1>8, <1>9, <1>10 DEF Next, From

\* With nothing on its way, both ends of every running process are missing.
LEMMA QuietLeaks == RuntimeInv /\ LeakInv => NoLeakedSlot
<1> SUFFICES ASSUME RuntimeInv, LeakInv, Quiet
             PROVE  2 * Cardinality({p \in Procs : status[p] = "running"}) <= lost
  BY DEF NoLeakedSlot
<1> DEFINE R == {p \in Procs : status[p] = "running"}
<1>1. ASSUME NEW p \in Procs PROVE Live(p) = 0
  <2>1. Owed(p) = {} /\ AtWork(p) = {} /\ queue[p] = 0
    BY DEF Quiet, Owed, AtWork, Jobs
  <2>2. QED
    BY <2>1, FS_EmptySet DEF Live
<1>2. R \X {1, 2} \subseteq Missing
  BY <1>1 DEF Missing, Need
<1>3. IsFiniteSet(R)
  <2>1. IsFiniteSet(Procs)
    BY SchedulerAssumption, FS_Interval DEF Procs
  <2>2. QED
    BY <2>1, FS_Subset
<1>4. Cardinality(R \X {1, 2}) = Cardinality(R) * 2 /\ Cardinality(R) \in Nat
  BY <1>3, TwoEnds, FS_Product, FS_CardinalityType
<1>5. Cardinality(R \X {1, 2}) <= Cardinality(Missing)
  BY <1>2, MissingIsFinite, FS_Subset
<1>6. QED
  BY <1>4, <1>5, MissingIsFinite, RuntimeAssumption DEF LeakInv, RuntimeInv, BrokerTypes

-----------------------------------------------------------------------------
(* AgentRuntime: what a process says of its session.                       *)

\* Runs that are about to say succeeded of a session that did not, and
\* processes that say so.  Each stands for one late exception.
Liars == {r \in Runs \ closed : /\ pc[r] = "ended" /\ verdict[r] = "succeeded"
                                /\ session[on[r]] # "succeeded"}
Lies == {p \in Procs : status[p] = "succeeded" /\ session[sessOf[p]] # "succeeded"}
LieInv == Cardinality(Liars) + Cardinality(Lies) <= late

LEMMA LiesAreFinite ==
    /\ IsFiniteSet(Liars) /\ Cardinality(Liars) \in Nat
    /\ IsFiniteSet(Lies) /\ Cardinality(Lies) \in Nat
    /\ IsFiniteSet(Liars') /\ Cardinality(Liars') \in Nat
    /\ IsFiniteSet(Lies') /\ Cardinality(Lies') \in Nat
<1>1. IsFiniteSet(Procs)
  BY SchedulerAssumption, FS_Interval DEF Procs
<1>2. Liars \subseteq Runs /\ Liars' \subseteq Runs /\ Lies \subseteq Procs /\ Lies' \subseteq Procs
  BY DEF Liars, Lies
<1>3. IsFiniteSet(Liars) /\ IsFiniteSet(Liars') /\ IsFiniteSet(Lies) /\ IsFiniteSet(Lies')
  BY <1>1, <1>2, RuntimeAssumption, FS_Subset
<1>4. QED
  BY <1>3, FS_CardinalityType

\* A step that makes no new liar and no new lie.
LEMMA NoNewLie ==
    ASSUME RuntimeInv, RuntimeInv', LieInv, late' >= late, Liars' \subseteq Liars, Lies' \subseteq Lies
    PROVE  LieInv'
<1>1. Cardinality(Liars') <= Cardinality(Liars) /\ Cardinality(Lies') <= Cardinality(Lies)
  BY LiesAreFinite, FS_Subset
<1>2. QED
  BY <1>1, LiesAreFinite, RuntimeAssumption DEF LieInv, RuntimeInv, BrokerTypes

\* A session's truth, once told, stays told.
LEMMA StillTrue ==
    ASSUME RuntimeInv, [Next]_vars, NEW s \in Sessions, session[s] = "succeeded"
    PROVE  session'[s] = "succeeded"
BY VerdictsStay

LEMMA LieWork ==
    ASSUME RuntimeInv, RuntimeInv', LieInv, [Next]_vars, NEW r \in Runs,
           Step(r) \/ RunRaises(r) \/ WorkerDies(r)
    PROVE  LieInv'
<1>1. UNCHANGED <<status, sessOf, closed>> /\ (late' = late \/ late' = late + 1) /\ late \in Nat
  BY RuntimeAssumption
     DEF Step, RunRaises, WorkerDies, schedVars, rowVars, faultVars, RuntimeInv, BrokerTypes
<1>2. /\ on' = on /\ pc[r] # "ended"
      /\ \A q \in Runs \ {r} : pc'[q] = pc[q] /\ verdict'[q] = verdict[q]
  BY WorkEffects, RaiseEffects, DieEffects DEF Step, RunRaises, WorkerDies, RuntimeInv, InTransaction
<1>3. on \in [Runs -> Sessions] /\ sessOf \in [Procs -> Sessions]
  BY DEF RuntimeInv, LoopIInv, LoopTypeOK, BrokerTypes
<1>4. Lies' \subseteq Lies
  BY <1>1, <1>3, StillTrue DEF Lies
<1>5. Liars' \subseteq Liars \cup {r}
  BY <1>1, <1>2, <1>3, StillTrue DEF Liars
<1>6. CASE RunRaises(r) /\ late' = late + 1
  <2>1. Cardinality(Liars') <= Cardinality(Liars) + 1
    BY <1>5, LiesAreFinite, AtMostOneMore
  <2>2. Cardinality(Lies') <= Cardinality(Lies)
    BY <1>4, LiesAreFinite, FS_Subset
  <2>3. QED
    BY <1>1, <1>6, <2>1, <2>2, LiesAreFinite DEF LieInv
<1>7. CASE ~(RunRaises(r) /\ late' = late + 1)
  <2>1. ~(/\ pc'[r] = "ended" /\ verdict'[r] = "succeeded"
          /\ session'[on[r]] # "succeeded")
    <3>1. CASE Step(r)
      BY <3>1, WorkEffects DEF Step, RuntimeInv, InTransaction
    <3>2. CASE RunRaises(r)
      <4>1. pc[r] \notin Returned
        BY <1>7, <3>2 DEF RunRaises
      <4>2. QED
        BY <3>2, <4>1, RaiseEffects DEF RunRaises, RuntimeInv
    <3>3. CASE WorkerDies(r)
      BY <3>3, DieEffects DEF WorkerDies, RuntimeInv
    <3>4. QED
      BY <3>1, <3>2, <3>3
  <2>2. r \notin Liars'
    BY <1>2, <2>1 DEF Liars
  <2>3. Liars' \subseteq Liars
    BY <1>5, <2>2
  <2>4. late' >= late
    BY <1>1
  <2>5. QED
    BY <1>4, <2>3, <2>4, NoNewLie
<1>8. QED
  BY <1>6, <1>7

\* A finally block turns a liar into a lie.
LEMMA LieFinalize ==
    ASSUME RuntimeInv, RuntimeInv', LieInv, NEW r \in Runs, Finalize(r)
    PROVE  LieInv'
<1>1. /\ UNCHANGED <<pc, verdict, on, session, sessOf, late>>
      /\ pc[r] = "ended" /\ r \notin closed /\ closed' = closed \cup {r}
      /\ status' = [status EXCEPT ![job[r]] = verdict[r]]
  BY DEF Finalize, MarkTerminal, loopVars, committed, locals, faultVars
<1>2. job[r] \in Procs /\ on[r] = sessOf[job[r]]
  BY <1>1, SchedulerAssumption DEF RuntimeInv, TasksInv, BrokerTypes, Procs
<1>3. \A p \in Procs : status'[p] = IF p = job[r] THEN verdict[r] ELSE status[p]
  BY <1>1, <1>2 DEF RuntimeInv, RowInv, SchedTypeOK
<1>4. Liars' = Liars \ {r}
  BY <1>1 DEF Liars
<1>5. CASE r \in Liars
  <2>1. Cardinality(Liars') = Cardinality(Liars) - 1
    BY <1>4, <1>5, LiesAreFinite, FS_RemoveElement
  <2>2. Lies' \subseteq Lies \cup {job[r]}
    BY <1>1, <1>3 DEF Lies
  <2>3. Cardinality(Lies') <= Cardinality(Lies) + 1
    BY <2>2, LiesAreFinite, AtMostOneMore
  <2>4. QED
    BY <1>1, <2>1, <2>3, LiesAreFinite, RuntimeAssumption DEF LieInv, RuntimeInv, BrokerTypes
<1>6. CASE r \notin Liars
  <2>1. Liars' \subseteq Liars
    BY <1>4
  <2>2. verdict[r] # "succeeded" \/ session[sessOf[job[r]]] = "succeeded"
    BY <1>1, <1>2, <1>6 DEF Liars
  <2>3. Lies' \subseteq Lies
    BY <1>1, <1>3, <2>2 DEF Lies
  <2>4. late' >= late
    BY <1>1, RuntimeAssumption DEF RuntimeInv, BrokerTypes
  <2>5. QED
    BY <2>1, <2>3, <2>4, NoNewLie
<1>7. QED
  BY <1>5, <1>6

LEMMA NextLie ==
    ASSUME RuntimeInv, RuntimeInv', LieInv, [Next]_vars
    PROVE  LieInv'
<1>1. late \in Nat
  BY RuntimeAssumption DEF RuntimeInv, BrokerTypes
<1>2. ASSUME UNCHANGED <<pc, verdict, on, session, late>>, closed \subseteq closed',
             \A p \in Procs : /\ status'[p] # status[p] => status'[p] # "succeeded"
                              /\ sessOf'[p] # sessOf[p] => status'[p] # "succeeded"
      PROVE  LieInv'
  <2>1. Liars' \subseteq Liars /\ Lies' \subseteq Lies
    BY <1>2 DEF Liars, Lies
  <2>2. QED
    BY <1>1, <1>2, <2>1, NoNewLie
<1>3. ASSUME NEW s \in Sessions, NEW o \in Orgs, NEW r \in Priorities, RunSession(s, o, r)
      PROVE  LieInv'
  <2>1. PICK p \in Procs : p = created + 1
    BY <1>3, RunSessionCounts
  <2>2. /\ UNCHANGED <<pc, verdict, on, session, late, closed>>
        /\ status' = [status EXCEPT ![p] = "queued"] /\ sessOf' = [sessOf EXCEPT ![p] = s]
    BY <1>3, <2>1 DEF RunSession, Enqueue, loopVars, committed, locals, faultVars
  <2>3. /\ status'[p] = "queued"
        /\ \A q \in Procs \ {p} : status'[q] = status[q] /\ sessOf'[q] = sessOf[q]
    BY <2>2 DEF RuntimeInv, RowInv, SchedTypeOK, BrokerTypes
  <2>4. QED
    BY <1>2, <2>2, <2>3
<1>4. ASSUME NEW from \in From, NEW p \in Procs, Send(from, p) \/ LoseSend(from, p)
      PROVE  LieInv'
  <2>1. UNCHANGED <<pc, verdict, on, session, late, closed, status, sessOf>>
    BY <1>4 DEF Send, LoseSend, schedVars, rowVars, loopVars, committed, locals, faultVars
  <2>2. QED
    BY <1>2, <2>1
<1>5. ASSUME NEW w \in Dequeuers, Dequeue(w)
      PROVE  LieInv'
  <2>1. UNCHANGED <<pc, verdict, on, session, late, closed, sessOf>>
    BY <1>5 DEF Dequeue, loopVars, committed, locals, faultVars
  <2>2. \A q \in Procs : status'[q] # status[q] => status'[q] # "succeeded"
    <3>1. CASE UNCHANGED status
      BY <3>1
    <3>2. ASSUME NEW p \in Procs, status' = [status EXCEPT ![p] = "running"]
          PROVE  \A q \in Procs : status'[q] # status[q] => status'[q] # "succeeded"
      BY <3>2 DEF RuntimeInv, RowInv, SchedTypeOK
    <3>3. QED
      BY <1>5, <3>1, <3>2, DequeueCounts
  <2>3. QED
    BY <1>2, <2>1, <2>2
<1>6. ASSUME NEW r \in Runs, NEW p \in Procs, Receive(r, p)
      PROVE  LieInv'
  <2>1. UNCHANGED <<status, sessOf, late, closed>> /\ sessOf[p] \in Sessions /\ Begin(r, sessOf[p])
    BY <1>6 DEF Receive, schedVars, rowVars, faultVars, RuntimeInv, BrokerTypes
  <2>2. /\ pc'[r] # "ended" /\ UNCHANGED session
        /\ \A q \in Runs \ {r} : pc'[q] = pc[q] /\ on'[q] = on[q] /\ verdict'[q] = verdict[q]
    BY <2>1, BeginEffects DEF RuntimeInv, InTransaction
  <2>3. Liars' \subseteq Liars /\ Lies' \subseteq Lies
    BY <2>1, <2>2 DEF Liars, Lies
  <2>4. QED
    BY <1>1, <2>1, <2>3, NoNewLie
<1>7. ASSUME NEW r \in Runs, LoseFinalize(r) \/ Redeliver(r)
      PROVE  LieInv'
  <2>1. UNCHANGED <<pc, verdict, on, session, late, status, sessOf>> /\ closed \subseteq closed'
    BY <1>7 DEF LoseFinalize, Redeliver, schedVars, rowVars, loopVars, committed, locals
  <2>2. QED
    BY <1>2, <2>1
<1>8. CASE UNCHANGED vars
  <2>1. UNCHANGED <<pc, verdict, on, session, late, status, sessOf, closed>>
    BY <1>8 DEF vars, schedVars, rowVars, loopVars, committed, locals, faultVars
  <2>2. QED
    BY <1>2, <2>1
<1>9. QED
  BY <1>3, <1>4, <1>5, <1>6, <1>7, <1>8, LieWork, LieFinalize DEF Next, From

\* Without losses the last word on a process is that of one of its runs, and
\* alone in its session that run is the one that decided it.
LEMMA AloneAgrees == RuntimeInv => AgreementWhenAlone
<1> SUFFICES ASSUME RuntimeInv, NEW r \in closed, lost = 0, late = 0,
                    \A q \in Runs \ {r} : job[q] = 0 \/ sessOf[job[q]] # sessOf[job[r]]
             PROVE  status[job[r]] = "succeeded" <=> session[sessOf[job[r]]] = "succeeded"
  BY DEF AgreementWhenAlone
<1>1. r \in Runs /\ pc[r] = "ended" /\ job[r] # 0 /\ on[r] = sessOf[job[r]]
  BY DEF RuntimeInv, BrokerTypes, TasksInv
<1>2. closed \subseteq Runs /\ \A q \in closed : pc[q] = "ended" /\ job[q] # 0
  BY DEF RuntimeInv, BrokerTypes, TasksInv
<1>3. status[job[r]] = verdict[r]
  <2>1. PICK q \in closed : job[q] = job[r] /\ status[job[r]] = verdict[q]
    BY DEF RuntimeInv, LastWord
  <2>2. q = r
    BY <1>2, <2>1
  <2>3. QED
    BY <2>1, <2>2
<1>4. verdict[r] = "succeeded" => session[on[r]] = "succeeded"
  BY <1>1 DEF RuntimeInv, EndsTold
<1>5. ASSUME session[on[r]] = "succeeded" PROVE verdict[r] = "succeeded"
  <2>1. on[r] \in Sessions
    BY <1>1 DEF RuntimeInv, LoopIInv, LoopTypeOK
  <2>2. PICK q \in Runs : on[q] = on[r] /\ pc[q] = "ended" /\ verdict[q] = session[on[r]]
    BY <1>5, <2>1 DEF RuntimeInv, VerdictsReached
  <2>3. job[q] # 0 /\ sessOf[job[q]] = on[r]
    BY <2>2 DEF RuntimeInv, TasksInv
  <2>4. q = r
    BY <1>1, <2>3
  <2>5. QED
    BY <1>5, <2>2, <2>4
<1>6. QED
  BY <1>1, <1>3, <1>4, <1>5

-----------------------------------------------------------------------------
(* AgentRuntime: the theorems.                                             *)

CountedInv == AccountedInv /\ LeakInv /\ LieInv

LEMMA InitCounted == Init => CountedInv
<1> SUFFICES ASSUME Init PROVE CountedInv
  OBVIOUS
<1>1. Cardinality({}) = 0
  BY FS_EmptySet
<1>2. \A p \in Procs : /\ Owed(p) = {} /\ Jobs(p) = {} /\ AtWork(p) = {}
                       /\ queue[p] = 0 /\ attempts[p] = 0 /\ status[p] = "none"
  BY SchedulerAssumption DEF Init, SchedInit, Owed, Jobs, AtWork, Procs
<1>3. redelivered = 0 /\ lost = 0 /\ late = 0
  BY DEF Init
<1>4. AccountedInv
  BY <1>1, <1>2, <1>3 DEF AccountedInv, Handed
<1>5. Missing = {} /\ Liars = {} /\ Lies = {}
  <2>1. Missing = {}
    BY <1>2 DEF Missing, Need
  <2>2. Liars = {} /\ Lies = {}
    BY <1>2 DEF Init, LoopInit, Liars, Lies
  <2>3. QED
    BY <2>1, <2>2
<1>6. QED
  BY <1>1, <1>3, <1>4, <1>5 DEF CountedInv, LeakInv, LieInv

LEMMA NextCounted == RuntimeInv /\ RuntimeInv' /\ CountedInv /\ [Next]_vars => CountedInv'
BY NextAccounted, NextLeak, NextLie DEF CountedInv

LEMMA CountedInvariant == Spec => [](RuntimeInv /\ CountedInv)
<1>1. Init => RuntimeInv /\ CountedInv
  BY InitRuntimeInv, InitCounted
<1>2. RuntimeInv /\ CountedInv /\ [Next]_vars => (RuntimeInv /\ CountedInv)'
  BY NextRuntimeInv, NextCounted
<1>3. QED
  BY <1>1, <1>2, PTL DEF Spec

\* However many times a task is sent, lost, redelivered and finished, and in
\* whatever order, a process that says succeeded lies at most once per late
\* exception, tells the truth when it had one run and nothing was lost, and has
\* no more runs than its request, its starts and the redeliveries explain.
THEOREM ProcessesAreTruthful == Spec => []ProcessInv
<1>1. RuntimeInv /\ CountedInv => ProcessInv
  <2> SUFFICES ASSUME RuntimeInv, CountedInv PROVE ProcessInv
    OBVIOUS
  <2>1. TypeOK
    BY DEF RuntimeInv, RowInv, LoopIInv, BrokerTypes, From, TypeOK
  <2>2. TruthfulSuccess
    <3>1. Cardinality(Liars) + Cardinality(Lies) <= late
      BY DEF CountedInv, LieInv
    <3>2. Cardinality(Lies) <= late
      BY <3>1, LiesAreFinite, RuntimeAssumption DEF RuntimeInv, BrokerTypes
    <3>3. QED
      BY <3>2 DEF Lies, TruthfulSuccess
  <2>3. RunsAccounted
    <3> SUFFICES ASSUME NEW p \in Procs
                 PROVE  Cardinality(Jobs(p)) <= 1 + attempts[p] + redelivered
      BY DEF RunsAccounted, Jobs
    <3>1. Cardinality(Owed(p)) + queue[p] + Cardinality(Jobs(p)) <= 1 + attempts[p] + redelivered
      BY DEF CountedInv, AccountedInv, Handed
    <3>2. queue[p] \in Nat /\ attempts[p] \in Nat /\ redelivered \in Nat
      BY RuntimeAssumption DEF RuntimeInv, BrokerTypes, RowInv, SchedTypeOK
    <3>3. QED
      BY <3>1, <3>2, TasksAreFinite
  <2>4. QED
    BY <2>1, <2>2, <2>3, AloneAgrees DEF ProcessInv
<1>2. QED
  BY <1>1, CountedInvariant, PTL

\* Nothing but losses leaks a slot of the running cap, and it takes two of them:
\* every process that still runs when nothing is on its way lost both its tasks.
THEOREM SlotsLeakByLosses == Spec => []NoLeakedSlot
<1>1. RuntimeInv /\ CountedInv => NoLeakedSlot
  BY QuietLeaks DEF CountedInv
<1>2. QED
  BY <1>1, CountedInvariant, PTL

\* The runtime uses its parts as they are specified: seen from the table of
\* processes it is the scheduler, seen from the sessions it is the cognitive
\* loop, so what is proved of either holds of the whole.
THEOREM RuntimeImplementsParts == Spec => SchedSpec /\ LoopSpec
<1>1. Init => SchedInit /\ LoopInit
  BY DEF Init
<1>2. RuntimeInv /\ [Next]_vars => [SchedNext]_schedVars /\ [LoopNext]_loopVars
  BY PartsStep
<1>3. QED
  BY <1>1, <1>2, RuntimeInvariant, PTL DEF Spec, SchedSpec, LoopSpec

\* In particular, with any number of requests, dequeuers, redeliveries and dead
\* workers, a session keeps the promise of SessionVerdict.
THEOREM RuntimeKeepsPromise == Spec => KeepsPromise
BY RuntimeImplementsParts, ImplementsPromise

=============================================================================
