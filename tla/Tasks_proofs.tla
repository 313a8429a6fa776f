---------------------------- MODULE Tasks_proofs ----------------------------
(***************************************************************************)
(* Theorems about what workers and users write over each other's rows, for *)
(* any of them and any number of tasks and goals.                          *)
(*                                                                         *)
(* Pipeline tasks: starts are counted and bounded, and an exhausted task   *)
(* that nobody cancelled has one dead letter.  A task that nobody else     *)
(* marked is executed by one worker at a time.  No mark looks at the       *)
(* status it overwrites.  What protects a task is who may hold it: a       *)
(* picked row is locked, an executed one is running and was read as it is, *)
(* and only a cancellation or a mark from outside breaks that.             *)
(*                                                                         *)
(* Goals: what a transaction is about to write was right for the row that  *)
(* it read.  As long as nobody else commits to the goal, that is the row   *)
(* it writes to; and some of it is right on any later row as well: stamps  *)
(* are only set, and what makes a reviewed link wrong is noted.            *)
(***************************************************************************)
EXTENDS PipelineTasks, GoalGraph, FiniteSetTheorems, TLAPS

-----------------------------------------------------------------------------
(* Pipeline tasks.                                                         *)

\* The row of a task that nobody has cancelled.
RowInv(t) ==
    /\ status[t] = "none" => attempts[t] = 0
    /\ t \notin cancels =>
          /\ entries[t] \in {0, 1}
          /\ status[t] = "failed" => attempts[t] = MaxAttempts /\ entries[t] = 1

\* A picked row is queued, has attempts left and is locked for one worker.
PickInv(w) ==
    step[w] = "picked" =>
        /\ status[task[w]] = "queued"
        /\ saw[w].attempts = attempts[task[w]] /\ attempts[task[w]] < MaxAttempts
        /\ \A v \in Workers : step[v] = "picked" /\ task[v] = task[w] => v = w

\* What a mark has read of the attempts is not more than there are.
MarkInv(w) == step[w] = "marking" => saw[w].attempts <= attempts[task[w]]

\* An executed task is running and nobody else's, and its mark has read it so.
ExecuteInv(w) ==
    step[w] \in {"working", "marking"} /\ task[w] \notin cancels \cup strays =>
        /\ status[task[w]] = "running"
        /\ \A v \in Workers : Executes(v, task[w]) => v = w
        /\ step[w] = "marking" => saw[w] = Row(task[w])

\* Only cancelled tasks are retried, or get a dead letter from a scan.
AdminInv(a) ==
    /\ call[a] = "retry" => target[a] \in cancels
    /\ call[a] = "mark" => target[a] \in strays /\ saw[a].attempts <= attempts[target[a]]
    /\ add[a] \subseteq cancels

\* Nobody has a success in hand unless it is contested.
ContestInv(t) ==
    status[t] = "succeeded" /\ t \notin contested => \A s \in Sessions : ~HasInHand(s, t)

\* The inductive invariant.
IInv ==
    /\ TypeOK
    /\ StartsBounded
    /\ \A t \in Tasks : RowInv(t) /\ ContestInv(t)
    /\ \A w \in Workers : PickInv(w) /\ MarkInv(w) /\ ExecuteInv(w)
    /\ \A a \in Admins : AdminInv(a)

\* The rows that a session reads.
Rows == [status : Statuses, attempts : Nat, quota : BOOLEAN]

USE DEF Statuses, Finished, Cancellable, Marks, Sessions, Rows, rowVars, letterVars, workerVars,
        adminVars, historyVars

LEMMA RowsAreRead ==
    /\ NoRow \in Rows
    /\ TypeOK => \A t \in Tasks : Row(t) \in Rows /\ Row(t).attempts = attempts[t]
BY DEF NoRow, Row, TypeOK

LEMMA InitIInv == Init => IInv
<1> SUFFICES ASSUME Init PROVE IInv
  OBVIOUS
<1>1. ATask \in Tasks
  BY PipelineAssumption DEF ATask
<1>2. TypeOK
  BY <1>1, RowsAreRead DEF Init, TypeOK
<1>3. StartsBounded
  BY PipelineAssumption DEF Init, StartsBounded
<1>4. QED
  BY <1>2, <1>3 DEF Init, IInv, RowInv, ContestInv, PickInv, MarkInv, ExecuteInv, AdminInv

-----------------------------------------------------------------------------
(* Workers.                                                                *)

LEMMA EnqueueStep ==
    ASSUME IInv, NEW t \in Tasks, Enqueue(t)
    PROVE  IInv'
<1> USE DEF Enqueue, IInv
<1>1. TypeOK' /\ StartsBounded'
  BY DEF TypeOK, StartsBounded
<1>2. \A u \in Tasks : RowInv(u)' /\ ContestInv(u)'
  BY DEF TypeOK, RowInv, ContestInv, HasInHand
<1>3. \A w \in Workers : PickInv(w)' /\ MarkInv(w)'
  BY DEF TypeOK, PickInv, MarkInv
<1>4. \A w \in Workers : ExecuteInv(w)'
  BY DEF TypeOK, ExecuteInv, Executes, Row
<1>5. \A a \in Admins : AdminInv(a)'
  BY DEF AdminInv
<1>6. QED
  BY <1>1, <1>2, <1>3, <1>4, <1>5

LEMMA PickStep ==
    ASSUME IInv, NEW w \in Workers, Pick(w)
    PROVE  IInv'
<1> USE DEF IInv
<1>1. PICK t \in Tasks : /\ Eligible(t)
                         /\ task' = [task EXCEPT ![w] = t]
                         /\ saw' = [saw EXCEPT ![w] = Row(t)]
  BY DEF Pick
<1>2. /\ step[w] = "idle" /\ step' = [step EXCEPT ![w] = "picked"]
      /\ UNCHANGED <<rowVars, letterVars, adminVars, historyVars>>
  BY DEF Pick
<1>3. TypeOK' /\ StartsBounded'
  BY <1>1, <1>2, RowsAreRead DEF TypeOK, StartsBounded
<1>4. \A u \in Tasks : RowInv(u)'
  BY <1>2 DEF RowInv
<1>5. \A u \in Tasks : ContestInv(u)'
  BY <1>1, <1>2 DEF TypeOK, ContestInv, HasInHand, Eligible
<1>6. \A v \in Workers : PickInv(v)' /\ MarkInv(v)'
  BY <1>1, <1>2, RowsAreRead DEF TypeOK, PickInv, MarkInv, Eligible, Locked
<1>7. \A v \in Workers : ExecuteInv(v)'
  BY <1>1, <1>2 DEF TypeOK, ExecuteInv, Executes, Row
<1>8. \A a \in Admins : AdminInv(a)'
  BY <1>1, <1>2, PipelineAssumption DEF AdminInv, TypeOK
<1>9. QED
  BY <1>3, <1>4, <1>5, <1>6, <1>7, <1>8

\* The locked row is what was read, so the attempt that is written counts it.
LEMMA CommitPickStep ==
    ASSUME IInv, NEW w \in Workers, CommitPick(w)
    PROVE  IInv'
<1> DEFINE t == task[w]
<1> USE DEF CommitPick, Forget, IInv
<1>1. /\ t \in Tasks /\ status[t] = "queued"
      /\ saw[w].attempts = attempts[t] /\ attempts[t] \in Nat /\ attempts[t] < MaxAttempts
  BY DEF TypeOK, PickInv
<1>2. TypeOK'
  BY <1>1, RowsAreRead DEF TypeOK
<1>3. StartsBounded'
  BY <1>1, PipelineAssumption DEF TypeOK, StartsBounded
<1>4. \A u \in Tasks : RowInv(u)'
  BY <1>1 DEF TypeOK, RowInv
<1>5. \A u \in Tasks : ContestInv(u)'
  BY <1>1 DEF TypeOK, ContestInv, HasInHand
<1>6. \A v \in Workers : PickInv(v)' /\ MarkInv(v)'
  BY <1>1 DEF TypeOK, PickInv, MarkInv
<1>7. ASSUME NEW v \in Workers, v # w, Executes(v, t), t \notin cancels \cup strays PROVE FALSE
  BY <1>1, <1>7 DEF ExecuteInv, Executes
<1>8. \A v \in Workers : ExecuteInv(v)'
  BY <1>1, <1>7 DEF TypeOK, ExecuteInv, Executes, Row
<1>9. \A a \in Admins : AdminInv(a)'
  BY <1>1, PipelineAssumption DEF AdminInv, TypeOK
<1>10. QED
  BY <1>2, <1>3, <1>4, <1>5, <1>6, <1>8, <1>9

LEMMA ReadToMarkStep ==
    ASSUME IInv, NEW w \in Workers, ReadToMark(w)
    PROVE  IInv'
<1> USE DEF ReadToMark, IInv
<1>1. TypeOK' /\ StartsBounded'
  BY RowsAreRead DEF TypeOK, StartsBounded
<1>2. \A u \in Tasks : RowInv(u)' /\ ContestInv(u)'
  BY DEF TypeOK, RowInv, ContestInv, HasInHand
<1>3. \A v \in Workers : PickInv(v)' /\ MarkInv(v)'
  BY RowsAreRead DEF TypeOK, PickInv, MarkInv
<1>4. \A v \in Workers : ExecuteInv(v)'
  BY DEF TypeOK, ExecuteInv, Executes, Row
<1>5. \A a \in Admins : AdminInv(a)'
  BY PipelineAssumption DEF AdminInv, TypeOK
<1>6. QED
  BY <1>1, <1>2, <1>3, <1>4, <1>5

-----------------------------------------------------------------------------
(* Marks.                                                                  *)

\* What every mark does to the row and to the dead letters.
LEMMA MarkedRow ==
    ASSUME IInv, NEW s \in Sessions, NEW t \in Tasks, NEW m \in Marks, WriteMark(s, t, m),
           saw[s].attempts <= attempts[t]
    PROVE  /\ status' \in [Tasks -> Statuses] /\ quota' \in [Tasks -> BOOLEAN]
           /\ entries' \in [Tasks -> Nat]
           /\ \A u \in Tasks : RowInv(u)'
<1> DEFINE new == Marked(m, saw[s])
<1> USE DEF IInv
<1>1. new \in {"succeeded", "failed", "queued", "blocked"}
      /\ (new = "failed" <=> m = "fail" /\ Exhausted(saw[s]))
  BY DEF Marked
<1>2. /\ status' = [status EXCEPT ![t] = IF new # saw[s].status THEN new ELSE @]
      /\ entries' = [entries EXCEPT ![t] = IF Quarantines(s, t, m) THEN @ + 1 ELSE @]
      /\ UNCHANGED <<attempts, cancels>>
  BY DEF WriteMark
<1>3. status' \in [Tasks -> Statuses] /\ entries' \in [Tasks -> Nat]
  BY <1>1, <1>2 DEF TypeOK
<1>4. quota' \in [Tasks -> BOOLEAN]
  BY DEF WriteMark, TypeOK
<1>5. ASSUME NEW u \in Tasks PROVE RowInv(u)'
  <2>1. CASE u # t
    BY <1>2, <2>1 DEF TypeOK, RowInv
  <2>2. CASE u = t
    <3>1. status'[t] = new \/ status'[t] = status[t]
      BY <1>2 DEF TypeOK
    <3>2. ASSUME t \notin cancels
          PROVE  entries'[t] \in {0, 1} /\ (new = "failed" => entries'[t] = 1)
                 /\ (entries[t] = 1 => entries'[t] = 1)
      <4>1. entries[t] \in {0, 1}
        BY <3>2 DEF RowInv
      <4>2. entries'[t] = IF Quarantines(s, t, m) THEN entries[t] + 1 ELSE entries[t]
        BY <1>2 DEF TypeOK
      <4>3. Quarantines(s, t, m) <=> new = "failed" /\ entries[t] = 0
        BY <1>1 DEF Quarantines
      <4>4. QED
        BY <4>1, <4>2, <4>3
    <3>3. new = "failed" => attempts[t] = MaxAttempts
      <4>1. attempts[t] \in Nat /\ attempts[t] <= MaxAttempts /\ saw[s].attempts \in Nat
        BY DEF StartsBounded, TypeOK
      <4>2. QED
        BY <1>1, <4>1, PipelineAssumption DEF Exhausted
    <3>4. QED
      BY <1>1, <1>2, <2>2, <3>1, <3>2, <3>3 DEF RowInv
  <2>3. QED
    BY <2>1, <2>2
<1>6. QED
  BY <1>3, <1>4, <1>5

\* A success is left uncontested only when nobody else has the task in hand.
LEMMA MarkedContest ==
    ASSUME IInv, NEW s \in Sessions, NEW t \in Tasks, NEW m \in Marks, WriteMark(s, t, m),
           \A u \in Tasks : ~HasInHand(s, u)',
           \A o \in Sessions \ {s} : \A u \in Tasks : HasInHand(o, u)' <=> HasInHand(o, u)
    PROVE  (\A u \in Tasks : ContestInv(u)') /\ contested' \in SUBSET Tasks
<1> USE DEF IInv
<1>1. contested' \in SUBSET Tasks
      /\ \A u \in Tasks \ {t} : u \in contested' <=> u \in contested
  BY DEF WriteMark, TypeOK
<1>2. status'[t] = "succeeded" /\ t \notin contested' =>
          \A o \in Sessions \ {s} : ~HasInHand(o, t)
  BY DEF WriteMark
<1>3. \A u \in Tasks \ {t} : status'[u] = status[u]
  BY DEF WriteMark, TypeOK
<1>4. ASSUME NEW u \in Tasks PROVE ContestInv(u)'
  <2>1. CASE u = t
    BY <1>2, <2>1 DEF ContestInv
  <2>2. CASE u # t
    BY <1>1, <1>3, <2>2 DEF ContestInv
  <2>3. QED
    BY <2>1, <2>2
<1>5. QED
  BY <1>1, <1>4

\* A mark of a task that nobody else marked or cancelled overwrites what it has
\* read.
LEMMA CommitMarkStep ==
    ASSUME IInv, NEW w \in Workers, CommitMark(w)
    PROVE  IInv'
<1> DEFINE t == task[w]
<1> USE DEF IInv
<1>1. PICK m \in Marks : WriteMark(w, t, m)
  BY DEF CommitMark
<1>2. /\ t \in Tasks /\ step[w] = "marking" /\ step' = [step EXCEPT ![w] = "idle"] /\ ~Locked(t)
      /\ saw' = [saw EXCEPT ![w] = NoRow]
      /\ UNCHANGED <<attempts, discarded, task, adminVars, starts, cancels, abandoned, strays>>
  BY <1>1 DEF CommitMark, TypeOK, WriteMark, Forget
<1>3. saw[w].attempts <= attempts[t]
  BY <1>2 DEF MarkInv
<1>4. /\ status' \in [Tasks -> Statuses] /\ quota' \in [Tasks -> BOOLEAN]
      /\ entries' \in [Tasks -> Nat] /\ \A u \in Tasks : RowInv(u)'
  BY <1>1, <1>2, <1>3, MarkedRow
<1>5. (\A u \in Tasks : ContestInv(u)') /\ contested' \in SUBSET Tasks
  <2>1. \A u \in Tasks : ~HasInHand(w, u)'
    BY <1>2, PipelineAssumption DEF HasInHand, TypeOK
  <2>2. \A o \in Sessions \ {w} : \A u \in Tasks : HasInHand(o, u)' <=> HasInHand(o, u)
    BY <1>2 DEF HasInHand, TypeOK
  <2>3. QED
    BY <1>1, <1>2, <2>1, <2>2, MarkedContest
<1>6. TypeOK' /\ StartsBounded'
  BY <1>2, <1>4, <1>5, RowsAreRead DEF TypeOK, StartsBounded
<1>7. \A u \in Tasks \ {t} : status'[u] = status[u] /\ quota'[u] = quota[u]
  BY <1>1 DEF WriteMark, TypeOK
<1>8. \A v \in Workers : PickInv(v)' /\ MarkInv(v)'
  BY <1>2, <1>7 DEF TypeOK, PickInv, MarkInv, Locked
<1>9. ASSUME NEW v \in Workers PROVE ExecuteInv(v)'
  <2>1. CASE v = w
    BY <1>2, <2>1 DEF TypeOK, ExecuteInv
  <2>2. CASE v # w /\ task[v] = t
    <3>1. Executes(v, t) => t \in cancels \cup strays
      BY <1>2, <2>2 DEF ExecuteInv, Executes
    <3>2. QED
      BY <1>2, <2>2, <3>1 DEF TypeOK, ExecuteInv, Executes
  <2>3. CASE v # w /\ task[v] # t
    <3>1. status'[task[v]] = status[task[v]] /\ quota'[task[v]] = quota[task[v]]
      BY <1>7, <2>3 DEF TypeOK
    <3>2. step'[v] = step[v] /\ saw'[v] = saw[v]
          /\ \A x \in Workers : Executes(x, task[v])' => Executes(x, task[v])
      BY <1>2, <2>3 DEF TypeOK, Executes
    <3>3. QED
      BY <1>2, <3>1, <3>2 DEF ExecuteInv, Executes, Row
  <2>4. QED
    BY <2>1, <2>2, <2>3
<1>10. \A a \in Admins : AdminInv(a)'
  BY <1>2, PipelineAssumption DEF AdminInv, TypeOK
<1>11. QED
  BY <1>4, <1>5, <1>6, <1>8, <1>9, <1>10

\* A mark from outside may leave anything but a locked row.
LEMMA CommitMarkAnyStep ==
    ASSUME IInv, NEW a \in Admins, CommitMarkAny(a)
    PROVE  IInv'
<1> DEFINE t == target[a]
<1> USE DEF IInv
<1>1. PICK m \in Marks : WriteMark(a, t, m)
  BY DEF CommitMarkAny
<1>2. /\ t \in Tasks /\ call[a] = "mark" /\ call' = [call EXCEPT ![a] = "idle"] /\ ~Locked(t)
      /\ saw' = [saw EXCEPT ![a] = NoRow]
      /\ UNCHANGED <<attempts, discarded, step, task, target, todo, add, starts, cancels, abandoned,
                     strays>>
  BY <1>1 DEF CommitMarkAny, TypeOK, WriteMark, Forget
<1>3. saw[a].attempts <= attempts[t] /\ t \in strays
  BY <1>2 DEF AdminInv
<1>4. /\ status' \in [Tasks -> Statuses] /\ quota' \in [Tasks -> BOOLEAN]
      /\ entries' \in [Tasks -> Nat] /\ \A u \in Tasks : RowInv(u)'
  BY <1>1, <1>2, <1>3, MarkedRow
<1>5. (\A u \in Tasks : ContestInv(u)') /\ contested' \in SUBSET Tasks
  <2>1. \A u \in Tasks : ~HasInHand(a, u)'
    BY <1>2, PipelineAssumption DEF HasInHand, TypeOK
  <2>2. \A o \in Sessions \ {a} : \A u \in Tasks : HasInHand(o, u)' <=> HasInHand(o, u)
    BY <1>2 DEF HasInHand, TypeOK
  <2>3. QED
    BY <1>1, <1>2, <2>1, <2>2, MarkedContest
<1>6. TypeOK' /\ StartsBounded'
  BY <1>2, <1>4, <1>5, RowsAreRead DEF TypeOK, StartsBounded
<1>7. \A u \in Tasks \ {t} : status'[u] = status[u] /\ quota'[u] = quota[u]
  BY <1>1 DEF WriteMark, TypeOK
<1>8. \A v \in Workers : saw'[v] = saw[v]
  BY <1>2, PipelineAssumption DEF TypeOK
<1>9. \A v \in Workers : PickInv(v)' /\ MarkInv(v)'
  BY <1>2, <1>7, <1>8 DEF TypeOK, PickInv, MarkInv, Locked
<1>10. ASSUME NEW v \in Workers PROVE ExecuteInv(v)'
  <2>1. CASE task[v] = t
    BY <1>2, <1>3, <2>1 DEF ExecuteInv
  <2>2. CASE task[v] # t
    <3>1. status'[task[v]] = status[task[v]] /\ quota'[task[v]] = quota[task[v]]
      BY <1>7, <2>2 DEF TypeOK
    <3>2. QED
      BY <1>2, <1>8, <3>1 DEF ExecuteInv, Executes, Row
  <2>3. QED
    BY <2>1, <2>2
<1>11. \A b \in Admins : AdminInv(b)'
  BY <1>2 DEF AdminInv, TypeOK
<1>12. QED
  BY <1>4, <1>5, <1>6, <1>9, <1>10, <1>11

LEMMA DropStep ==
    ASSUME IInv, NEW w \in Workers, Drop(w)
    PROVE  IInv'
<1> USE DEF Drop, Forget, IInv
<1>1. TypeOK' /\ StartsBounded'
  BY RowsAreRead DEF TypeOK, StartsBounded
<1>2. \A u \in Tasks : RowInv(u)' /\ ContestInv(u)'
  BY DEF TypeOK, RowInv, ContestInv, HasInHand
<1>3. \A v \in Workers : PickInv(v)' /\ MarkInv(v)'
  BY DEF TypeOK, PickInv, MarkInv
<1>4. \A v \in Workers : ExecuteInv(v)'
  BY DEF TypeOK, ExecuteInv, Executes, Row
<1>5. \A a \in Admins : AdminInv(a)'
  BY PipelineAssumption DEF AdminInv, TypeOK
<1>6. QED
  BY <1>1, <1>2, <1>3, <1>4, <1>5

-----------------------------------------------------------------------------
(* The other sessions.                                                     *)

\* Steps that only change what such a session is about to do.
LEMMA RequestStep ==
    ASSUME IInv, NEW a \in Admins, UNCHANGED <<rowVars, letterVars, step, task, starts, cancels,
                                               abandoned>>,
           \A w \in Workers : saw'[w] = saw[w],
           strays \subseteq strays', contested \subseteq contested',
           \A u \in Tasks : status[u] # "succeeded" \/ u \in contested' \/
               \A b \in Admins : call'[b] \in {"cancel", "retry", "mark"} /\ target'[b] = u =>
                                     call[b] \in {"cancel", "retry", "mark"} /\ target[b] = u,
           TypeOK', \A b \in Admins : AdminInv(b)'
    PROVE  IInv'
<1>1. StartsBounded' /\ \A u \in Tasks : RowInv(u)'
  BY DEF IInv, StartsBounded, RowInv
<1>2. \A u \in Tasks : ContestInv(u)'
  BY DEF IInv, ContestInv, HasInHand
<1>3. \A w \in Workers : PickInv(w)' /\ MarkInv(w)' /\ ExecuteInv(w)'
  BY DEF IInv, PickInv, MarkInv, ExecuteInv, Executes, Row
<1>4. QED
  BY <1>1, <1>2, <1>3 DEF IInv

LEMMA ReadToMarkAnyStep ==
    ASSUME IInv, NEW a \in Admins, NEW t \in Tasks, ReadToMarkAny(a, t)
    PROVE  IInv'
<1> USE DEF ReadToMarkAny, IInv
<1>1. \A w \in Workers : saw'[w] = saw[w]
  BY PipelineAssumption DEF TypeOK
<1>2. TypeOK'
  BY RowsAreRead DEF TypeOK
<1>3. \A b \in Admins : AdminInv(b)'
  BY RowsAreRead DEF TypeOK, AdminInv
<1>4. \A u \in Tasks : status[u] # "succeeded" \/ u \in contested' \/
          \A b \in Admins : call'[b] \in {"cancel", "retry", "mark"} /\ target'[b] = u =>
                                call[b] \in {"cancel", "retry", "mark"} /\ target[b] = u
  BY DEF TypeOK
<1>5. QED
  BY <1>1, <1>2, <1>3, <1>4, RequestStep

\* Nobody takes a success in hand but to mark it.
LEMMA ReadStep ==
    ASSUME IInv, NEW a \in Admins, NEW t \in Tasks,
           ReadToCancel(a, t) \/ ReadToRetry(a, t) \/ Examine(a, t)
    PROVE  IInv'
<1> USE DEF IInv
<1>1. CASE ReadToCancel(a, t)
  <2>1. \A u \in Tasks : status[u] # "succeeded" \/ u \in contested' \/
            \A b \in Admins : call'[b] \in {"cancel", "retry", "mark"} /\ target'[b] = u =>
                                  call[b] \in {"cancel", "retry", "mark"} /\ target[b] = u
    BY <1>1 DEF ReadToCancel, TypeOK
  <2>2. TypeOK' /\ \A b \in Admins : AdminInv(b)'
    BY <1>1 DEF ReadToCancel, TypeOK, AdminInv
  <2>3. QED
    BY <1>1, <2>1, <2>2, RequestStep DEF ReadToCancel
<1>2. CASE ReadToRetry(a, t)
  <2>1. t \in cancels
    <3>1. RowInv(t) /\ attempts[t] \in Nat
      BY DEF TypeOK
    <3>2. QED
      BY <1>2, <3>1, PipelineAssumption DEF ReadToRetry, RowInv
  <2>2. \A u \in Tasks : status[u] # "succeeded" \/ u \in contested' \/
            \A b \in Admins : call'[b] \in {"cancel", "retry", "mark"} /\ target'[b] = u =>
                                  call[b] \in {"cancel", "retry", "mark"} /\ target[b] = u
    BY <1>2 DEF ReadToRetry, TypeOK
  <2>3. TypeOK'
    BY <1>2 DEF ReadToRetry, TypeOK
  <2>4. \A b \in Admins : AdminInv(b)'
    BY <1>2, <2>1 DEF ReadToRetry, TypeOK, AdminInv
  <2>5. QED
    BY <1>2, <2>2, <2>3, <2>4, RequestStep DEF ReadToRetry
<1>3. CASE Examine(a, t)
  <2>1. Suspect(t) => t \in cancels
    BY DEF Suspect, RowInv
  <2>2. \E on, more \in SUBSET Tasks : /\ todo' = [todo EXCEPT ![a] = on]
                                       /\ add' = [add EXCEPT ![a] = more]
                                       /\ more \subseteq add[a] \cup (cancels \cap Tasks)
    <3>1. CASE status[t] = "failed" /\ entries[t] > 1
      BY <1>3, <3>1 DEF Examine
    <3>2. CASE ~(status[t] = "failed" /\ entries[t] > 1)
      <4>1. /\ todo' = [todo EXCEPT ![a] = todo[a] \ {t}]
            /\ add' = [add EXCEPT ![a] = IF Suspect(t) THEN add[a] \cup {t} ELSE add[a]]
        BY <1>3, <3>2 DEF Examine
      <4>2. todo[a] \ {t} \in SUBSET Tasks
            /\ (IF Suspect(t) THEN add[a] \cup {t} ELSE add[a]) \in SUBSET Tasks
        BY DEF TypeOK
      <4>3. QED
        BY <2>1, <4>1, <4>2
    <3>3. QED
      BY <3>1, <3>2
  <2>3. call' \in [Admins -> {"idle", "mark", "cancel", "retry", "detect"}]
        /\ \A b \in Admins : call'[b] # "idle" => call'[b] = call[b]
    BY <1>3 DEF Examine, TypeOK
  <2>4. TypeOK'
    <3>1. todo' \in [Admins -> SUBSET Tasks] /\ add' \in [Admins -> SUBSET Tasks]
      BY <2>2 DEF TypeOK
    <3>2. QED
      BY <1>3, <2>3, <3>1 DEF Examine, TypeOK
  <2>5. \A b \in Admins : AdminInv(b)'
    BY <1>3, <2>2, <2>3 DEF Examine, TypeOK, AdminInv
  <2>6. \A u \in Tasks : status[u] # "succeeded" \/ u \in contested' \/
            \A b \in Admins : call'[b] \in {"cancel", "retry", "mark"} /\ target'[b] = u =>
                                  call[b] \in {"cancel", "retry", "mark"} /\ target[b] = u
    BY <1>3, <2>3 DEF Examine
  <2>7. QED
    BY <1>3, <2>4, <2>5, <2>6, RequestStep DEF Examine
<1>4. QED
  BY <1>1, <1>2, <1>3

LEMMA ScanStep ==
    ASSUME IInv, NEW a \in Admins, Scan(a) \/ AbortCall(a)
    PROVE  IInv'
<1> USE DEF IInv
<1>1. \E ts \in SUBSET Tasks : todo' = [todo EXCEPT ![a] = ts]
  BY DEF Scan, AbortCall
<1>2. /\ call' \in [Admins -> {"idle", "mark", "cancel", "retry", "detect"}]
      /\ \A b \in Admins : /\ add'[b] \in {add[b], {}}
                           /\ call'[b] \in {call[b], "idle", "detect"}
                           /\ call'[b] = "mark" => saw'[b] = saw[b]
  BY DEF Scan, AbortCall, Forget, TypeOK
<1>3. /\ \A w \in Workers : saw'[w] = saw[w]
      /\ saw' \in [Sessions -> Rows]
      /\ UNCHANGED <<rowVars, letterVars, step, task, target, historyVars>>
  <2>1. CASE Scan(a)
    BY <2>1 DEF Scan, TypeOK
  <2>2. CASE AbortCall(a)
    <3>1. saw' = [saw EXCEPT ![a] = NoRow]
      BY <2>2 DEF AbortCall, Forget
    <3>2. \A w \in Workers : w # a /\ w \in Sessions
      BY PipelineAssumption
    <3>3. QED
      BY <2>2, <3>1, <3>2, RowsAreRead DEF AbortCall, TypeOK
  <2>3. QED
    BY <2>1, <2>2
<1>4. TypeOK'
  <2>1. todo' \in [Admins -> SUBSET Tasks]
    BY <1>1 DEF TypeOK
  <2>2. add' \in [Admins -> SUBSET Tasks]
    BY DEF Scan, AbortCall, TypeOK
  <2>3. QED
    BY <1>2, <1>3, <2>1, <2>2 DEF TypeOK
<1>5. \A b \in Admins : AdminInv(b)'
  BY <1>2, <1>3 DEF AdminInv
<1>6. QED
  BY <1>2, <1>3, <1>4, <1>5, RequestStep

\* After a cancellation the invariant says little of a task.
LEMMA CommitCancelStep ==
    ASSUME IInv, NEW a \in Admins, CommitCancel(a)
    PROVE  IInv'
<1> USE DEF CommitCancel, IInv
<1>1. TypeOK' /\ StartsBounded'
  BY DEF TypeOK, StartsBounded
<1>2. \A u \in Tasks : RowInv(u)' /\ ContestInv(u)'
  BY DEF TypeOK, RowInv, ContestInv, HasInHand
<1>3. \A v \in Workers : PickInv(v)' /\ MarkInv(v)'
  BY DEF TypeOK, PickInv, MarkInv, Locked
<1>4. \A v \in Workers : ExecuteInv(v)'
  BY DEF TypeOK, ExecuteInv, Executes, Row
<1>5. \A b \in Admins : AdminInv(b)'
  BY DEF TypeOK, AdminInv
<1>6. QED
  BY <1>1, <1>2, <1>3, <1>4, <1>5

LEMMA CommitRetryStep ==
    ASSUME IInv, NEW a \in Admins, CommitRetry(a)
    PROVE  IInv'
<1> USE DEF CommitRetry, IInv
<1>1. target[a] \in cancels
  BY DEF AdminInv
<1>2. TypeOK' /\ StartsBounded'
  BY DEF TypeOK, StartsBounded
<1>3. \A u \in Tasks : RowInv(u)' /\ ContestInv(u)'
  BY <1>1 DEF TypeOK, RowInv, ContestInv, HasInHand
<1>4. \A v \in Workers : PickInv(v)' /\ MarkInv(v)'
  BY DEF TypeOK, PickInv, MarkInv, Locked
<1>5. \A v \in Workers : ExecuteInv(v)'
  BY <1>1 DEF TypeOK, ExecuteInv, Executes, Row
<1>6. \A b \in Admins : AdminInv(b)'
  BY DEF TypeOK, AdminInv
<1>7. QED
  BY <1>2, <1>3, <1>4, <1>5, <1>6

\* Dead letters are added and discarded.
LEMMA LetterStep ==
    ASSUME IInv, (\E a \in Admins : CommitDetect(a)) \/ (\E t \in Tasks : Discard(t))
    PROVE  IInv'
<1> USE DEF IInv
<1> DEFINE OnlyLetters ==
        /\ UNCHANGED <<rowVars, workerVars, target, todo, historyVars>>
        /\ entries' \in [Tasks -> Nat] /\ discarded' \in [Tasks -> Nat]
        /\ \A t \in Tasks \ cancels : entries'[t] = entries[t]
        /\ call' \in [Admins -> {"idle", "mark", "cancel", "retry", "detect"}]
        /\ add' \in [Admins -> SUBSET Tasks]
        /\ \A b \in Admins : /\ add'[b] \in {add[b], {}}
                             /\ call'[b] \in {call[b], "idle"}
<1>1. OnlyLetters
  <2>1. ASSUME NEW a \in Admins, CommitDetect(a) PROVE OnlyLetters
    BY <2>1 DEF CommitDetect, TypeOK, AdminInv
  <2>2. ASSUME NEW t \in Tasks, Discard(t) PROVE OnlyLetters
    BY <2>2 DEF Discard, TypeOK
  <2>3. QED
    BY <2>1, <2>2
<1>2. TypeOK' /\ StartsBounded'
  BY <1>1 DEF TypeOK, StartsBounded
<1>3. \A u \in Tasks : RowInv(u)' /\ ContestInv(u)'
  BY <1>1 DEF RowInv, ContestInv, HasInHand
<1>4. \A v \in Workers : PickInv(v)' /\ MarkInv(v)' /\ ExecuteInv(v)'
  BY <1>1 DEF PickInv, MarkInv, ExecuteInv, Executes, Row
<1>5. \A b \in Admins : AdminInv(b)'
  BY <1>1 DEF AdminInv
<1>6. QED
  BY <1>2, <1>3, <1>4, <1>5

-----------------------------------------------------------------------------
(* Theorems about pipeline tasks.                                          *)

LEMMA NextIInv == IInv /\ [Next]_vars => IInv'
<1> SUFFICES ASSUME IInv, [Next]_vars PROVE IInv'
  OBVIOUS
<1>1. ASSUME NEW w \in Workers, Work(w) \/ Drop(w) PROVE IInv'
  BY <1>1, PickStep, CommitPickStep, ReadToMarkStep, CommitMarkStep, DropStep DEF Work
<1>2. ASSUME NEW t \in Tasks, Enqueue(t) \/ Discard(t) PROVE IInv'
  BY <1>2, EnqueueStep, LetterStep
<1>3. ASSUME NEW a \in Admins, NEW t \in Tasks,
             ReadToMarkAny(a, t) \/ ReadToCancel(a, t) \/ ReadToRetry(a, t) \/ Examine(a, t)
      PROVE  IInv'
  BY <1>3, ReadToMarkAnyStep, ReadStep
<1>4. ASSUME NEW a \in Admins,
             \/ CommitMarkAny(a) \/ CommitCancel(a) \/ CommitRetry(a) \/ Scan(a)
             \/ CommitDetect(a) \/ AbortCall(a)
      PROVE  IInv'
  BY <1>4, CommitMarkAnyStep, CommitCancelStep, CommitRetryStep, ScanStep, LetterStep
<1>5. CASE UNCHANGED vars
  BY <1>5 DEF vars, IInv, TypeOK, StartsBounded, RowInv, ContestInv, HasInHand, PickInv, MarkInv,
              ExecuteInv, Executes, Row, AdminInv
<1>6. QED
  BY <1>1, <1>2, <1>3, <1>4, <1>5 DEF Next

THEOREM Invariant == Spec => []IInv
BY InitIInv, NextIInv, PTL DEF Spec

\* Every start is counted and there are at most max_attempts of them; a task
\* that nobody cancelled, or marked from outside, is executed by one worker at a
\* time; and one that nobody cancelled has one dead letter when it is exhausted,
\* whoever marks it.
THEOREM TasksAreBounded == Spec => []TaskInv
<1>1. IInv => OneExecution
  BY DEF IInv, OneExecution, ExecuteInv, Executes
<1>2. IInv => ExhaustedIsQuarantined
  BY DEF IInv, ExhaustedIsQuarantined, RowInv
<1>3. IInv => TaskInv
  BY <1>1, <1>2 DEF IInv, TaskInv
<1>4. QED
  BY <1>3, Invariant, PTL

\* Whoever undoes a success had read the task when it was committed, or marked
\* it since; and the task was cancelled, or marked by a session that did not
\* execute it.
THEOREM OnlyContestedSuccessesEnd == Spec => SuccessIsFinal
<1> DEFINE Undone(t) == status[t] = "succeeded" /\ status'[t] # "succeeded"
           Excused(t) == t \in contested /\ t \in cancels' \cup strays
           Final == \A t \in Tasks : Undone(t) => Excused(t)
<1>1. ASSUME IInv, [Next]_vars PROVE [Final]_vars
  <2> SUFFICES ASSUME NEW t \in Tasks, Undone(t) PROVE Excused(t)
    OBVIOUS
  <2> USE DEF IInv
  <2>1. ASSUME NEW s \in Sessions, HasInHand(s, t) PROVE t \in contested
    BY <1>1, <2>1 DEF ContestInv
  <2>2. ASSUME NEW w \in Workers, CommitPick(w) PROVE FALSE
    <3>1. status[task[w]] = "queued"
      BY <1>1, <2>2 DEF CommitPick, PickInv
    <3>2. QED
      BY <1>1, <2>2, <3>1 DEF CommitPick, TypeOK
  <2>3. ASSUME NEW w \in Workers, CommitMark(w) PROVE Excused(t)
    <3>1. task[w] = t
      BY <1>1, <2>3 DEF CommitMark, WriteMark, TypeOK
    <3>2. t \in cancels \cup strays /\ step[w] = "marking"
      BY <1>1, <2>3, <3>1 DEF CommitMark, ExecuteInv
    <3>3. cancels' = cancels
      BY <2>3 DEF CommitMark, WriteMark
    <3>4. QED
      BY <2>1, <3>1, <3>2, <3>3 DEF HasInHand
  <2>4. ASSUME NEW a \in Admins, CommitMarkAny(a) PROVE Excused(t)
    <3>1. target[a] = t /\ call[a] = "mark"
      BY <1>1, <2>4 DEF CommitMarkAny, WriteMark, TypeOK
    <3>2. QED
      BY <1>1, <2>1, <3>1 DEF AdminInv, HasInHand
  <2>5. ASSUME NEW a \in Admins, CommitCancel(a) PROVE Excused(t)
    <3>1. target[a] = t /\ call[a] = "cancel"
      BY <1>1, <2>5 DEF CommitCancel, TypeOK
    <3>2. QED
      BY <2>1, <2>5, <3>1 DEF CommitCancel, HasInHand
  <2>6. ASSUME NEW a \in Admins, CommitRetry(a) PROVE Excused(t)
    <3>1. target[a] = t /\ call[a] = "retry"
      BY <1>1, <2>6 DEF CommitRetry, TypeOK
    <3>2. t \in cancels /\ cancels' = cancels
      BY <1>1, <2>6, <3>1 DEF AdminInv, CommitRetry
    <3>3. QED
      BY <2>1, <3>1, <3>2 DEF HasInHand
  <2>7. ASSUME NEW u \in Tasks, Enqueue(u) PROVE FALSE
    BY <1>1, <2>7 DEF Enqueue, TypeOK
  <2>8. QED
    BY <1>1, <2>2, <2>3, <2>4, <2>5, <2>6, <2>7
       DEF Next, Work, Discard, Pick, ReadToMark, ReadToMarkAny, Drop, ReadToCancel, ReadToRetry,
           Examine, Scan, CommitDetect, AbortCall, vars
<1>2. QED
  BY <1>1, Invariant, PTL DEF Spec, SuccessIsFinal

-----------------------------------------------------------------------------
(* Goals: the inductive invariant.                                         *)

Fields == {"status", "conf", "scope", "stamped", "meta"}

IsMeta(m) ==
    /\ m = [user |-> m.user, progress |-> m.progress, blockers |-> m.blockers]
    /\ m.user \in 0..MaxRequests /\ m.blockers \subseteq Node

IsGoal(r) ==
    /\ r = [f \in Fields |-> r[f]]
    /\ r.status \in Status /\ r.conf \in Confidence /\ r.scope \in Scope
    /\ r.stamped \in BOOLEAN /\ IsMeta(r.meta)

\* Values for some columns of a goal; the stamp is only ever set.
IsColumns(c) ==
    /\ c = [f \in DOMAIN c |-> c[f]] /\ DOMAIN c \subseteq Fields
    /\ "status" \in DOMAIN c => c.status \in Status
    /\ "conf" \in DOMAIN c => c.conf \in Confidence
    /\ "scope" \in DOMAIN c => c.scope \in Scope
    /\ "stamped" \in DOMAIN c => c.stamped = TRUE
    /\ "meta" \in DOMAIN c => IsMeta(c.meta)

\* A restricted memory belongs to the goals of an organization, unless it was
\* loosened since the review.
Kept(g, m) == class[m] = "restricted" => goal[g].scope = "organization" \/ <<g, m>> \in loosened

\* What an open transaction is about to write: it is about a goal that exists,
\* stamps what it completes, and has had its links reviewed.
Proper(w) ==
    /\ w = [job |-> w.job, goal |-> w.goal, cols |-> w.cols, nodes |-> w.nodes,
            links |-> w.links]
    /\ w.links \subseteq Goal \X Memory
    /\ \A g \in Goal, m \in Memory : <<g, m>> \in w.links => Kept(g, m)
    /\ w.goal # Nobody =>
          /\ w.goal \in Goal /\ Exists(w.goal) /\ IsColumns(w.cols)
          /\ w.job.kind \in {"patch", "progress", "blockers"}
          /\ "status" \in DOMAIN w.cols /\ w.cols.status = "completed" =>
                "stamped" \in DOMAIN w.cols \/ goal[w.goal].stamped

\* And as long as nobody has changed the goal since, that it is allowed to change
\* the status, and changes its own entry of the metadata only.
Fresh(w) ==
    LET row == goal[w.goal] IN
    w.goal # Nobody =>
        /\ "status" \in DOMAIN w.cols =>
              row.conf >= 50 \/ (row.status = "active" /\ w.cols.status = "blocked")
        /\ "meta" \in DOMAIN w.cols /\ w.job.kind = "progress" =>
              w.cols.meta = [row.meta EXCEPT !.progress = w.cols.meta.progress]
        /\ "meta" \in DOMAIN w.cols /\ w.job.kind = "blockers" =>
              w.cols.meta = [row.meta EXCEPT !.blockers = w.cols.meta.blockers]

WorkOK(a) == Proper(work[a]) /\ (a \notin stale => Fresh(work[a]))

RowsInv ==
    /\ \A g \in Goal : goal[g] = NoGoal \/ IsGoal(goal[g])
    /\ \A g \in Goal : IsMeta(merged[g]) /\ (origin[g] # Nobody => Exists(g))

TablesInv ==
    /\ goal = [g \in Goal |-> goal[g]] /\ merged = [g \in Goal |-> merged[g]]
    /\ DOMAIN node \subseteq Node /\ edge \subseteq (DOMAIN node) \X (DOMAIN node)
    /\ linked \subseteq Goal \X Memory /\ origin \in [Goal -> Session \cup {Nobody}]
    /\ loosened \subseteq Goal \X Memory /\ class \in [Memory -> Classification]
    /\ \A j \in Job : ready[j] \in Nat
    /\ ready = [j \in Job |-> ready[j]] /\ lock \subseteq Memory /\ asked \in 0..MaxRequests
    /\ slips \in 0..MaxSlips /\ work = [a \in Actor |-> work[a]]

\* A memory's linking task is in the broker, under way or over, and its key is
\* set by a run that is under way or over.
At(m) == \E w \in Worker : work[w].job \in JobKind("link") /\ work[w].job.of = m
LinksInv ==
    /\ \A m \in lock : At(m) \/ m \in served \cup failed
    /\ \A j \in JobKind("link") \cap sent : ready[j] > 0 \/ At(j.of) \/ j.of \in served \cup failed

\* Goals that are proposed for a session use up its message, or a second delivery.
Proposed(s) == {g \in Goal : origin[g] = s}
Left(s) == IF [kind |-> "plan", of |-> s] \in Job THEN ready[[kind |-> "plan", of |-> s]] ELSE 0
ProposedInv ==
    \A s \in Session : /\ IsFiniteSet(Proposed(s))
                       /\ Cardinality(Proposed(s)) + Left(s) <= 1 + slips

GoalIInv ==
    /\ RowsInv /\ TablesInv /\ (\A a \in Actor : WorkOK(a))
    /\ LinksInv /\ ProposedInv
    /\ CompletedIsStamped /\ RestrictedStayOut /\ MetadataMerged

-----------------------------------------------------------------------------
(* Rows and columns.                                                       *)

\* What is written over a row.
LEMMA WithIs ==
    ASSUME NEW row, NEW new
    PROVE  /\ DOMAIN With(row, new) = (DOMAIN row) \cup (DOMAIN new)
           /\ With(row, new) = [f \in DOMAIN With(row, new) |-> With(row, new)[f]]
           /\ \A f \in (DOMAIN row) \cup (DOMAIN new) :
                 With(row, new)[f] = IF f \in DOMAIN new THEN new[f] ELSE row[f]
BY DEF With

\* A function of one argument.
LEMMA OnlyIs ==
    ASSUME NEW x, NEW v
    PROVE  DOMAIN Only(x, v) = {x} /\ Only(x, v)[x] = v
BY DEF Only

\* A goal with new columns is a goal.
LEMMA WrittenGoal ==
    ASSUME NEW row, IsGoal(row), NEW c, IsColumns(c)
    PROVE  /\ IsGoal(With(row, c))
           /\ \A f \in Fields : With(row, c)[f] = IF f \in DOMAIN c THEN c[f] ELSE row[f]
<1>1. DOMAIN row = Fields
  BY DEF IsGoal
<1>2. (DOMAIN row) \cup (DOMAIN c) = Fields
  BY <1>1 DEF IsColumns
<1>3. /\ With(row, c) = [f \in Fields |-> With(row, c)[f]]
      /\ \A f \in Fields : With(row, c)[f] = IF f \in DOMAIN c THEN c[f] ELSE row[f]
  <2>1. With(row, c) = [f \in Fields |-> IF f \in DOMAIN c THEN c[f] ELSE row[f]]
    BY <1>2 DEF With
  <2>2. QED
    BY <2>1
<1> DEFINE r == With(row, c)
<1>4. /\ r.status = (IF "status" \in DOMAIN c THEN c.status ELSE row.status)
      /\ r.conf = (IF "conf" \in DOMAIN c THEN c.conf ELSE row.conf)
      /\ r.scope = (IF "scope" \in DOMAIN c THEN c.scope ELSE row.scope)
      /\ r.stamped = (IF "stamped" \in DOMAIN c THEN c.stamped ELSE row.stamped)
      /\ r.meta = (IF "meta" \in DOMAIN c THEN c.meta ELSE row.meta)
  BY <1>3 DEF Fields
<1>5. r = [f \in Fields |-> r[f]]
  BY <1>3
<1> HIDE DEF r
<1>6. IsGoal(r)
  BY <1>4, <1>5 DEF IsGoal, IsColumns
<1>7. QED
  BY <1>3, <1>6 DEF r

\* Nothing written is no change.
LEMMA NothingWritten ==
    ASSUME NEW row, IsGoal(row), NEW c, IsColumns(c), DOMAIN c = {}
    PROVE  With(row, c) = row
<1>1. DOMAIN row = Fields /\ (DOMAIN row) \cup (DOMAIN c) = Fields
  BY DEF IsGoal
<1>2. With(row, c) = [f \in Fields |-> row[f]]
  BY <1>1 DEF With
<1>3. QED
  BY <1>2 DEF IsGoal

\* Only columns that change are written.
LEMMA ColumnsAre ==
    ASSUME NEW row, NEW new
    PROVE  /\ DOMAIN Columns(row, new) \subseteq DOMAIN new
           /\ Columns(row, new) = [f \in DOMAIN Columns(row, new) |-> Columns(row, new)[f]]
           /\ \A f \in DOMAIN new : f \in DOMAIN Columns(row, new) <=> new[f] # row[f]
           /\ \A f \in DOMAIN Columns(row, new) : Columns(row, new)[f] = new[f]
BY DEF Columns

\* Of proper columns, those that change are proper as well.
LEMMA SomeColumns ==
    ASSUME NEW row, NEW new, IsColumns(new)
    PROVE  IsColumns(Columns(row, new))
<1> DEFINE c == Columns(row, new)
<1>1. /\ DOMAIN c \subseteq DOMAIN new /\ c = [f \in DOMAIN c |-> c[f]]
      /\ \A f \in DOMAIN c : c[f] = new[f]
  BY ColumnsAre
<1> HIDE DEF c
<1>2. IsColumns(c)
  BY <1>1 DEF IsColumns
<1>3. QED
  BY <1>2 DEF c

\* Metadata with one entry replaced.
LEMMA MetaEntries ==
    ASSUME NEW m, IsMeta(m), NEW x
    PROVE  /\ LET n == [m EXCEPT !.progress = x]
              IN  IsMeta(n) /\ n.progress = x /\ n.user = m.user /\ n.blockers = m.blockers
           /\ x \subseteq Node =>
                 LET n == [m EXCEPT !.blockers = x]
                 IN  IsMeta(n) /\ n.progress = m.progress /\ n.user = m.user /\ n.blockers = x
BY DEF IsMeta

\* Merging one entry is replacing it.
LEMMA MetaMerged ==
    ASSUME NEW m, IsMeta(m), NEW x
    PROVE  /\ With(m, [progress |-> x]) = [m EXCEPT !.progress = x]
           /\ With(m, [blockers |-> x]) = [m EXCEPT !.blockers = x]
           /\ With(m, <<>>) = m
           /\ IsMeta(x) => With(m, x) = x
<1> DEFINE E == {"user", "progress", "blockers"}
<1>1. DOMAIN m = E /\ m = [f \in E |-> m[f]]
  BY DEF IsMeta
<1>2. /\ DOMAIN [progress |-> x] = {"progress"} /\ [progress |-> x]["progress"] = x
      /\ DOMAIN [blockers |-> x] = {"blockers"} /\ [blockers |-> x]["blockers"] = x
      /\ DOMAIN <<>> = {}
  OBVIOUS
<1>3. With(m, [progress |-> x]) = [m EXCEPT !.progress = x]
  <2>1. (DOMAIN m) \cup {"progress"} = E
    BY <1>1
  <2>2. With(m, [progress |-> x]) = [f \in E |-> IF f \in {"progress"} THEN x ELSE m[f]]
    BY <1>2, <2>1 DEF With
  <2>3. [m EXCEPT !.progress = x] = [f \in E |-> IF f = "progress" THEN x ELSE m[f]]
    BY <1>1
  <2>4. QED
    BY <2>2, <2>3
<1>4. With(m, [blockers |-> x]) = [m EXCEPT !.blockers = x]
  <2>1. (DOMAIN m) \cup {"blockers"} = E
    BY <1>1
  <2>2. With(m, [blockers |-> x]) = [f \in E |-> IF f \in {"blockers"} THEN x ELSE m[f]]
    BY <1>2, <2>1 DEF With
  <2>3. [m EXCEPT !.blockers = x] = [f \in E |-> IF f = "blockers" THEN x ELSE m[f]]
    BY <1>1
  <2>4. QED
    BY <2>2, <2>3
<1>5. With(m, <<>>) = m
  <2>1. (DOMAIN m) \cup {} = E
    BY <1>1
  <2>2. With(m, <<>>) = [f \in E |-> IF f \in {} THEN <<>>[f] ELSE m[f]]
    BY <1>2, <2>1 DEF With
  <2>3. QED
    BY <1>1, <2>2
<1>6. ASSUME IsMeta(x) PROVE With(m, x) = x
  <2>1. DOMAIN x = E /\ x = [f \in E |-> x[f]]
    BY <1>6 DEF IsMeta
  <2>2. With(m, x) = [f \in E |-> IF f \in E THEN x[f] ELSE m[f]]
    BY <1>1, <2>1 DEF With
  <2>3. QED
    BY <2>1, <2>2
<1>7. QED
  BY <1>3, <1>4, <1>5, <1>6

-----------------------------------------------------------------------------
(* What steps may do to the work of others.                                *)

Monotone ==
    \A g \in Goal : /\ Exists(g) => Exists(g)'
                    /\ goal[g].stamped => goal'[g].stamped
                    /\ \A m \in Memory : <<g, m>> \in Reviewed /\ Kept(g, m) => Kept(g, m)'

\* Whose goal is written turns stale.
Noticed(b) ==
    b \notin stale' =>
        b \notin stale /\ (work[b].goal # Nobody => goal'[work[b].goal] = goal[work[b].goal])

\* What is about to be linked has been reviewed.
LEMMA WorkIsReviewed ==
    ASSUME NEW b \in Actor
    PROVE  work[b].links \subseteq Reviewed
BY DEF Reviewed

\* Work that is proper stays so when goals only gain what it relies on.
LEMMA ProperStays ==
    ASSUME Monotone, NEW w, Proper(w), w.links \subseteq Reviewed
    PROVE  Proper(w)'
<1>1. \A g \in Goal, m \in Memory : <<g, m>> \in w.links => Kept(g, m)'
  BY DEF Monotone, Proper
<1>2. QED
  BY <1>1 DEF Monotone, Proper, Exists, IsColumns, IsMeta

\* What a transaction is about to write stays right while others step.
LEMMA WorkStands ==
    ASSUME Monotone, NEW b \in Actor, WorkOK(b), work'[b] = work[b], Noticed(b)
    PROVE  WorkOK(b)'
<1>1. PICK w : w = work[b]
  OBVIOUS
<1>2. Proper(w)'
  BY <1>1, ProperStays, WorkIsReviewed DEF WorkOK
<1>3. ASSUME b \notin stale' PROVE Fresh(w)'
  <2>1. Fresh(w) /\ (w.goal # Nobody => goal'[w.goal] = goal[w.goal])
    BY <1>1, <1>3 DEF WorkOK, Noticed
  <2>2. QED
    BY <2>1 DEF Fresh
<1>4. Proper(work[b])' <=> Proper(w)'
  BY <1>1 DEF Proper, Kept
<1>5. Fresh(work[b])' <=> Fresh(w)'
  BY <1>1 DEF Fresh
<1>6. QED
  BY <1>2, <1>3, <1>4, <1>5 DEF WorkOK

\* A transaction that is not open writes nothing.
LEMMA NoWorkIsProper ==
    Proper(NoWork) /\ Fresh(NoWork) /\ NoWork.goal = Nobody /\ NoWork.job.kind = "none"
BY DEF Proper, Fresh, NoWork, Outcome, Transaction, Request, Nobody

\* A transaction begins after a look at the goal, or does not begin at all.
Takes(a) ==
    \/ UNCHANGED <<work, stale>>
    \/ \E w : Proper(w) /\ Fresh(w) /\ Begin(a, w)

\* After a transaction begins, the work of everybody is right.
LEMMA WorkTaken ==
    ASSUME GoalIInv, NEW a \in Actor, Takes(a), UNCHANGED <<goal, class, loosened>>
    PROVE  (\A b \in Actor : WorkOK(b)') /\ work' = [b \in Actor |-> work'[b]]
<1>1. Monotone /\ (\A b \in Actor : WorkOK(b)) /\ work = [b \in Actor |-> work[b]]
  BY DEF Monotone, Exists, Kept, GoalIInv, TablesInv
<1>2. CASE UNCHANGED <<work, stale>>
  BY <1>1, <1>2, WorkStands DEF Noticed
<1>3. CASE \E w : Proper(w) /\ Fresh(w) /\ Begin(a, w)
  <2>1. PICK w : Proper(w) /\ Fresh(w) /\ Begin(a, w)
    BY <1>3
  <2>2. work' = [work EXCEPT ![a] = w] /\ stale' = stale \ {a}
    BY <2>1 DEF Begin
  <2>3. work'[a] = w /\ \A b \in Actor \ {a} : work'[b] = work[b]
    BY <1>1, <2>2
  <2>4. ASSUME NEW b \in Actor \ {a} PROVE WorkOK(b)'
    BY <1>1, <2>2, <2>3, WorkStands DEF Noticed
  <2>5. WorkOK(a)'
    BY <2>1, <2>3 DEF WorkOK, Proper, Fresh, Exists, Kept
  <2>6. QED
    BY <1>1, <2>2, <2>4, <2>5
<1>4. QED
  BY <1>2, <1>3 DEF Takes

\* Nobody's linking task is forgotten by somebody who had nothing open.
LEMMA AtStays ==
    ASSUME TablesInv, NEW a \in Actor, ~Open(a), Takes(a), NEW m, At(m)
    PROVE  At(m)'
<1>1. CASE UNCHANGED <<work, stale>>
  BY <1>1 DEF At
<1>2. CASE \E w : Proper(w) /\ Fresh(w) /\ Begin(a, w)
  <2>1. PICK v \in Worker : work[v].job \in JobKind("link") /\ work[v].job.of = m
    BY DEF At
  <2>2. v # a /\ v \in Actor
    BY <2>1, NoWorkIsProper DEF Open, Actor, JobKind
  <2>3. work'[v] = work[v]
    BY <1>2, <2>2 DEF Begin, TablesInv
  <2>4. QED
    BY <2>1, <2>3 DEF At
<1>3. QED
  BY <1>1, <1>2 DEF Takes

-----------------------------------------------------------------------------
(* What steps leave alone.                                                 *)

RowsOK == RowsInv /\ CompletedIsStamped /\ RestrictedStayOut /\ MetadataMerged

\* The facts about the committed rows.
LEMMA RowsRest ==
    ASSUME RowsOK, UNCHANGED <<goal, merged, origin, linked, class, loosened, raced>>
    PROVE  RowsOK'
BY DEF RowsOK, RowsInv, CompletedIsStamped, RestrictedStayOut, MetadataMerged, Exists, IsGoal,
       IsMeta

\* A message of the planner that comes back is a slip.
SlipsTell ==
    \A j \in Job : /\ ready[j] \in Nat /\ ready'[j] \in Nat
                   /\ j.kind = "plan" => ready'[j] + slips <= ready[j] + slips'

\* Proposals stay bounded while no message of the planner comes from nowhere.
LEMMA ProposedRest ==
    ASSUME ProposedInv, UNCHANGED origin, SlipsTell,
           slips \in Nat, slips' \in Nat, slips <= slips'
    PROVE  ProposedInv'
<1>1. ASSUME NEW s \in Session
      PROVE  IsFiniteSet(Proposed(s))' /\ Cardinality(Proposed(s))' + Left(s)' <= 1 + slips'
  <2>1. Proposed(s)' = Proposed(s)
    BY DEF Proposed
  <2>2. IsFiniteSet(Proposed(s)) /\ Cardinality(Proposed(s)) + Left(s) <= 1 + slips
    BY DEF ProposedInv
  <2>3. Cardinality(Proposed(s)) \in Nat
    BY <2>2, FS_CardinalityType
  <2>4. Left(s) \in Nat /\ Left(s)' \in Nat /\ Left(s)' + slips <= Left(s) + slips'
    <3>1. PICK j : j = [kind |-> "plan", of |-> s]
      OBVIOUS
    <3>2. j.kind = "plan"
      BY <3>1
    <3>3. /\ Left(s) = IF j \in Job THEN ready[j] ELSE 0
          /\ Left(s)' = IF j \in Job THEN ready'[j] ELSE 0
      BY <3>1 DEF Left
    <3>4. CASE j \in Job
      <4>1. ready[j] \in Nat /\ ready'[j] \in Nat /\ ready'[j] + slips <= ready[j] + slips'
        BY <3>2, <3>4 DEF SlipsTell
      <4>2. QED
        BY <3>3, <3>4, <4>1
    <3>5. CASE j \notin Job
      <4>1. Left(s) = 0 /\ Left(s)' = 0
        BY <3>3, <3>5
      <4>2. \A x, y \in Nat : x <= y => 0 \in Nat /\ 0 + x <= 0 + y
        OBVIOUS
      <4>3. 0 \in Nat /\ 0 + slips <= 0 + slips'
        BY <4>2
      <4>4. QED
        BY <4>1, <4>3
    <3>6. QED
      BY <3>4, <3>5
  <2>5. QED
    BY <2>1, <2>2, <2>3, <2>4
<1>2. QED
  BY <1>1 DEF ProposedInv

\* Linking tasks stay accounted for if none is lost sight of.
LEMMA LinksRest ==
    ASSUME LinksInv, UNCHANGED sent,
           \A m \in lock' : m \in lock \/ At(m)' \/ m \in served' \cup failed',
           served \cup failed \subseteq served' \cup failed',
           \A m \in Memory : At(m) => At(m)' \/ m \in served' \cup failed',
           lock \subseteq Memory, \A j \in JobKind("link") : j.of \in Memory,
           \A j \in JobKind("link") \cap sent :
              ready[j] > 0 => ready'[j] > 0 \/ At(j.of)' \/ j.of \in served' \cup failed'
    PROVE  LinksInv'
<1>1. ASSUME NEW m \in lock' PROVE At(m)' \/ m \in served' \cup failed'
  BY DEF LinksInv
<1>2. ASSUME NEW j \in JobKind("link") \cap sent
      PROVE  ready'[j] > 0 \/ At(j.of)' \/ j.of \in served' \cup failed'
  BY DEF LinksInv
<1>3. QED
  BY <1>1, <1>2 DEF LinksInv, JobKind

\* What the assumptions say of jobs, actors and bounds.
LEMMA Constants ==
    /\ MaxSlips \in Nat /\ MaxRequests \in Nat
    /\ Worker \subseteq Actor /\ User \subseteq Actor
    /\ \A j \in JobKind("link") : j \in Job /\ j.of \in Memory
    /\ \A j \in Job : /\ j = [kind |-> j.kind, of |-> j.of]
                      /\ j.kind \in {"link", "plan", "progress", "blockers", "loop"}
                      /\ j.kind = "link" => j.of \in Memory
                      /\ j.kind = "plan" => j.of \in Session
                      /\ j.kind \in {"progress", "blockers", "loop"} => j.of \in Goal
    /\ Nobody \notin Goal /\ Nobody \notin Node /\ Nobody \notin Session
<1>1. Job \subseteq [kind : {"link"}, of : Memory] \cup [kind : {"plan"}, of : Session]
                     \cup [kind : {"progress", "blockers", "loop"}, of : Goal]
  BY GoalAssumption
<1>2. ASSUME NEW j \in Job
      PROVE  /\ j = [kind |-> j.kind, of |-> j.of]
             /\ j.kind \in {"link", "plan", "progress", "blockers", "loop"}
             /\ j.kind = "link" => j.of \in Memory
             /\ j.kind = "plan" => j.of \in Session
             /\ j.kind \in {"progress", "blockers", "loop"} => j.of \in Goal
  <2>1. CASE j \in [kind : {"link"}, of : Memory]
    BY <2>1
  <2>2. CASE j \in [kind : {"plan"}, of : Session]
    BY <2>2
  <2>3. CASE j \in [kind : {"progress", "blockers", "loop"}, of : Goal]
    BY <2>3
  <2>4. QED
    BY <1>1, <2>1, <2>2, <2>3
<1>3. \A j \in JobKind("link") : j \in Job /\ j.of \in Memory
  BY <1>2 DEF JobKind
<1>4. Worker \subseteq Actor /\ User \subseteq Actor
  BY DEF Actor
<1>5. MaxSlips \in Nat /\ MaxRequests \in Nat /\ Nobody \notin Goal \cup Node \cup Session
  BY GoalAssumption
<1>6. QED
  BY <1>2, <1>3, <1>4, <1>5

\* Messages and keys after a step that begins a transaction or none.
BrokerKept ==
    /\ UNCHANGED <<sent, slips>>
    /\ ready' = [j \in Job |-> ready'[j]]
    /\ \A j \in Job : ready'[j] \in Nat /\ (j.kind = "plan" => ready'[j] <= ready[j])
    /\ lock' \subseteq Memory /\ failed \subseteq failed' /\ served \subseteq served'
    /\ \A m \in lock' : m \in lock \/ At(m)' \/ m \in served' \cup failed'
    /\ \A j \in JobKind("link") \cap sent :
          ready[j] > 0 => ready'[j] > 0 \/ At(j.of)' \/ j.of \in served' \cup failed'

\* Steps that keep the messages keep what is said of links and proposals.
LEMMA BrokerStep ==
    ASSUME GoalIInv, BrokerKept, UNCHANGED origin,
           \A m \in Memory : At(m) => At(m)' \/ m \in served' \cup failed'
    PROVE  LinksInv' /\ ProposedInv'
<1>1. TablesInv /\ LinksInv /\ ProposedInv
  BY DEF GoalIInv
<1>2. slips \in Nat /\ slips' = slips
  BY <1>1, Constants DEF TablesInv, BrokerKept
<1>3. SlipsTell
  <2>1. ASSUME NEW j \in Job
        PROVE  /\ ready[j] \in Nat /\ ready'[j] \in Nat
               /\ j.kind = "plan" => ready'[j] + slips <= ready[j] + slips'
    <3>1. /\ ready[j] \in Nat /\ ready'[j] \in Nat
          /\ j.kind = "plan" => ready'[j] <= ready[j]
      BY <1>1 DEF TablesInv, BrokerKept
    <3>2. \A x, y, z \in Nat : x <= y => x + z <= y + z
      OBVIOUS
    <3>3. QED
      BY <1>2, <3>1, <3>2
  <2>2. QED
    BY <2>1 DEF SlipsTell
<1>4. ProposedInv'
  BY <1>1, <1>2, <1>3, ProposedRest
<1>5. LinksInv'
  BY <1>1, Constants, LinksRest DEF BrokerKept, TablesInv
<1>6. QED
  BY <1>4, <1>5

\* A transaction begins.
LEMMA TakeStep ==
    ASSUME GoalIInv, NEW a \in Actor, ~Open(a), Takes(a),
           UNCHANGED <<goal, node, edge>>, UNCHANGED <<linked, class, origin, raced, loosened, merged>>,
           asked' \in 0..MaxRequests, BrokerKept
    PROVE  GoalIInv'
<1>1. TablesInv /\ LinksInv /\ ProposedInv /\ RowsOK
  BY DEF GoalIInv, RowsOK
<1>2. (\A b \in Actor : WorkOK(b)') /\ work' = [b \in Actor |-> work'[b]]
  BY WorkTaken
<1>3. LinksInv' /\ ProposedInv'
  <2>1. \A m \in Memory : At(m) => At(m)' \/ m \in served' \cup failed'
    BY <1>1, AtStays
  <2>2. QED
    BY <2>1, BrokerStep
<1>4. RowsOK'
  BY <1>1, RowsRest
<1>5. TablesInv'
  BY <1>1, <1>2 DEF TablesInv, BrokerKept
<1>6. QED
  BY <1>2, <1>3, <1>4, <1>5 DEF GoalIInv, RowsOK

-----------------------------------------------------------------------------
(* What users ask for.                                                     *)

\* Confidences are numbers.
LEMMA SomeGoal ==
    ASSUME GoalIInv, NEW g \in Goal, Exists(g)
    PROVE  IsGoal(goal[g]) /\ goal[g].conf \in 0..100 /\ goal[g].conf \in Nat
<1>1. IsGoal(goal[g])
  BY DEF GoalIInv, RowsInv, Exists
<1>2. Confidence \subseteq 0..100
  BY GoalAssumption
<1>3. goal[g].conf \in 0..100
  BY <1>1, <1>2 DEF IsGoal
<1>4. \A x \in 0..100 : x \in Nat
  OBVIOUS
<1>5. QED
  BY <1>1, <1>3, <1>4

\* The fields of a transaction.
LEMMA TransactionIs ==
    ASSUME NEW job, NEW g, NEW cols, NEW nodes, NEW links,
           NEW w, w = Transaction(job, g, cols, nodes, links)
    PROVE  /\ w = [job |-> w.job, goal |-> w.goal, cols |-> w.cols, nodes |-> w.nodes,
                   links |-> w.links]
           /\ w.job = job /\ w.goal = g /\ w.cols = cols /\ w.nodes = nodes
           /\ w.links = links
BY DEF Transaction

\* A user does not touch the broker.
LEMMA BrokerAlone ==
    ASSUME GoalIInv, UNCHANGED broker, UNCHANGED <<served, failed>>
    PROVE  BrokerKept
BY Constants DEF GoalIInv, TablesInv, BrokerKept, broker

\* What an update may ask for.
LEMMA PatchedColumns ==
    ASSUME NEW row, IsGoal(row), NEW p \in Patch, NEW meta, IsMeta(meta)
    PROVE  LET new == With(With(p, StampOf(row, p)),
                           IF "meta" \in DOMAIN p THEN [meta |-> meta] ELSE <<>>)
           IN  /\ IsColumns(new)
               /\ "status" \in DOMAIN new => "status" \in DOMAIN p /\ new.status = p.status
               /\ "status" \in DOMAIN new /\ new.status = "completed" =>
                     "stamped" \in DOMAIN new /\ new.stamped = TRUE
<1> DEFINE stamp == StampOf(row, p)
           m == IF "meta" \in DOMAIN p THEN [meta |-> meta] ELSE <<>>
           mid == With(p, stamp)
           new == With(mid, m)
<1>1. /\ DOMAIN p \subseteq {"status", "conf", "scope", "meta"}
      /\ "status" \in DOMAIN p => p.status \in Status
      /\ "conf" \in DOMAIN p => p.conf \in Confidence
      /\ "scope" \in DOMAIN p => p.scope \in Scope
  BY GoalAssumption
<1>2. /\ DOMAIN stamp \subseteq {"stamped"} /\ ("stamped" \in DOMAIN stamp => stamp.stamped = TRUE)
      /\ "status" \in DOMAIN p /\ p.status = "completed" => "stamped" \in DOMAIN stamp
  BY DEF StampOf
<1>3. /\ DOMAIN m \subseteq {"meta"} /\ ("meta" \in DOMAIN m => m.meta = meta)
      /\ "meta" \in DOMAIN p => "meta" \in DOMAIN m
  OBVIOUS
<1> HIDE DEF stamp, m
<1>4. /\ DOMAIN mid = (DOMAIN p) \cup (DOMAIN stamp)
      /\ \A f \in DOMAIN mid : mid[f] = IF f \in DOMAIN stamp THEN stamp[f] ELSE p[f]
  BY DEF With
<1> HIDE DEF mid
<1>5. /\ DOMAIN new = (DOMAIN mid) \cup (DOMAIN m) /\ new = [f \in DOMAIN new |-> new[f]]
      /\ \A f \in DOMAIN new : new[f] = IF f \in DOMAIN m THEN m[f] ELSE mid[f]
  BY DEF With
<1> HIDE DEF new
<1>6. "status" \in DOMAIN new => "status" \in DOMAIN p /\ new.status = p.status
  BY <1>2, <1>3, <1>4, <1>5
<1>7. "conf" \in DOMAIN new => "conf" \in DOMAIN p /\ new.conf = p.conf
  BY <1>2, <1>3, <1>4, <1>5
<1>8. "scope" \in DOMAIN new => "scope" \in DOMAIN p /\ new.scope = p.scope
  BY <1>2, <1>3, <1>4, <1>5
<1>9. "stamped" \in DOMAIN new <=> "stamped" \in DOMAIN stamp
  BY <1>1, <1>3, <1>4, <1>5
<1>10. "stamped" \in DOMAIN new => new.stamped = TRUE
  BY <1>1, <1>2, <1>3, <1>4, <1>5
<1>11. "meta" \in DOMAIN new => new.meta = meta
  BY <1>2, <1>3, <1>4, <1>5
<1>12. DOMAIN new \subseteq Fields
  BY <1>1, <1>2, <1>3, <1>4, <1>5 DEF Fields
<1>13. IsColumns(new)
  BY <1>1, <1>5, <1>6, <1>7, <1>8, <1>10, <1>11, <1>12 DEF IsColumns
<1>14. "status" \in DOMAIN new /\ new.status = "completed" => "stamped" \in DOMAIN new
  BY <1>2, <1>6, <1>9
<1>15. QED
  BY <1>6, <1>10, <1>13, <1>14 DEF new, mid, stamp, m

\* The metadata that a user writes.
LEMMA UserMeta ==
    ASSUME NEW x \in 0..MaxRequests
    PROVE  IsMeta([NoMeta EXCEPT !.user = x])
<1>1. PICK m, e, p : m = [NoMeta EXCEPT !.user = x] /\ e = {} /\ p = <<>>
  OBVIOUS
<1>2. NoMeta = [user |-> 0, progress |-> p, blockers |-> e]
  BY <1>1 DEF NoMeta
<1>3. m = [user |-> x, progress |-> p, blockers |-> e]
  BY <1>1, <1>2
<1>4. m.user = x /\ m.progress = p /\ m.blockers = e
  BY <1>3
<1>5. IsMeta(m)
  BY <1>1, <1>3, <1>4 DEF IsMeta
<1>6. QED
  BY <1>1, <1>5

\* The patch is reviewed against the row that is read.
LEMMA UpdateGoalStep ==
    ASSUME GoalIInv, NEW u \in User, NEW g \in Goal, NEW p \in Patch, UpdateGoal(u, g, p)
    PROVE  GoalIInv'
<1> DEFINE row == goal[g]
           x == asked + 1
           m == [NoMeta EXCEPT !.user = x]
           new == With(With(p, StampOf(row, p)), IF "meta" \in DOMAIN p THEN [meta |-> m] ELSE <<>>)
           c == Columns(row, new)
           w == Change(Request("patch"), g, c)
<1>1. /\ Exists(g) /\ ~Open(u) /\ asked < MaxRequests /\ asked' = asked + 1
      /\ \/ UNCHANGED <<work, stale>>
         \/ /\ "status" \in DOMAIN p /\ p.status # row.status => MayBecome(row, p.status)
            /\ Begin(u, w)
      /\ UNCHANGED <<goal, node, edge>> /\ UNCHANGED <<linked, class, origin, raced, loosened, merged>>
      /\ UNCHANGED broker /\ UNCHANGED <<served, failed>>
  BY DEF UpdateGoal, Ask, rows
<1>2. x \in 0..MaxRequests /\ asked' \in 0..MaxRequests /\ u \in Actor
  BY <1>1, Constants DEF GoalIInv, TablesInv
<1>3. IsGoal(row) /\ row.conf \in Nat
  BY <1>1, SomeGoal
<1> HIDE DEF x
<1>4. IsMeta(m)
  BY <1>2, UserMeta
<1> HIDE DEF row, m
<1>5. /\ IsColumns(new)
      /\ "status" \in DOMAIN new => "status" \in DOMAIN p /\ new.status = p.status
      /\ "status" \in DOMAIN new /\ new.status = "completed" =>
            "stamped" \in DOMAIN new /\ new.stamped = TRUE
  BY <1>3, <1>4, PatchedColumns
<1> HIDE DEF new
<1>6. /\ DOMAIN c \subseteq DOMAIN new
      /\ \A f \in DOMAIN new : f \in DOMAIN c <=> new[f] # row[f]
      /\ \A f \in DOMAIN c : c[f] = new[f]
  BY ColumnsAre
<1>7. IsColumns(c)
  BY <1>5, SomeColumns
<1> HIDE DEF c
<1>8. "status" \in DOMAIN c =>
          "status" \in DOMAIN p /\ p.status # row.status /\ c.status = p.status
  BY <1>5, <1>6
<1>9. "status" \in DOMAIN c /\ c.status = "completed" => "stamped" \in DOMAIN c \/ row.stamped
  BY <1>3, <1>5, <1>6 DEF IsGoal
<1>10. Proper(w)
  BY <1>1, <1>7, <1>9 DEF Proper, Change, Transaction, Request, row
<1>11. ASSUME "status" \in DOMAIN p /\ p.status # row.status => MayBecome(row, p.status)
       PROVE  Fresh(w)
  <2>1. "status" \in DOMAIN c => row.conf >= 50
    BY <1>3, <1>8, <1>11 DEF MayBecome, StatusNeedsReview, StatusEscalates
  <2>2. QED
    BY <2>1 DEF Fresh, Change, Transaction, Request, row
<1> HIDE DEF w
<1>12. Takes(u)
  BY <1>1, <1>10, <1>11 DEF Takes
<1>13. QED
  BY <1>1, <1>2, <1>12, TakeStep, BrokerAlone

\* A transaction that only links and changes nodes.
LEMMA LinkingIsProper ==
    ASSUME NEW job, NEW nodes, NEW links, links \subseteq Goal \X Memory,
           \A g \in Goal, m \in Memory : <<g, m>> \in links => Kept(g, m)
    PROVE  LET w == Outcome(job, nodes, links) IN Proper(w) /\ Fresh(w)
<1>1. PICK w : w = Outcome(job, nodes, links)
  OBVIOUS
<1>2. /\ w = [job |-> w.job, goal |-> w.goal, cols |-> w.cols, nodes |-> w.nodes,
              links |-> w.links]
      /\ w.goal = Nobody /\ w.links = links
  BY <1>1, TransactionIs DEF Outcome
<1>3. Proper(w) /\ Fresh(w)
  BY <1>2 DEF Proper, Fresh
<1>4. QED
  BY <1>1, <1>3

\* The update of a node is about no goal.
LEMMA UpdateNodeStep ==
    ASSUME GoalIInv, NEW u \in User, NEW n \in Node, NEW s, UpdateNode(u, n, s)
    PROVE  GoalIInv'
<1> DEFINE d == IF node[n].status = s THEN <<>> ELSE Only(n, s)
           w == Outcome(Request("node"), d, {})
<1>1. /\ ~Open(u) /\ asked < MaxRequests /\ asked' = asked + 1
      /\ Begin(u, w)
      /\ UNCHANGED <<goal, node, edge>> /\ UNCHANGED <<linked, class, origin, raced, loosened, merged>>
      /\ UNCHANGED broker /\ UNCHANGED <<served, failed>>
  BY DEF UpdateNode, Ask, rows
<1> HIDE DEF d
<1>2. asked' \in 0..MaxRequests /\ u \in Actor
  BY <1>1, Constants DEF GoalIInv, TablesInv
<1>3. Proper(w) /\ Fresh(w)
  BY LinkingIsProper
<1>4. Takes(u)
  BY <1>1, <1>3 DEF Takes
<1>5. QED
  BY <1>1, <1>2, <1>4, TakeStep, BrokerAlone

\* The review keeps restricted memories out of goals of a narrow scope.
LEMMA ReviewedLink ==
    ASSUME GoalIInv, NEW g \in Goal, Exists(g), NEW m \in Memory, NEW type,
           MayLink(goal[g], m, type)
    PROVE  Kept(g, m)
<1>1. goal[g].scope \in Scope
  BY SomeGoal DEF IsGoal
<1>2. QED
  BY <1>1 DEF MayLink, LinkNeedsReview, LinkEscalates, Scope, Kept

\* The link is reviewed against the row that is read.
LEMMA LinkMemoryStep ==
    ASSUME GoalIInv, NEW u \in User, NEW g \in Goal, NEW m \in Memory, NEW type,
           LinkMemory(u, g, m, type)
    PROVE  GoalIInv'
<1> DEFINE l == {<<g, m>>}
           w == Outcome(Request("link_memory"), <<>>, l)
<1>1. /\ ~Open(u) /\ asked < MaxRequests /\ asked' = asked + 1 /\ Exists(g)
      /\ \/ UNCHANGED <<work, stale>>
         \/ /\ MayLink(goal[g], m, type)
            /\ Begin(u, w)
      /\ UNCHANGED <<goal, node, edge>> /\ UNCHANGED <<linked, class, origin, raced, loosened, merged>>
      /\ UNCHANGED broker /\ UNCHANGED <<served, failed>>
  BY DEF LinkMemory, Ask, rows
<1>2. asked' \in 0..MaxRequests /\ u \in Actor
  BY <1>1, Constants DEF GoalIInv, TablesInv
<1>3. ASSUME MayLink(goal[g], m, type) PROVE Proper(w) /\ Fresh(w)
  <2>1. \A h \in Goal, n \in Memory : <<h, n>> \in l => Kept(h, n)
    BY <1>1, <1>3, ReviewedLink
  <2>2. l \subseteq Goal \X Memory
    OBVIOUS
  <2> HIDE DEF l
  <2>3. QED
    BY <2>1, <2>2, LinkingIsProper
<1>4. Takes(u)
  BY <1>1, <1>3 DEF Takes
<1>5. QED
  BY <1>1, <1>2, <1>4, TakeStep, BrokerAlone
-----------------------------------------------------------------------------
(* What tasks do.                                                          *)

\* A message is taken out of the broker.
LEMMA Received ==
    ASSUME GoalIInv, NEW w, NEW j \in Job, Receive(w, j)
    PROVE  /\ ready' = [i \in Job |-> ready'[i]]
           /\ \A i \in Job : /\ ready'[i] \in Nat /\ ready'[i] <= ready[i]
                             /\ i # j => ready'[i] = ready[i]
           /\ ready'[j] + 1 <= ready[j]
<1>1. ready = [i \in Job |-> ready[i]] /\ \A i \in Job : ready[i] \in Nat
  BY DEF GoalIInv, TablesInv
<1>2. ready[j] > 0 /\ ready' = [ready EXCEPT ![j] = ready[j] - 1]
  BY DEF Receive
<1>3. /\ ready' = [i \in Job |-> IF i = j THEN ready[j] - 1 ELSE ready[i]]
  BY <1>1, <1>2
<1>4. ready' = [i \in Job |-> ready'[i]]
  BY <1>3
<1>5. \A x \in Nat : x > 0 => x - 1 \in Nat /\ x - 1 <= x /\ (x - 1) + 1 <= x
  OBVIOUS
<1>6. \A x \in Nat : x <= x
  OBVIOUS
<1>7. /\ ready'[j] = ready[j] - 1
      /\ \A i \in Job : i # j => ready'[i] = ready[i]
  BY <1>3
<1>8. QED
  BY <1>1, <1>2, <1>4, <1>5, <1>6, <1>7

\* Tasks that are not about a link leave the keys alone.
LEMMA BrokerReceives ==
    ASSUME GoalIInv, NEW w, NEW j \in Job, Receive(w, j), j.kind # "link",
           UNCHANGED <<sent, slips, lock, served, failed>>
    PROVE  BrokerKept
<1>1. TablesInv
  BY DEF GoalIInv
<1>2. /\ ready' = [i \in Job |-> ready'[i]]
      /\ \A i \in Job : /\ ready'[i] \in Nat /\ ready'[i] <= ready[i]
                        /\ i # j => ready'[i] = ready[i]
  BY Received
<1>3. \A i \in JobKind("link") : i \in Job /\ i # j
  BY DEF JobKind
<1>4. QED
  BY <1>1, <1>2, <1>3 DEF BrokerKept, TablesInv

\* What a task is about to write into a goal.
LEMMA TaskChange ==
    ASSUME GoalIInv, NEW j \in Job, j.kind \in {"progress", "blockers"}, Exists(j.of),
           NEW new, IsColumns(new),
           "status" \in DOMAIN new => new.status = "blocked" /\ goal[j.of].status = "active",
           "meta" \in DOMAIN new,
           j.kind = "progress" => new.meta = [goal[j.of].meta EXCEPT !.progress = new.meta.progress],
           j.kind = "blockers" => new.meta = [goal[j.of].meta EXCEPT !.blockers = new.meta.blockers]
    PROVE  LET w == Change(j, j.of, Columns(goal[j.of], new)) IN Proper(w) /\ Fresh(w)
<1> DEFINE row == goal[j.of]
           c == Columns(row, new)
<1>1. j.of \in Goal
  BY Constants
<1>2. /\ DOMAIN c \subseteq DOMAIN new
      /\ \A f \in DOMAIN c : c[f] = new[f]
  BY ColumnsAre
<1>3. IsColumns(c)
  BY SomeColumns
<1> HIDE DEF c, row
<1>4. PICK w : w = Change(j, j.of, c)
  OBVIOUS
<1>5. /\ w = [job |-> w.job, goal |-> w.goal, cols |-> w.cols, nodes |-> w.nodes,
              links |-> w.links]
      /\ w.job = j /\ w.goal = j.of /\ w.cols = c /\ w.links = {}
  BY <1>4 DEF Change, Transaction
<1>6. Proper(w)
  BY <1>1, <1>2, <1>3, <1>5 DEF Proper
<1>7. Fresh(w)
  BY <1>2, <1>5 DEF Fresh
<1>8. QED
  BY <1>4, <1>6, <1>7 DEF c, row

\* The progress task replaces its own entry of the metadata it has read.
LEMMA RecomputeStep ==
    ASSUME GoalIInv, NEW w \in Worker, NEW j \in Job, Recompute(w, j)
    PROVE  GoalIInv'
<1> DEFINE row == goal[j.of]
           m == WithProgress(row.meta, j.of)
           new == [meta |-> m]
           t == Change(j, j.of, Columns(row, new))
<1>1. /\ j.kind = "progress" /\ Receive(w, j)
      /\ UNCHANGED <<work, stale>> \/ (Exists(j.of) /\ Begin(w, t))
      /\ UNCHANGED <<goal, node, edge>> /\ UNCHANGED <<linked, class, origin, raced, loosened, merged>>
      /\ UNCHANGED asked /\ UNCHANGED <<sent, slips, lock, served, failed>>
  BY DEF Recompute, rows
<1>2. w \in Actor /\ asked' \in 0..MaxRequests /\ ~Open(w)
  BY <1>1, Constants DEF GoalIInv, TablesInv, Receive
<1>3. ASSUME Exists(j.of) PROVE Proper(t) /\ Fresh(t)
  <2>1. IsMeta(row.meta)
    BY <1>1, <1>3, SomeGoal, Constants DEF IsGoal
  <2>2. /\ IsMeta(m) /\ m = [row.meta EXCEPT !.progress = m.progress]
    BY <2>1, MetaEntries DEF WithProgress
  <2> HIDE DEF m
  <2>3. /\ DOMAIN new = {"meta"} /\ new.meta = m /\ new = [f \in DOMAIN new |-> new[f]]
    OBVIOUS
  <2> HIDE DEF new
  <2>4. IsColumns(new)
    BY <2>2, <2>3 DEF IsColumns, Fields
  <2>5. QED
    BY <1>1, <1>3, <2>2, <2>3, <2>4, TaskChange
<1> HIDE DEF t
<1>4. Takes(w)
  BY <1>1, <1>3 DEF Takes
<1>5. BrokerKept
  BY <1>1, BrokerReceives
<1>6. QED
  BY <1>1, <1>2, <1>4, <1>5, TakeStep

\* So does the blockers task, which blocks active goals only.
LEMMA DetectBlockersStep ==
    ASSUME GoalIInv, NEW w \in Worker, NEW j \in Job, DetectBlockers(w, j)
    PROVE  GoalIInv'
<1> DEFINE row == goal[j.of]
           found == ComputeBlockers(j.of)
           m == [row.meta EXCEPT !.blockers = found]
           blocks == IF found # {} /\ row.status = "active" THEN [status |-> "blocked"] ELSE <<>>
           part == [meta |-> m]
           new == With(part, blocks)
           t == Change(j, j.of, Columns(row, new))
<1>1. /\ j.kind = "blockers" /\ Receive(w, j)
      /\ UNCHANGED <<work, stale>> \/ (Exists(j.of) /\ Begin(w, t))
      /\ UNCHANGED <<goal, node, edge>> /\ UNCHANGED <<linked, class, origin, raced, loosened, merged>>
      /\ UNCHANGED asked /\ UNCHANGED <<sent, slips, lock, served, failed>>
  BY DEF DetectBlockers, rows
<1>2. w \in Actor /\ asked' \in 0..MaxRequests /\ ~Open(w)
  BY <1>1, Constants DEF GoalIInv, TablesInv, Receive
<1>3. ASSUME Exists(j.of) PROVE Proper(t) /\ Fresh(t)
  <2>1. IsMeta(row.meta)
    BY <1>1, <1>3, SomeGoal, Constants DEF IsGoal
  <2>2. found \subseteq Node
    BY DEF ComputeBlockers, Nodes, GoalIInv, TablesInv
  <2> HIDE DEF found
  <2>3. /\ IsMeta(m) /\ m = [row.meta EXCEPT !.blockers = m.blockers]
    BY <2>1, <2>2, MetaEntries
  <2> HIDE DEF m
  <2>4. /\ DOMAIN blocks \subseteq {"status"}
        /\ "status" \in DOMAIN blocks => blocks.status = "blocked" /\ row.status = "active"
    OBVIOUS
  <2>5. /\ DOMAIN part = {"meta"} /\ part.meta = m
    OBVIOUS
  <2> HIDE DEF blocks, part
  <2>6. /\ DOMAIN new = (DOMAIN part) \cup (DOMAIN blocks) /\ new = [f \in DOMAIN new |-> new[f]]
        /\ \A f \in DOMAIN new : new[f] = IF f \in DOMAIN blocks THEN blocks[f] ELSE part[f]
    BY DEF With
  <2> HIDE DEF new
  <2>7. /\ DOMAIN new \subseteq {"meta", "status"} /\ "meta" \in DOMAIN new /\ new.meta = m
        /\ "status" \in DOMAIN new => new.status = "blocked" /\ row.status = "active"
    BY <2>4, <2>5, <2>6
  <2>8. IsColumns(new)
    BY <2>3, <2>6, <2>7 DEF IsColumns, Fields, Status
  <2>9. QED
    BY <1>1, <1>3, <2>3, <2>7, <2>8, TaskChange
<1> HIDE DEF t
<1>4. Takes(w)
  BY <1>1, <1>3 DEF Takes
<1>5. BrokerKept
  BY <1>1, BrokerReceives
<1>6. QED
  BY <1>1, <1>2, <1>4, <1>5, TakeStep

\* A linking task that goes on leaves its memory under way, linked or failed.
LEMMA SuggestLinksStep ==
    ASSUME GoalIInv, NEW w \in Worker, NEW j \in Job, NEW chosen, NEW type,
           SuggestLinks(w, j, chosen, type)
    PROVE  GoalIInv'
<1> DEFINE m == j.of
           l == chosen \X {m}
           t == Outcome(j, <<>>, l)
<1>1. /\ j.kind = "link" /\ Receive(w, j) /\ chosen \subseteq Candidates
      /\ UNCHANGED <<goal, node, edge>> /\ UNCHANGED <<linked, class, origin, raced, loosened, merged>>
      /\ UNCHANGED asked /\ UNCHANGED <<sent, slips, served>>
      /\ \/ m \in lock /\ UNCHANGED <<lock, work, stale, failed>>
         \/ /\ \A g \in chosen : MayLink(goal[g], m, type)
            /\ Begin(w, t) /\ UNCHANGED failed
            /\ UNCHANGED lock \/ lock' = lock \cup {m}
         \/ /\ failed' = failed \cup {m} /\ UNCHANGED <<work, stale>>
            /\ UNCHANGED lock \/ lock' = lock \cup {m}
  BY DEF SuggestLinks, LockHeld, TakeLock, rows
<1>2. w \in Actor /\ asked' \in 0..MaxRequests /\ ~Open(w)
  BY <1>1, Constants DEF GoalIInv, TablesInv, Receive
<1>3. m \in Memory /\ j \in JobKind("link")
  BY <1>1, Constants DEF JobKind
<1>4. chosen \subseteq Goal /\ \A g \in chosen : Exists(g)
  BY <1>1 DEF Candidates, Exists, NoGoal
<1>5. ASSUME \A g \in chosen : MayLink(goal[g], m, type)
      PROVE  Proper(t) /\ Fresh(t)
  <2>1. l \subseteq Goal \X Memory
    BY <1>3, <1>4
  <2>2. ASSUME NEW g \in Goal, NEW r \in Memory, <<g, r>> \in l PROVE Kept(g, r)
    <3>1. g \in chosen /\ r = m
      BY <2>2
    <3>2. QED
      BY <1>4, <1>5, <2>2, <3>1, ReviewedLink
  <2> HIDE DEF l
  <2>3. QED
    BY <2>1, <2>2, LinkingIsProper
<1>6. t.job = j
  BY DEF Outcome, Transaction
<1> HIDE DEF t, m, l
<1>7. Takes(w)
  BY <1>1, <1>5 DEF Takes
<1>8. ASSUME NEW i, At(i) PROVE At(i)'
  BY <1>2, <1>7, <1>8, AtStays DEF GoalIInv
<1>9. At(m)' \/ m \in served' \cup failed'
  <2>1. CASE m \in lock /\ UNCHANGED <<lock, work, stale, failed>>
    BY <1>1, <1>8, <2>1 DEF GoalIInv, LinksInv
  <2>2. CASE Begin(w, t)
    <3>1. work'[w] = t
      BY <1>2, <2>2 DEF Begin, GoalIInv, TablesInv
    <3>2. QED
      BY <1>3, <1>6, <3>1 DEF At, m
  <2>3. CASE failed' = failed \cup {m}
    BY <2>3
  <2>4. QED
    BY <1>1, <2>1, <2>2, <2>3
<1>10. /\ lock' \subseteq lock \cup {m} /\ failed \subseteq failed' /\ served' = served
  BY <1>1
<1>11. BrokerKept
  <2>1. /\ ready' = [i \in Job |-> ready'[i]]
        /\ \A i \in Job : /\ ready'[i] \in Nat /\ ready'[i] <= ready[i]
                          /\ i # j => ready'[i] = ready[i]
    BY <1>1, Received
  <2>2. lock \subseteq Memory
    BY DEF GoalIInv, TablesInv
  <2>3. \A i \in JobKind("link") : i \in Job
    BY DEF JobKind
  <2>4. /\ lock' \subseteq Memory
        /\ \A n \in lock' : n \in lock \/ At(n)' \/ n \in served' \cup failed'
    BY <1>3, <1>9, <1>10, <2>2
  <2>5. \A i \in JobKind("link") \cap sent :
            ready[i] > 0 => ready'[i] > 0 \/ At(i.of)' \/ i.of \in served' \cup failed'
    BY <1>9, <2>1, <2>3 DEF m
  <2>6. QED
    BY <1>1, <1>10, <2>1, <2>4, <2>5 DEF BrokerKept
<1>12. QED
  BY <1>1, <1>2, <1>7, <1>11, TakeStep

\* The end of a session links the evidence that the review lets pass, and may
\* send one more message to recompute the progress.
LEMMA EndSessionStep ==
    ASSUME GoalIInv, NEW w \in Worker, NEW j \in Job, NEW evidence, evidence \subseteq Memory,
           NEW keeps, EndSession(w, j, evidence, keeps)
    PROVE  GoalIInv'
<1> DEFINE g == j.of
           may == {m \in evidence : Exists(g) /\ MayLink(goal[g], m, "evidence")}
           l == {g} \X keeps
<1>1. PICK more \in BOOLEAN :
        /\ j.kind = "loop" /\ ~Open(w) /\ ready[j] > 0 /\ keeps \subseteq may
        /\ ready' = [k \in Job |->
                       IF k = j THEN ready[k] - 1
                       ELSE IF k = [kind |-> "progress", of |-> g] /\ more THEN ready[k] + 1
                       ELSE ready[k]]
        /\ UNCHANGED <<rows, sent, lock, asked, slips, raced, loosened, merged, served, failed>>
        /\ \/ UNCHANGED <<work, stale>>
           \/ Exists(g) /\ \E d : Begin(w, Outcome(j, d, l))
  <2>1. (may = evidence) \in BOOLEAN
    OBVIOUS
  <2>2. QED
    BY <2>1, Zenon DEF EndSession
<1>2. /\ UNCHANGED <<goal, node, edge>> /\ UNCHANGED <<linked, class, origin, raced, loosened, merged>>
      /\ UNCHANGED asked
  BY <1>1 DEF rows
<1>3. w \in Actor /\ asked' \in 0..MaxRequests /\ g \in Goal
  BY <1>1, Constants DEF GoalIInv, TablesInv
<1>4. ASSUME Exists(g), NEW d
      PROVE  Proper(Outcome(j, d, l)) /\ Fresh(Outcome(j, d, l))
  <2>1. l \subseteq Goal \X Memory
    BY <1>1, <1>3
  <2>2. ASSUME NEW h \in Goal, NEW r \in Memory, <<h, r>> \in l PROVE Kept(h, r)
    <3>1. h = g /\ MayLink(goal[g], r, "evidence")
      BY <1>1, <2>2
    <3>2. QED
      BY <1>3, <1>4, <3>1, ReviewedLink
  <2> HIDE DEF l
  <2>3. QED
    BY <2>1, <2>2, LinkingIsProper
<1>5. BrokerKept
  <2>1. \A k \in Job : ready[k] \in Nat
    BY DEF GoalIInv, TablesInv
  <2>2. ready' = [k \in Job |-> ready'[k]]
    BY <1>1
  <2>3. PICK r : r = ready[j]
    OBVIOUS
  <2>4. r - 1 \in Nat
    BY <1>1, <2>1, <2>3
  <2>5. ASSUME NEW k \in Job
        PROVE  /\ ready'[k] \in Nat
               /\ k.kind = "plan" => ready'[k] <= ready[k]
               /\ k.kind = "link" => ready'[k] = ready[k]
    <3>1. \/ k = j /\ ready'[k] = r - 1
          \/ k.kind = "progress" /\ ready'[k] = ready[k] + 1
          \/ ready'[k] = ready[k]
      BY <1>1, <2>3
    <3>2. \A x \in Nat : x <= x /\ x + 1 \in Nat
      OBVIOUS
    <3>3. QED
      BY <1>1, <2>1, <2>4, <3>1, <3>2
  <2>6. \A k \in JobKind("link") : k \in Job /\ k.kind = "link"
    BY DEF JobKind
  <2>7. lock \subseteq Memory
    BY DEF GoalIInv, TablesInv
  <2>8. QED
    BY <1>1, <2>2, <2>5, <2>6, <2>7 DEF BrokerKept
<1> HIDE DEF l, g
<1>6. Takes(w)
  BY <1>1, <1>4 DEF Takes
<1>7. QED
  BY <1>1, <1>2, <1>3, <1>5, <1>6, TakeStep

\* A planner that sees no need for a goal uses up its message.
LEMMA PlanNothingStep ==
    ASSUME GoalIInv, NEW w \in Worker, NEW j \in Job, PlanNothing(w, j)
    PROVE  GoalIInv'
<1>1. /\ j.kind = "plan" /\ Receive(w, j)
      /\ UNCHANGED <<goal, node, edge>> /\ UNCHANGED <<linked, class, origin, raced, loosened, merged>>
      /\ UNCHANGED asked /\ UNCHANGED <<sent, slips, lock, served, failed>>
      /\ UNCHANGED <<work, stale>>
  BY DEF PlanNothing, rows, history
<1>2. w \in Actor /\ asked' \in 0..MaxRequests /\ ~Open(w)
  BY <1>1, Constants DEF GoalIInv, TablesInv, Receive
<1>3. Takes(w) /\ BrokerKept
  BY <1>1, BrokerReceives DEF Takes
<1>4. QED
  BY <1>1, <1>2, <1>3, TakeStep
-----------------------------------------------------------------------------
(* Rows that are added.                                                    *)

\* A step that opens and closes no transaction and takes no link message.
LEMMA LinksQuiet ==
    ASSUME LinksInv, UNCHANGED <<sent, work, served, failed>>, lock' \subseteq lock,
           \A j \in JobKind("link") \cap sent : ready[j] > 0 => ready'[j] > 0
    PROVE  LinksInv'
BY DEF LinksInv, At

\* What a goal is created with.
Given(p) == p = [status |-> p.status, conf |-> p.conf, scope |-> p.scope]
            /\ p.status \in Status /\ p.conf \in Confidence /\ p.scope \in Scope

\* A row made from what a user or the planner gives is a goal.
LEMMA CreatedGoal ==
    ASSUME NEW p, Given(p)
    PROVE  LET r == With(NoGoal, p)
           IN  IsGoal(r) /\ r # NoGoal /\ r.status = p.status /\ r.meta = NoMeta
<1>1. PICK o : o = NoMeta
  OBVIOUS
<1>2. NoGoal = [status |-> "none", conf |-> 0, scope |-> "personal", stamped |-> FALSE, meta |-> o]
  BY <1>1 DEF NoGoal
<1>3. PICK q : q = NoGoal
  OBVIOUS
<1>4. DOMAIN q = Fields /\ q.stamped = FALSE /\ q.meta = o /\ q.status = "none"
  BY <1>2, <1>3 DEF Fields
<1>5. DOMAIN p = {"status", "conf", "scope"}
  BY DEF Given
<1>6. PICK r : r = With(q, p)
  OBVIOUS
<1>7. r = [f \in Fields |-> IF f \in DOMAIN p THEN p[f] ELSE q[f]]
  <2>1. (DOMAIN q) \cup (DOMAIN p) = Fields
    BY <1>4, <1>5 DEF Fields
  <2>2. QED
    BY <1>6, <2>1 DEF With
<1>8. /\ r = [f \in Fields |-> r[f]]
      /\ r.status = p.status /\ r.conf = p.conf /\ r.scope = p.scope
      /\ r.stamped = FALSE /\ r.meta = o
  BY <1>4, <1>5, <1>7 DEF Fields
<1>9. IsMeta(o)
  <2>1. 0 \in 0..MaxRequests
    BY Constants
  <2>2. QED
    BY <1>1, <2>1 DEF NoMeta, IsMeta
<1>10. IsGoal(r)
  BY <1>8, <1>9 DEF IsGoal, Given
<1>11. r # q
  BY <1>4, <1>8 DEF Given, Status
<1>12. QED
  BY <1>1, <1>3, <1>6, <1>8, <1>10, <1>11

\* A new goal disturbs nobody.
LEMMA GoalAdded ==
    ASSUME GoalIInv, NEW g \in Goal, ~Exists(g), NEW p, Given(p),
           goal' = [goal EXCEPT ![g] = With(NoGoal, p)],
           UNCHANGED <<linked, class, loosened, raced, merged, work, stale>>,
           \A h \in Goal : h # g => origin'[h] = origin[h],
           p.status = "completed" => p \in Payload /\ origin'[g] = origin[g]
    PROVE  RowsOK' /\ (\A a \in Actor : WorkOK(a)') /\ goal' = [h \in Goal |-> goal'[h]]
<1> DEFINE r == With(NoGoal, p)
<1>1. IsGoal(r) /\ r # NoGoal /\ r.status = p.status /\ r.meta = NoMeta
  BY CreatedGoal
<1> HIDE DEF r
<1>2. goal = [h \in Goal |-> goal[h]]
  BY DEF GoalIInv, TablesInv
<1>3. goal' = [h \in Goal |-> goal'[h]] /\ goal'[g] = r /\ \A h \in Goal : h # g => goal'[h] = goal[h]
  BY <1>2 DEF r
<1>4. goal[g] = NoGoal /\ origin[g] = Nobody
  BY DEF Exists, GoalIInv, RowsInv
<1>5. NoGoal.scope = "personal" /\ NoGoal.stamped = FALSE /\ NoGoal.meta = NoMeta
  BY DEF NoGoal
<1>6. Monotone
  BY <1>1, <1>3, <1>4, <1>5 DEF Monotone, Exists, Kept
<1>7. ASSUME NEW a \in Actor PROVE WorkOK(a)'
  <2>1. WorkOK(a)
    BY DEF GoalIInv
  <2>2. work[a].goal # Nobody => work[a].goal \in Goal \ {g}
    BY <1>4, <2>1 DEF WorkOK, Proper, Exists
  <2>3. Noticed(a)
    BY <1>3, <2>2 DEF Noticed
  <2>4. QED
    BY <1>6, <2>1, <2>3, WorkStands
<1>8. RowsInv'
  <2>1. ASSUME NEW h \in Goal
        PROVE  /\ goal'[h] = NoGoal \/ IsGoal(goal'[h])
               /\ IsMeta(merged'[h]) /\ (origin'[h] # Nobody => goal'[h] # NoGoal)
    <3>1. /\ goal[h] = NoGoal \/ IsGoal(goal[h])
          /\ IsMeta(merged[h]) /\ (origin[h] # Nobody => goal[h] # NoGoal)
      BY DEF GoalIInv, RowsInv, Exists
    <3>2. QED
      BY <1>1, <1>3, <3>1
  <2>2. QED
    BY <2>1 DEF RowsInv, Exists, IsGoal, IsMeta
<1>9. CompletedIsStamped'
  <2>1. ASSUME NEW h \in Goal, goal'[h].status = "completed"
        PROVE  goal'[h].stamped \/ \E q \in Payload : q.status = "completed" /\ origin'[h] = Nobody
    <3>1. CASE h = g
      BY <1>1, <1>3, <1>4, <2>1, <3>1
    <3>2. CASE h # g
      BY <1>3, <2>1, <3>2 DEF GoalIInv, CompletedIsStamped
    <3>3. QED
      BY <3>1, <3>2
  <2>2. QED
    BY <2>1 DEF CompletedIsStamped
<1>10. RestrictedStayOut'
  <2>1. \A h \in Goal, m \in Memory : <<h, m>> \in Reviewed /\ Kept(h, m) => Kept(h, m)'
    BY <1>6 DEF Monotone
  <2>2. \A h \in Goal, m \in Memory : <<h, m>> \in linked => Kept(h, m) /\ <<h, m>> \in Reviewed
    BY DEF GoalIInv, RestrictedStayOut, Kept, Reviewed
  <2>3. QED
    BY <2>1, <2>2 DEF RestrictedStayOut, Kept
<1>11. MetadataMerged'
  <2>1. \A h \in Goal : goal[h].meta = merged[h] \/ h \in raced
    BY DEF GoalIInv, MetadataMerged
  <2>2. merged[g] = NoMeta \/ g \in raced
    BY <1>4, <1>5, <2>1
  <2>3. QED
    BY <1>1, <1>3, <2>1, <2>2 DEF MetadataMerged
<1>12. QED
  BY <1>3, <1>7, <1>8, <1>9, <1>10, <1>11 DEF RowsOK

\* A user creates a goal.
LEMMA CreateGoalStep ==
    ASSUME GoalIInv, NEW g \in Goal, NEW p \in Payload, CreateGoal(g, p)
    PROVE  GoalIInv'
<1>1. /\ asked < MaxRequests /\ asked' = asked + 1 /\ ~Exists(g)
      /\ goal' = [goal EXCEPT ![g] = With(NoGoal, p)]
      /\ UNCHANGED <<linked, class, loosened, raced, merged, work, stale>>
      /\ UNCHANGED <<node, edge, origin>> /\ UNCHANGED broker /\ UNCHANGED <<served, failed>>
  BY DEF CreateGoal, Ask, history
<1>2. Given(p)
  <2>1. p \in [status : Status, conf : Confidence, scope : Scope]
    BY GoalAssumption
  <2>2. QED
    BY <2>1 DEF Given
<1>3. RowsOK' /\ (\A a \in Actor : WorkOK(a)') /\ goal' = [h \in Goal |-> goal'[h]]
  BY <1>1, <1>2, GoalAdded
<1>4. asked' \in 0..MaxRequests
  BY <1>1, Constants DEF GoalIInv, TablesInv
<1>5. TablesInv'
  BY <1>1, <1>3, <1>4 DEF GoalIInv, TablesInv, broker
<1>6. LinksInv' /\ ProposedInv'
  <2>1. BrokerKept
    BY <1>1, BrokerAlone
  <2>2. \A m \in Memory : At(m) => At(m)'
    BY <1>1 DEF At
  <2>3. QED
    BY <1>1, <2>1, <2>2, BrokerStep
<1>7. QED
  BY <1>3, <1>5, <1>6 DEF GoalIInv, RowsOK

\* Steps that leave the goals, the transactions and the broker alone.
LEMMA TablesGrow ==
    ASSUME GoalIInv, UNCHANGED <<goal, linked, class, origin, work>>, UNCHANGED broker, UNCHANGED history,
           asked' \in 0..MaxRequests, DOMAIN node' \subseteq Node,
           edge' \subseteq (DOMAIN node') \X (DOMAIN node')
    PROVE  GoalIInv'
<1>1. RowsOK'
  BY RowsRest DEF GoalIInv, RowsOK, history
<1>2. ASSUME NEW a \in Actor PROVE WorkOK(a)'
  <2>1. Monotone /\ WorkOK(a) /\ Noticed(a)
    BY DEF Monotone, Exists, Kept, GoalIInv, Noticed, history
  <2>2. QED
    BY <2>1, WorkStands
<1>3. LinksInv' /\ ProposedInv'
  <2>1. BrokerKept
    BY BrokerAlone DEF history
  <2>2. \A m \in Memory : At(m) => At(m)'
    BY DEF At
  <2>3. QED
    BY <2>1, <2>2, BrokerStep
<1>4. TablesInv'
  BY DEF GoalIInv, TablesInv, broker, history
<1>5. QED
  BY <1>1, <1>2, <1>3, <1>4 DEF GoalIInv, RowsOK

\* A user adds a node.
LEMMA AddNodeStep ==
    ASSUME GoalIInv, NEW n \in Node, NEW g \in Goal, NEW s, AddNode(n, g, s)
    PROVE  GoalIInv'
<1>1. /\ asked < MaxRequests /\ asked' = asked + 1
      /\ node' = With(node, Only(n, [goal |-> g, status |-> s]))
      /\ UNCHANGED <<goal, linked, class, origin, work>> /\ UNCHANGED edge
      /\ UNCHANGED broker /\ UNCHANGED history
  BY DEF AddNode, Ask
<1>2. asked' \in 0..MaxRequests
  BY <1>1, Constants DEF GoalIInv, TablesInv
<1>3. DOMAIN node' = (DOMAIN node) \cup {n}
  <2>1. PICK o : o = Only(n, [goal |-> g, status |-> s])
    OBVIOUS
  <2>2. DOMAIN o = {n}
    BY <2>1 DEF Only
  <2>3. QED
    BY <1>1, <2>1, <2>2, WithIs
<1>4. DOMAIN node \subseteq Node /\ edge \subseteq (DOMAIN node) \X (DOMAIN node)
  BY DEF GoalIInv, TablesInv
<1>5. QED
  BY <1>1, <1>2, <1>3, <1>4, TablesGrow

\* A user adds an edge.
LEMMA AddDependencyStep ==
    ASSUME GoalIInv, NEW n \in Node, NEW m \in Node, AddDependency(n, m)
    PROVE  GoalIInv'
<1>1. /\ asked < MaxRequests /\ asked' = asked + 1
      /\ n \in DOMAIN node /\ m \in DOMAIN node /\ edge' = edge \cup {<<n, m>>}
      /\ UNCHANGED <<goal, linked, class, origin, work>> /\ UNCHANGED node
      /\ UNCHANGED broker /\ UNCHANGED history
  BY DEF AddDependency, Ask
<1>2. asked' \in 0..MaxRequests
  BY <1>1, Constants DEF GoalIInv, TablesInv
<1>3. DOMAIN node \subseteq Node /\ edge \subseteq (DOMAIN node) \X (DOMAIN node)
  BY DEF GoalIInv, TablesInv
<1>4. QED
  BY <1>1, <1>2, <1>3, TablesGrow

\* A goal is proposed: either its message is used up, or it comes again.
LEMMA OneMoreProposed ==
    ASSUME GoalIInv, NEW j \in Job, j.kind = "plan", NEW g \in Goal, ~Exists(g),
           origin' = [origin EXCEPT ![g] = j.of],
           slips \in Nat, slips' \in Nat,
           \A i \in Job : ready'[i] \in Nat /\ (i # j => ready'[i] = ready[i]),
           \/ slips' = slips /\ ready'[j] + 1 <= ready[j]
           \/ slips' = slips + 1 /\ ready'[j] = ready[j]
    PROVE  ProposedInv'
<1>1. /\ origin[g] = Nobody /\ origin \in [Goal -> Session \cup {Nobody}]
      /\ \A i \in Job : ready[i] \in Nat
  BY DEF GoalIInv, RowsInv, TablesInv, Exists
<1>2. /\ j.of \in Session /\ Nobody \notin Session
      /\ \A i \in Job : i = [kind |-> i.kind, of |-> i.of]
  BY Constants
<1>3. ASSUME NEW s \in Session
      PROVE  IsFiniteSet(Proposed(s))' /\ Cardinality(Proposed(s))' + Left(s)' <= 1 + slips'
  <2>1. PICK i : i = [kind |-> "plan", of |-> s]
    OBVIOUS
  <2>2. /\ IsFiniteSet(Proposed(s)) /\ Cardinality(Proposed(s)) \in Nat
        /\ Cardinality(Proposed(s)) + Left(s) <= 1 + slips
    BY FS_CardinalityType DEF GoalIInv, ProposedInv
  <2>3. /\ Left(s) = IF i \in Job THEN ready[i] ELSE 0
        /\ Left(s)' = IF i \in Job THEN ready'[i] ELSE 0
    BY <2>1 DEF Left
  <2>4. Left(s) \in Nat /\ Left(s)' \in Nat
    BY <1>1, <2>3
  <2>5. CASE s = j.of
    <3>1. i = j
      BY <1>2, <2>1, <2>5
    <3>2. Proposed(s)' = Proposed(s) \cup {g} /\ g \notin Proposed(s)
      BY <1>1, <1>2, <2>5 DEF Proposed
    <3>3. IsFiniteSet(Proposed(s)') /\ Cardinality(Proposed(s)') = Cardinality(Proposed(s)) + 1
      BY <2>2, <3>2, FS_AddElement
    <3>4. \/ slips' = slips /\ Left(s)' + 1 <= Left(s)
          \/ slips' = slips + 1 /\ Left(s)' = Left(s)
      BY <2>3, <3>1
    <3> DEFINE n == Cardinality(Proposed(s))
               l == Left(s)
               k == Left(s)'
    <3>5. n + 1 + k <= 1 + slips'
      <4>1. n \in Nat /\ l \in Nat /\ k \in Nat /\ n + l <= 1 + slips
        BY <2>2, <2>4
      <4>2. \/ slips' = slips /\ k + 1 <= l
            \/ slips' = slips + 1 /\ k = l
        BY <3>4
      <4> HIDE DEF n, l, k
      <4>3. QED
        BY <4>1, <4>2
    <3>6. QED
      BY <3>3, <3>5
  <2>6. CASE s # j.of
    <3>1. i # j
      BY <2>1, <2>6
    <3>2. Proposed(s)' = Proposed(s)
      BY <1>1, <1>2, <2>6 DEF Proposed
    <3>3. Left(s)' = Left(s)
      BY <2>3, <3>1
    <3>4. slips <= slips'
      BY DEF GoalIInv
    <3> DEFINE n == Cardinality(Proposed(s))
               l == Left(s)
    <3>5. n + l <= 1 + slips'
      <4>1. n \in Nat /\ l \in Nat /\ n + l <= 1 + slips
        BY <2>2, <2>4
      <4> HIDE DEF n, l
      <4>2. \A x, y, z, u \in Nat : x + y <= 1 + z /\ z <= u => x + y <= 1 + u
        OBVIOUS
      <4>3. QED
        BY <3>4, <4>1, <4>2
    <3>6. QED
      BY <2>2, <3>2, <3>3, <3>5
  <2>7. QED
    BY <2>5, <2>6
<1>4. QED
  BY <1>3 DEF ProposedInv

\* The planner proposes a goal with nodes and edges.
LEMMA PlanGoalStep ==
    ASSUME GoalIInv, NEW w \in Worker, NEW j \in Job, NEW g \in Goal, NEW p \in Proposal,
           NEW new \in SUBSET Node, NEW edges, PlanGoal(w, j, g, p, new, edges)
    PROVE  GoalIInv'
<1> DEFINE q == [status |-> "proposed", conf |-> p.conf, scope |-> p.scope]
           n == [n \in new |-> [goal |-> g, status |-> "todo"]]
<1>1. /\ j.kind = "plan" /\ ready[j] > 0 /\ ~Exists(g) /\ edges \subseteq new \X new
      /\ node' = With(node, n) /\ edge' = edge \cup edges
      /\ goal' = [goal EXCEPT ![g] = With(NoGoal, q)]
      /\ origin' = [origin EXCEPT ![g] = j.of]
      /\ \/ ready' = [ready EXCEPT ![j] = ready[j] - 1] /\ UNCHANGED slips
         \/ slips < MaxSlips /\ slips' = slips + 1 /\ UNCHANGED ready
      /\ UNCHANGED <<linked, class, loosened, raced, merged, work, stale>>
      /\ UNCHANGED <<sent, lock, asked, served, failed>>
  BY DEF PlanGoal, history
<1>2. Given(q) /\ q.status = "proposed"
  <2>1. p \in [conf : Confidence, scope : Scope]
    BY GoalAssumption
  <2>2. PICK c, s : c = p.conf /\ s = p.scope
    OBVIOUS
  <2>3. c \in Confidence /\ s \in Scope
    BY <2>1, <2>2
  <2>4. PICK r : r = q
    OBVIOUS
  <2>5. /\ r.status = "proposed" /\ r.conf = c /\ r.scope = s
        /\ r = [status |-> r.status, conf |-> r.conf, scope |-> r.scope]
    BY <2>2, <2>4
  <2>6. Given(r)
    BY <2>3, <2>5 DEF Given, Status
  <2>7. QED
    BY <2>4, <2>5, <2>6
<1> HIDE DEF q
<1>3. /\ origin \in [Goal -> Session \cup {Nobody}] /\ j.of \in Session
      /\ ready = [i \in Job |-> ready[i]] /\ \A i \in Job : ready[i] \in Nat
      /\ slips \in 0..MaxSlips /\ MaxSlips \in Nat
      /\ DOMAIN node \subseteq Node /\ edge \subseteq (DOMAIN node) \X (DOMAIN node)
  BY <1>1, Constants DEF GoalIInv, TablesInv
<1>4. \A h \in Goal : h # g => origin'[h] = origin[h]
  BY <1>1, <1>3
<1>5. RowsOK' /\ (\A a \in Actor : WorkOK(a)') /\ goal' = [h \in Goal |-> goal'[h]]
  BY <1>1, <1>2, <1>4, GoalAdded
<1>6. /\ slips \in Nat /\ slips' \in 0..MaxSlips /\ slips' \in Nat
  BY <1>1, <1>3
<1>7. /\ ready' = [i \in Job |-> ready'[i]]
      /\ \A i \in Job : ready'[i] \in Nat /\ (i # j => ready'[i] = ready[i])
      /\ \/ slips' = slips /\ ready'[j] + 1 <= ready[j]
         \/ slips' = slips + 1 /\ ready'[j] = ready[j]
  <2>1. CASE ready' = [ready EXCEPT ![j] = ready[j] - 1] /\ UNCHANGED slips
    <3>1. /\ ready' = [i \in Job |-> IF i = j THEN ready[j] - 1 ELSE ready[i]]
      BY <1>3, <2>1
    <3>2. \A x \in Nat : x > 0 => x - 1 \in Nat /\ (x - 1) + 1 <= x
      OBVIOUS
    <3>3. ready[j] - 1 \in Nat /\ (ready[j] - 1) + 1 <= ready[j]
      BY <1>1, <1>3, <3>2
    <3>4. QED
      BY <1>3, <2>1, <3>1, <3>3
  <2>2. CASE slips' = slips + 1 /\ UNCHANGED ready
    BY <1>3, <2>2
  <2>3. QED
    BY <1>1, <2>1, <2>2
<1>8. ProposedInv'
  BY <1>1, <1>6, <1>7, OneMoreProposed
<1>9. LinksInv'
  <2>1. \A i \in JobKind("link") : i \in Job /\ i # j
    BY <1>1 DEF JobKind
  <2>2. QED
    BY <1>1, <1>7, <2>1, LinksQuiet DEF GoalIInv
<1>10. TablesInv'
  <2>1. DOMAIN node' = (DOMAIN node) \cup new
    <3>1. PICK o : o = n
      OBVIOUS
    <3>2. DOMAIN o = new
      BY <3>1
    <3>3. QED
      BY <1>1, <3>1, <3>2, WithIs
  <2>2. DOMAIN node' \subseteq Node /\ edge' \subseteq (DOMAIN node') \X (DOMAIN node')
    BY <1>1, <1>3, <2>1
  <2>3. origin' \in [Goal -> Session \cup {Nobody}]
    BY <1>1, <1>3
  <2>4. QED
    BY <1>1, <1>5, <1>6, <1>7, <2>2, <2>3 DEF GoalIInv, TablesInv
<1>11. QED
  BY <1>5, <1>8, <1>9, <1>10 DEF GoalIInv, RowsOK
-----------------------------------------------------------------------------
(* Messages and keys that come and go.                                     *)

\* Steps that touch nothing but the broker and its keys.
LEMMA BrokerOnly ==
    ASSUME GoalIInv, UNCHANGED rows, UNCHANGED <<sent, asked, work>>, UNCHANGED history,
           slips' \in 0..MaxSlips, slips <= slips', lock' \subseteq lock,
           ready' = [j \in Job |-> ready'[j]], SlipsTell,
           \A j \in JobKind("link") \cap sent : ready[j] > 0 => ready'[j] > 0
    PROVE  GoalIInv'
<1>1. RowsOK'
  BY RowsRest DEF GoalIInv, RowsOK, history, rows
<1>2. ASSUME NEW a \in Actor PROVE WorkOK(a)'
  <2>1. Monotone /\ WorkOK(a) /\ Noticed(a)
    BY DEF Monotone, Exists, Kept, GoalIInv, Noticed, history, rows
  <2>2. QED
    BY <2>1, WorkStands
<1>3. LinksInv'
  BY LinksQuiet DEF GoalIInv, history
<1>4. ProposedInv'
  <2>1. slips \in Nat /\ slips' \in Nat
    BY Constants DEF GoalIInv, TablesInv
  <2>2. QED
    BY <2>1, ProposedRest DEF GoalIInv, rows
<1>5. TablesInv'
  BY DEF GoalIInv, TablesInv, rows, history, SlipsTell
<1>6. QED
  BY <1>1, <1>2, <1>3, <1>4, <1>5 DEF GoalIInv, RowsOK

\* A message comes back.
LEMMA RedeliverStep ==
    ASSUME GoalIInv, NEW w \in Worker, Redeliver(w)
    PROVE  GoalIInv'
<1> DEFINE k == work[w].job
<1>1. /\ slips < MaxSlips /\ slips' = slips + 1
      /\ ready' = [ready EXCEPT ![k] = ready[k] + 1]
      /\ UNCHANGED rows /\ UNCHANGED <<sent, asked, work>> /\ UNCHANGED history /\ UNCHANGED lock
  BY DEF Redeliver
<1> HIDE DEF k
<1>2. /\ ready = [j \in Job |-> ready[j]] /\ \A j \in Job : ready[j] \in Nat
      /\ slips \in 0..MaxSlips /\ MaxSlips \in Nat
  BY Constants DEF GoalIInv, TablesInv
<1>3. slips \in Nat /\ slips' \in 0..MaxSlips /\ slips <= slips'
  BY <1>1, <1>2
<1>4. ready' = [j \in Job |-> IF j = k THEN ready[k] + 1 ELSE ready[j]]
  BY <1>1, <1>2
<1>5. ready' = [j \in Job |-> ready'[j]]
  BY <1>4
<1>6. ASSUME NEW j \in Job
      PROVE  /\ ready[j] \in Nat /\ ready'[j] \in Nat
             /\ ready'[j] + slips <= ready[j] + slips'
             /\ ready[j] > 0 => ready'[j] > 0
  <2>1. ready[j] \in Nat /\ (ready'[j] = ready[j] \/ ready'[j] = ready[j] + 1)
    BY <1>2, <1>4
  <2>2. \A x, y \in Nat : /\ x + 1 \in Nat /\ x + y <= x + (y + 1)
                          /\ (x + 1) + y <= x + (y + 1) /\ x + 1 > 0
    OBVIOUS
  <2>3. QED
    BY <1>1, <1>3, <2>1, <2>2
<1>7. SlipsTell /\ \A j \in JobKind("link") \cap sent : ready[j] > 0 => ready'[j] > 0
  BY <1>6 DEF SlipsTell, JobKind
<1>8. QED
  BY <1>1, <1>3, <1>5, <1>7, BrokerOnly

\* A key expires.
LEMMA ExpireStep ==
    ASSUME GoalIInv, NEW m \in Memory, Expire(m)
    PROVE  GoalIInv'
<1>1. /\ lock' \subseteq lock /\ UNCHANGED rows /\ UNCHANGED <<sent, asked, work>> /\ UNCHANGED history
      /\ UNCHANGED ready /\ UNCHANGED slips
  BY DEF Expire
<1>2. /\ ready = [j \in Job |-> ready[j]] /\ \A j \in Job : ready[j] \in Nat
      /\ slips \in 0..MaxSlips /\ slips \in Nat
  BY Constants DEF GoalIInv, TablesInv
<1>3. \A x, y \in Nat : x + y <= x + y /\ y <= y
  OBVIOUS
<1>4. SlipsTell /\ slips <= slips'
  BY <1>1, <1>2, <1>3 DEF SlipsTell
<1>5. QED
  BY <1>1, <1>2, <1>4, BrokerOnly

-----------------------------------------------------------------------------
(* The end of a transaction.                                               *)

\* After its end a transaction has nothing to write.
LEMMA NothingOpen ==
    ASSUME NEW a, work'[a] = NoWork
    PROVE  WorkOK(a)'
<1>1. PICK w : w = NoWork
  OBVIOUS
<1>2. /\ w = [job |-> w.job, goal |-> w.goal, cols |-> w.cols, nodes |-> w.nodes,
              links |-> w.links]
      /\ w.goal = Nobody /\ w.links = {}
  BY <1>1 DEF NoWork, Outcome, Transaction
<1>3. work'[a] = w
  BY <1>1
<1>4. Proper(w)' /\ Fresh(w)'
  BY <1>2 DEF Proper, Fresh
<1>5. QED
  BY <1>3, <1>4 DEF WorkOK, Proper, Fresh, Kept

\* A linking task that is open no more has served its memory or failed.
LEMMA AtEnds ==
    ASSUME TablesInv, NEW a \in Actor, End(a), NEW m, At(m),
           work[a].job \in JobKind("link") => work[a].job.of \in served' \cup failed'
    PROVE  At(m)' \/ m \in served' \cup failed'
<1>1. PICK v \in Worker : work[v].job \in JobKind("link") /\ work[v].job.of = m
  BY DEF At
<1>2. CASE v = a
  BY <1>1, <1>2
<1>3. CASE v # a
  <2>1. work'[v] = work[v]
    BY <1>1, <1>3, Constants DEF End, TablesInv
  <2>2. QED
    BY <1>1, <2>1 DEF At
<1>4. QED
  BY <1>2, <1>3

\* A transaction is rolled back.
LEMMA AbortStep ==
    ASSUME GoalIInv, NEW a \in Actor, Abort(a)
    PROVE  GoalIInv'
<1>1. /\ failed' = (IF work[a].job \in JobKind("link") THEN failed \cup {work[a].job.of} ELSE failed)
      /\ End(a) /\ UNCHANGED <<goal, node, edge, linked, class, origin>> /\ UNCHANGED broker
      /\ UNCHANGED <<asked, stale, raced, loosened, merged, served>>
  BY DEF Abort, rows
<1>2. /\ RowsOK /\ TablesInv
      /\ work' = [b \in Actor |-> IF b = a THEN NoWork ELSE work[b]]
  BY <1>1 DEF GoalIInv, RowsOK, TablesInv, End
<1>3. RowsOK'
  BY <1>1, <1>2, RowsRest
<1>4. ASSUME NEW b \in Actor PROVE WorkOK(b)'
  <2>1. CASE b = a
    BY <1>2, <2>1, NothingOpen
  <2>2. CASE b # a
    <3>1. Monotone /\ WorkOK(b) /\ Noticed(b)
      BY <1>1 DEF Monotone, Exists, Kept, GoalIInv, Noticed
    <3>2. work'[b] = work[b]
      BY <1>2, <2>2
    <3>3. QED
      BY <3>1, <3>2, WorkStands
  <2>3. QED
    BY <2>1, <2>2
<1>5. LinksInv' /\ ProposedInv'
  <2>1. BrokerKept
    BY <1>1, <1>2, Constants DEF TablesInv, BrokerKept, broker
  <2>2. \A m \in Memory : At(m) => At(m)' \/ m \in served' \cup failed'
    BY <1>1, <1>2, AtEnds
  <2>3. QED
    BY <1>1, <2>1, <2>2, BrokerStep
<1>6. TablesInv'
  BY <1>1, <1>2 DEF TablesInv, broker
<1>7. QED
  BY <1>3, <1>4, <1>5, <1>6 DEF GoalIInv, RowsOK

\* What a commit adds to the merged metadata of its goal.
Part(w) ==
    IF "meta" \notin DOMAIN w.cols THEN <<>>
    ELSE IF w.job.kind = "patch" THEN w.cols.meta
    ELSE IF w.job.kind = "progress" THEN [progress |-> w.cols.meta.progress]
    ELSE [blockers |-> w.cols.meta.blockers]

\* The part of a commit that is about a goal.
CommitsTo(a, w) ==
    /\ w = work[a] /\ w.goal # Nobody /\ Write(a, w.goal, w.cols) /\ Merge(w.goal, Part(w))
    /\ UNCHANGED class

\* Rows of goals are not the empty row.
LEMMA ExistingGoal ==
    ASSUME NEW r, IsGoal(r)
    PROVE  r # NoGoal
BY DEF IsGoal, NoGoal, Status

\* What a commit leaves of its goal.
LEMMA CommittedGoal ==
    ASSUME GoalIInv, NEW a \in Actor, NEW w, CommitsTo(a, w)
    PROVE  LET g == w.goal  c == w.cols IN
           /\ g \in Goal /\ goal[g] # NoGoal /\ IsGoal(goal[g]) /\ IsColumns(c)
           /\ IsGoal(goal'[g])
           /\ \A f \in Fields : goal'[g][f] = IF f \in DOMAIN c THEN c[f] ELSE goal[g][f]
           /\ goal' = [h \in Goal |-> goal'[h]]
           /\ \A h \in Goal : h # g => goal'[h] = goal[h]
           /\ c = <<>> => goal'[g] = goal[g]
<1> DEFINE g == w.goal
           c == w.cols
<1>1. /\ g \in Goal /\ goal[g] # NoGoal /\ IsColumns(c)
  BY DEF CommitsTo, GoalIInv, WorkOK, Proper, Exists
<1>2. IsGoal(goal[g]) /\ goal = [h \in Goal |-> goal[h]]
  BY <1>1 DEF GoalIInv, RowsInv, TablesInv
<1>3. goal' = [goal EXCEPT ![g] = With(goal[g], c)]
  BY DEF CommitsTo, Write
<1> HIDE DEF g, c
<1>4. /\ goal'[g] = With(goal[g], c) /\ goal' = [h \in Goal |-> goal'[h]]
      /\ \A h \in Goal : h # g => goal'[h] = goal[h]
  BY <1>1, <1>2, <1>3
<1>5. /\ IsGoal(goal'[g])
      /\ \A f \in Fields : goal'[g][f] = IF f \in DOMAIN c THEN c[f] ELSE goal[g][f]
  BY <1>1, <1>2, <1>4, WrittenGoal
<1>6. c = <<>> => goal'[g] = goal[g]
  <2>1. ASSUME c = <<>> PROVE goal'[g] = goal[g]
    <3>1. DOMAIN c = {}
      BY <2>1
    <3>2. QED
      BY <1>1, <1>2, <1>4, <3>1, NothingWritten
  <2>2. QED
    BY <2>1
<1>7. QED
  BY <1>1, <1>2, <1>4, <1>5, <1>6 DEF g, c

\* A commit deletes no goal, takes no stamp away and narrows no scope unnoted.
LEMMA CommitIsMonotone ==
    ASSUME GoalIInv, NEW a \in Actor, NEW w, CommitsTo(a, w)
    PROVE  Monotone
<1> DEFINE g == w.goal
           c == w.cols
<1>1. /\ g \in Goal /\ IsGoal(goal[g]) /\ IsColumns(c) /\ IsGoal(goal'[g])
      /\ \A f \in Fields : goal'[g][f] = IF f \in DOMAIN c THEN c[f] ELSE goal[g][f]
      /\ \A h \in Goal : h # g => goal'[h] = goal[h]
  BY CommittedGoal
<1>2. /\ loosened' = IF goal[g].scope = "organization" /\ goal'[g].scope = "personal"
                     THEN loosened \cup (Reviewed \cap ({g} \X Memory)) ELSE loosened
      /\ class' = class
  BY DEF CommitsTo, Write
<1> HIDE DEF g, c
<1>3. goal'[g] # NoGoal
  BY <1>1, ExistingGoal
<1>4. goal[g].stamped => goal'[g].stamped
  <2>1. goal'[g].stamped = IF "stamped" \in DOMAIN c THEN c.stamped ELSE goal[g].stamped
    BY <1>1 DEF Fields
  <2>2. "stamped" \in DOMAIN c => c.stamped = TRUE
    BY <1>1 DEF IsColumns
  <2>3. QED
    BY <2>1, <2>2
<1>5. goal[g].scope \in Scope /\ goal'[g].scope \in Scope
  BY <1>1 DEF IsGoal
<1>6. ASSUME NEW m \in Memory, <<g, m>> \in Reviewed, Kept(g, m) PROVE Kept(g, m)'
  BY <1>1, <1>2, <1>5, <1>6 DEF Kept, Scope
<1>7. ASSUME NEW h \in Goal, h # g
      PROVE  /\ Exists(h) => Exists(h)'
             /\ goal[h].stamped => goal'[h].stamped
             /\ \A m \in Memory : <<h, m>> \in Reviewed /\ Kept(h, m) => Kept(h, m)'
  BY <1>1, <1>2, <1>7 DEF Exists, Kept
<1>8. QED
  BY <1>3, <1>4, <1>6, <1>7 DEF Monotone, Exists

\* Whoever has read the goal that a commit changes is stale from then on.
LEMMA CommitIsNoticed ==
    ASSUME GoalIInv, NEW a \in Actor, NEW w, CommitsTo(a, w), NEW b \in Actor, b # a
    PROVE  Noticed(b)
<1> DEFINE g == w.goal
           c == w.cols
<1>1. /\ g # Nobody
      /\ stale' = (stale \cup {d \in Actor : Open(d) /\ work[d].goal = g /\ c # <<>>}) \ {a}
  BY DEF CommitsTo, Write
<1>2. /\ \A h \in Goal : h # g => goal'[h] = goal[h]
      /\ c = <<>> => goal'[g] = goal[g]
  BY CommittedGoal
<1> HIDE DEF g, c
<1>3. ASSUME b \notin stale'
      PROVE  b \notin stale /\ (work[b].goal # Nobody => goal'[work[b].goal] = goal[work[b].goal])
  <2>1. b \notin stale /\ ~(Open(b) /\ work[b].goal = g /\ c # <<>>)
    BY <1>1, <1>3
  <2>2. ASSUME work[b].goal # Nobody PROVE goal'[work[b].goal] = goal[work[b].goal]
    <3>1. Open(b)
      BY <2>2, NoWorkIsProper DEF Open
    <3>2. work[b].goal \in Goal
      BY <2>2 DEF GoalIInv, WorkOK, Proper
    <3>3. QED
      BY <1>2, <2>1, <3>1, <3>2
  <2>3. QED
    BY <2>1, <2>2
<1>4. QED
  BY <1>3 DEF Noticed

\* Completing a goal stamps it.
LEMMA CommitStamps ==
    ASSUME GoalIInv, NEW a \in Actor, NEW w, CommitsTo(a, w), UNCHANGED origin
    PROVE  CompletedIsStamped'
<1> DEFINE g == w.goal
           c == w.cols
<1>1. /\ g \in Goal /\ IsGoal(goal[g]) /\ IsColumns(c)
      /\ \A f \in Fields : goal'[g][f] = IF f \in DOMAIN c THEN c[f] ELSE goal[g][f]
      /\ \A h \in Goal : h # g => goal'[h] = goal[h]
  BY CommittedGoal
<1>2. "status" \in DOMAIN c /\ c.status = "completed" =>
          "stamped" \in DOMAIN c \/ goal[g].stamped
  BY DEF CommitsTo, GoalIInv, WorkOK, Proper
<1>3. \A h \in Goal : goal[h].status = "completed" =>
          goal[h].stamped \/ \E p \in Payload : p.status = "completed" /\ origin[h] = Nobody
  BY DEF GoalIInv, CompletedIsStamped
<1> HIDE DEF g, c
<1>4. ASSUME goal'[g].status = "completed"
      PROVE  goal'[g].stamped \/ \E p \in Payload : p.status = "completed" /\ origin[g] = Nobody
  <2>1. /\ goal'[g].status = IF "status" \in DOMAIN c THEN c.status ELSE goal[g].status
        /\ goal'[g].stamped = IF "stamped" \in DOMAIN c THEN c.stamped ELSE goal[g].stamped
    BY <1>1 DEF Fields
  <2>2. "stamped" \in DOMAIN c => c.stamped = TRUE
    BY <1>1 DEF IsColumns
  <2>3. CASE "status" \in DOMAIN c
    BY <1>2, <1>4, <2>1, <2>2, <2>3
  <2>4. CASE "status" \notin DOMAIN c
    BY <1>1, <1>3, <1>4, <2>1, <2>2, <2>4
  <2>5. QED
    BY <2>3, <2>4
<1>5. QED
  BY <1>1, <1>3, <1>4 DEF CompletedIsStamped

\* The metadata of a goal is the merged one, unless somebody was at it meanwhile.
LEMMA CommitMerges ==
    ASSUME GoalIInv, NEW a \in Actor, NEW w, CommitsTo(a, w)
    PROVE  /\ MetadataMerged' /\ \A g \in Goal : IsMeta(merged'[g])
           /\ merged' = [g \in Goal |-> merged'[g]]
<1> DEFINE g == w.goal
           c == w.cols
           m == merged[g]
           part == Part(w)
<1>1. /\ g \in Goal /\ IsGoal(goal[g]) /\ IsColumns(c)
      /\ \A f \in Fields : goal'[g][f] = IF f \in DOMAIN c THEN c[f] ELSE goal[g][f]
      /\ \A h \in Goal : h # g => goal'[h] = goal[h]
  BY CommittedGoal
<1>2. /\ w = work[a] /\ w.goal # Nobody
      /\ raced' = IF a \in stale /\ c # <<>> THEN raced \cup {g} ELSE raced
      /\ merged' = [merged EXCEPT ![g] = With(merged[g], part)]
  BY DEF CommitsTo, Write, Merge
<1>3. Proper(w) /\ (a \notin stale => Fresh(w))
  BY <1>2 DEF GoalIInv, WorkOK
<1>4. w.job.kind \in {"patch", "progress", "blockers"}
  BY <1>2, <1>3 DEF Proper
<1>5. /\ \A h \in Goal : IsMeta(merged[h]) /\ (goal[h].meta = merged[h] \/ h \in raced)
      /\ merged = [h \in Goal |-> merged[h]]
  BY DEF GoalIInv, RowsInv, TablesInv, MetadataMerged
<1>6. part = IF "meta" \notin DOMAIN c THEN <<>>
             ELSE IF w.job.kind = "patch" THEN c.meta
             ELSE IF w.job.kind = "progress" THEN [progress |-> c.meta.progress]
             ELSE [blockers |-> c.meta.blockers]
  BY DEF Part
<1>7. a \notin stale =>
          /\ "meta" \in DOMAIN c /\ w.job.kind = "progress" =>
                c.meta = [goal[g].meta EXCEPT !.progress = c.meta.progress]
          /\ "meta" \in DOMAIN c /\ w.job.kind = "blockers" =>
                c.meta = [goal[g].meta EXCEPT !.blockers = c.meta.blockers]
  BY <1>2, <1>3 DEF Fresh
<1>8. goal'[g].meta = IF "meta" \in DOMAIN c THEN c.meta ELSE goal[g].meta
  BY <1>1 DEF Fields
<1>9. "meta" \in DOMAIN c => IsMeta(c.meta) /\ c # <<>>
  BY <1>1 DEF IsColumns
<1> HIDE DEF g, c, m, part
<1>10. /\ merged' = [h \in Goal |-> merged'[h]] /\ merged'[g] = With(m, part)
       /\ \A h \in Goal : h # g => merged'[h] = merged[h]
  BY <1>1, <1>2, <1>5 DEF m
<1>11. IsMeta(m) /\ (goal[g].meta = m \/ g \in raced)
  BY <1>1, <1>5 DEF m
<1>12. IsMeta(merged'[g]) /\ (goal'[g].meta = merged'[g] \/ g \in raced')
  <2>1. CASE "meta" \notin DOMAIN c
    <3>1. merged'[g] = m
      BY <1>6, <1>10, <1>11, <2>1, MetaMerged
    <3>2. QED
      BY <1>2, <1>8, <1>11, <2>1, <3>1
  <2>2. CASE "meta" \in DOMAIN c /\ w.job.kind = "patch"
    <3>1. merged'[g] = c.meta
      BY <1>6, <1>9, <1>10, <1>11, <2>2, MetaMerged
    <3>2. QED
      BY <1>8, <1>9, <2>2, <3>1
  <2>3. CASE "meta" \in DOMAIN c /\ w.job.kind = "progress"
    <3>1. PICK x : x = c.meta.progress
      OBVIOUS
    <3>2. PICK n : n = [m EXCEPT !.progress = x]
      OBVIOUS
    <3>3. part = [progress |-> x]
      BY <1>6, <2>3, <3>1
    <3>4. With(m, [progress |-> x]) = n
      BY <1>11, <3>2, MetaMerged
    <3>5. merged'[g] = n
      BY <1>10, <3>3, <3>4
    <3>6. IsMeta(n)
      BY <1>11, <3>2, MetaEntries
    <3>7. CASE a \in stale
      BY <1>2, <1>9, <2>3, <3>5, <3>6, <3>7
    <3>8. CASE a \notin stale
      BY <1>2, <1>7, <1>8, <1>11, <2>3, <3>1, <3>2, <3>5, <3>6, <3>8
    <3>9. QED
      BY <3>7, <3>8
  <2>4. CASE "meta" \in DOMAIN c /\ w.job.kind = "blockers"
    <3>1. PICK x : x = c.meta.blockers
      OBVIOUS
    <3>2. PICK n : n = [m EXCEPT !.blockers = x]
      OBVIOUS
    <3>3. part = [blockers |-> x]
      BY <1>6, <2>4, <3>1
    <3>4. With(m, [blockers |-> x]) = n
      BY <1>11, <3>2, MetaMerged
    <3>5. merged'[g] = n
      BY <1>10, <3>3, <3>4
    <3>6. IsMeta(n)
      <4>1. x \subseteq Node
        BY <1>9, <2>4, <3>1 DEF IsMeta
      <4>2. QED
        BY <1>11, <3>2, <4>1, MetaEntries
    <3>7. CASE a \in stale
      BY <1>2, <1>9, <2>4, <3>5, <3>6, <3>7
    <3>8. CASE a \notin stale
      BY <1>2, <1>7, <1>8, <1>11, <2>4, <3>1, <3>2, <3>5, <3>6, <3>8
    <3>9. QED
      BY <3>7, <3>8
  <2>5. QED
    BY <1>4, <2>1, <2>2, <2>3, <2>4
<1>13. ASSUME NEW h \in Goal
       PROVE  IsMeta(merged'[h]) /\ (goal'[h].meta = merged'[h] \/ h \in raced')
  <2>1. CASE h = g
    BY <1>12, <2>1
  <2>2. CASE h # g
    BY <1>1, <1>2, <1>5, <1>10, <2>2
  <2>3. QED
    BY <2>1, <2>2
<1>14. QED
  BY <1>10, <1>13 DEF MetadataMerged

\* A transaction commits.
LEMMA CommitStep ==
    ASSUME GoalIInv, NEW a \in Actor, Commit(a)
    PROVE  GoalIInv'
<1> DEFINE w == work[a]
<1>1. /\ Open(a) /\ End(a)
      /\ IF w.goal # Nobody THEN CommitsTo(a, w)
         ELSE UNCHANGED <<goal, stale, raced, loosened, merged>>
      /\ node' = [n \in DOMAIN node |->
                    IF n \in DOMAIN w.nodes THEN [node[n] EXCEPT !.status = w.nodes[n]] ELSE node[n]]
      /\ linked' = linked \cup w.links
      /\ served' = IF w.job \in JobKind("link") THEN served \cup {w.job.of} ELSE served
      /\ UNCHANGED <<edge, class, origin, asked, failed>> /\ UNCHANGED broker
  BY DEF Commit, CommitsTo, Part
<1>2. Proper(w)
  BY DEF GoalIInv, WorkOK
<1>3. work' = [b \in Actor |-> IF b = a THEN NoWork ELSE work[b]]
  BY <1>1 DEF End, GoalIInv, TablesInv
<1>4. Monotone /\ \A b \in Actor : b # a => Noticed(b)
  <2>1. CASE w.goal # Nobody
    BY <1>1, <2>1, CommitIsMonotone, CommitIsNoticed
  <2>2. CASE w.goal = Nobody
    BY <1>1, <2>2 DEF Monotone, Noticed, Exists, Kept
  <2>3. QED
    BY <2>1, <2>2
<1>5. ASSUME NEW b \in Actor PROVE WorkOK(b)'
  <2>1. CASE b = a
    BY <1>3, <2>1, NothingOpen
  <2>2. CASE b # a
    <3>1. WorkOK(b) /\ work'[b] = work[b]
      BY <1>3, <2>2 DEF GoalIInv
    <3>2. QED
      BY <1>4, <2>2, <3>1, WorkStands
  <2>3. QED
    BY <2>1, <2>2
<1>6. /\ goal' = [h \in Goal |-> goal'[h]] /\ merged' = [h \in Goal |-> merged'[h]]
      /\ \A h \in Goal : goal'[h] = NoGoal \/ IsGoal(goal'[h])
      /\ \A h \in Goal : IsMeta(merged'[h])
      /\ CompletedIsStamped' /\ MetadataMerged'
  <2>1. CASE w.goal # Nobody
    <3>1. CommitsTo(a, w)
      BY <1>1, <2>1
    <3>2. /\ goal' = [h \in Goal |-> goal'[h]]
          /\ \A h \in Goal : goal'[h] = NoGoal \/ IsGoal(goal'[h])
      BY <3>1, CommittedGoal DEF GoalIInv, RowsInv
    <3>3. QED
      BY <1>1, <3>1, <3>2, CommitStamps, CommitMerges
  <2>2. CASE w.goal = Nobody
    <3>1. UNCHANGED <<goal, raced, merged, origin>>
      BY <1>1, <2>2
    <3>2. QED
      BY <3>1 DEF GoalIInv, RowsInv, TablesInv, CompletedIsStamped, MetadataMerged
  <2>3. QED
    BY <2>1, <2>2
<1>7. RowsInv'
  <2>1. ASSUME NEW h \in Goal, origin'[h] # Nobody PROVE goal'[h] # NoGoal
    BY <1>1, <1>4, <2>1 DEF GoalIInv, RowsInv, Monotone, Exists
  <2>2. QED
    BY <1>6, <2>1 DEF RowsInv, Exists, IsGoal, IsMeta
<1>8. RestrictedStayOut'
  <2>1. \A h \in Goal, m \in Memory : <<h, m>> \in linked => Kept(h, m) /\ <<h, m>> \in Reviewed
    BY DEF GoalIInv, RestrictedStayOut, Kept, Reviewed
  <2>2. \A h \in Goal, m \in Memory : <<h, m>> \in w.links => Kept(h, m) /\ <<h, m>> \in Reviewed
    BY <1>2, WorkIsReviewed DEF Proper
  <2>3. \A h \in Goal, m \in Memory : <<h, m>> \in Reviewed /\ Kept(h, m) => Kept(h, m)'
    BY <1>4 DEF Monotone
  <2>4. QED
    BY <1>1, <2>1, <2>2, <2>3 DEF RestrictedStayOut, Kept
<1>9. loosened' \subseteq Goal \X Memory
  <2>1. CASE w.goal # Nobody
    <3>1. w.goal \in Goal
      BY <1>2, <2>1 DEF Proper
    <3>2. loosened' \subseteq loosened \cup ({w.goal} \X Memory)
      BY <1>1, <2>1 DEF CommitsTo, Write
    <3>3. QED
      BY <3>1, <3>2 DEF GoalIInv, TablesInv
  <2>2. CASE w.goal = Nobody
    BY <1>1, <2>2 DEF GoalIInv, TablesInv
  <2>3. QED
    BY <2>1, <2>2
<1>10. LinksInv' /\ ProposedInv'
  <2>1. \A m \in Memory : At(m) => At(m)' \/ m \in served' \cup failed'
    BY <1>1, AtEnds DEF GoalIInv
  <2>2. served \subseteq served'
    BY <1>1
  <2>3. BrokerKept
    BY <1>1, <2>2, Constants DEF BrokerKept, broker, GoalIInv, TablesInv
  <2>4. QED
    BY <1>1, <2>1, <2>3, BrokerStep
<1>11. TablesInv'
  <2>1. DOMAIN node' = DOMAIN node
    BY <1>1
  <2>2. linked' \subseteq Goal \X Memory
    BY <1>1, <1>2 DEF Proper, GoalIInv, TablesInv
  <2>3. work' = [b \in Actor |-> work'[b]]
    BY <1>3
  <2>4. QED
    BY <1>1, <1>6, <1>9, <2>1, <2>2, <2>3 DEF GoalIInv, TablesInv, broker
<1>12. QED
  BY <1>5, <1>6, <1>7, <1>8, <1>10, <1>11 DEF GoalIInv

-----------------------------------------------------------------------------
(* Theorems about goals.                                                   *)

\* The invariant holds at first.
LEMMA GoalInitIInv == GoalInit => GoalIInv
<1> SUFFICES ASSUME GoalInit PROVE GoalIInv
  OBVIOUS
<1>1. /\ goal = [g \in Goal |-> NoGoal] /\ node = <<>> /\ edge = {} /\ linked = {}
      /\ origin = [g \in Goal |-> Nobody] /\ lock = {} /\ asked = 0 /\ slips = 0
      /\ sent \subseteq Job
      /\ ready = [j \in Job |-> IF j \in sent THEN 1 ELSE 0]
      /\ work = [a \in Actor |-> NoWork] /\ merged = [g \in Goal |-> NoMeta]
      /\ class \in [Memory -> Classification] /\ loosened = {}
  BY DEF GoalInit
<1>2. NoGoal.meta = NoMeta /\ NoGoal.status = "none" /\ 0 \in 0..MaxRequests /\ 0 \in 0..MaxSlips
  BY Constants DEF NoGoal
<1>3. IsMeta(NoMeta)
  BY <1>2 DEF NoMeta, IsMeta
<1>4. RowsInv /\ CompletedIsStamped /\ RestrictedStayOut /\ MetadataMerged
  BY <1>1, <1>2, <1>3 DEF RowsInv, CompletedIsStamped, RestrictedStayOut, MetadataMerged
<1>5. \A j \in Job : ready[j] \in Nat /\ ready[j] <= 1 /\ (j \in sent => ready[j] > 0)
  BY <1>1
<1>6. TablesInv
  <2>1. DOMAIN node = {}
    BY <1>1
  <2>2. \A j \in Job : ready[j] \in Nat
    BY <1>5
  <2>3. /\ goal = [g \in Goal |-> goal[g]] /\ merged = [g \in Goal |-> merged[g]]
        /\ ready = [j \in Job |-> ready[j]] /\ work = [a \in Actor |-> work[a]]
        /\ origin \in [Goal -> Session \cup {Nobody}]
    BY <1>1
  <2>4. edge = {} /\ linked = {} /\ lock = {} /\ asked \in 0..MaxRequests /\ slips \in 0..MaxSlips
    BY <1>1, <1>2
  <2>5. QED
    BY <1>1, <2>1, <2>2, <2>3, <2>4 DEF TablesInv
<1>7. ASSUME NEW a \in Actor PROVE WorkOK(a)
  <2>1. PICK w : w = NoWork
    OBVIOUS
  <2>2. work[a] = w
    BY <1>1, <2>1
  <2>3. QED
    BY <2>1, <2>2, NoWorkIsProper DEF WorkOK
<1>8. LinksInv
  BY <1>1, <1>5 DEF LinksInv, JobKind
<1>9. ProposedInv
  <2>1. ASSUME NEW s \in Session
        PROVE  IsFiniteSet(Proposed(s)) /\ Cardinality(Proposed(s)) + Left(s) <= 1 + slips
    <3>1. s # Nobody
      BY Constants
    <3>2. Proposed(s) = {}
      BY <1>1, <3>1 DEF Proposed
    <3>3. IsFiniteSet(Proposed(s)) /\ Cardinality(Proposed(s)) = 0
      BY <3>2, FS_EmptySet
    <3>4. Left(s) \in Nat /\ Left(s) <= 1
      BY <1>5 DEF Left
    <3>5. QED
      BY <1>1, <3>3, <3>4
  <2>2. QED
    BY <2>1 DEF ProposedInv
<1>10. QED
  BY <1>4, <1>6, <1>7, <1>8, <1>9 DEF GoalIInv

\* Every task keeps it.
LEMMA TakesKeepInv ==
    ASSUME GoalIInv, NEW w \in Worker, Take(w)
    PROVE  GoalIInv'
<1>1. CASE \E j \in Job : Recompute(w, j) \/ DetectBlockers(w, j) \/ PlanNothing(w, j)
  BY <1>1, RecomputeStep, DetectBlockersStep, PlanNothingStep
<1>2. \A k : \A j \in JobKind(k) : j \in Job
  BY DEF JobKind
<1>3. CASE \E j \in JobKind("link"), chosen \in SUBSET Goal, type \in {"evidence", "progress"} :
             SuggestLinks(w, j, chosen, type)
  BY <1>2, <1>3, SuggestLinksStep
<1>4. CASE \E j \in JobKind("loop"), evidence \in SUBSET Memory : \E keeps \in SUBSET evidence :
             EndSession(w, j, evidence, keeps)
  BY <1>2, <1>4, EndSessionStep
<1>5. CASE \E j \in JobKind("plan"), g \in Goal, p \in Proposal, new \in SUBSET Node :
             \E edges \in {{}} \cup {{e} : e \in new \X new} : PlanGoal(w, j, g, p, new, edges)
  BY <1>2, <1>5, PlanGoalStep
<1>6. QED
  BY <1>1, <1>3, <1>4, <1>5 DEF Take

\* A memory that becomes restricted loosens the links that were reviewed.
LEMMA ReclassifyStep ==
    ASSUME GoalIInv, NEW m \in Memory, NEW c \in Classification, Reclassify(m, c)
    PROVE  GoalIInv'
<1>1. /\ asked < MaxRequests /\ asked' = asked + 1
      /\ class' = [class EXCEPT ![m] = c]
      /\ loosened' = IF c = "restricted" THEN loosened \cup (Reviewed \cap (Goal \X {m})) ELSE loosened
      /\ UNCHANGED <<goal, node, edge, linked, origin, work, stale, raced, merged>>
      /\ UNCHANGED broker /\ UNCHANGED <<served, failed>>
  BY DEF Reclassify, Ask
<1>2. TablesInv /\ RowsOK
  BY DEF GoalIInv, RowsOK
<1>3. class \in [Memory -> Classification]
  BY <1>2 DEF TablesInv
<1>4. ASSUME NEW g \in Goal, NEW n \in Memory, <<g, n>> \in Reviewed, Kept(g, n)
      PROVE  Kept(g, n)'
  <2>1. CASE n = m
    BY <1>1, <1>3, <1>4, <2>1 DEF Kept
  <2>2. CASE n # m
    BY <1>1, <1>3, <1>4, <2>2 DEF Kept
  <2>3. QED
    BY <2>1, <2>2
<1>5. Monotone
  BY <1>1, <1>4 DEF Monotone, Exists
<1>6. \A a \in Actor : WorkOK(a)'
  BY <1>1, <1>5, WorkStands DEF Noticed, GoalIInv
<1>7. RestrictedStayOut'
  <2>1. \A g \in Goal, n \in Memory : <<g, n>> \in linked => Kept(g, n) /\ <<g, n>> \in Reviewed
    BY <1>2 DEF RowsOK, RestrictedStayOut, Kept, Reviewed
  <2>2. QED
    BY <1>1, <1>4, <2>1 DEF RestrictedStayOut, Kept
<1>8. (RowsInv /\ CompletedIsStamped /\ MetadataMerged)'
  BY <1>1, <1>2 DEF RowsOK, RowsInv, CompletedIsStamped, MetadataMerged, Exists, IsGoal, IsMeta
<1>9. asked' \in 0..MaxRequests
  BY <1>1, <1>2, Constants DEF TablesInv
<1>10. TablesInv'
  BY <1>1, <1>2, <1>9 DEF TablesInv, broker
<1>11. LinksInv' /\ ProposedInv'
  <2>1. BrokerKept
    BY <1>1, BrokerAlone
  <2>2. \A n \in Memory : At(n) => At(n)'
    BY <1>1 DEF At
  <2>3. QED
    BY <1>1, <2>1, <2>2, BrokerStep
<1>12. QED
  BY <1>6, <1>7, <1>8, <1>10, <1>11 DEF GoalIInv

\* So does a step that changes nothing.
LEMMA GoalStutters ==
    ASSUME GoalIInv, UNCHANGED goalVars
    PROVE  GoalIInv'
<1>1. /\ UNCHANGED rows /\ UNCHANGED <<sent, asked, work>> /\ UNCHANGED history
      /\ UNCHANGED <<ready, slips, lock>>
  BY DEF goalVars, broker
<1>2. /\ ready = [j \in Job |-> ready[j]] /\ \A j \in Job : ready[j] \in Nat
      /\ slips \in 0..MaxSlips /\ slips \in Nat
  BY Constants DEF GoalIInv, TablesInv
<1>3. \A x, y \in Nat : x + y <= x + y /\ y <= y
  OBVIOUS
<1>4. SlipsTell /\ slips <= slips'
  BY <1>1, <1>2, <1>3 DEF SlipsTell
<1>5. QED
  BY <1>1, <1>2, <1>4, BrokerOnly

\* And every step of the goal graph.
LEMMA GoalNextIInv == GoalIInv /\ [GoalNext]_goalVars => GoalIInv'
<1> SUFFICES ASSUME GoalIInv, [GoalNext]_goalVars PROVE GoalIInv'
  OBVIOUS
<1>1. CASE \E g \in Goal, p \in Payload : CreateGoal(g, p)
  BY <1>1, CreateGoalStep
<1>2. CASE \E n \in Node, g \in Goal, s \in Told : AddNode(n, g, s)
  BY <1>2, AddNodeStep
<1>3. CASE \/ \E n, m \in Node : AddDependency(n, m)
           \/ \E m \in Memory, c \in Classification : Reclassify(m, c)
  BY <1>3, AddDependencyStep, ReclassifyStep
<1>4. CASE \E u \in User :
             \/ \E g \in Goal, p \in Patch : UpdateGoal(u, g, p)
             \/ \E n \in Node, s \in Told : UpdateNode(u, n, s)
             \/ \E g \in Goal, m \in Memory, type \in {"evidence", "progress"} :
                  LinkMemory(u, g, m, type)
  BY <1>4, UpdateGoalStep, UpdateNodeStep, LinkMemoryStep
<1>5. CASE \E w \in Worker : Take(w) \/ Redeliver(w)
  BY <1>5, TakesKeepInv, RedeliverStep
<1>6. CASE \E a \in Actor : Commit(a) \/ Abort(a)
  BY <1>6, CommitStep, AbortStep
<1>7. CASE \E m \in Memory : Expire(m)
  BY <1>7, ExpireStep
<1>8. CASE UNCHANGED goalVars
  BY <1>8, GoalStutters
<1>9. QED
  BY <1>1, <1>2, <1>3, <1>4, <1>5, <1>6, <1>7, <1>8 DEF GoalNext

\* It holds in every behaviour.
LEMMA GoalIInvHolds == GoalSpec => []GoalIInv
<1>1. GoalInit => GoalIInv
  BY GoalInitIInv
<1>2. GoalIInv /\ [GoalNext]_goalVars => GoalIInv'
  BY GoalNextIInv
<1>3. QED
  BY <1>1, <1>2, PTL DEF GoalSpec

\* It implies what the runs check.
LEMMA GoalIInvTells == GoalIInv => GoalInv /\ LinksAccounted
<1> SUFFICES ASSUME GoalIInv PROVE GoalInv /\ LinksAccounted
  OBVIOUS
<1>1. GoalTypeOK
  <2>1. ASSUME NEW g \in Goal, Exists(g)
        PROVE  /\ goal[g].status \in Status /\ goal[g].conf \in Confidence
               /\ goal[g].scope \in Scope /\ goal[g].stamped \in BOOLEAN
               /\ goal[g].meta.user \in 0..MaxRequests /\ goal[g].meta.blockers \subseteq Node
    BY <2>1, SomeGoal DEF IsGoal, IsMeta
  <2>2. DOMAIN ready = Job
    BY DEF GoalIInv, TablesInv
  <2>3. QED
    BY <2>1, <2>2 DEF GoalTypeOK, GoalIInv, TablesInv
<1>2. ProposalsBounded
  <2>1. ASSUME NEW s \in Session PROVE Cardinality({g \in Goal : origin[g] = s}) <= 1 + slips
    <3>1. /\ IsFiniteSet(Proposed(s)) /\ Cardinality(Proposed(s)) + Left(s) <= 1 + slips
      BY DEF GoalIInv, ProposedInv
    <3>2. Cardinality(Proposed(s)) \in Nat
      BY <3>1, FS_CardinalityType
    <3>3. slips \in Nat /\ Left(s) \in Nat
      BY Constants DEF GoalIInv, TablesInv, Left
    <3>4. Cardinality(Proposed(s)) <= 1 + slips
      BY <3>1, <3>2, <3>3
    <3>5. QED
      BY <3>4 DEF Proposed
  <2>2. QED
    BY <2>1 DEF ProposalsBounded
<1>3. LinksAccounted
  <2>1. ASSUME NEW j \in JobKind("link") \cap sent, ready[j] = 0,
               \A w \in Worker : work[w].job # j
        PROVE  j.of \in served \cup failed
    <3>1. j \in Job /\ ~(ready[j] > 0)
      BY <2>1 DEF JobKind
    <3>2. ASSUME NEW w \in Worker, work[w].job \in JobKind("link"), work[w].job.of = j.of PROVE FALSE
      <4>1. work[w].job = j
        BY <3>2, Constants DEF JobKind
      <4>2. QED
        BY <2>1, <4>1
    <3>3. ~At(j.of)
      BY <3>2 DEF At
    <3>4. QED
      BY <3>1, <3>3 DEF GoalIInv, LinksInv
  <2>2. QED
    BY <2>1 DEF LinksAccounted
<1>4. QED
  BY <1>1, <1>2, <1>3 DEF GoalInv, GoalIInv

\* Completed goals are stamped, restricted memories are linked to goals of a wide
\* scope only, and a session is proposed once more per second delivery at most.
THEOREM GoalsAreWhole == GoalSpec => []GoalInv
<1>1. GoalIInv => GoalInv
  BY GoalIInvTells
<1>2. QED
  BY <1>1, GoalIInvHolds, PTL

\* No entry of a goal's metadata is lost, unless two transactions were at the goal
\* at the same time.
THEOREM NoEntryIsLost == GoalSpec => []MetadataMerged
<1>1. GoalIInv => MetadataMerged
  BY DEF GoalIInv
<1>2. QED
  BY <1>1, GoalIInvHolds, PTL

\* A linking task that is over has looked at its memory to the end, or failed.
THEOREM LinksAreAccounted == GoalSpec => []LinksAccounted
<1>1. GoalIInv => LinksAccounted
  BY GoalIInvTells
<1>2. QED
  BY <1>1, GoalIInvHolds, PTL

\* Statuses change in commits only, and there as the review or the blockers say.
LEMMA CommitIsSupervised ==
    ASSUME GoalIInv, NEW a \in Actor, Commit(a), NEW h \in Goal, goal'[h].status # goal[h].status
    PROVE  \/ goal[h].conf >= 50
           \/ goal[h].status = "active" /\ goal'[h].status = "blocked"
           \/ h \in raced'
<1> DEFINE w == work[a]
           c == w.cols
<1>1. w.goal # Nobody /\ CommitsTo(a, w)
  BY DEF Commit, CommitsTo, Part
<1>2. /\ \A f \in Fields : goal'[w.goal][f] = IF f \in DOMAIN c THEN c[f] ELSE goal[w.goal][f]
      /\ \A g \in Goal : g # w.goal => goal'[g] = goal[g]
  BY <1>1, CommittedGoal
<1>3. h = w.goal
  BY <1>2
<1>4. "status" \in DOMAIN c /\ goal'[h].status = c.status
  BY <1>2, <1>3 DEF Fields
<1>5. c # <<>>
  BY <1>4
<1>6. raced' = IF a \in stale /\ c # <<>> THEN raced \cup {h} ELSE raced
  BY <1>1, <1>3 DEF CommitsTo, Write
<1>7. a \notin stale => Fresh(w)
  BY DEF GoalIInv, WorkOK
<1>8. CASE a \in stale
  BY <1>5, <1>6, <1>8
<1>9. CASE a \notin stale
  BY <1>1, <1>3, <1>4, <1>7, <1>9 DEF Fresh
<1>10. QED
  BY <1>8, <1>9

\* Only a commit changes the row of a goal that exists.
LEMMA RowsChangeInCommits ==
    ASSUME GoalIInv, [GoalNext]_goalVars, NEW h \in Goal, Exists(h), goal'[h] # goal[h]
    PROVE  \E a \in Actor : Commit(a)
<1>1. goal = [g \in Goal |-> goal[g]] /\ ~UNCHANGED goal
  BY DEF GoalIInv, TablesInv
<1>2. ASSUME NEW g \in Goal, NEW p, CreateGoal(g, p) PROVE FALSE
  <2>1. g # h /\ goal' = [goal EXCEPT ![g] = With(NoGoal, p)]
    BY <1>2 DEF CreateGoal
  <2>2. QED
    BY <1>1, <2>1
<1>3. ASSUME NEW w, NEW j, NEW g \in Goal, NEW p, NEW new, NEW edges, PlanGoal(w, j, g, p, new, edges)
      PROVE  FALSE
  <2>1. PICK r : r = With(NoGoal, [status |-> "proposed", conf |-> p.conf, scope |-> p.scope])
    OBVIOUS
  <2>2. g # h /\ goal' = [goal EXCEPT ![g] = r]
    BY <1>3, <2>1 DEF PlanGoal
  <2>3. QED
    BY <1>1, <2>2
<1>4. ASSUME NEW w \in Worker, Take(w) PROVE FALSE
  <2>1. ASSUME NEW j \in Job, Recompute(w, j) PROVE FALSE
    BY <1>1, <2>1 DEF Recompute, rows
  <2>2. ASSUME NEW j \in Job, DetectBlockers(w, j) PROVE FALSE
    BY <1>1, <2>2 DEF DetectBlockers, rows
  <2>3. ASSUME NEW j \in Job, NEW chosen, NEW type, SuggestLinks(w, j, chosen, type) PROVE FALSE
    BY <1>1, <2>3 DEF SuggestLinks, rows
  <2>4. ASSUME NEW j \in Job, NEW evidence, NEW keeps, EndSession(w, j, evidence, keeps) PROVE FALSE
    BY <1>1, <2>4 DEF EndSession, rows
  <2>5. ASSUME NEW j \in Job, PlanNothing(w, j) PROVE FALSE
    BY <1>1, <2>5 DEF PlanNothing, rows
  <2>6. QED
    BY <1>3, <1>4, <2>1, <2>2, <2>3, <2>4, <2>5 DEF Take, JobKind
<1>5. CASE \E g \in Goal, p \in Payload : CreateGoal(g, p)
  BY <1>2, <1>5
<1>6. CASE \/ \E n \in Node, g \in Goal, s \in Told : AddNode(n, g, s)
           \/ \E n, m \in Node : AddDependency(n, m)
           \/ \E m \in Memory, c \in Classification : Reclassify(m, c)
  BY <1>1, <1>6 DEF AddNode, AddDependency, Reclassify
<1>7. CASE \E u \in User :
             \/ \E g \in Goal, p \in Patch : UpdateGoal(u, g, p)
             \/ \E n \in Node, s \in Told : UpdateNode(u, n, s)
             \/ \E g \in Goal, m \in Memory, type \in {"evidence", "progress"} :
                  LinkMemory(u, g, m, type)
  <2>1. ASSUME NEW u \in User, NEW g \in Goal, NEW p \in Patch, UpdateGoal(u, g, p) PROVE FALSE
    BY <1>1, <2>1 DEF UpdateGoal, rows
  <2>2. ASSUME NEW u \in User, NEW n \in Node, NEW s \in Told, UpdateNode(u, n, s) PROVE FALSE
    BY <1>1, <2>2 DEF UpdateNode, rows
  <2>3. ASSUME NEW u \in User, NEW g \in Goal, NEW m \in Memory, NEW type, LinkMemory(u, g, m, type)
        PROVE  FALSE
    BY <1>1, <2>3 DEF LinkMemory, rows
  <2>4. QED
    BY <1>7, <2>1, <2>2, <2>3
<1>8. CASE \E w \in Worker : Redeliver(w)
  BY <1>1, <1>8 DEF Redeliver, rows
<1>9. CASE \E m \in Memory : Expire(m)
  BY <1>1, <1>9 DEF Expire, rows
<1>10. ASSUME NEW a \in Actor, Abort(a) PROVE FALSE
  BY <1>1, <1>10 DEF Abort, rows
<1>11. CASE UNCHANGED goalVars
  BY <1>1, <1>11 DEF goalVars, rows
<1>12. QED
  BY <1>4, <1>5, <1>6, <1>7, <1>8, <1>9, <1>10, <1>11 DEF GoalNext

\* Below the confidence that reviews ask for, a goal changes its status by its
\* blocked nodes only, or after its confidence fell under a transaction.
THEOREM StatusesAreSupervised == GoalSpec => StatusSupervised
<1>1. GoalIInv /\ [GoalNext]_goalVars =>
          [\A g \in Goal : Exists(g) /\ goal'[g].status # goal[g].status =>
              \/ goal[g].conf >= 50
              \/ goal[g].status = "active" /\ goal'[g].status = "blocked"
              \/ g \in raced']_goalVars
  <2> SUFFICES ASSUME GoalIInv, [GoalNext]_goalVars, NEW g \in Goal, Exists(g),
                      goal'[g].status # goal[g].status
               PROVE  \/ goal[g].conf >= 50
                      \/ goal[g].status = "active" /\ goal'[g].status = "blocked"
                      \/ g \in raced'
    OBVIOUS
  <2>1. PICK a \in Actor : Commit(a)
    BY RowsChangeInCommits
  <2>2. QED
    BY <2>1, CommitIsSupervised
<1>2. QED
  BY <1>1, GoalIInvHolds, PTL DEF GoalSpec, StatusSupervised

=============================================================================
