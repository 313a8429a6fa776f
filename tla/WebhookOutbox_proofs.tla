------------------------ MODULE WebhookOutbox_proofs ------------------------
(***************************************************************************)
(* WebhookOutbox keeps its records honest and implements EventOutbox, for  *)
(* any subscriptions, events, interests, dispatchers, schedule and limit.  *)
(*                                                                         *)
(* The records of a delivery are written from what a dispatcher read long  *)
(* before.  The invariant therefore says, of each dispatcher, how what it  *)
(* has in hand relates to what has happened (InHand).  The posts of a      *)
(* delivery are counted by who has it in hand: those recorded, those       *)
(* rolled back, and the one not recorded yet (AloneInv).                   *)
(***************************************************************************)
EXTENDS WebhookOutbox, TLAPS

\* A request that may still publish has not done so; what it is going to insert
\* refers to subscriptions that are there, and its change is not forgotten.
RequestsInv ==
    \A e \in Events :
        /\ e \in outbox => req[e] = "done"
        /\ req[e] = "commit" => \A s \in found[e] : sub[s] = "active"
        /\ req[e] \in {"read", "insert", "commit"} => e \in Audited \cup change

\* Only what was published is posted, and what is pending is not used up.
PostsInv ==
    \A d \in Deliveries :
        /\ posts[d] > 0 => d[2] \in outbox
        /\ status[d] = "pending" => attempts[d] < ScheduleLength

\* What a dispatcher has in hand: deliveries that were there when it read them,
\* with as many attempts as there were posts at least, and outcomes that it has
\* seen happen.
InHand(w, d) ==
    /\ step[w] = "idle" => d \notin batch[w]
    /\ d \in batch[w] => /\ d[2] \in outbox
                         /\ sub[d[1]] # "none"
                         /\ seen[w][d] < ScheduleLength
    /\ outcome[w][d] # "none" => d \in batch[w]
    /\ outcome[w][d] = "ok" => d \in accepted
    /\ outcome[w][d] = "missing" => sub[d[1]] = "deleted"
    /\ outcome[w][d] = "error" => seen[w][d] < posts[d]
    /\ seen[w][d] <= posts[d]

DispatchersInv == \A w \in Dispatchers, d \in Deliveries : InHand(w, d)

\* The inductive invariant.
IInv ==
    /\ DeliveryInv
    /\ RequestsInv
    /\ PostsInv
    /\ DispatchersInv

USE DEF Statuses, Settled, Outcomes

LEMMA DeliveryIsPair ==
    ASSUME NEW d \in Deliveries
    PROVE  d[1] \in Subs /\ d[2] \in Events /\ d = <<d[1], d[2]>>
BY DEF Deliveries

LEMMA InitIInv == Init => IInv
<1> SUFFICES ASSUME Init PROVE IInv
  OBVIOUS
<1>1. TypeOK
  BY WebhookAssumption DEF Init, TypeOK, NothingSeen, NoOutcome
<1>2. NoOrphans /\ HonestRecord /\ RequestsInv /\ PostsInv
  BY DeliveryIsPair, WebhookAssumption DEF Init, NoOrphans, HonestRecord, RequestsInv, PostsInv
<1>3. DispatchersInv
  BY DEF Init, DispatchersInv, InHand, NothingSeen, NoOutcome
<1>4. QED
  BY <1>1, <1>2, <1>3 DEF IInv, DeliveryInv

-----------------------------------------------------------------------------
(* Subscriptions and requests.                                             *)

LEMMA SubscribeStep ==
    ASSUME IInv, NEW s \in Subs, Subscribe(s)
    PROVE  IInv'
<1> USE DEF Subscribe, IInv, DeliveryInv, requestVars, rowVars, dispatcherVars, historyVars
<1>1. TypeOK'
  BY DEF TypeOK
<1>2. NoOrphans' /\ HonestRecord' /\ RequestsInv' /\ PostsInv'
  BY DeliveryIsPair DEF TypeOK, NoOrphans, HonestRecord, RequestsInv, PostsInv
<1>3. DispatchersInv'
  BY DeliveryIsPair DEF TypeOK, DispatchersInv, InHand
<1>4. QED
  BY <1>1, <1>2, <1>3

LEMMA UnsubscribeStep ==
    ASSUME IInv, NEW s \in Subs, Unsubscribe(s)
    PROVE  IInv'
<1> USE DEF Unsubscribe, IInv, DeliveryInv, requestVars, dispatcherVars, historyVars
<1>1. TypeOK'
  BY DEF TypeOK
<1>2. NoOrphans' /\ HonestRecord' /\ PostsInv'
  BY DeliveryIsPair DEF TypeOK, NoOrphans, HonestRecord, PostsInv
<1>3. RequestsInv'
  BY DEF TypeOK, RequestsInv, SubsReferred
<1>4. DispatchersInv'
  BY DeliveryIsPair DEF TypeOK, DispatchersInv, InHand
<1>5. QED
  BY <1>1, <1>2, <1>3, <1>4

\* A request's steps before its commit.
LEMMA RequestStep ==
    ASSUME IInv, NEW e \in Events,
           Work(e) \/ ReadSubs(e) \/ InsertDeliveries(e) \/ CrashRequest(e)
    PROVE  IInv'
<1> USE DEF IInv, DeliveryInv, rowVars, dispatcherVars, historyVars
<1>1. /\ UNCHANGED <<sub, outbox, rowVars, dispatcherVars, historyVars>>
      /\ change \subseteq change'
  BY DEF Work, ReadSubs, InsertDeliveries, CrashRequest, TypeOK
<1>2. TypeOK'
  <2>1. req' \in [Events -> {"idle", "read", "insert", "commit", "done", "refused", "crashed"}]
    <3>1. PICK next \in {"read", "insert", "commit", "refused", "crashed"} :
             req' = [req EXCEPT ![e] = next]
      BY DEF Work, ReadSubs, InsertDeliveries, CrashRequest
    <3>2. QED
      BY <3>1 DEF TypeOK
  <2>2. found' \in [Events -> SUBSET Subs] /\ change' \subseteq Events
    <3>1. CASE ReadSubs(e)
      <4>1. \E read \in SUBSET Subs : found' = [found EXCEPT ![e] = read]
        BY <3>1 DEF ReadSubs
      <4>2. QED
        BY <3>1, <4>1 DEF ReadSubs, TypeOK
    <3>2. QED
      BY <3>1 DEF Work, InsertDeliveries, CrashRequest, TypeOK
  <2>3. QED
    BY <1>1, <2>1, <2>2 DEF TypeOK
<1>3. NoOrphans' /\ HonestRecord' /\ PostsInv'
  BY <1>1 DEF NoOrphans, HonestRecord, PostsInv
<1>4. RequestsInv'
  <2>1. CASE Work(e)
    BY <2>1 DEF Work, TypeOK, RequestsInv
  <2>2. CASE ReadSubs(e)
    BY <2>2 DEF ReadSubs, TypeOK, RequestsInv
  <2>3. CASE InsertDeliveries(e)
    BY <2>3 DEF InsertDeliveries, TypeOK, RequestsInv
  <2>4. CASE CrashRequest(e)
    BY <2>4 DEF CrashRequest, TypeOK, RequestsInv
  <2>5. QED
    BY <2>1, <2>2, <2>3, <2>4
<1>5. DispatchersInv'
  BY <1>1 DEF DispatchersInv, InHand
<1>6. QED
  BY <1>2, <1>3, <1>4, <1>5

\* A delivery is new when its event is: it has neither posts nor attempts.
LEMMA CommitEventStep ==
    ASSUME IInv, NEW e \in Events, CommitEvent(e)
    PROVE  IInv'
<1> USE DEF CommitEvent, IInv, DeliveryInv, dispatcherVars, historyVars
<1>1. e \notin outbox
  BY DEF RequestsInv
<1>2. TypeOK'
  BY DEF TypeOK
<1>3. NoOrphans'
  BY DeliveryIsPair DEF TypeOK, NoOrphans, RequestsInv
<1>4. HonestRecord' /\ RequestsInv'
  BY DEF TypeOK, HonestRecord, RequestsInv
<1>5. PostsInv'
  <2>1. ASSUME NEW d \in Deliveries, d[2] = e PROVE attempts[d] = 0
    BY <1>1, <2>1 DEF TypeOK, HonestRecord, PostsInv
  <2>2. QED
    BY <2>1, WebhookAssumption DEF TypeOK, PostsInv
<1>6. DispatchersInv'
  BY DEF TypeOK, DispatchersInv, InHand
<1>7. QED
  BY <1>2, <1>3, <1>4, <1>5, <1>6

-----------------------------------------------------------------------------
(* Dispatchers.                                                            *)

LEMMA ElapseStep ==
    ASSUME IInv, NEW d \in Deliveries, Elapse(d)
    PROVE  IInv'
BY DEF Elapse, IInv, DeliveryInv, TypeOK, NoOrphans, HonestRecord, RequestsInv, PostsInv,
       DispatchersInv, InHand, requestVars, dispatcherVars, historyVars

\* What a step of a dispatcher needs not touch.
LEMMA RowsKept ==
    ASSUME IInv, UNCHANGED <<sub, requestVars, rowVars>>,
           \A d \in Deliveries : posts'[d] >= posts[d] /\ posts[d] \in Nat /\ posts'[d] \in Nat,
           \A d \in Deliveries : posts'[d] > 0 => d[2] \in outbox,
           accepted \subseteq accepted'
    PROVE  NoOrphans' /\ HonestRecord' /\ RequestsInv' /\ PostsInv'
<1> USE DEF IInv, DeliveryInv, requestVars, rowVars
<1>1. NoOrphans' /\ RequestsInv' /\ PostsInv'
  BY DEF NoOrphans, RequestsInv, PostsInv
<1>2. HonestRecord'
  BY WebhookAssumption DEF TypeOK, HonestRecord
<1>3. QED
  BY <1>1, <1>2

LEMMA SelectStep ==
    ASSUME IInv, NEW w \in Dispatchers, Select(w)
    PROVE  IInv'
<1> USE DEF IInv, DeliveryInv
<1>1. PICK b \in SUBSET Due : batch' = [batch EXCEPT ![w] = b]
  BY DEF Select
<1>2. /\ UNCHANGED <<sub, requestVars, rowVars, outcome, posts, accepted, aborted>>
      /\ step[w] = "idle" /\ step' = [step EXCEPT ![w] = "load"]
      /\ seen' = [seen EXCEPT ![w] = [d \in Deliveries |-> IF d \in b THEN attempts[d] ELSE 0]]
  BY <1>1 DEF Select, TypeOK
<1>3. b \subseteq Deliveries /\ \A d \in b : status[d] = "pending"
  BY DEF Due, TypeOK
<1>4. overlapped' \subseteq Deliveries
  <2>1. \E c \in SUBSET Due : overlapped' \subseteq overlapped \cup c
    BY DEF Select
  <2>2. QED
    BY <2>1 DEF Due, TypeOK
<1>5. TypeOK'
  BY <1>1, <1>2, <1>3, <1>4, WebhookAssumption DEF TypeOK, requestVars, rowVars
<1>6. NoOrphans' /\ HonestRecord' /\ RequestsInv' /\ PostsInv'
  BY <1>2, RowsKept DEF TypeOK, PostsInv
<1>7. DispatchersInv'
  <2> SUFFICES ASSUME NEW v \in Dispatchers, NEW d \in Deliveries PROVE InHand(v, d)'
    BY DEF DispatchersInv
  <2>1. InHand(v, d)
    BY DEF DispatchersInv
  <2>2. CASE v # w
    BY <1>1, <1>2, <2>1, <2>2 DEF InHand, TypeOK, requestVars
  <2>3. CASE v = w
    <3>1. outcome'[w][d] = "none" /\ step'[w] = "load"
      BY <1>2, <2>1, <2>3 DEF InHand, TypeOK
    <3>2. seen'[w][d] = IF d \in b THEN attempts[d] ELSE 0
      BY <1>2 DEF TypeOK
    <3>3. attempts[d] <= posts[d] /\ posts[d] \in Nat
      BY DEF HonestRecord, TypeOK
    <3>4. d \in b => /\ d[2] \in outbox /\ sub[d[1]] # "none"
                     /\ attempts[d] < ScheduleLength
      BY <1>3 DEF NoOrphans, PostsInv
    <3>5. batch'[w] = b
      BY <1>1 DEF TypeOK
    <3>6. QED
      BY <1>2, <2>3, <3>1, <3>2, <3>3, <3>4, <3>5 DEF InHand, requestVars
  <2>4. QED
    BY <2>2, <2>3
<1>8. QED
  BY <1>5, <1>6, <1>7

LEMMA LoadSubsStep ==
    ASSUME IInv, NEW w \in Dispatchers, LoadSubs(w)
    PROVE  IInv'
<1> USE DEF LoadSubs, IInv, DeliveryInv, historyVars
<1>1. TypeOK'
  BY DEF TypeOK, requestVars, rowVars
<1>2. NoOrphans' /\ HonestRecord' /\ RequestsInv' /\ PostsInv'
  BY RowsKept DEF TypeOK, PostsInv
<1>3. DispatchersInv'
  BY DeliveryIsPair DEF TypeOK, DispatchersInv, InHand, requestVars
<1>4. QED
  BY <1>1, <1>2, <1>3

\* An outcome is written down after the post it is the outcome of.
LEMMA PostStep ==
    ASSUME IInv, NEW w \in Dispatchers, NEW d \in Deliveries, Post(w, d)
    PROVE  IInv'
<1> USE DEF IInv, DeliveryInv
<1>1. PICK ok \in BOOLEAN, reply \in BOOLEAN :
          /\ accepted' = IF ok THEN accepted \cup {d} ELSE accepted
          /\ outcome' = [outcome EXCEPT ![w][d] = IF ok /\ reply THEN "ok" ELSE "error"]
  BY DEF Post
<1>2. /\ UNCHANGED <<sub, requestVars, rowVars, step, batch, seen, overlapped, aborted>>
      /\ posts' = [posts EXCEPT ![d] = @ + 1]
      /\ d \in batch[w]
  BY DEF Post
<1>3. \A c \in Deliveries : /\ posts[c] \in Nat
                            /\ posts'[c] = IF c = d THEN posts[c] + 1 ELSE posts[c]
  BY <1>2 DEF TypeOK
<1>4. TypeOK'
  BY <1>1, <1>2 DEF TypeOK, requestVars, rowVars
<1>5. d[2] \in outbox
  BY <1>2 DEF DispatchersInv, InHand
<1>6. NoOrphans' /\ HonestRecord' /\ RequestsInv' /\ PostsInv'
  BY <1>1, <1>2, <1>3, <1>5, RowsKept DEF TypeOK, PostsInv
<1>7. DispatchersInv'
  <2> SUFFICES ASSUME NEW v \in Dispatchers, NEW c \in Deliveries PROVE InHand(v, c)'
    BY DEF DispatchersInv
  <2>1. InHand(v, c) /\ seen[v][c] \in Nat
    BY WebhookAssumption DEF DispatchersInv, TypeOK
  <2>2. \/ outcome'[v][c] = outcome[v][c]
        \/ v = w /\ c = d /\ outcome'[v][c] = "error"
        \/ v = w /\ c = d /\ outcome'[v][c] = "ok" /\ d \in accepted'
    BY <1>1 DEF TypeOK
  <2>3. posts'[c] >= posts[c] /\ (c = d => seen[v][c] < posts'[c])
    BY <1>3, <2>1 DEF InHand
  <2>4. QED
    BY <1>1, <1>2, <1>3, <2>1, <2>2, <2>3 DEF InHand, requestVars
<1>8. QED
  BY <1>4, <1>6, <1>7

\* A dispatcher that has ended has nothing in hand.
LEMMA EndKeeps ==
    ASSUME IInv, NEW w \in Dispatchers, End(w), UNCHANGED <<sub, requestVars, historyVars>>
    PROVE  /\ DispatchersInv'
           /\ step' \in [Dispatchers -> {"idle", "load", "post", "commit"}]
           /\ batch' \in [Dispatchers -> SUBSET Deliveries]
           /\ seen' \in [Dispatchers -> [Deliveries -> 0..ScheduleLength]]
           /\ outcome' \in [Dispatchers -> [Deliveries -> Outcomes]]
BY WebhookAssumption
   DEF IInv, DeliveryInv, End, TypeOK, DispatchersInv, InHand, NothingSeen, NoOutcome,
       requestVars, historyVars

LEMMA GiveUpStep ==
    ASSUME IInv, NEW w \in Dispatchers, GiveUp(w), aborted' = aborted + 1
    PROVE  IInv'
<1>1. DispatchersInv'
  BY WebhookAssumption
     DEF GiveUp, End, IInv, DeliveryInv, TypeOK, DispatchersInv, InHand, NothingSeen, NoOutcome,
         requestVars
<1>2. NoOrphans' /\ HonestRecord' /\ RequestsInv' /\ PostsInv'
  BY RowsKept DEF GiveUp, IInv, DeliveryInv, TypeOK, PostsInv
<1>3. TypeOK'
  BY WebhookAssumption
     DEF GiveUp, End, IInv, DeliveryInv, TypeOK, NothingSeen, NoOutcome, requestVars, rowVars
<1>4. QED
  BY <1>1, <1>2, <1>3 DEF IInv, DeliveryInv

LEMMA FlushStep ==
    ASSUME IInv, NEW w \in Dispatchers, Flush(w)
    PROVE  IInv'
<1>1. CASE step' = [step EXCEPT ![w] = "commit"]
           /\ UNCHANGED <<sub, requestVars, rowVars, batch, seen, outcome, historyVars>>
  <2>1. TypeOK'
    BY <1>1 DEF IInv, DeliveryInv, TypeOK, requestVars, rowVars, historyVars
  <2>2. NoOrphans' /\ HonestRecord' /\ RequestsInv' /\ PostsInv'
    BY <1>1, RowsKept DEF IInv, DeliveryInv, TypeOK, PostsInv, historyVars
  <2>3. DispatchersInv'
    BY <1>1 DEF IInv, DeliveryInv, TypeOK, DispatchersInv, InHand, requestVars, historyVars
  <2>4. QED
    BY <2>1, <2>2, <2>3 DEF IInv, DeliveryInv
<1>2. CASE GiveUp(w) /\ aborted' = aborted + 1
  BY <1>2, GiveUpStep
<1>3. QED
  BY <1>1, <1>2 DEF Flush

LEMMA AbortDispatchStep ==
    ASSUME IInv, NEW w \in Dispatchers, AbortDispatch(w)
    PROVE  IInv'
BY GiveUpStep DEF AbortDispatch

\* What a commit writes into the row of a delivery: a settled status for an
\* outcome that happened, an attempt for a post.
LEMMA Written ==
    ASSUME IInv, NEW w \in Dispatchers, CommitDispatch(w), NEW d \in Deliveries
    PROVE  /\ status'[d] # status[d] =>
                  /\ status[d] # "none"
                  /\ \/ status'[d] = "delivered" /\ d \in accepted
                     \/ status'[d] = "failed" /\ posts[d] >= ScheduleLength
           /\ attempts'[d] # attempts[d] =>
                  /\ attempts'[d] \in 0..ScheduleLength /\ attempts'[d] <= posts[d]
                  /\ status'[d] = "pending" => attempts'[d] < ScheduleLength
<1> DEFINE kept == {c \in batch[w] : status[c] # "none"}
           put == {c \in kept : outcome[w][c] = "error"}
<1> USE DEF IInv, DeliveryInv
<1>1. /\ status'[d] = IF d \in kept THEN NewStatus(w, d) ELSE status[d]
      /\ attempts'[d] = IF d \in put THEN seen[w][d] + 1 ELSE attempts[d]
  BY DEF CommitDispatch, TypeOK
<1>2. InHand(w, d)
  BY DEF DispatchersInv
<1>3. seen[w][d] \in 0..ScheduleLength /\ posts[d] \in Nat /\ ScheduleLength \in Nat
  BY WebhookAssumption DEF TypeOK
<1>4. d \in put => /\ seen[w][d] + 1 <= posts[d]
                   /\ seen[w][d] + 1 <= ScheduleLength
  BY <1>2, <1>3 DEF InHand
<1>5. d \in kept => outcome[w][d] # "missing"
  BY <1>2 DEF InHand, NoOrphans
<1>6. ASSUME status'[d] # status[d]
      PROVE  /\ status[d] # "none"
             /\ \/ status'[d] = "delivered" /\ d \in accepted
                \/ status'[d] = "failed" /\ posts[d] >= ScheduleLength
  <2>1. d \in kept /\ status'[d] = NewStatus(w, d)
    BY <1>1, <1>6
  <2>2. \/ outcome[w][d] = "ok" /\ status'[d] = "delivered"
        \/ d \in put /\ seen[w][d] + 1 >= ScheduleLength /\ status'[d] = "failed"
    BY <1>5, <1>6, <2>1 DEF NewStatus
  <2>3. QED
    BY <1>2, <1>3, <1>4, <2>1, <2>2 DEF InHand
<1>7. ASSUME attempts'[d] # attempts[d]
      PROVE  /\ attempts'[d] \in 0..ScheduleLength /\ attempts'[d] <= posts[d]
             /\ status'[d] = "pending" => attempts'[d] < ScheduleLength
  <2>1. d \in put /\ attempts'[d] = seen[w][d] + 1
    BY <1>1, <1>7
  <2>2. seen[w][d] + 1 >= ScheduleLength => status'[d] = "failed"
    BY <1>1, <2>1 DEF NewStatus
  <2>3. QED
    BY <1>3, <1>4, <2>1, <2>2
<1>8. QED
  BY <1>6, <1>7

LEMMA CommitDispatchStep ==
    ASSUME IInv, NEW w \in Dispatchers, CommitDispatch(w)
    PROVE  IInv'
<1> USE DEF IInv, DeliveryInv
<1>1. UNCHANGED <<sub, requestVars, historyVars>> /\ End(w)
  BY DEF CommitDispatch
<1>2. DOMAIN status' = Deliveries /\ DOMAIN attempts' = Deliveries
      /\ status' = [d \in Deliveries |-> status'[d]]
      /\ attempts' = [d \in Deliveries |-> attempts'[d]]
  BY DEF CommitDispatch
<1>3. TypeOK'
  <2>1. status' \in [Deliveries -> Statuses]
    BY <1>2, Written DEF TypeOK
  <2>2. attempts' \in [Deliveries -> 0..ScheduleLength]
    BY <1>2, Written DEF TypeOK
  <2>3. due' \subseteq Deliveries
    BY DEF CommitDispatch, TypeOK
  <2>4. QED
    BY <1>1, <2>1, <2>2, <2>3, EndKeeps DEF TypeOK, requestVars, historyVars
<1>4. NoOrphans' /\ RequestsInv'
  BY <1>1, Written DEF NoOrphans, RequestsInv, requestVars
<1>5. HonestRecord'
  BY <1>1, Written DEF HonestRecord, historyVars
<1>6. PostsInv'
  BY <1>1, Written DEF PostsInv, requestVars, historyVars
<1>7. DispatchersInv'
  BY <1>1, EndKeeps
<1>8. QED
  BY <1>3, <1>4, <1>5, <1>6, <1>7

-----------------------------------------------------------------------------
(* The invariant.                                                          *)

LEMMA NextIInv == IInv /\ [Next]_vars => IInv'
<1> SUFFICES ASSUME IInv, [Next]_vars PROVE IInv'
  OBVIOUS
<1>1. ASSUME NEW s \in Subs, Subscribe(s) \/ Unsubscribe(s) PROVE IInv'
  BY <1>1, SubscribeStep, UnsubscribeStep
<1>2. ASSUME NEW e \in Events, Work(e) \/ ReadSubs(e) \/ InsertDeliveries(e) \/ CrashRequest(e)
      PROVE  IInv'
  BY <1>2, RequestStep
<1>3. ASSUME NEW e \in Events, CommitEvent(e) PROVE IInv'
  BY <1>3, CommitEventStep
<1>4. ASSUME NEW d \in Deliveries, Elapse(d) PROVE IInv'
  BY <1>4, ElapseStep
<1>5. ASSUME NEW w \in Dispatchers, Select(w) \/ Dispatch(w) \/ AbortDispatch(w) PROVE IInv'
  BY <1>5, SelectStep, LoadSubsStep, PostStep, FlushStep, CommitDispatchStep, AbortDispatchStep
     DEF Dispatch
<1>6. CASE UNCHANGED vars
  BY <1>6 DEF vars, requestVars, rowVars, dispatcherVars, historyVars, IInv, DeliveryInv, TypeOK,
              NoOrphans, HonestRecord, RequestsInv, PostsInv, DispatchersInv, InHand
<1>7. QED
  BY <1>1, <1>2, <1>3, <1>4, <1>5, <1>6 DEF Next

THEOREM Invariant == Spec => []IInv
BY InitIInv, NextIInv, PTL DEF Spec

\* What the rows of a delivery say of it is true, however stale the value a
\* dispatcher computed them from: no delivery outlives its subscription, a
\* failed one was posted as often as the schedule allows, a delivered one was
\* accepted.
THEOREM RecordsAreHonest == Spec => []DeliveryInv
<1>1. IInv => DeliveryInv
  BY DEF IInv
<1>2. QED
  BY <1>1, Invariant, PTL

-----------------------------------------------------------------------------
(* The step simulation.                                                    *)

USE DEF Outbox!Settled, Outbox!Deliveries, Outbox!absVars

LEMMA RequestSimulated ==
    ASSUME IInv, NEW e \in Events,
           Work(e) \/ ReadSubs(e) \/ InsertDeliveries(e) \/ CommitEvent(e) \/ CrashRequest(e)
    PROVE  [Outbox!Next]_(Outbox!absVars)
<1>1. CASE Work(e) /\ e \notin Audited
  BY <1>1 DEF Work, rowVars, historyVars, Outbox!Next, Outbox!Change
<1>2. CASE (Work(e) /\ e \in Audited) \/ ReadSubs(e) \/ InsertDeliveries(e) \/ CrashRequest(e)
  BY <1>2 DEF Work, ReadSubs, InsertDeliveries, CrashRequest, rowVars, historyVars
<1>3. CASE CommitEvent(e)
  <2>1. e \notin outbox /\ e \in Audited \cup change
    BY <1>3 DEF CommitEvent, IInv, RequestsInv
  <2>2. found[e] \in SUBSET {s \in Subs : sub[s] = "active"}
    BY <1>3 DEF CommitEvent, IInv, DeliveryInv, TypeOK, RequestsInv
  <2>3. status' = [d \in Deliveries |-> IF d[2] = e /\ d[1] \in found[e]
                                        THEN "pending" ELSE status[d]]
    BY <1>3 DEF CommitEvent
  <2>4. Outbox!Publish(e)
    BY <1>3, <2>1, <2>2, <2>3 DEF CommitEvent, historyVars, Outbox!Publish, Deliveries
  <2>5. QED
    BY <2>4 DEF Outbox!Next
<1>4. QED
  BY <1>1, <1>2, <1>3

LEMMA DispatcherSimulated ==
    ASSUME IInv, NEW w \in Dispatchers, Select(w) \/ Dispatch(w) \/ AbortDispatch(w)
    PROVE  [Outbox!Next]_(Outbox!absVars)
<1>1. CASE Select(w) \/ LoadSubs(w) \/ Flush(w) \/ AbortDispatch(w)
  BY <1>1 DEF Select, LoadSubs, Flush, AbortDispatch, GiveUp, requestVars, rowVars, historyVars
<1>2. ASSUME NEW d \in Deliveries, Post(w, d)
      PROVE  [Outbox!Next]_(Outbox!absVars)
  <2>1. UNCHANGED <<sub, change, outbox, status>> /\ accepted' \in {accepted, accepted \cup {d}}
    BY <1>2 DEF Post, requestVars, rowVars
  <2>2. d[2] \in outbox
    BY <1>2 DEF Post, IInv, DispatchersInv, InHand
  <2>3. QED
    BY <2>1, <2>2 DEF Deliveries, Outbox!Next, Outbox!Accept
<1>3. CASE CommitDispatch(w)
  <2>1. UNCHANGED <<sub, change, outbox, accepted>>
    BY <1>3 DEF CommitDispatch, requestVars, historyVars
  <2>2. status' \in [Deliveries -> Statuses]
    BY <1>3, CommitDispatchStep DEF IInv, DeliveryInv, TypeOK
  <2>3. \A d \in Deliveries :
           status'[d] # status[d] => /\ status[d] # "none"
                                     /\ status'[d] \in {"delivered", "failed"}
                                     /\ status'[d] = "delivered" => d \in accepted
    BY <1>3, Written
  <2>4. Outbox!Record
    BY <2>1, <2>2, <2>3 DEF Deliveries, Outbox!Record
  <2>5. QED
    BY <2>4 DEF Outbox!Next
<1>4. QED
  BY <1>1, <1>2, <1>3 DEF Dispatch

LEMMA InitSimulated == Init => Outbox!Init
BY DEF Init, Deliveries, Outbox!Init

LEMMA StepSimulated == IInv /\ [Next]_vars => [Outbox!Next]_(Outbox!absVars)
<1> SUFFICES ASSUME IInv, [Next]_vars PROVE [Outbox!Next]_(Outbox!absVars)
  OBVIOUS
<1>1. ASSUME NEW s \in Subs, Subscribe(s) \/ Unsubscribe(s)
      PROVE  [Outbox!Next]_(Outbox!absVars)
  BY <1>1 DEF Subscribe, Unsubscribe, Deliveries, requestVars, rowVars, historyVars,
              Outbox!Next, Outbox!Subscribe, Outbox!Unsubscribe
<1>2. ASSUME NEW d \in Deliveries, Elapse(d)
      PROVE  [Outbox!Next]_(Outbox!absVars)
  BY <1>2 DEF Elapse, requestVars, historyVars
<1>3. CASE UNCHANGED vars
  BY <1>3 DEF vars, requestVars, rowVars, historyVars
<1>4. QED
  BY <1>1, <1>2, <1>3, RequestSimulated, DispatcherSimulated DEF Next

\* The outbox of the code is an outbox: every behaviour of requests, deletions
\* and overlapping dispatches is one of EventOutbox.
THEOREM ImplementsOutbox == Spec => KeepsOutbox
BY Invariant, InitSimulated, StepSimulated, PTL DEF Spec, KeepsOutbox, Outbox!Spec

-----------------------------------------------------------------------------
(* What the promise means for one delivery.                                *)

LEMMA OutboxSettles ==
    ASSUME IInv, [Outbox!Next]_(Outbox!absVars)
    PROVE  \A d \in Deliveries : status[d] \in Settled => status'[d] # "pending"
<1>1. \A d \in Deliveries : status[d] # "none" => d[2] \in outbox
  BY DEF IInv, DeliveryInv, NoOrphans
<1>2. QED
  BY <1>1 DEF Deliveries, Outbox!Next, Outbox!Subscribe, Outbox!Unsubscribe, Outbox!Change,
              Outbox!Publish, Outbox!Accept, Outbox!Record

\* A settled delivery is never pending again, even when a dispatcher that read
\* it before it was settled writes its own outcome afterwards.
THEOREM SettledStays == Spec => SettledForGood
<1>1. IInv /\ [Next]_vars => [\A d \in Deliveries : status[d] \in Settled => status'[d] # "pending"]_vars
  BY StepSimulated, OutboxSettles
<1>2. QED
  BY <1>1, Invariant, PTL DEF Spec, SettledForGood

-----------------------------------------------------------------------------
(* Posts.  A delivery that no two dispatchers ever had in hand together is *)
(* posted once per attempt that its row counts, except for the last post,  *)
(* which may not be recorded yet or not be counted (it was accepted), and  *)
(* for those that a rollback took back.                                    *)

Unrecorded(w, d) == IF outcome[w][d] \in {"ok", "error"} THEN 1 ELSE 0

\* The dispatcher that has it is the only one, and has read its row as it is.
AloneInHand(w, d) ==
    /\ \A v \in Dispatchers \ {w} : d \notin batch[v]
    /\ seen[w][d] = attempts[d]
    /\ step[w] = "load" => outcome[w][d] = "none"
    /\ posts[d] <= attempts[d] + aborted + Unrecorded(w, d)

Alone(d) == d \notin overlapped =>
    /\ posts[d] <= ScheduleLength + aborted
    /\ \A w \in Dispatchers : d \in batch[w] => AloneInHand(w, d)
    /\ status[d] = "pending" /\ (\A w \in Dispatchers : d \notin batch[w]) =>
          posts[d] <= attempts[d] + aborted

AloneInv == \A d \in Deliveries : Alone(d)

LEMMA InitAlone == Init => AloneInv
BY WebhookAssumption DEF Init, AloneInv, Alone

\* The numbers that a delivery is about.
LEMMA AloneTypes ==
    ASSUME IInv, NEW d \in Deliveries
    PROVE  /\ posts[d] \in Nat /\ aborted \in Nat /\ ScheduleLength \in Nat
           /\ attempts[d] \in Nat /\ attempts[d] <= ScheduleLength
           /\ \A w \in Dispatchers : d \in batch[w] => seen[w][d] < ScheduleLength
           /\ \A w \in Dispatchers : outcome[w][d] # "none" => d \in batch[w]
           /\ \A w \in Dispatchers : d \in batch[w] => step[w] # "idle"
BY WebhookAssumption DEF IInv, DeliveryInv, TypeOK, DispatchersInv, InHand

\* Requests, deletions and time leave the dispatchers' business alone.
LEMMA AloneKept ==
    ASSUME AloneInv, UNCHANGED <<attempts, dispatcherVars, historyVars>>,
           \A d \in Deliveries : status'[d] = "pending" => status[d] = "pending" \/ posts[d] = 0,
           IInv
    PROVE  AloneInv'
<1> SUFFICES ASSUME NEW d \in Deliveries PROVE Alone(d)'
  BY DEF AloneInv
<1>1. Alone(d)
  BY DEF AloneInv
<1>2. \A w \in Dispatchers : AloneInHand(w, d)' <=> AloneInHand(w, d)
  BY DEF AloneInHand, Unrecorded, dispatcherVars, historyVars
<1>3. QED
  BY <1>1, <1>2, AloneTypes DEF Alone, dispatcherVars, historyVars

\* What a dispatcher selects it has read as it is, with nothing unrecorded.
LEMMA SelectAlone ==
    ASSUME IInv, AloneInv, NEW w \in Dispatchers, Select(w)
    PROVE  AloneInv'
<1>1. PICK b \in SUBSET Due :
         /\ batch' = [batch EXCEPT ![w] = b]
         /\ overlapped' = overlapped \cup (b \cap UNION {batch[v] : v \in Dispatchers \ {w}})
  BY DEF Select
<1>2. /\ UNCHANGED <<status, attempts, outcome, posts, aborted>>
      /\ step[w] = "idle" /\ step' = [step EXCEPT ![w] = "load"]
      /\ seen' = [seen EXCEPT ![w] = [d \in Deliveries |-> IF d \in b THEN attempts[d] ELSE 0]]
  BY <1>1 DEF Select, rowVars, IInv, DeliveryInv, TypeOK
<1>3. \A v \in Dispatchers \ {w} : batch'[v] = batch[v] /\ seen'[v] = seen[v] /\ step'[v] = step[v]
  BY <1>1, <1>2 DEF IInv, DeliveryInv, TypeOK
<1> SUFFICES ASSUME NEW d \in Deliveries, d \notin overlapped' PROVE Alone(d)'
  BY DEF AloneInv, Alone
<1>4. /\ d \notin overlapped /\ Alone(d)
      /\ d \in b => \A v \in Dispatchers \ {w} : d \notin batch[v]
  BY <1>1 DEF AloneInv
<1>5. d \notin batch[w] /\ outcome[w][d] = "none"
  BY <1>2, AloneTypes
<1>6. batch'[w] = b /\ step'[w] = "load" /\ seen'[w][d] = IF d \in b THEN attempts[d] ELSE 0
  BY <1>1, <1>2 DEF IInv, DeliveryInv, TypeOK
<1>7. CASE d \in b
  <2>1. posts[d] <= attempts[d] + aborted
    BY <1>4, <1>5, <1>7 DEF Due, Alone
  <2>2. AloneInHand(w, d)'
    <3>1. \A v \in Dispatchers \ {w} : d \notin batch'[v]
      BY <1>3, <1>4, <1>7
    <3>2. posts'[d] <= attempts'[d] + aborted' + Unrecorded(w, d)'
      BY <1>2, <1>5, <2>1, AloneTypes DEF Unrecorded
    <3>3. QED
      BY <1>2, <1>5, <1>6, <1>7, <3>1, <3>2 DEF AloneInHand
  <2>3. \A v \in Dispatchers : d \in batch'[v] => v = w
    BY <1>3, <1>4, <1>7
  <2>4. QED
    BY <1>2, <1>4, <1>6, <1>7, <2>2, <2>3 DEF Alone
<1>8. CASE d \notin b
  <2>1. \A v \in Dispatchers : d \in batch'[v] <=> d \in batch[v]
    BY <1>3, <1>5, <1>6, <1>8
  <2>2. ASSUME NEW v \in Dispatchers, d \in batch'[v] PROVE AloneInHand(v, d)'
    <3>1. v # w /\ AloneInHand(v, d)
      BY <1>4, <1>5, <2>1, <2>2 DEF Alone
    <3>2. QED
      BY <1>2, <1>3, <2>1, <3>1 DEF AloneInHand, Unrecorded
  <2>3. QED
    BY <1>2, <1>4, <2>1, <2>2 DEF Alone
<1>9. QED
  BY <1>7, <1>8

\* A dispatcher's step that releases nothing and writes no row.
LEMMA HeldAlone ==
    ASSUME IInv, AloneInv, NEW w \in Dispatchers,
           UNCHANGED <<status, attempts, batch, seen, overlapped, aborted>>,
           \A v \in Dispatchers \ {w} : outcome'[v] = outcome[v] /\ step'[v] = step[v],
           \A d \in Deliveries :
              d \in batch[w] /\ d \notin overlapped /\ AloneInHand(w, d) =>
                 /\ step'[w] = "load" => outcome'[w][d] = "none"
                 /\ posts'[d] <= attempts[d] + aborted + Unrecorded(w, d)',
           \A d \in Deliveries : posts'[d] \in Nat /\ (d \notin batch[w] => posts'[d] = posts[d])
    PROVE  AloneInv'
<1> SUFFICES ASSUME NEW d \in Deliveries, d \notin overlapped PROVE Alone(d)'
  BY DEF AloneInv, Alone
<1>1. Alone(d)
  BY DEF AloneInv
<1>2. CASE d \in batch[w]
  <2>1. AloneInHand(w, d)
    BY <1>1, <1>2 DEF Alone
  <2>2. AloneInHand(w, d)'
    BY <1>2, <2>1 DEF AloneInHand
  <2>3. \A v \in Dispatchers : d \in batch'[v] => v = w
    BY <2>1 DEF AloneInHand
  <2>4. attempts[d] < ScheduleLength /\ Unrecorded(w, d)' \in {0, 1}
    BY <1>2, <2>1, AloneTypes DEF AloneInHand, Unrecorded
  <2>5. QED
    BY <1>2, <2>1, <2>2, <2>3, <2>4, AloneTypes DEF Alone, AloneInHand
<1>3. CASE d \notin batch[w]
  <2>1. ASSUME NEW v \in Dispatchers, d \in batch[v] PROVE AloneInHand(v, d)'
    <3>1. v # w /\ AloneInHand(v, d)
      BY <1>1, <1>3, <2>1 DEF Alone
    <3>2. QED
      BY <1>3, <3>1 DEF AloneInHand, Unrecorded
  <2>2. QED
    BY <1>1, <1>3, <2>1 DEF Alone
<1>4. QED
  BY <1>2, <1>3

\* A dispatch that ends leaves the other dispatchers what they have.
LEMMA EndAlone ==
    ASSUME IInv, AloneInv, NEW w \in Dispatchers, End(w),
           UNCHANGED <<posts, overlapped>>, aborted' \in {aborted, aborted + 1},
           \A d \in Deliveries : d \notin batch[w] => status'[d] = status[d] /\ attempts'[d] = attempts[d],
           \A d \in Deliveries :
              d \in batch[w] /\ d \notin overlapped /\ AloneInHand(w, d) /\ status'[d] = "pending" =>
                 posts[d] <= attempts'[d] + aborted'
    PROVE  AloneInv'
<1>1. /\ batch'[w] = {} /\ \A v \in Dispatchers \ {w} :
            batch'[v] = batch[v] /\ seen'[v] = seen[v] /\ step'[v] = step[v] /\ outcome'[v] = outcome[v]
  BY DEF End, IInv, DeliveryInv, TypeOK
<1> SUFFICES ASSUME NEW d \in Deliveries, d \notin overlapped PROVE Alone(d)'
  BY DEF AloneInv, Alone
<1>2. Alone(d)
  BY DEF AloneInv
<1>3. posts'[d] <= ScheduleLength + aborted'
  BY <1>2, AloneTypes DEF Alone
<1>4. CASE d \in batch[w]
  <2>1. AloneInHand(w, d)
    BY <1>2, <1>4 DEF Alone
  <2>2. \A v \in Dispatchers : d \notin batch'[v]
    BY <1>1, <2>1 DEF AloneInHand
  <2>3. QED
    BY <1>3, <1>4, <2>1, <2>2 DEF Alone
<1>5. CASE d \notin batch[w]
  <2>1. ASSUME NEW v \in Dispatchers, d \in batch'[v] PROVE AloneInHand(v, d)'
    <3>1. v # w /\ d \in batch[v] /\ AloneInHand(v, d)
      BY <1>1, <1>2, <2>1 DEF Alone
    <3>2. \A u \in Dispatchers \ {v} : d \notin batch'[u]
      BY <1>1, <3>1 DEF AloneInHand
    <3>3. posts'[d] <= attempts'[d] + aborted' + Unrecorded(v, d)'
      BY <1>1, <1>5, <3>1, AloneTypes DEF AloneInHand, Unrecorded
    <3>4. QED
      BY <1>1, <1>5, <3>1, <3>2, <3>3 DEF AloneInHand
  <2>2. (\A v \in Dispatchers : d \notin batch'[v]) => \A v \in Dispatchers : d \notin batch[v]
    BY <1>1, <1>5
  <2>3. QED
    BY <1>2, <1>3, <1>5, <2>1, <2>2, AloneTypes DEF Alone
<1>6. QED
  BY <1>4, <1>5

\* One post more, unrecorded.
LEMMA PostAlone ==
    ASSUME IInv, AloneInv, NEW w \in Dispatchers, NEW c \in Deliveries, Post(w, c)
    PROVE  AloneInv'
<1>1. PICK o \in {"ok", "error"} : outcome' = [outcome EXCEPT ![w][c] = o]
  BY DEF Post
<1>2. /\ UNCHANGED <<status, attempts, step, batch, seen, overlapped, aborted>>
      /\ posts' = [posts EXCEPT ![c] = @ + 1]
      /\ c \in batch[w] /\ step[w] = "post" /\ outcome[w][c] = "none"
  BY DEF Post, rowVars
<1>3. /\ \A v \in Dispatchers \ {w} : outcome'[v] = outcome[v]
      /\ \A d \in Deliveries : outcome'[w][d] = IF d = c THEN o ELSE outcome[w][d]
  BY <1>1 DEF IInv, DeliveryInv, TypeOK
<1>4. \A d \in Deliveries : /\ posts'[d] = IF d = c THEN posts[d] + 1 ELSE posts[d]
                            /\ posts[d] \in Nat /\ posts'[d] \in Nat
  BY <1>2 DEF IInv, DeliveryInv, TypeOK
<1>5. ASSUME NEW d \in Deliveries, d \in batch[w], AloneInHand(w, d)
      PROVE  posts'[d] <= attempts[d] + aborted + Unrecorded(w, d)'
  <2>1. posts[d] <= attempts[d] + aborted + Unrecorded(w, d)
    BY <1>5 DEF AloneInHand
  <2>2. CASE d = c
    BY <1>2, <1>3, <1>4, <2>1, <2>2, AloneTypes DEF Unrecorded
  <2>3. CASE d # c
    BY <1>3, <1>4, <2>1, <2>3 DEF Unrecorded
  <2>4. QED
    BY <2>2, <2>3
<1>6. QED
  BY <1>2, <1>3, <1>4, <1>5, HeldAlone

\* Reading the subscriptions changes no outcome of a post: there is none yet.
LEMMA LoadSubsAlone ==
    ASSUME IInv, AloneInv, NEW w \in Dispatchers, LoadSubs(w)
    PROVE  AloneInv'
<1>1. /\ UNCHANGED <<status, attempts, batch, seen, posts, overlapped, aborted>>
      /\ step[w] = "load" /\ step'[w] = "post"
      /\ \A v \in Dispatchers \ {w} : outcome'[v] = outcome[v] /\ step'[v] = step[v]
      /\ \A d \in Deliveries : outcome'[w][d] \in {"missing", "none"}
  BY DEF LoadSubs, rowVars, historyVars, IInv, DeliveryInv, TypeOK
<1>2. ASSUME NEW d \in Deliveries, d \in batch[w], AloneInHand(w, d)
      PROVE  posts'[d] <= attempts[d] + aborted + Unrecorded(w, d)'
  <2>1. Unrecorded(w, d)' = 0
    <3>1. outcome'[w][d] \in {"missing", "none"}
      BY <1>1
    <3>2. QED
      BY <3>1 DEF Unrecorded
  <2>2. Unrecorded(w, d) = 0
    BY <1>1, <1>2 DEF AloneInHand, Unrecorded
  <2>3. QED
    BY <1>1, <1>2, <2>1, <2>2 DEF AloneInHand
<1>3. \A d \in Deliveries : posts'[d] \in Nat /\ posts'[d] = posts[d]
  BY <1>1, AloneTypes
<1>4. QED
  BY <1>1, <1>2, <1>3, HeldAlone

\* A dispatch that is rolled back takes one post with it at most.
LEMMA GiveUpAlone ==
    ASSUME IInv, AloneInv, NEW w \in Dispatchers, GiveUp(w), aborted' = aborted + 1
    PROVE  AloneInv'
<1>1. End(w) /\ UNCHANGED <<status, attempts, posts, overlapped>>
  BY DEF GiveUp, rowVars
<1>2. ASSUME NEW d \in Deliveries, AloneInHand(w, d)
      PROVE  posts[d] <= attempts'[d] + aborted'
  <2>1. Unrecorded(w, d) \in {0, 1} /\ posts[d] <= attempts[d] + aborted + Unrecorded(w, d)
    BY <1>2 DEF AloneInHand, Unrecorded
  <2>2. QED
    BY <1>1, <2>1, AloneTypes
<1>3. QED
  BY <1>1, <1>2, EndAlone

LEMMA FlushAlone ==
    ASSUME IInv, AloneInv, NEW w \in Dispatchers, Flush(w)
    PROVE  AloneInv'
<1>1. CASE step' = [step EXCEPT ![w] = "commit"]
           /\ UNCHANGED <<sub, requestVars, rowVars, batch, seen, outcome, historyVars>>
  <2>1. /\ UNCHANGED <<status, attempts, batch, seen, outcome, posts, overlapped, aborted>>
        /\ step'[w] = "commit" /\ \A v \in Dispatchers \ {w} : step'[v] = step[v]
    BY <1>1 DEF rowVars, historyVars, IInv, DeliveryInv, TypeOK
  <2>2. \A d \in Deliveries : Unrecorded(w, d)' = Unrecorded(w, d)
    BY <2>1 DEF Unrecorded
  <2>3. \A d \in Deliveries : posts'[d] \in Nat /\ posts'[d] = posts[d]
    BY <2>1, AloneTypes
  <2>4. QED
    BY <2>1, <2>2, <2>3, HeldAlone DEF AloneInHand
<1>2. CASE GiveUp(w) /\ aborted' = aborted + 1
  BY <1>2, GiveUpAlone
<1>3. QED
  BY <1>1, <1>2 DEF Flush

\* A commit counts the post, or settles the delivery.
LEMMA CommitDispatchAlone ==
    ASSUME IInv, AloneInv, NEW w \in Dispatchers, CommitDispatch(w)
    PROVE  AloneInv'
<1>1. End(w) /\ UNCHANGED <<posts, overlapped, aborted>>
  BY DEF CommitDispatch, historyVars
<1>2. ASSUME NEW d \in Deliveries
      PROVE  /\ status'[d] = IF d \in batch[w] /\ status[d] # "none" THEN NewStatus(w, d) ELSE status[d]
             /\ attempts'[d] = IF d \in batch[w] /\ status[d] # "none" /\ outcome[w][d] = "error"
                               THEN seen[w][d] + 1 ELSE attempts[d]
  BY DEF CommitDispatch
<1>3. ASSUME NEW d \in Deliveries, d \in batch[w], AloneInHand(w, d), status'[d] = "pending"
      PROVE  posts[d] <= attempts'[d] + aborted'
  <2>1. status[d] # "none" /\ NewStatus(w, d) = "pending"
    BY <1>2, <1>3
  <2>2. outcome[w][d] # "ok"
    BY <2>1 DEF NewStatus
  <2>3. CASE outcome[w][d] = "error"
    <3>1. attempts'[d] = attempts[d] + 1 /\ posts[d] <= attempts[d] + aborted + 1
      BY <1>2, <1>3, <2>1, <2>3 DEF AloneInHand, Unrecorded
    <3>2. QED
      BY <1>1, <3>1, AloneTypes
  <2>4. CASE outcome[w][d] # "error"
    <3>1. attempts'[d] = attempts[d] /\ posts[d] <= attempts[d] + aborted + 0
      BY <1>2, <1>3, <2>2, <2>4 DEF AloneInHand, Unrecorded
    <3>2. QED
      BY <1>1, <3>1, AloneTypes
  <2>5. QED
    BY <2>3, <2>4
<1>4. QED
  BY <1>1, <1>2, <1>3, EndAlone

LEMMA NextAlone == IInv /\ AloneInv /\ [Next]_vars => AloneInv'
<1> SUFFICES ASSUME IInv, AloneInv, [Next]_vars PROVE AloneInv'
  OBVIOUS
<1>1. CASE UNCHANGED vars
  BY <1>1, AloneKept DEF vars, rowVars
<1>2. ASSUME NEW s \in Subs, Subscribe(s) \/ Unsubscribe(s) PROVE AloneInv'
  <2>1. UNCHANGED <<attempts, dispatcherVars, historyVars>>
    BY <1>2 DEF Subscribe, Unsubscribe, rowVars
  <2>2. \A d \in Deliveries : status'[d] = "pending" => status[d] = "pending"
    BY <1>2 DEF Subscribe, Unsubscribe, rowVars
  <2>3. QED
    BY <2>1, <2>2, AloneKept
<1>3. ASSUME NEW e \in Events, Work(e) \/ ReadSubs(e) \/ InsertDeliveries(e) \/ CrashRequest(e)
      PROVE  AloneInv'
  BY <1>3, AloneKept DEF Work, ReadSubs, InsertDeliveries, CrashRequest, rowVars
<1>4. ASSUME NEW e \in Events, CommitEvent(e) PROVE AloneInv'
  <2>1. UNCHANGED <<attempts, dispatcherVars, historyVars>> /\ e \notin outbox
    BY <1>4 DEF CommitEvent, IInv, RequestsInv
  <2>2. ASSUME NEW d \in Deliveries, d[2] = e PROVE posts[d] = 0
    BY <2>1, <2>2 DEF IInv, DeliveryInv, TypeOK, PostsInv
  <2>3. \A d \in Deliveries : status'[d] = "pending" => status[d] = "pending" \/ posts[d] = 0
    BY <1>4, <2>2 DEF CommitEvent
  <2>4. QED
    BY <2>1, <2>3, AloneKept
<1>5. ASSUME NEW d \in Deliveries, Elapse(d) PROVE AloneInv'
  BY <1>5, AloneKept DEF Elapse
<1>6. ASSUME NEW w \in Dispatchers, Select(w) \/ Dispatch(w) \/ AbortDispatch(w) PROVE AloneInv'
  BY <1>6, SelectAlone, LoadSubsAlone, PostAlone, FlushAlone, CommitDispatchAlone, GiveUpAlone
     DEF Dispatch, AbortDispatch
<1>7. QED
  BY <1>1, <1>2, <1>3, <1>4, <1>5, <1>6 DEF Next

\* A delivery that dispatchers never have in hand together is posted at most
\* once per entry of the schedule and once per dispatch that was rolled back,
\* whatever becomes of its subscription meanwhile.
THEOREM PostsAreBounded == Spec => []PostsBounded
<1>1. AloneInv => PostsBounded
  BY DEF AloneInv, Alone, PostsBounded
<1>2. QED
  BY <1>1, InitAlone, NextAlone, Invariant, PTL DEF Spec

=============================================================================
