---------------------------- MODULE WebhookOutbox ---------------------------
(***************************************************************************)
(* Webhook events, their deliveries, and the tasks that dispatch them      *)
(* (backend/app/services/webhook_service.py, tasks/webhooks.py).           *)
(*                                                                         *)
(* A request emits an event with one pending delivery per subscription.    *)
(* The scheduler starts dispatch_webhooks_task every 30 seconds, and one   *)
(* batch may take 50 posts of up to 10 seconds, so dispatchers overlap:    *)
(* they read the due deliveries without locking them, post, and write the  *)
(* outcome at the end of one transaction.  An UPDATE of the ORM writes the *)
(* columns that were assigned and leaves the others alone.  READ COMMITTED *)
(* throughout.                                                             *)
(***************************************************************************)
EXTENDS Naturals, FiniteSets

CONSTANTS
    Subs,             \* subscriptions
    Events,           \* events, one per request that emits one
    Audited,          \* events emitted by log_event, in the request's own transaction
    Interested,       \* pairs of a subscription and an event type it asked for
    Dispatchers,      \* runs of dispatch_webhooks_task that may overlap
    ScheduleLength,   \* entries of DEFAULT_RETRY_SCHEDULE_SECONDS
    Limit,            \* deliveries one dispatch takes
    MaxAborts         \* dispatches that are rolled back by a failure (bounds the model)

ASSUME WebhookAssumption ==
    /\ Audited \subseteq Events
    /\ Interested \subseteq Subs \X Events
    /\ ScheduleLength \in Nat \ {0}
    /\ Limit \in Nat \ {0}
    /\ MaxAborts \in Nat
    /\ IsFiniteSet(Subs) /\ IsFiniteSet(Events)

Deliveries == Subs \X Events

Statuses == {"none", "pending", "delivered", "failed"}
Settled == {"delivered", "failed"}
Outcomes == {"none", "ok", "error", "missing"}

VARIABLES
    sub,         \* each subscription: "none", "active" or "deleted"
    change,      \* events whose request has committed the change it is about
    outbox,      \* events whose row is committed
    req,         \* what each emitting request does next
    found,       \* the subscriptions it has read
    \* webhook_deliveries
    status, attempts,
    due,         \* deliveries whose next_attempt_at has passed
    \* dispatchers
    step,        \* what each does next
    batch,       \* the deliveries it has read
    seen,        \* the attempts it has read
    outcome,     \* what came of each
    \* history
    posts,       \* times each delivery was posted
    accepted,    \* deliveries that the receiver has accepted at least once
    overlapped,  \* deliveries that two dispatchers had in hand at once
    aborted      \* dispatches rolled back

requestVars == <<change, outbox, req, found>>
rowVars == <<status, attempts, due>>
dispatcherVars == <<step, batch, seen, outcome>>
historyVars == <<posts, accepted, overlapped, aborted>>
vars == <<sub, requestVars, rowVars, dispatcherVars, historyVars>>

NothingSeen == [d \in Deliveries |-> 0]
NoOutcome == [d \in Deliveries |-> "none"]

Init ==
    /\ sub = [s \in Subs |-> "none"]
    /\ change = {}
    /\ outbox = {}
    /\ req = [e \in Events |-> "idle"]
    /\ found = [e \in Events |-> {}]
    /\ status = [d \in Deliveries |-> "none"]
    /\ attempts = [d \in Deliveries |-> 0]
    /\ due = {}
    /\ step = [w \in Dispatchers |-> "idle"]
    /\ batch = [w \in Dispatchers |-> {}]
    /\ seen = [w \in Dispatchers |-> NothingSeen]
    /\ outcome = [w \in Dispatchers |-> NoOutcome]
    /\ posts = [d \in Deliveries |-> 0]
    /\ accepted = {}
    /\ overlapped = {}
    /\ aborted = 0

-----------------------------------------------------------------------------
(* Subscriptions.                                                          *)

\* create_webhook.
Subscribe(s) ==
    /\ sub[s] = "none"
    /\ sub' = [sub EXCEPT ![s] = "active"]
    /\ UNCHANGED <<requestVars, rowVars, dispatcherVars, historyVars>>

\* Deliveries whose rows an open transaction has updated, and subscriptions
\* that the foreign key of an uncommitted delivery refers to.
RowsLocked == {d \in UNION {batch[w] : w \in {v \in Dispatchers : step[v] = "commit"}} :
                  status[d] # "none"}
SubsReferred == UNION {found[e] : e \in {f \in Events : req[f] = "commit"}}

\* delete_webhook: the deliveries go with the subscription (ON DELETE CASCADE).
\* It waits for the rows that others have locked.
Unsubscribe(s) ==
    /\ sub[s] = "active"
    /\ s \notin SubsReferred
    /\ \A e \in Events : <<s, e>> \notin RowsLocked
    /\ sub' = [sub EXCEPT ![s] = "deleted"]
    /\ status' = [d \in Deliveries |-> IF d[1] = s THEN "none" ELSE status[d]]
    /\ due' = {d \in due : d[1] # s}
    /\ UNCHANGED <<attempts, requestVars, dispatcherVars, historyVars>>

-----------------------------------------------------------------------------
(* Requests that emit an event.                                            *)

\* The request's own work: log_event is called inside its transaction, while
\* the memory endpoints commit the memory first and emit afterwards.
Work(e) ==
    /\ req[e] = "idle"
    /\ req' = [req EXCEPT ![e] = "read"]
    /\ change' = IF e \in Audited THEN change ELSE change \cup {e}
    /\ UNCHANGED <<sub, outbox, found, rowVars, dispatcherVars, historyVars>>

\* emit_event: the active subscriptions of the tenant that want this type.
ReadSubs(e) ==
    /\ req[e] = "read"
    /\ found' = [found EXCEPT ![e] = {s \in Subs : sub[s] = "active" /\ <<s, e>> \in Interested}]
    /\ req' = [req EXCEPT ![e] = "insert"]
    /\ UNCHANGED <<sub, change, outbox, rowVars, dispatcherVars, historyVars>>

\* emit_event: the deliveries are flushed.  A subscription that was deleted in
\* the meantime violates the foreign key, and a failed flush rolls the whole
\* transaction back, whoever catches the exception.
InsertDeliveries(e) ==
    /\ req[e] = "insert"
    /\ req' = [req EXCEPT ![e] = IF \A s \in found[e] : sub[s] = "active"
                                 THEN "commit" ELSE "refused"]
    /\ UNCHANGED <<sub, change, outbox, found, rowVars, dispatcherVars, historyVars>>

\* The request commits.
CommitEvent(e) ==
    LET new == {d \in Deliveries : d[2] = e /\ d[1] \in found[e]} IN
    /\ req[e] = "commit"
    /\ req' = [req EXCEPT ![e] = "done"]
    /\ change' = change \cup {e}
    /\ outbox' = outbox \cup {e}
    /\ status' = [d \in Deliveries |-> IF d \in new THEN "pending" ELSE status[d]]
    /\ due' = due \cup new
    /\ UNCHANGED <<sub, found, attempts, dispatcherVars, historyVars>>

\* The server dies, or the request fails for a reason of its own.
CrashRequest(e) ==
    /\ req[e] \in {"read", "insert", "commit"}
    /\ req' = [req EXCEPT ![e] = "crashed"]
    /\ UNCHANGED <<sub, change, outbox, found, rowVars, dispatcherVars, historyVars>>

-----------------------------------------------------------------------------
(* Dispatchers.                                                            *)

\* Time passes: a delivery that was put off is due.
Elapse(d) ==
    /\ status[d] = "pending"
    /\ d \notin due
    /\ due' = due \cup {d}
    /\ UNCHANGED <<sub, requestVars, status, attempts, dispatcherVars, historyVars>>

\* Mutants of Due: settled deliveries are read again, and those that were
\* tried before are not.
DueFresh == {d \in due : status[d] = "pending" /\ attempts[d] = 0}
DueSettled == {d \in due : status[d] # "none"}

Due == {d \in due : status[d] = "pending"}

\* dispatch_due_deliveries, first statement: a plain SELECT of due deliveries.
Select(w) ==
    /\ step[w] = "idle"
    /\ \E b \in SUBSET Due :
          /\ Cardinality(b) = IF Cardinality(Due) < Limit THEN Cardinality(Due) ELSE Limit
          /\ b # {}
          /\ batch' = [batch EXCEPT ![w] = b]
          /\ overlapped' = overlapped \cup (b \cap UNION {batch[v] : v \in Dispatchers \ {w}})
    /\ seen' = [seen EXCEPT ![w] = [d \in Deliveries |-> IF d \in batch'[w] THEN attempts[d] ELSE 0]]
    /\ step' = [step EXCEPT ![w] = "load"]
    /\ UNCHANGED <<sub, requestVars, rowVars, outcome, posts, accepted, aborted>>

\* The subscriptions of the batch are read; those deleted since are missing.
LoadSubs(w) ==
    /\ step[w] = "load"
    /\ outcome' = [outcome EXCEPT ![w] =
                     [d \in Deliveries |-> IF d \in batch[w] /\ sub[d[1]] # "active"
                                           THEN "missing" ELSE "none"]]
    /\ step' = [step EXCEPT ![w] = "post"]
    /\ UNCHANGED <<sub, requestVars, rowVars, batch, seen, historyVars>>

\* One post, and what is remembered of it: accepted; accepted, but the answer
\* is late or lost; refused.
Post(w, d) ==
    /\ step[w] = "post"
    /\ d \in batch[w]
    /\ outcome[w][d] = "none"
    /\ posts' = [posts EXCEPT ![d] = @ + 1]
    /\ \E ok, reply \in BOOLEAN :
          /\ accepted' = IF ok THEN accepted \cup {d} ELSE accepted
          /\ outcome' = [outcome EXCEPT ![w][d] = IF ok /\ reply THEN "ok" ELSE "error"]
    /\ UNCHANGED <<sub, requestVars, rowVars, step, batch, seen, overlapped, aborted>>

\* The task ends, and what it had in hand is forgotten.
End(w) ==
    /\ step' = [step EXCEPT ![w] = "idle"]
    /\ batch' = [batch EXCEPT ![w] = {}]
    /\ seen' = [seen EXCEPT ![w] = NothingSeen]
    /\ outcome' = [outcome EXCEPT ![w] = NoOutcome]

GiveUp(w) ==
    /\ End(w)
    /\ UNCHANGED <<sub, requestVars, rowVars, posts, accepted, overlapped>>

\* flush: the UPDATEs wait for the rows other dispatchers have updated.  A row
\* that is gone raises StaleDataError, which rolls the batch back, unless it is
\* updated by one statement with other rows, whose count asyncpg cannot tell.
Flush(w) ==
    LET gone == {d \in batch[w] : status[d] = "none"} IN
    /\ step[w] = "post"
    /\ \A d \in batch[w] : outcome[w][d] # "none"
    /\ batch[w] \cap RowsLocked = {}
    /\ \/ /\ gone # {} => Cardinality(batch[w]) > 1
          /\ step' = [step EXCEPT ![w] = "commit"]
          /\ UNCHANGED <<sub, requestVars, rowVars, batch, seen, outcome, historyVars>>
       \/ /\ gone # {}
          /\ GiveUp(w)
          /\ aborted' = aborted + 1

\* Mutants of NewStatus: the whole row is written back; an attempt too few.
NewStatusWholeRow(w, d) ==
    CASE outcome[w][d] = "ok" -> "delivered"
      [] outcome[w][d] = "missing" -> "failed"
      [] outcome[w][d] = "error" /\ seen[w][d] + 1 >= ScheduleLength -> "failed"
      [] OTHER -> "pending"
NewStatusEarly(w, d) ==
    CASE outcome[w][d] = "ok" -> "delivered"
      [] outcome[w][d] = "missing" -> "failed"
      [] outcome[w][d] = "error" /\ seen[w][d] + 2 >= ScheduleLength -> "failed"
      [] OTHER -> status[d]

\* The status column after a dispatch: _schedule_retry assigns it only when
\* the schedule is used up.
NewStatus(w, d) ==
    CASE outcome[w][d] = "ok" -> "delivered"
      [] outcome[w][d] = "missing" -> "failed"
      [] outcome[w][d] = "error" /\ seen[w][d] + 1 >= ScheduleLength -> "failed"
      [] OTHER -> status[d]

\* The task's transaction commits.
CommitDispatch(w) ==
    LET kept == {d \in batch[w] : status[d] # "none"}
        put == {d \in kept : outcome[w][d] = "error"}
    IN
    /\ step[w] = "commit"
    /\ status' = [d \in Deliveries |-> IF d \in kept THEN NewStatus(w, d) ELSE status[d]]
    /\ attempts' = [d \in Deliveries |-> IF d \in put THEN seen[w][d] + 1 ELSE attempts[d]]
    /\ due' = due \ put
    /\ End(w)
    /\ UNCHANGED <<sub, requestVars, historyVars>>

\* The worker dies, a secret cannot be decrypted, the database fails: the
\* posts are out and nothing is recorded.
AbortDispatch(w) ==
    /\ step[w] # "idle"
    /\ aborted < MaxAborts
    /\ GiveUp(w)
    /\ aborted' = aborted + 1

Dispatch(w) ==
    \/ LoadSubs(w)
    \/ \E d \in Deliveries : Post(w, d)
    \/ Flush(w)
    \/ CommitDispatch(w)

Next ==
    \/ \E s \in Subs : Subscribe(s) \/ Unsubscribe(s)
    \/ \E e \in Events : Work(e) \/ ReadSubs(e) \/ InsertDeliveries(e)
                         \/ CommitEvent(e) \/ CrashRequest(e)
    \/ \E d \in Deliveries : Elapse(d)
    \/ \E w \in Dispatchers : Select(w) \/ Dispatch(w) \/ AbortDispatch(w)

Spec == Init /\ [][Next]_vars

\* The scheduler keeps starting dispatches, time passes, and a dispatch that has
\* begun goes on; a row lock that is released is granted to the one who waits.
FairSpec ==
    /\ Spec
    /\ \A d \in Deliveries : WF_vars(Elapse(d))
    /\ \A w \in Dispatchers : /\ WF_vars(Select(w))
                              /\ SF_vars(Dispatch(w))

-----------------------------------------------------------------------------
(* Properties.                                                             *)

TypeOK ==
    /\ sub \in [Subs -> {"none", "active", "deleted"}]
    /\ change \subseteq Events /\ outbox \subseteq Events
    /\ req \in [Events -> {"idle", "read", "insert", "commit", "done", "refused", "crashed"}]
    /\ found \in [Events -> SUBSET Subs]
    /\ status \in [Deliveries -> Statuses]
    /\ attempts \in [Deliveries -> 0..ScheduleLength]
    /\ due \subseteq Deliveries
    /\ step \in [Dispatchers -> {"idle", "load", "post", "commit"}]
    /\ batch \in [Dispatchers -> SUBSET Deliveries]
    /\ seen \in [Dispatchers -> [Deliveries -> 0..ScheduleLength]]
    /\ outcome \in [Dispatchers -> [Deliveries -> Outcomes]]
    /\ posts \in [Deliveries -> Nat]
    /\ accepted \subseteq Deliveries /\ overlapped \subseteq Deliveries
    /\ aborted \in Nat

\* The deliveries that exist belong to subscriptions that exist: a delivery is
\* neither inserted for one that is being deleted nor left behind by one.
NoOrphans ==
    \A d \in Deliveries : status[d] # "none" => sub[d[1]] = "active" /\ d[2] \in outbox

\* A settled delivery is never pending again, even when a dispatcher that read
\* it before it was settled writes its own outcome afterwards: that one does not
\* write the status column unless it settles the delivery itself.
SettledForGood ==
    [][\A d \in Deliveries : status[d] \in Settled => status'[d] # "pending"]_vars

\* A delivery is given up only when it has been posted as often as the schedule
\* allows, and recorded as delivered only when the receiver accepted it.  The
\* attempts column says no more than what happened, however stale the value it
\* was computed from.
HonestRecord ==
    \A d \in Deliveries :
        /\ status[d] = "failed" => posts[d] >= ScheduleLength
        /\ status[d] = "delivered" => d \in accepted
        /\ attempts[d] <= posts[d]

\* What the rows of a delivery say of it, at every commit.
DeliveryInv ==
    /\ TypeOK
    /\ NoOrphans
    /\ HonestRecord

\* What a receiver must put up with when dispatches do not overlap: one post
\* per entry of the schedule, and one more per dispatch that was rolled back.
PostsBounded ==
    \A d \in Deliveries : d \notin overlapped => posts[d] <= ScheduleLength + aborted

\* The comment in log_event, "Webhook emission must never break request paths":
\* no audited request is refused because of the deliveries of its event.
EmissionNeverBreaks ==
    \A e \in Audited : req[e] # "refused"

\* Every pending delivery is settled, or goes with its subscription: there are
\* finitely many, so again and again none is pending.
EveryDeliverySettles ==
    []<>(\A d \in Deliveries : status[d] # "pending")

-----------------------------------------------------------------------------
(* The abstract promise: what is committed, and what was accepted.         *)

Outbox == INSTANCE EventOutbox

\* Whatever requests, deletions and overlapping dispatches do to one another,
\* events are published atomically and deliveries settled for good, by outcomes
\* that happened.
KeepsOutbox == Outbox!Spec

=============================================================================
