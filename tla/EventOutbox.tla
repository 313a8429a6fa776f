---------------------------- MODULE EventOutbox -----------------------------
(***************************************************************************)
(* What a transactional outbox promises, whoever dispatches it and how     *)
(* often: an event appears together with all its deliveries, and with the  *)
(* change it is about or after it; a delivery is settled by an outcome     *)
(* that happened, and goes with its subscription.  WebhookOutbox is shown  *)
(* to implement this.                                                      *)
(***************************************************************************)
CONSTANTS Subs, Events, Audited

Deliveries == Subs \X Events
Settled == {"delivered", "failed"}

VARIABLES
    sub,        \* each subscription: "none", "active" or "deleted"
    change,     \* events whose change has happened
    outbox,     \* events that have been published
    status,     \* each delivery: "none", "pending", "delivered" or "failed"
    accepted    \* deliveries that their receiver has accepted

absVars == <<sub, change, outbox, status, accepted>>

Init ==
    /\ sub = [s \in Subs |-> "none"]
    /\ change = {} /\ outbox = {} /\ accepted = {}
    /\ status = [d \in Deliveries |-> "none"]

Subscribe(s) ==
    /\ sub[s] = "none"
    /\ sub' = [sub EXCEPT ![s] = "active"]
    /\ UNCHANGED <<change, outbox, status, accepted>>

\* A subscription goes, for good, and all its deliveries with it.
Unsubscribe(s) ==
    /\ sub[s] = "active"
    /\ sub' = [sub EXCEPT ![s] = "deleted"]
    /\ status' = [d \in Deliveries |-> IF d[1] = s THEN "none" ELSE status[d]]
    /\ UNCHANGED <<change, outbox, accepted>>

\* A change whose event may be lost, because it is published afterwards.
Change(e) ==
    /\ e \notin Audited
    /\ change' = change \cup {e}
    /\ UNCHANGED <<sub, outbox, status, accepted>>

\* An event is published, once, to subscriptions that are there: an audited one
\* together with its change, another after it.
Publish(e) ==
    /\ e \notin outbox
    /\ e \in Audited \cup change
    /\ change' = change \cup {e}
    /\ outbox' = outbox \cup {e}
    /\ \E to \in SUBSET {s \in Subs : sub[s] = "active"} :
          status' = [d \in Deliveries |-> IF d[2] = e /\ d[1] \in to THEN "pending" ELSE status[d]]
    /\ UNCHANGED <<sub, accepted>>

\* The receiver accepts what has been published.
Accept(d) ==
    /\ d[2] \in outbox
    /\ accepted' = accepted \cup {d}
    /\ UNCHANGED <<sub, change, outbox, status>>

\* Deliveries are settled, as delivered only those that were accepted.
Record ==
    /\ status' \in [Deliveries -> {"none", "pending"} \cup Settled]
    /\ \A d \in Deliveries :
          status'[d] # status[d] => /\ status[d] # "none"
                                    /\ status'[d] \in Settled
                                    /\ status'[d] = "delivered" => d \in accepted
    /\ UNCHANGED <<sub, change, outbox, accepted>>

Next ==
    \/ \E s \in Subs : Subscribe(s) \/ Unsubscribe(s)
    \/ \E e \in Events : Change(e) \/ Publish(e)
    \/ \E d \in Deliveries : Accept(d)
    \/ Record

Spec == Init /\ [][Next]_absVars

=============================================================================
