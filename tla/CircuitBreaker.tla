--------------------------- MODULE CircuitBreaker ---------------------------
(***************************************************************************)
(* The circuit breaker around the language models                          *)
(* (backend/app/core/circuit_breaker.py).                                  *)
(*                                                                         *)
(* A call tests the state under the lock, awaits the function without it,  *)
(* and records the outcome under the lock again; the bodies of the lock    *)
(* await nothing, so each is one step.  Calls overlap, and the state may   *)
(* have changed any number of times when a call comes back.                *)
(***************************************************************************)
EXTENDS Naturals, FiniteSets

CONSTANTS
    Calls,              \* calls that may be in flight at once
    FailureThreshold,   \* failure_threshold
    SuccessThreshold,   \* success_threshold
    RateNum, RateDen,   \* error_rate_threshold, as a fraction
    MaxTotal            \* outcomes recorded (bounds the model)

ASSUME BreakerAssumption ==
    /\ FailureThreshold \in Nat \ {0}
    /\ SuccessThreshold \in Nat \ {0}
    /\ RateNum \in Nat /\ RateDen \in Nat \ {0}
    /\ MaxTotal \in Nat

States == {"closed", "open", "half_open"}

VARIABLES
    state, failure_count, success_count, total_calls, total_failures,
    rested,      \* recovery_timeout_seconds have passed since last_failure_time
    pc,          \* each call: "idle" or "awaiting" its function
    \* history
    row,         \* failures recorded since the last success or reset
    streak,      \* successes recorded since the last failure, reset or entry of HALF_OPEN
    good         \* successes recorded since the last reset

counters == <<failure_count, success_count, total_calls, total_failures>>
historyVars == <<row, streak, good>>
breakerVars == <<state, counters, rested, pc, historyVars>>

BreakerInit ==
    /\ state = "closed"
    /\ failure_count = 0
    /\ success_count = 0
    /\ total_calls = 0
    /\ total_failures = 0
    /\ rested = TRUE
    /\ pc = [c \in Calls |-> "idle"]
    /\ row = 0
    /\ streak = 0
    /\ good = 0

\* recovery_timeout_seconds pass without a failure.
Elapse ==
    /\ ~rested
    /\ rested' = TRUE
    /\ UNCHANGED <<state, counters, pc, historyVars>>

-----------------------------------------------------------------------------
(* call, up to the await.                                                  *)

Admit(c) == pc' = [pc EXCEPT ![c] = "awaiting"]

\* A call is admitted while the breaker is CLOSED or HALF_OPEN, however many are
\* in flight.
Begin(c) ==
    /\ pc[c] = "idle"
    /\ state # "open"
    /\ total_calls < MaxTotal
    /\ Admit(c)
    /\ UNCHANGED <<state, counters, rested, row, streak, good>>

\* Mutant of Probe: the successes of the last recovery still count.
ProbeKeepingCount(c) ==
    /\ pc[c] = "idle"
    /\ state = "open" /\ rested
    /\ total_calls < MaxTotal
    /\ state' = "half_open"
    /\ Admit(c)
    /\ streak' = 0
    /\ UNCHANGED <<counters, rested, row, good>>

\* The first call after the timeout makes an OPEN breaker HALF_OPEN.  Before the
\* timeout calls are rejected, and change nothing.
Probe(c) ==
    /\ pc[c] = "idle"
    /\ state = "open" /\ rested
    /\ total_calls < MaxTotal
    /\ state' = "half_open"
    /\ success_count' = 0
    /\ Admit(c)
    /\ streak' = 0
    /\ UNCHANGED <<failure_count, total_calls, total_failures, rested, row, good>>

-----------------------------------------------------------------------------
(* _on_success, _on_failure.                                               *)

\* A success, in whatever state it finds the breaker.  In CLOSED it is added to
\* total_calls twice.
Succeed(c) ==
    /\ pc[c] = "awaiting"
    /\ pc' = [pc EXCEPT ![c] = "idle"]
    /\ failure_count' = 0
    /\ success_count' = IF state = "half_open" THEN success_count + 1 ELSE success_count
    /\ total_calls' = total_calls + (IF state = "closed" THEN 2 ELSE 1)
    /\ state' = IF state = "half_open" /\ success_count + 1 >= SuccessThreshold
                THEN "closed" ELSE state
    /\ row' = 0
    /\ streak' = streak + 1
    /\ good' = good + 1
    /\ UNCHANGED <<total_failures, rested>>

\* Mutant of TooMany: one failure more.
TooManyBeyond == failure_count + 1 > FailureThreshold

\* Mutant of RateReached: the failure itself is not counted yet.
RateReachedBefore == total_failures * RateDen >= RateNum * (total_calls + 1)

TooMany == failure_count + 1 >= FailureThreshold
RateReached == (total_failures + 1) * RateDen >= RateNum * (total_calls + 1)

\* The state after a failure: one is enough in HALF_OPEN.
AfterFailure ==
    IF state = "half_open" \/ (state = "closed" /\ (TooMany \/ RateReached))
    THEN "open" ELSE state

\* A failure, in whatever state it finds the breaker; it starts the recovery
\* timeout again.
Fail(c) ==
    /\ pc[c] = "awaiting"
    /\ pc' = [pc EXCEPT ![c] = "idle"]
    /\ failure_count' = failure_count + 1
    /\ total_failures' = total_failures + 1
    /\ total_calls' = total_calls + 1
    /\ rested' = FALSE
    /\ state' = AfterFailure
    /\ row' = row + 1
    /\ streak' = 0
    /\ UNCHANGED <<success_count, good>>

\* The caller is cancelled: CancelledError is not an Exception, so that neither
\* handler runs.
Cancel(c) ==
    /\ pc[c] = "awaiting"
    /\ pc' = [pc EXCEPT ![c] = "idle"]
    /\ UNCHANGED <<state, counters, rested, historyVars>>

\* reset keeps last_failure_time and the calls in flight.
Reset ==
    /\ state' = "closed"
    /\ failure_count' = 0
    /\ success_count' = 0
    /\ total_calls' = 0
    /\ total_failures' = 0
    /\ row' = 0
    /\ streak' = 0
    /\ good' = 0
    /\ UNCHANGED <<rested, pc>>

BreakerNext ==
    \/ \E c \in Calls : Begin(c) \/ Probe(c) \/ Succeed(c) \/ Fail(c) \/ Cancel(c)
    \/ Elapse \/ Reset

BreakerSpec == BreakerInit /\ [][BreakerNext]_breakerVars

-----------------------------------------------------------------------------
(* Properties.                                                             *)

BreakerTypeOK ==
    /\ state \in States
    /\ failure_count \in Nat /\ success_count \in Nat
    /\ total_calls \in Nat /\ total_failures \in Nat
    /\ rested \in BOOLEAN
    /\ pc \in [Calls -> {"idle", "awaiting"}]
    /\ row \in Nat /\ streak \in Nat /\ good \in Nat

\* "Fail after 5 consecutive errors": in CLOSED, fewer outcomes than the threshold
\* have been failures since the last success, whichever calls and states they
\* come from.
ConsecutiveFailuresOpen ==
    state = "closed" => row < FailureThreshold

\* "Any failure in HALF_OPEN goes back to OPEN", and the successes of an earlier
\* recovery do not count: the breaker closes only when the last outcomes, as many
\* as success_threshold, were successes recorded in this HALF_OPEN.  (A reset
\* closes it too, and leaves good at 0.)
ClosesOnSuccesses ==
    [][state = "half_open" /\ state' = "closed" /\ good' # 0 => streak' >= SuccessThreshold]_breakerVars

\* "or 50%+ error rate": total_calls counts a success in CLOSED twice, so that a
\* failure leaves the breaker CLOSED only while the error rate, computed with
\* every success counted twice, is below the threshold: 50% means two failures
\* in three calls.
ErrorRateOpens ==
    [][state = "closed" /\ total_failures' > total_failures /\ state' = "closed"
          => total_failures' * RateDen < RateNum * (total_failures' + 2 * good')]_breakerVars

=============================================================================
