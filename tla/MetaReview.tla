----------------------------- MODULE MetaReview -----------------------------
(***************************************************************************)
(* The meta agent (backend/app/services/meta_agent/, tasks/meta_agent.py): *)
(* reviews of memories and of cognitive sessions, and the calibration      *)
(* profile of the organization with its cache in Redis.                    *)
(*                                                                         *)
(* One organization.  A task or request is one transaction and runs once;  *)
(* a second delivery is one more transaction.  PostgreSQL changes when it  *)
(* commits, the cache at once, or not at all if Redis fails.  Rows are     *)
(* read without a lock and the ORM writes the columns that differ from     *)
(* what it read: an UPDATE waits for a row another open transaction has    *)
(* written, an INSERT waits for the same key and fails if it is committed. *)
(*                                                                         *)
(* A review of a memory that exists never reaches its verdict: it asks the *)
(* candidates for an attribute they do not have (meta_supervisor.py:118),  *)
(* so that closing conflicts and revising beliefs are code that never runs.*)
(*                                                                         *)
(* Thresholds and weights are percentages, an overall confidence counts    *)
(* ten-thousandths.                                                        *)
(***************************************************************************)
EXTENDS Integers, FiniteSets, FiniteSetsExt

CONSTANTS
    Txns,        \* reviews, calibrations and readers of the profile
    MayBe,       \* which of these each of them may be
    Thresholds,  \* conflict_escalation_threshold an administrator may send
    Weightings,  \* normalized signal weights an administrator may send
    Shifts,      \* by how much a cycle of learning moves two weights
    MayFail      \* may workers die?

Kinds == {"memory", "session", "calibration", "reader"}
NoWeights == <<>>

\* weights: agent, evidence, history, consistency, contradiction
Weights == [1..5 -> Nat]

ASSUME MetaAssumption ==
    /\ MayBe \in [Txns -> SUBSET Kinds]
    /\ Thresholds \subseteq Nat /\ MayFail \in BOOLEAN
    /\ Weightings \subseteq Weights /\ Shifts \subseteq Int
    /\ \A w \in Weightings : w[1] + w[2] + w[3] + w[4] + w[5] = 100

VARIABLES
    profile,    \* the committed row of calibration_profiles
    cache,      \* meta:calibration_profile:<org>
    runs,       \* committed rows of meta_agent_runs, each with its conflict's row
    \* each transaction
    kind, step,
    read,       \* the profile as the session loaded or last flushed it
    mine,       \* the profile as the session has it now
    cols,       \* columns of the profile it has written
    dirty,      \* transactions whose renormalized weights differ in the last digit
    draft,      \* the review's row, not committed
    \* history
    versions,   \* what transactions that wrote the profile have ended with
    early,      \* transactions that were open when the first profile was committed
    doubts      \* why the cache may differ from the profile

shared == <<profile, cache, runs>>
session == <<read, mine, cols, dirty>>
history == <<versions, early, doubts>>
vars == <<shared, kind, step, session, draft, history>>

Steps == {"lookup", "select", "insert", "publish", "set", "publish_set", "learn",
          "publish_learnt", "judge", "commit"}
Ended == {"done", "collided", "failed"}
Doubts == {"crossed",  \* two open transactions have read the profile's row
           "spoiled",  \* one that wrote it was rolled back
           "missed"}   \* one that wrote it could not publish it

DefaultWeights == <<35, 25, 20, 15, 5>>
DefaultProfile == [threshold |-> 60, weights |-> DefaultWeights]
NoProfile == [threshold |-> 0, weights |-> NoWeights]
NoRun == [status |-> "none", confidence |-> 0, reason |-> "none", conflict |-> "none"]

Init ==
    /\ profile = NoProfile /\ cache = NoProfile
    /\ runs = [t \in Txns |-> NoRun]
    /\ kind = [t \in Txns |-> "none"]
    /\ step = [t \in Txns |-> "idle"]
    /\ read = [t \in Txns |-> NoProfile] /\ mine = read
    /\ cols = [t \in Txns |-> {}] /\ dirty = {}
    /\ draft = [t \in Txns |-> NoRun]
    /\ versions = {} /\ early = {} /\ doubts = {}

-----------------------------------------------------------------------------
(* What a review decides.                                                  *)

\* `threshold or 0.60`: a threshold of zero is the default.
Gap(p) == IF p.threshold = 0 THEN 60 ELSE p.threshold

\* ConfidenceAggregator.aggregate.
Overall(w, agent, evidence, consistency, penalty) ==
    Max({0, w[1] * agent + w[2] * evidence + w[3] * 50 + w[4] * consistency - w[5] * penalty})

\* review_cognitive_session, for the latest report's final_decision.
Decisions == {"pass", "fail", "needs_evidence"}

SessionReview(p, decision) ==
    LET overall == IF decision = "pass" THEN Overall(p.weights, 80, 60, 80, 0)
                                        ELSE Overall(p.weights, 30, 60, 80, 40)
        status == CASE decision = "fail" -> "rejected"
                    [] decision = "pass" /\ overall < 100 * Gap(p) -> "contested"
                    [] OTHER -> "accepted"
    IN  [status |-> status, confidence |-> overall, reason |-> "session",
         conflict |-> "none"]

\* The except branch, with the conflict that is in the session already, if any.
FailedReview(conflict) ==
    [status |-> "escalated", confidence |-> 0, reason |-> "failed", conflict |-> conflict]

-----------------------------------------------------------------------------
(* Transactions.                                                           *)

Open(t) == step[t] \in Steps
Goto(t, next) == step' = [step EXCEPT ![t] = next] /\ UNCHANGED kind

\* Mutant of ProfileLocked: learning asks through a session of its own.
ProfileLockedByAny(t) == \E u \in Txns : Open(u) /\ cols[u] # {}

\* Does another open transaction hold the row of the profile?
ProfileLocked(t) == \E u \in Txns \ {t} : Open(u) /\ cols[u] # {}

\* Transactions that have read the row of the profile.
ProfileReaders == {t \in Txns : Open(t) /\ read[t] # NoProfile}

\* flush: of a profile loaded from the table, the columns that differ from what
\* was read are written, once nobody else holds the row.
Flush(t, new) ==
    LET loaded == read[t] # NoProfile
        changed == {c \in {"threshold", "weights"} :
                       /\ loaded
                       /\ new[c] # read[t][c] \/ (c = "weights" /\ t \in dirty)}
    IN  /\ changed # {} => ~ProfileLocked(t)
        /\ mine' = [mine EXCEPT ![t] = new]
        /\ read' = [read EXCEPT ![t] = IF loaded THEN new ELSE @]
        /\ cols' = [cols EXCEPT ![t] = @ \cup changed]
        /\ dirty' = dirty \ {t}

\* The task, or the request, opens its session; a review inserts its own row.
Start(t, k) ==
    /\ step[t] = "idle"
    /\ kind' = [kind EXCEPT ![t] = k]
    /\ step' = [step EXCEPT ![t] = IF k = "calibration" THEN "select" ELSE "lookup"]
    /\ UNCHANGED <<shared, session, draft, history>>

\* review_cognitive_session fails on a session that does not exist.
Reject(t) ==
    /\ step[t] = "lookup" /\ kind[t] = "session"
    /\ draft' = [draft EXCEPT ![t] = FailedReview("none")]
    /\ Goto(t, "commit")
    /\ UNCHANGED <<shared, session, history>>

AfterProfile(t) == IF kind[t] = "reader" THEN "commit" ELSE "judge"

\* get_profile_for_read: the cached profile is an object of its own, outside
\* the session.  A cache that is empty, or that does not answer, is passed by.
Lookup(t) ==
    /\ step[t] = "lookup"
    /\ \/ cache # NoProfile /\ Goto(t, AfterProfile(t)) /\ mine' = [mine EXCEPT ![t] = cache]
       \/ Goto(t, "select") /\ UNCHANGED mine
    /\ UNCHANGED <<shared, read, cols, dirty, draft, history>>

\* get_or_create_profile: the weights are normalized again, which may change
\* their last digit and makes the ORM write them; the defaults are exact.
Select(t) ==
    /\ step[t] = "select"
    /\ read' = [read EXCEPT ![t] = profile]
    /\ mine' = [mine EXCEPT ![t] = profile]
    /\ doubts' = IF ProfileReaders \ {t} # {} THEN doubts \cup {"crossed"} ELSE doubts
    /\ IF profile = NoProfile
       THEN Goto(t, "insert") /\ UNCHANGED dirty
       ELSE /\ Goto(t, IF kind[t] = "calibration" THEN "set" ELSE "publish")
            /\ \/ UNCHANGED dirty
               \/ profile.weights # DefaultWeights /\ dirty' = dirty \cup {t}
    /\ UNCHANGED <<shared, cols, draft, versions, early>>

\* The profile of an organization that has none.  The other's commit makes the
\* key a duplicate: the flush fails and rolls the transaction back.
Insert(t) ==
    /\ step[t] = "insert" /\ profile = NoProfile /\ ~ProfileLocked(t)
    /\ read' = [read EXCEPT ![t] = DefaultProfile]
    /\ mine' = [mine EXCEPT ![t] = DefaultProfile]
    /\ cols' = [cols EXCEPT ![t] = {"threshold", "weights"}]
    /\ Goto(t, "publish")
    /\ UNCHANGED <<shared, dirty, draft, history>>

\* What is cached of a profile.
Serialized(p) == [p EXCEPT !.threshold = Gap(p)]

\* _cache_set, before the commit, which swallows every exception.
Publish(t) ==
    /\ \/ step[t] = "publish" /\ Goto(t, IF kind[t] = "calibration" THEN "set" ELSE AfterProfile(t))
       \/ step[t] = "publish_set" /\ Goto(t, "learn")
       \/ step[t] = "publish_learnt" /\ Goto(t, "commit")
    /\ \/ /\ cache' = Serialized(mine[t])
          /\ doubts' = doubts \ {"spoiled", "missed"}
       \/ /\ UNCHANGED cache
          /\ doubts' = IF cols[t] = {} THEN doubts ELSE doubts \cup {"missed"}
    /\ UNCHANGED <<profile, runs, session, draft, versions, early>>

\* Mutant of Update: the cache is left to expire.
UpdateUnpublished(t) ==
    /\ step[t] = "set"
    /\ \E threshold \in {mine[t].threshold} \cup Thresholds, w \in {NoWeights} \cup Weightings :
          /\ Flush(t, [threshold |-> threshold,
                       weights |-> IF w = NoWeights THEN mine[t].weights ELSE w])
          /\ Goto(t, IF w = NoWeights THEN "learn" ELSE "commit")
    /\ UNCHANGED <<shared, draft, history>>

\* update_profile with what the administrator sent.  Sent weights are not
\* followed by learning.
Update(t) ==
    /\ step[t] = "set"
    /\ \E threshold \in {mine[t].threshold} \cup Thresholds, w \in {NoWeights} \cup Weightings :
          /\ Flush(t, [threshold |-> threshold,
                       weights |-> IF w = NoWeights THEN mine[t].weights ELSE w])
          /\ Goto(t, IF w = NoWeights THEN "publish_set" ELSE "publish_learnt")
    /\ UNCHANGED <<shared, draft, history>>

\* _apply_learning_update: weight moves from one signal to another, or back.
Learnt(p, d) ==
    LET w == p.weights
    IN  [p EXCEPT !.weights = [w EXCEPT ![1] = w[1] + d, ![2] = w[2] - d]]

\* learn_from_feedback on the profile the session still has.  With too few
\* samples nothing is flushed or published; weights normalized again are
\* written with the audit event.  A cycle that would take a weight below zero,
\* and so have to normalize the others, is left out.
Learn(t) ==
    /\ step[t] = "learn"
    /\ \/ /\ Flush(t, mine[t])
          /\ Goto(t, "commit")
       \/ /\ \E d \in Shifts \cap (-mine[t].weights[1])..mine[t].weights[2] :
               Flush(t, Learnt(mine[t], d))
          /\ Goto(t, "publish_learnt")
    /\ UNCHANGED <<shared, draft, history>>

-----------------------------------------------------------------------------
(* Reviews.                                                                *)

\* What a review comes to.  That of a memory raises, be it that the memory is
\* missing or that its candidates are asked for their values; if these differ,
\* their conflict is in the session by then.
Verdicts(t) ==
    IF kind[t] = "memory" THEN {FailedReview(c) : c \in {"none", "open"}}
    ELSE {SessionReview(mine[t], d) : d \in Decisions}
         \cup {FailedReview("none")}   \* there is no report

\* The review's row is flushed, with its conflict and with the weights that
\* get_or_create_profile has touched.
Judge(t) ==
    /\ step[t] = "judge"
    /\ \E v \in Verdicts(t) : draft' = [draft EXCEPT ![t] = v]
    /\ Flush(t, mine[t])
    /\ Goto(t, "commit")
    /\ UNCHANGED <<shared, history>>

-----------------------------------------------------------------------------
(* The end of a transaction.                                               *)

Close(t, outcome) ==
    /\ step' = [step EXCEPT ![t] = outcome]
    /\ kind' = [kind EXCEPT ![t] = "none"]
    /\ read' = [read EXCEPT ![t] = NoProfile]
    /\ mine' = [mine EXCEPT ![t] = NoProfile]
    /\ cols' = [cols EXCEPT ![t] = {}]
    /\ dirty' = dirty \ {t}
    /\ draft' = [draft EXCEPT ![t] = NoRun]
    /\ versions' = IF cols[t] = {} THEN versions ELSE versions \cup {mine[t]}

\* A reader's commit flushes the weights it has touched.
Commit(t) ==
    LET written == cols[t] \cup {c \in {"weights"} : t \in dirty}
    IN  /\ step[t] = "commit"
        /\ written # {} => ~ProfileLocked(t)
        /\ profile' = [c \in DOMAIN profile |->
                           IF c \in written THEN mine[t][c] ELSE profile[c]]
        /\ runs' = [runs EXCEPT ![t] = draft[t]]
        /\ early' = IF profile = NoProfile /\ written # {} THEN {u \in Txns : Open(u)} ELSE early
        /\ Close(t, "done")
        /\ UNCHANGED <<cache, doubts>>

\* The transaction is gone, what it has published stays.
RollBack(t, outcome) ==
    /\ Close(t, outcome)
    /\ doubts' = IF cols[t] = {} THEN doubts ELSE doubts \cup {"spoiled"}
    /\ UNCHANGED <<shared, early>>

\* The INSERT fails on a key committed since the SELECT.  A review catches the
\* error, flushes an empty session and is acknowledged; a calibration or a
\* request raises.
Collide(t) ==
    /\ step[t] = "insert" /\ profile # NoProfile
    /\ RollBack(t, IF kind[t] \in {"memory", "session"} THEN "collided" ELSE "failed")

\* The worker is killed, or the server closes the request.
Die(t) ==
    /\ MayFail /\ Open(t)
    /\ RollBack(t, "failed")

\* The cached profile lives for CACHE_TTL_SECONDS.
Expire ==
    /\ cache # NoProfile
    /\ cache' = NoProfile
    /\ doubts' = IF ProfileReaders = {} THEN {} ELSE doubts \cap {"crossed"}
    /\ UNCHANGED <<profile, runs, kind, step, session, draft, versions, early>>

Work(t) ==
    \/ Lookup(t) \/ Select(t) \/ Insert(t) \/ Publish(t) \/ Update(t) \/ Learn(t)
    \/ Judge(t) \/ Reject(t) \/ Commit(t) \/ Collide(t)

Next ==
    \/ \E t \in Txns : (\E k \in MayBe[t] : Start(t, k)) \/ Work(t) \/ Die(t)
    \/ Expire

Spec == Init /\ [][Next]_vars

\* Workers go on with what they have begun, and the cache forgets.  Nobody has
\* to send a review or a calibration, and nobody has to die.
Fairness == WF_vars(Expire) /\ \A t \in Txns : WF_vars(Work(t))

FairSpec == Spec /\ Fairness

-----------------------------------------------------------------------------
(* Properties.                                                             *)

Profiles == [threshold : Nat, weights : Weights] \cup {NoProfile}
Overalls == {c \in Nat : c <= 10000}
Drafts == [status : {"none", "accepted", "contested", "escalated", "rejected"},
           confidence : Overalls, reason : {"none", "session", "failed"},
           conflict : {"none", "open"}]

TypeOK ==
    /\ profile \in Profiles /\ cache \in Profiles /\ runs \in [Txns -> Drafts]
    /\ kind \in [Txns -> Kinds \cup {"none"}]
    /\ step \in [Txns -> Steps \cup Ended \cup {"idle"}]
    /\ read \in [Txns -> Profiles] /\ mine \in [Txns -> Profiles]
    /\ cols \in [Txns -> SUBSET {"threshold", "weights"}] /\ dirty \subseteq Txns
    /\ draft \in [Txns -> Drafts]
    /\ versions \subseteq Profiles /\ early \subseteq Txns /\ doubts \subseteq Doubts

\* The cache is the profile, or empty, once nobody is at work on the profile:
\* although it is written before the commit and read first, it is wrong only
\* after two transactions that overlapped, until it has expired, or after one
\* that was rolled back or could not publish its change, until it has expired
\* or the next one has published.
CacheAccounted ==
    ProfileReaders = {} => cache \in {NoProfile, Serialized(profile)} \/ doubts # {}

\* What reviews may rest on: the default profile, what a transaction has ended
\* with, even if it was rolled back, and what one that is open has written.
Grounds == {DefaultProfile} \cup versions \cup {mine[t] : t \in {u \in Txns : cols[u] # {}}}

\* A recorded verdict on a session follows from a threshold and from weights that
\* transactions have ended with: although the cache is written at several steps
\* of a calibration and outlives a rollback, it has no number in it that was
\* changed again before the end, save the default.
VerdictsGrounded ==
    \A t \in Txns : runs[t].reason = "session" =>
        \E threshold \in {p.threshold : p \in Grounds},
           weights \in {p.weights : p \in Grounds}, d \in Decisions :
            runs[t] = SessionReview([threshold |-> threshold, weights |-> weights], d)

\* A review that leaves no row although its task succeeded is one that was at work
\* when the organization's first profile was committed; no other loses its row.
OnlyTheFirstCollide == \A t \in Txns : step[t] = "collided" => t \in early

\* What the cache, the profile and the rows of reviews say of each other.
MetaInv ==
    /\ TypeOK
    /\ CacheAccounted
    /\ VerdictsGrounded
    /\ OnlyTheFirstCollide

\* Every review, calibration and request ends, whoever waits for whose row, and
\* in the end the cache holds nothing or the committed profile, whatever was
\* published and rolled back.
MetaSettles ==
    <>[](/\ \A t \in Txns : ~Open(t)
         /\ cache \in {NoProfile, Serialized(profile)})

=============================================================================
