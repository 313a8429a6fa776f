------------------------- MODULE MetaReview_proofs --------------------------
(***************************************************************************)
(* Proofs about the meta agent, for any transactions, thresholds, weights  *)
(* and shifts: MetaInv, all of it.                                         *)
(*                                                                         *)
(* Inv, the inductive invariant, says what a transaction in the middle of  *)
(* its work has, which MetaInv does not.  SessionInv: a session that has   *)
(* loaded the profile's row has it as loaded or last flushed.  Sole: one   *)
(* has it unless two crossed, and what it has not written is as committed. *)
(* CacheInv follows the cache, which is ahead of the table from a          *)
(* publication to the commit.  GroundInv follows thresholds and weights,   *)
(* column by column, from sessions through the cache and the table to the  *)
(* rows of reviews, and FirstInv those that wait for the first profile.    *)
(*                                                                         *)
(* A step is the business of one transaction (Apart): each part of Inv is  *)
(* shown for the one at work, action by action, and once for the others.   *)
(***************************************************************************)
EXTENDS MetaReview, TLAPS

\* A profile that is there: its weights are normalized.
Normal == {w \in Weights : w[1] + w[2] + w[3] + w[4] + w[5] = 100}
Real == [threshold : Nat, weights : Normal]
Table == Real \cup {NoProfile}

\* Transactions that have loaded the profile's row.
Loaded(t) == read[t] # NoProfile

Types ==
    /\ TypeOK
    /\ profile \in Table /\ cache \in Table
    /\ read \in [Txns -> Table] /\ mine \in [Txns -> Table]

-----------------------------------------------------------------------------
(* The arithmetic of reviews.                                              *)

\* No weights are not five weights.
LEMMA NoneAreNotReal == NoProfile \notin Real
<1>1. NoWeights \notin Weights
  <2>1. DOMAIN NoWeights = {}
    BY DEF NoWeights
  <2>2. \A w \in Weights : 1 \in DOMAIN w
    BY DEF Weights
  <2>3. QED
    BY <2>1, <2>2
<1>2. NoProfile.weights = NoWeights
  BY DEF NoProfile
<1>3. QED
  BY <1>1, <1>2 DEF Real, Normal

\* The profile an organization begins with.
LEMMA DefaultIsReal == DefaultProfile \in Real
<1>1. DefaultWeights \in [1..5 -> Nat]
  BY DEF DefaultWeights
<1>2. DefaultWeights \in Normal
  BY <1>1 DEF DefaultWeights, Weights, Normal
<1>3. QED
  BY <1>2 DEF DefaultProfile, Real

\* Learning moves weight from one signal to another.
LEMMA LearntIsReal ==
    ASSUME NEW p \in Real, NEW d \in Int, -p.weights[1] <= d, d <= p.weights[2]
    PROVE  Learnt(p, d) \in Real /\ Learnt(p, d).threshold = p.threshold
<1> DEFINE w == p.weights
           v == [w EXCEPT ![1] = w[1] + d, ![2] = w[2] - d]
<1>1. w \in [1..5 -> Nat] /\ w[1] + w[2] + w[3] + w[4] + w[5] = 100
  BY DEF Real, Normal, Weights
<1>2. v \in [1..5 -> Nat] /\ v[1] + v[2] + v[3] + v[4] + v[5] = 100
  <2>1. w[1] \in Nat /\ w[2] \in Nat
    BY <1>1
  <2>2. w[1] + d \in Nat /\ w[2] - d \in Nat
    BY <2>1
  <2>3. QED
    BY <1>1, <2>1, <2>2
<1>3. v \in Normal
  BY <1>2 DEF Normal, Weights
<1>4. Learnt(p, d) = [p EXCEPT !.weights = v]
  BY DEF Learnt
<1> HIDE DEF v
<1>5. QED
  BY <1>3, <1>4 DEF Real

\* What is cached of a profile says the same but for a threshold of zero.
LEMMA SerializedIsReal ==
    ASSUME NEW p \in Real
    PROVE  /\ Serialized(p) \in Real
           /\ Serialized(p).threshold = Gap(p) /\ Serialized(p).weights = p.weights
BY DEF Serialized, Real, Gap

\* Max of zero and one more number.
LEMMA MaxOfTwo ==
    ASSUME NEW x \in Int
    PROVE  Max({0, x}) = IF x > 0 THEN x ELSE 0
BY DEF Max

\* The overall confidences that reviews compute are at most 10000.
LEMMA OverallBounded ==
    ASSUME NEW w \in Normal
    PROVE  /\ Overall(w, 80, 60, 80, 0) \in Overalls
           /\ Overall(w, 30, 60, 80, 40) \in Overalls
<1>1. /\ w[1] \in Nat /\ w[2] \in Nat /\ w[3] \in Nat /\ w[4] \in Nat /\ w[5] \in Nat
      /\ w[1] + w[2] + w[3] + w[4] + w[5] = 100
  BY DEF Normal, Weights
<1>2. ASSUME NEW x \in Int, x <= 10000 PROVE Max({0, x}) \in Overalls
  <2>1. Max({0, x}) = IF x > 0 THEN x ELSE 0
    BY MaxOfTwo
  <2>2. QED
    BY <1>2, <2>1 DEF Overalls
<1>3. Overall(w, 80, 60, 80, 0) \in Overalls
  <2>1. w[1] * 80 + w[2] * 60 + w[3] * 50 + w[4] * 80 - w[5] * 0 \in Int
    BY <1>1
  <2>2. w[1] * 80 + w[2] * 60 + w[3] * 50 + w[4] * 80 - w[5] * 0 <= 10000
    BY <1>1
  <2>3. QED
    BY <2>1, <2>2, <1>2 DEF Overall
<1>4. Overall(w, 30, 60, 80, 40) \in Overalls
  <2>1. w[1] * 30 + w[2] * 60 + w[3] * 50 + w[4] * 80 - w[5] * 40 \in Int
    BY <1>1
  <2>2. w[1] * 30 + w[2] * 60 + w[3] * 50 + w[4] * 80 - w[5] * 40 <= 10000
    BY <1>1
  <2>3. QED
    BY <2>1, <2>2, <1>2 DEF Overall
<1>5. QED
  BY <1>3, <1>4

\* The row of a review of a session is one,
LEMMA SessionReviewRow ==
    ASSUME NEW p \in Real, NEW decision
    PROVE  SessionReview(p, decision) \in Drafts
<1> DEFINE overall == IF decision = "pass" THEN Overall(p.weights, 80, 60, 80, 0)
                                           ELSE Overall(p.weights, 30, 60, 80, 40)
           status == CASE decision = "fail" -> "rejected"
                       [] decision = "pass" /\ overall < 100 * Gap(p) -> "contested"
                       [] OTHER -> "accepted"
           r == [status |-> status, confidence |-> overall, reason |-> "session",
                 conflict |-> "none"]
<1>1. overall \in Overalls
  BY OverallBounded DEF Real
<1>2. SessionReview(p, decision) = r
  BY DEF SessionReview
<1> HIDE DEF overall
<1>3. status \in {"rejected", "contested", "accepted"}
  BY Zenon
<1> HIDE DEF status
<1>4. r \in Drafts
  BY <1>1, <1>3 DEF Drafts
<1>5. QED
  BY <1>2, <1>4

\* ... and depends on the weights and on the threshold in force.
LEMMA SessionReviewOf ==
    ASSUME NEW p, NEW q, NEW decision, Gap(p) = Gap(q), p.weights = q.weights
    PROVE  SessionReview(p, decision) = SessionReview(q, decision)
BY DEF SessionReview

\* The row that a failed review leaves, with or without its conflict, and none.
LEMMA FailedRows ==
    /\ \A conflict \in {"none", "open"} :
          FailedReview(conflict) \in Drafts /\ FailedReview(conflict).reason = "failed"
    /\ NoRun \in Drafts /\ NoRun.reason = "none"
BY DEF FailedReview, NoRun, Drafts, Overalls

\* What a review may come to.
LEMMA VerdictRows ==
    ASSUME NEW t \in Txns, mine[t] \in Real, NEW v \in Verdicts(t)
    PROVE  /\ v \in Drafts
           /\ v.reason = "session" => \E d \in Decisions : v = SessionReview(mine[t], d)
<1>1. \/ \E c \in {"none", "open"} : v = FailedReview(c)
      \/ \E d \in Decisions : v = SessionReview(mine[t], d)
  BY DEF Verdicts
<1>2. ASSUME NEW c \in {"none", "open"}, v = FailedReview(c)
      PROVE  v \in Drafts /\ v.reason # "session"
  BY <1>2, FailedRows
<1>3. ASSUME NEW d \in Decisions, v = SessionReview(mine[t], d)
      PROVE  v \in Drafts
  BY <1>3, SessionReviewRow
<1>4. QED
  BY <1>1, <1>2, <1>3

-----------------------------------------------------------------------------
(* What a transaction has of the profile.                                  *)

Publishing == {"publish", "publish_set", "publish_learnt"}
Columns == {"threshold", "weights"}

\* A transaction that has loaded the profile has it as it was loaded or flushed
\* last, and one that has inserted it holds both its columns.
Session(t) ==
    /\ ~Loaded(t) => cols[t] = {} /\ t \notin dirty
    /\ Loaded(t) => /\ step[t] \in Steps \ {"lookup", "select", "insert"}
                    /\ mine[t] = read[t]
                    /\ profile = NoProfile => cols[t] = Columns
    /\ step[t] \in Publishing \cup {"set", "learn"} => Loaded(t)
    /\ step[t] = "judge" => mine[t] # NoProfile

SessionInv == Types /\ \A t \in Txns : Session(t)

\* What is known of each profile, written out for the steps below.
LEMMA TableTypes ==
    /\ NoProfile \in Table /\ DefaultProfile \in Real /\ Real \subseteq Table
    /\ Table \subseteq Profiles
    /\ \A p \in Table : p # NoProfile <=> p \in Real
<1>1. NoProfile \notin Real /\ DefaultProfile \in Real
  BY NoneAreNotReal, DefaultIsReal
<1>2. Real \subseteq [threshold : Nat, weights : Weights]
  BY DEF Real, Normal
<1>3. QED
  BY <1>1, <1>2 DEF Table, Profiles

\* A flush leaves the session with the profile it writes.
LEMMA FlushTypes ==
    ASSUME Types, NEW t \in Txns, NEW new \in Table, Flush(t, new)
    PROVE  /\ mine' \in [Txns -> Table] /\ read' \in [Txns -> Table]
           /\ cols' \in [Txns -> SUBSET Columns] /\ dirty' \subseteq Txns
           /\ mine'[t] = new /\ read'[t] = IF Loaded(t) THEN new ELSE NoProfile
           /\ t \notin dirty'
<1>1. PICK changed \in SUBSET Columns : cols' = [cols EXCEPT ![t] = @ \cup changed]
  BY DEF Flush, Columns
<1>2. /\ mine' = [mine EXCEPT ![t] = new]
      /\ read' = [read EXCEPT ![t] = IF Loaded(t) THEN new ELSE @]
      /\ dirty' = dirty \ {t}
  BY DEF Flush, Loaded
<1>3. cols \in [Txns -> SUBSET Columns] /\ dirty \subseteq Txns
  BY DEF Types, TypeOK, Columns
<1>4. QED
  BY <1>1, <1>2, <1>3 DEF Types, Loaded

\* It writes the columns that have changed, or are dirty.
LEMMA FlushColumns ==
    ASSUME Types, NEW t \in Txns, NEW new \in Table, Flush(t, new)
    PROVE  /\ cols[t] \subseteq cols'[t]
           /\ ~Loaded(t) => cols'[t] = cols[t]
           /\ Loaded(t) /\ "threshold" \notin cols'[t] => new.threshold = read[t].threshold
           /\ Loaded(t) /\ "weights" \notin cols'[t] => new.weights = read[t].weights
<1> DEFINE changed == {c \in Columns :
                          /\ Loaded(t)
                          /\ new[c] # read[t][c] \/ (c = "weights" /\ t \in dirty)}
<1>1. cols' = [cols EXCEPT ![t] = @ \cup changed]
  BY DEF Flush, Columns, Loaded
<1>2. cols'[t] = cols[t] \cup changed
  BY <1>1 DEF Types, TypeOK
<1>3. QED
  BY <1>2 DEF Columns

\* The end of a transaction leaves nothing of it but what it has written.
LEMMA CloseTypes ==
    ASSUME Types, NEW t \in Txns, NEW outcome \in Ended, Close(t, outcome)
    PROVE  /\ step' \in [Txns -> Steps \cup Ended \cup {"idle"}]
           /\ kind' \in [Txns -> Kinds \cup {"none"}]
           /\ mine' \in [Txns -> Table] /\ read' \in [Txns -> Table]
           /\ cols' \in [Txns -> SUBSET Columns] /\ dirty' \subseteq Txns
           /\ draft' \in [Txns -> Drafts] /\ versions' \subseteq Profiles
           /\ step'[t] = outcome /\ mine'[t] = NoProfile /\ read'[t] = NoProfile
           /\ cols'[t] = {} /\ t \notin dirty' /\ draft'[t] = NoRun
<1>1. NoRun \in Drafts /\ NoProfile \in Table
  BY FailedRows, TableTypes
<1>2. QED
  BY <1>1 DEF Close, Types, TypeOK, Columns

\* What a step leaves alone keeps its type, and sessions' profiles have one if
\* they are in the table.
LEMMA TypesFrom ==
    ASSUME Types,
           profile' \in Table, cache' \in Table, runs' \in [Txns -> Drafts],
           kind' \in [Txns -> Kinds \cup {"none"}],
           step' \in [Txns -> Steps \cup Ended \cup {"idle"}],
           read' \in [Txns -> Table], mine' \in [Txns -> Table],
           cols' \in [Txns -> SUBSET Columns], dirty' \subseteq Txns,
           draft' \in [Txns -> Drafts],
           versions' \subseteq Profiles, early' \subseteq Txns, doubts' \subseteq Doubts
    PROVE  Types'
<1>1. profile' \in Profiles /\ cache' \in Profiles
      /\ read' \in [Txns -> Profiles] /\ mine' \in [Txns -> Profiles]
  BY TableTypes
<1>2. QED
  BY <1>1 DEF Types, TypeOK, Columns

\* A start sends the transaction to look up or to select the profile.
LEMMA StartTypes ==
    ASSUME Types, NEW t \in Txns, NEW k \in MayBe[t], Start(t, k)
    PROVE  /\ Types' /\ step[t] = "idle" /\ step'[t] \in {"select", "lookup"}
           /\ UNCHANGED <<profile, cache, runs>> /\ UNCHANGED <<read, mine, cols, dirty>>
           /\ UNCHANGED <<draft, versions, early, doubts>>
<1>1. k \in Kinds
  BY MetaAssumption
<1>2. /\ kind' \in [Txns -> Kinds \cup {"none"}]
      /\ step' \in [Txns -> Steps \cup Ended \cup {"idle"}]
      /\ step'[t] \in {"select", "lookup"}
  <2>1. /\ kind \in [Txns -> Kinds \cup {"none"}]
        /\ step \in [Txns -> Steps \cup Ended \cup {"idle"}]
    BY DEF Types, TypeOK
  <2>2. PICK next \in {"select", "lookup"} : step' = [step EXCEPT ![t] = next]
    BY DEF Start
  <2>3. kind' = [kind EXCEPT ![t] = k] /\ next \in Steps
    BY <2>2 DEF Start, Steps
  <2>4. QED
    BY <1>1, <2>1, <2>2, <2>3
<1>3. UNCHANGED <<profile, cache, runs>> /\ UNCHANGED <<read, mine, cols, dirty>>
      /\ UNCHANGED <<draft, versions, early, doubts>> /\ step[t] = "idle"
  BY DEF Start, shared, session, history
<1>4. QED
  BY <1>2, <1>3, TypesFrom DEF Types, TypeOK, Columns

\* A step of a transaction that goes on.
LEMMA GotoTypes ==
    ASSUME Types, NEW t \in Txns, NEW next \in Steps, Goto(t, next)
    PROVE  /\ kind' \in [Txns -> Kinds \cup {"none"}] /\ kind' = kind
           /\ step' \in [Txns -> Steps \cup Ended \cup {"idle"}] /\ step'[t] = next
BY DEF Goto, Types, TypeOK

\* With its profile a transaction judges, or has only to commit.
LEMMA AfterProfileSteps ==
    ASSUME NEW t \in Txns
    PROVE  AfterProfile(t) \in {"commit", "judge"}
BY DEF AfterProfile

\* Looking up, selecting or inserting the profile.
LEMMA LoadTypes ==
    ASSUME Types, NEW t \in Txns, Lookup(t) \/ Select(t) \/ Insert(t)
    PROVE  /\ Types' /\ UNCHANGED <<profile, cache, runs>>
           /\ UNCHANGED <<draft, versions, early>>
           /\ doubts \subseteq doubts' /\ doubts' \subseteq doubts \cup {"crossed"}
           /\ step[t] \in {"lookup", "select", "insert"}
           /\ step'[t] \in Steps \ {"lookup", "learn", "publish_set", "publish_learnt"}
<1>1. UNCHANGED <<profile, cache, runs>> /\ UNCHANGED <<draft, versions, early>>
      /\ step[t] \in {"lookup", "select", "insert"}
  BY DEF Lookup, Select, Insert, shared, history
<1>2. PICK next \in Steps \ {"lookup", "learn", "publish_set", "publish_learnt"} : Goto(t, next)
  <2>1. CASE Lookup(t)
    BY <2>1, AfterProfileSteps DEF Lookup, Steps
  <2>2. CASE Select(t)
    BY <2>2 DEF Select, Steps
  <2>3. CASE Insert(t)
    BY <2>3 DEF Insert, Steps
  <2>4. QED
    BY <2>1, <2>2, <2>3
<1>3. /\ mine' \in [Txns -> Table] /\ read' \in [Txns -> Table]
      /\ cols' \in [Txns -> SUBSET Columns] /\ dirty' \subseteq Txns
  BY TableTypes DEF Lookup, Select, Insert, Types, TypeOK, Columns
<1>4. doubts \subseteq doubts' /\ doubts' \subseteq doubts \cup {"crossed"}
  BY DEF Lookup, Select, Insert, history
<1>5. doubts' \subseteq Doubts
  BY <1>4 DEF Types, TypeOK, Doubts
<1>6. QED
  BY <1>1, <1>2, <1>3, <1>4, <1>5, GotoTypes, TypesFrom DEF Types, TypeOK

\* Publishing, of a profile that the transaction has loaded, or failing to.
LEMMA PublishStep ==
    ASSUME Types, NEW t \in Txns, Publish(t)
    PROVE  /\ step[t] \in Publishing
           /\ \E next \in {"set", "judge", "commit", "learn"} :
                 /\ Goto(t, next)
                 /\ next = "set" <=> step[t] = "publish" /\ kind[t] = "calibration"
                 /\ next = "learn" <=> step[t] = "publish_set"
           /\ \/ cache' = Serialized(mine[t]) /\ doubts' = doubts \ {"spoiled", "missed"}
              \/ cache' = cache /\ doubts' = IF cols[t] = {} THEN doubts ELSE doubts \cup {"missed"}
           /\ UNCHANGED <<profile, runs>> /\ UNCHANGED <<read, mine, cols, dirty>>
           /\ UNCHANGED <<draft, versions, early>>
<1>1. PICK next \in {"set", "judge", "commit", "learn"} :
         /\ step[t] \in Publishing /\ Goto(t, next)
         /\ next = "set" <=> step[t] = "publish" /\ kind[t] = "calibration"
         /\ next = "learn" <=> step[t] = "publish_set"
  <2>1. CASE step[t] = "publish"
    BY <2>1, AfterProfileSteps DEF Publish, Publishing, Goto
  <2>2. CASE step[t] = "publish_set"
    BY <2>2 DEF Publish, Publishing, Goto
  <2>3. CASE step[t] = "publish_learnt"
    BY <2>3 DEF Publish, Publishing, Goto
  <2>4. QED
    BY <2>1, <2>2, <2>3 DEF Publish
<1>2. \/ cache' = Serialized(mine[t]) /\ doubts' = doubts \ {"spoiled", "missed"}
      \/ cache' = cache /\ doubts' = IF cols[t] = {} THEN doubts ELSE doubts \cup {"missed"}
  BY DEF Publish
<1>3. UNCHANGED <<profile, runs>> /\ UNCHANGED <<read, mine, cols, dirty>>
      /\ UNCHANGED <<draft, versions, early>>
  BY DEF Publish, session
<1>4. QED
  BY <1>1, <1>2, <1>3

\* What is published is a profile that is there.
LEMMA PublishTypes ==
    ASSUME SessionInv, NEW t \in Txns, Publish(t)
    PROVE  Types' /\ mine[t] \in Real /\ Loaded(t)
<1>1. PICK next \in {"set", "judge", "commit", "learn"} : Goto(t, next)
  BY PublishStep DEF SessionInv
<1>2. next \in Steps
  BY DEF Steps
<1>3. mine[t] \in Real /\ Loaded(t)
  BY PublishStep, TableTypes DEF SessionInv, Session, Loaded, Types
<1>4. cache' \in Table
  BY <1>3, SerializedIsReal, TableTypes, PublishStep DEF SessionInv, Types
<1>5. doubts' \subseteq Doubts
  BY PublishStep DEF SessionInv, Types, TypeOK, Doubts
<1>6. QED
  BY <1>1, <1>2, <1>3, <1>4, <1>5, PublishStep, GotoTypes, TypesFrom
  DEF Types, TypeOK, Columns, SessionInv

\* What the steps that flush leave alone.
Elsewhere == UNCHANGED <<profile, cache, runs>> /\ UNCHANGED <<versions, early, doubts>>

\* An update loads nothing but what an administrator may send.
LEMMA UpdateStep ==
    ASSUME SessionInv, NEW t \in Txns, Update(t)
    PROVE  \E new \in Real, next \in {"publish_set", "publish_learnt"} :
              /\ step[t] = "set" /\ Loaded(t)
              /\ Flush(t, new) /\ Goto(t, next)
              /\ next = "publish_set" => new.weights = mine[t].weights
              /\ Elsewhere /\ draft' = draft
<1>1. PICK threshold \in {mine[t].threshold} \cup Thresholds, w \in {NoWeights} \cup Weightings :
         /\ Flush(t, [threshold |-> threshold,
                      weights |-> IF w = NoWeights THEN mine[t].weights ELSE w])
         /\ Goto(t, IF w = NoWeights THEN "publish_set" ELSE "publish_learnt")
  BY DEF Update
<1> DEFINE weights == IF w = NoWeights THEN mine[t].weights ELSE w
           new == [threshold |-> threshold, weights |-> weights]
<1>2. step[t] = "set" /\ Loaded(t) /\ mine[t] \in Real
  BY TableTypes DEF Update, SessionInv, Session, Loaded, Types
<1>3. new \in Real
  <2>1. threshold \in Nat
    <3>1. mine[t].threshold \in Nat /\ Thresholds \subseteq Nat
      BY <1>2, MetaAssumption DEF Real
    <3>2. QED
      BY <3>1
  <2>2. weights \in Normal
    BY <1>2, MetaAssumption DEF Real, Normal
  <2> HIDE DEF weights
  <2>3. QED
    BY <2>1, <2>2 DEF Real
<1>4. PICK next \in {"publish_set", "publish_learnt"} :
         Goto(t, next) /\ (next = "publish_set" => w = NoWeights)
  BY <1>1
<1>5. Elsewhere /\ draft' = draft
  BY DEF Update, shared, history, Elsewhere
<1>6. Flush(t, new) /\ (w = NoWeights => new.weights = mine[t].weights)
  BY <1>1
<1>7. QED
  BY <1>1, <1>2, <1>3, <1>4, <1>5, <1>6

\* Learning moves weights, or flushes the session as it is.
LEMMA LearnStep ==
    ASSUME SessionInv, NEW t \in Txns, Learn(t)
    PROVE  \E new \in Real, next \in {"commit", "publish_learnt"} :
              /\ step[t] = "learn" /\ Loaded(t)
              /\ Flush(t, new) /\ new.threshold = mine[t].threshold
              /\ Goto(t, next) /\ (next = "commit" => new = mine[t])
              /\ Elsewhere /\ draft' = draft
<1>1. step[t] = "learn" /\ Loaded(t) /\ mine[t] \in Real
  BY TableTypes DEF Learn, SessionInv, Session, Loaded, Types
<1>2. Elsewhere /\ draft' = draft
  BY DEF Learn, shared, history, Elsewhere
<1>3. CASE Flush(t, mine[t]) /\ Goto(t, "commit")
  BY <1>1, <1>2, <1>3
<1>4. ASSUME NEW d \in Shifts \cap (-mine[t].weights[1])..mine[t].weights[2], Goto(t, "publish_learnt"),
             Flush(t, Learnt(mine[t], d))
      PROVE  \E new \in Real :
                Flush(t, new) /\ new.threshold = mine[t].threshold /\ Goto(t, "publish_learnt")
  <2>1. d \in Int /\ -mine[t].weights[1] <= d /\ d <= mine[t].weights[2]
    BY <1>1, MetaAssumption DEF Real, Normal, Weights
  <2>2. QED
    BY <1>1, <1>4, <2>1, LearntIsReal
<1>5. QED
  BY <1>1, <1>2, <1>3, <1>4 DEF Learn

\* A review leaves a row by what it read of the profile, or fails.
LEMMA JudgeStep ==
    ASSUME SessionInv, NEW t \in Txns, Judge(t) \/ Reject(t)
    PROVE  \E r \in Drafts :
              /\ step[t] \in {"judge", "lookup"}
              /\ draft' = [draft EXCEPT ![t] = r] /\ Goto(t, "commit")
              /\ r.reason = "session" => \E d \in Decisions : r = SessionReview(mine[t], d)
              /\ r.reason = "session" => step[t] = "judge"
              /\ \/ Flush(t, mine[t]) /\ step[t] = "judge" /\ mine[t] \in Real
                 \/ UNCHANGED <<read, mine, cols, dirty>> /\ step[t] = "lookup"
              /\ Elsewhere
<1>1. CASE Judge(t)
  <2>1. step[t] = "judge" /\ mine[t] \in Real /\ Flush(t, mine[t]) /\ Goto(t, "commit")
        /\ Elsewhere
    BY <1>1, TableTypes DEF Judge, SessionInv, Session, Types, Elsewhere, shared, history
  <2>2. PICK v \in Verdicts(t) : draft' = [draft EXCEPT ![t] = v]
    BY <1>1 DEF Judge
  <2>3. QED
    BY <2>1, <2>2, VerdictRows
<1>2. CASE Reject(t)
  <2>1. /\ step[t] = "lookup" /\ draft' = [draft EXCEPT ![t] = FailedReview("none")]
        /\ Goto(t, "commit") /\ Elsewhere /\ UNCHANGED <<read, mine, cols, dirty>>
    BY <1>2 DEF Reject, shared, history, session, Elsewhere
  <2>2. QED
    BY <2>1, FailedRows
<1>3. QED
  BY <1>1, <1>2

\* The columns of the profile are those of the session or those committed.
LEMMA CommitProfile ==
    ASSUME SessionInv, NEW t \in Txns, Commit(t)
    PROVE  /\ ~Loaded(t) => profile' = profile
           /\ Loaded(t) =>
                 /\ profile' \in Real /\ mine[t] \in Real
                 /\ profile'.threshold \in {mine[t].threshold, profile.threshold}
                 /\ profile'.weights \in {mine[t].weights, profile.weights}
                 /\ profile = NoProfile => profile' = mine[t]
                 /\ /\ "threshold" \notin cols[t] => mine[t].threshold = profile.threshold
                    /\ "weights" \notin cols[t] => mine[t].weights = profile.weights
                    => profile' = mine[t]
<1> DEFINE written == cols[t] \cup {c \in {"weights"} : t \in dirty}
<1>1. profile' = [c \in DOMAIN profile |-> IF c \in written THEN mine[t][c] ELSE profile[c]]
  BY DEF Commit
<1>2. profile \in Table /\ mine[t] \in Table
  BY DEF SessionInv, Types
<1>3. DOMAIN profile = Columns /\ profile = [threshold |-> profile.threshold, weights |-> profile.weights]
  BY <1>2 DEF Table, Real, NoProfile, Columns
<1>4. profile' = [threshold |-> IF "threshold" \in written THEN mine[t].threshold ELSE profile.threshold,
                  weights |-> IF "weights" \in written THEN mine[t].weights ELSE profile.weights]
  <2> HIDE DEF written
  <2>1. QED
    BY <1>1, <1>3 DEF Columns
<1>5. CASE ~Loaded(t)
  <2>1. written = {}
    BY <1>5 DEF SessionInv, Session
  <2>2. QED
    BY <1>3, <1>4, <1>5, <2>1
<1>6. CASE Loaded(t)
  <2>1. mine[t] \in Real
    BY <1>2, <1>6, TableTypes DEF SessionInv, Session, Loaded, Types
  <2>2. profile = NoProfile => cols[t] = Columns
    BY <1>6 DEF SessionInv, Session
  <2>3. mine[t] = [threshold |-> mine[t].threshold, weights |-> mine[t].weights]
        /\ mine[t].threshold \in Nat /\ mine[t].weights \in Normal
    BY <2>1 DEF Real
  <2>4. profile' \in Real
    <3>1. CASE profile = NoProfile
      <4>1. profile' = mine[t]
        BY <1>4, <2>2, <2>3, <3>1 DEF Columns
      <4>2. QED
        BY <2>1, <4>1
    <3>2. CASE profile \in Real
      <4>1. profile.threshold \in Nat /\ profile.weights \in Normal
        BY <3>2 DEF Real
      <4> HIDE DEF written
      <4>2. QED
        BY <1>4, <2>3, <4>1 DEF Real
    <3>3. QED
      BY <1>2, <3>1, <3>2 DEF Table
  <2>5. /\ profile'.threshold \in {mine[t].threshold, profile.threshold}
        /\ profile'.weights \in {mine[t].weights, profile.weights}
    BY <1>4
  <2>6. ASSUME "threshold" \notin cols[t] => mine[t].threshold = profile.threshold,
               "weights" \notin cols[t] => mine[t].weights = profile.weights
        PROVE  profile' = mine[t]
    BY <1>4, <2>3, <2>6
  <2>7. QED
    BY <1>6, <2>1, <2>2, <2>4, <2>5, <2>6 DEF Columns
<1>7. QED
  BY <1>5, <1>6

\* How a transaction is rolled back: where it was, and what its end is called.
LEMMA RollBackStep ==
    ASSUME SessionInv, NEW t \in Txns, Collide(t) \/ Die(t)
    PROVE  \E outcome \in Ended \ {"done"} :
              /\ RollBack(t, outcome) /\ Close(t, outcome) /\ Open(t)
              /\ UNCHANGED <<profile, cache, runs, early>>
              /\ doubts' = IF cols[t] = {} THEN doubts ELSE doubts \cup {"spoiled"}
              /\ outcome = "collided" => profile # NoProfile /\ step[t] = "insert"
<1>1. Ended \ {"done"} = {"collided", "failed"}
  BY DEF Ended
<1>2. CASE Collide(t)
  <2>1. Open(t) /\ profile # NoProfile /\ step[t] = "insert"
    BY <1>2 DEF Collide, Open, Steps
  <2>2. PICK outcome \in {"collided", "failed"} : RollBack(t, outcome)
    BY <1>2 DEF Collide
  <2>3. QED
    BY <1>1, <2>1, <2>2 DEF RollBack, shared
<1>3. CASE Die(t)
  BY <1>1, <1>3 DEF Die, RollBack, shared
<1>4. QED
  BY <1>2, <1>3

-----------------------------------------------------------------------------
(* Every step keeps the types.                                             *)

\* A step that flushes.
LEMMA FlushingTypes ==
    ASSUME SessionInv, NEW t \in Txns, NEW new \in Table, NEW next \in Steps,
           Flush(t, new), Goto(t, next), Elsewhere, draft' \in [Txns -> Drafts]
    PROVE  Types'
BY FlushTypes, GotoTypes, TypesFrom DEF SessionInv, Types, TypeOK, Elsewhere

\* Updates, learning and reviews.
LEMMA WorkTypes ==
    ASSUME SessionInv, NEW t \in Txns, Update(t) \/ Learn(t) \/ Judge(t) \/ Reject(t)
    PROVE  Types'
<1>1. {"publish_set", "publish_learnt", "commit"} \subseteq Steps
  BY DEF Steps
<1>2. draft \in [Txns -> Drafts] /\ mine[t] \in Table
  BY DEF SessionInv, Types, TypeOK
<1>3. CASE Update(t)
  <2>1. PICK new \in Real, next \in {"publish_set", "publish_learnt"} :
              Flush(t, new) /\ Goto(t, next) /\ Elsewhere /\ draft' = draft
    BY <1>3, UpdateStep
  <2>2. new \in Table /\ next \in Steps
    BY <1>1, TableTypes
  <2>3. QED
    BY <1>2, <2>1, <2>2, FlushingTypes
<1>4. CASE Learn(t)
  <2>1. PICK new \in Real, next \in {"commit", "publish_learnt"} :
              Flush(t, new) /\ Goto(t, next) /\ Elsewhere /\ draft' = draft
    BY <1>4, LearnStep
  <2>2. new \in Table /\ next \in Steps
    BY <1>1, TableTypes
  <2>3. QED
    BY <1>2, <2>1, <2>2, FlushingTypes
<1>5. CASE Judge(t) \/ Reject(t)
  <2>1. PICK r \in Drafts :
              /\ draft' = [draft EXCEPT ![t] = r] /\ Goto(t, "commit") /\ Elsewhere
              /\ \/ Flush(t, mine[t])
                 \/ UNCHANGED <<read, mine, cols, dirty>>
    BY <1>5, JudgeStep
  <2>2. draft' \in [Txns -> Drafts]
    BY <1>2, <2>1
  <2>3. CASE Flush(t, mine[t])
    BY <1>1, <1>2, <2>1, <2>2, <2>3, FlushingTypes
  <2>4. CASE UNCHANGED <<read, mine, cols, dirty>>
    BY <1>1, <2>1, <2>2, <2>4, GotoTypes, TypesFrom
    DEF SessionInv, Types, TypeOK, Columns, Elsewhere
  <2>5. QED
    BY <2>1, <2>3, <2>4
<1>6. QED
  BY <1>3, <1>4, <1>5

\* A commit writes what the session and the review have.
LEMMA CommitTypes ==
    ASSUME SessionInv, NEW t \in Txns, Commit(t)
    PROVE  /\ Types' /\ Close(t, "done") /\ "done" \in Ended /\ step[t] = "commit"
           /\ UNCHANGED <<cache, doubts>> /\ runs' = [runs EXCEPT ![t] = draft[t]]
<1>1. Close(t, "done") /\ "done" \in Ended /\ UNCHANGED <<cache, doubts>> /\ step[t] = "commit"
      /\ runs' = [runs EXCEPT ![t] = draft[t]]
  BY DEF Commit, Ended
<1>2. runs' \in [Txns -> Drafts]
  BY <1>1 DEF SessionInv, Types, TypeOK
<1>3. profile' \in Table
  BY CommitProfile, TableTypes DEF SessionInv, Types
<1>4. early' \subseteq Txns
  BY DEF Commit, SessionInv, Types, TypeOK
<1>5. QED
  BY <1>1, <1>2, <1>3, <1>4, CloseTypes, TypesFrom DEF SessionInv, Types, TypeOK

\* A rollback only says that something published was undone.
LEMMA RollBackTypes ==
    ASSUME SessionInv, NEW t \in Txns, Collide(t) \/ Die(t)
    PROVE  Types'
<1>1. PICK outcome \in Ended :
         /\ Close(t, outcome) /\ UNCHANGED <<profile, cache, runs, early>>
         /\ doubts' = IF cols[t] = {} THEN doubts ELSE doubts \cup {"spoiled"}
  BY RollBackStep
<1>2. doubts' \subseteq Doubts
  BY <1>1 DEF SessionInv, Types, TypeOK, Doubts
<1>3. QED
  BY <1>1, <1>2, CloseTypes, TypesFrom DEF SessionInv, Types, TypeOK

\* The cache forgets.
LEMMA ExpireTypes ==
    ASSUME SessionInv, Expire
    PROVE  /\ Types' /\ cache' = NoProfile
           /\ UNCHANGED <<profile, runs>> /\ UNCHANGED <<kind, step>>
           /\ UNCHANGED <<read, mine, cols, dirty>> /\ UNCHANGED <<draft, versions, early>>
           /\ doubts' = IF ProfileReaders = {} THEN {} ELSE doubts \cap {"crossed"}
<1>1. /\ cache' = NoProfile
      /\ UNCHANGED <<profile, runs>> /\ UNCHANGED <<kind, step>>
      /\ UNCHANGED <<read, mine, cols, dirty>> /\ UNCHANGED <<draft, versions, early>>
      /\ doubts' = IF ProfileReaders = {} THEN {} ELSE doubts \cap {"crossed"}
  BY DEF Expire, session
<1>2. doubts' \subseteq Doubts
  BY <1>1 DEF SessionInv, Types, TypeOK, Doubts
<1>3. QED
  BY <1>1, <1>2, TableTypes, TypesFrom DEF SessionInv, Types, TypeOK, Columns

-----------------------------------------------------------------------------
(* A step is the business of one transaction.                              *)

\* What a transaction may do.
StepOf(t) == (\E k \in MayBe[t] : Start(t, k)) \/ Work(t) \/ Die(t)

\* What the step of a transaction leaves the others.
Apart(t) ==
    \A u \in Txns \ {t} :
       /\ step'[u] = step[u] /\ read'[u] = read[u] /\ mine'[u] = mine[u]
       /\ cols'[u] = cols[u] /\ (u \in dirty' <=> u \in dirty)
       /\ draft'[u] = draft[u] /\ runs'[u] = runs[u]

\* A flush is that of one session.
LEMMA FlushApart ==
    ASSUME Types, NEW t \in Txns, NEW new, Flush(t, new), NEW u \in Txns \ {t}
    PROVE  /\ read'[u] = read[u] /\ mine'[u] = mine[u] /\ cols'[u] = cols[u]
           /\ u \in dirty' <=> u \in dirty
BY DEF Flush, Types, TypeOK

\* Every step of a transaction leaves the others theirs; only the cache does not
\* belong to one.
LEMMA StepsApart ==
    ASSUME SessionInv, NEW t \in Txns, StepOf(t)
    PROVE  Apart(t)
<1> SUFFICES ASSUME NEW u \in Txns \ {t}
             PROVE  /\ step'[u] = step[u] /\ read'[u] = read[u] /\ mine'[u] = mine[u]
                    /\ cols'[u] = cols[u] /\ (u \in dirty' <=> u \in dirty)
                    /\ draft'[u] = draft[u] /\ runs'[u] = runs[u]
  BY DEF Apart
<1>1. Types /\ TypeOK
  BY DEF SessionInv, Types
<1>2. ASSUME NEW next, Goto(t, next)
      PROVE  step'[u] = step[u]
  BY <1>1, <1>2 DEF Goto, TypeOK
<1>3. CASE \E k \in MayBe[t] : Start(t, k)
  <2>1. UNCHANGED <<read, mine, cols, dirty>> /\ UNCHANGED <<draft, runs>>
    BY <1>1, <1>3, StartTypes
  <2>2. step'[u] = step[u]
    BY <1>1, <1>3 DEF Start, TypeOK
  <2>3. QED
    BY <2>1, <2>2
<1>4. CASE Lookup(t) \/ Select(t) \/ Insert(t)
  <2>1. UNCHANGED <<draft, runs>>
    BY <1>1, <1>4, LoadTypes
  <2>2. \E next : Goto(t, next)
    BY <1>4 DEF Lookup, Select, Insert
  <2>3. /\ read'[u] = read[u] /\ mine'[u] = mine[u] /\ cols'[u] = cols[u]
        /\ u \in dirty' <=> u \in dirty
    BY <1>1, <1>4 DEF Lookup, Select, Insert, TypeOK
  <2>4. QED
    BY <1>2, <2>1, <2>2, <2>3
<1>5. CASE Publish(t)
  BY <1>1, <1>2, <1>5, PublishStep
<1>6. CASE Update(t) \/ Learn(t)
  <2>1. UNCHANGED <<draft, runs>>
    BY <1>6 DEF Update, Learn, shared
  <2>2. \E next : Goto(t, next)
    BY <1>6 DEF Update, Learn
  <2>3. \E new : Flush(t, new)
    BY <1>6 DEF Update, Learn
  <2>4. QED
    BY <1>1, <1>2, <2>1, <2>2, <2>3, FlushApart
<1>7. CASE Judge(t) \/ Reject(t)
  <2>1. runs' = runs /\ Goto(t, "commit")
    BY <1>7 DEF Judge, Reject, shared
  <2>2. (\E new : Flush(t, new)) \/ UNCHANGED <<read, mine, cols, dirty>>
    BY <1>7 DEF Judge, Reject, session
  <2>3. draft'[u] = draft[u]
    BY <1>1, <1>7 DEF Judge, Reject, TypeOK
  <2>4. QED
    BY <1>1, <1>2, <2>1, <2>2, <2>3, FlushApart
<1>8. CASE Commit(t) \/ Collide(t) \/ Die(t)
  <2>1. PICK outcome : Close(t, outcome)
    BY <1>8 DEF Commit, Collide, Die, RollBack
  <2>2. runs'[u] = runs[u]
    BY <1>1, <1>8 DEF Commit, Collide, Die, RollBack, shared, TypeOK
  <2>3. QED
    BY <1>1, <2>1, <2>2 DEF Close, TypeOK
<1>9. QED
  BY <1>3, <1>4, <1>5, <1>6, <1>7, <1>8 DEF StepOf, Work

-----------------------------------------------------------------------------
(* The session of every transaction.                                       *)

\* What concerns the transactions that a step leaves alone.
LEMMA SessionElsewhere ==
    ASSUME SessionInv, NEW t \in Txns, Apart(t), profile' = profile \/ profile' # NoProfile,
           NEW u \in Txns \ {t}
    PROVE  Session(u)'
BY DEF SessionInv, Session, Apart, Loaded, Publishing

\* A transaction starts without the row.
LEMMA StartSession ==
    ASSUME SessionInv, NEW t \in Txns, NEW k \in MayBe[t], Start(t, k)
    PROVE  Session(t)' /\ ~Loaded(t) /\ ~Loaded(t)'
<1>1. step[t] = "idle" /\ UNCHANGED <<read, mine, cols, dirty>> /\ profile' = profile
  BY StartTypes DEF SessionInv
<1>2. ~Loaded(t)
  BY <1>1 DEF SessionInv, Session, Steps
<1>3. QED
  BY <1>1, <1>2, StartTypes DEF SessionInv, Session, Loaded, Publishing

\* It has the row after it has selected or inserted it; a cached profile is none.
LEMMA LoadSession ==
    ASSUME SessionInv, NEW t \in Txns, Lookup(t) \/ Select(t) \/ Insert(t)
    PROVE  Session(t)' /\ ~Loaded(t)
<1>1. step[t] \in {"lookup", "select", "insert"} /\ profile' = profile
  BY DEF Lookup, Select, Insert, shared
<1>2. ~Loaded(t) /\ cols[t] = {} /\ t \notin dirty /\ read[t] = NoProfile
  BY <1>1 DEF SessionInv, Session, Loaded
<1>3. Types /\ TypeOK
  BY DEF SessionInv, Types
<1>4. CASE Lookup(t)
  <2>1. UNCHANGED <<read, cols, dirty>>
    BY <1>4 DEF Lookup
  <2>2. CASE Goto(t, "select")
    <3>1. step'[t] = "select"
      BY <1>3, <2>2, GotoTypes DEF Steps
    <3>2. QED
      BY <1>1, <1>2, <2>1, <3>1 DEF Session, Loaded, Publishing
  <2>3. CASE cache # NoProfile /\ Goto(t, AfterProfile(t)) /\ mine' = [mine EXCEPT ![t] = cache]
    <3>1. step'[t] \in {"commit", "judge"}
      BY <1>3, <2>3, GotoTypes, AfterProfileSteps DEF Steps
    <3>2. mine'[t] # NoProfile
      BY <1>3, <2>3 DEF TypeOK
    <3>3. QED
      BY <1>1, <1>2, <2>1, <3>1, <3>2 DEF Session, Loaded, Publishing
  <2>4. QED
    BY <1>4, <2>2, <2>3 DEF Lookup
<1>5. CASE Select(t)
  <2>1. UNCHANGED cols /\ read'[t] = profile /\ mine'[t] = profile
    BY <1>3, <1>5 DEF Select, TypeOK
  <2>2. CASE profile = NoProfile
    <3>1. Goto(t, "insert") /\ UNCHANGED dirty
      BY <1>5, <2>2 DEF Select
    <3>2. step'[t] = "insert"
      BY <1>3, <3>1, GotoTypes DEF Steps
    <3>3. QED
      BY <1>1, <1>2, <2>1, <2>2, <3>1, <3>2 DEF Session, Loaded, Publishing
  <2>3. CASE profile # NoProfile
    <3>1. \E next \in {"set", "publish"} : Goto(t, next)
      BY <1>5, <2>3 DEF Select
    <3>2. step'[t] \in {"set", "publish"}
      BY <1>3, <3>1, GotoTypes DEF Steps
    <3>3. QED
      BY <1>1, <1>2, <2>1, <2>3, <3>2 DEF Session, Loaded, Steps
  <2>4. QED
    BY <1>1, <1>2, <2>2, <2>3
<1>6. CASE Insert(t)
  <2>1. Goto(t, "publish")
    BY <1>6 DEF Insert
  <2>2. step'[t] = "publish"
    BY <1>3, <2>1, GotoTypes DEF Steps
  <2>3. cols'[t] = Columns /\ read'[t] = DefaultProfile /\ mine'[t] = DefaultProfile
    BY <1>3, <1>6 DEF Insert, TypeOK, Columns
  <2>4. DefaultProfile # NoProfile
    BY TableTypes
  <2>5. QED
    BY <1>1, <1>2, <2>2, <2>3, <2>4 DEF Session, Loaded, Steps
<1>7. QED
  BY <1>4, <1>5, <1>6

\* It publishes the row it has.
LEMMA PublishSession ==
    ASSUME SessionInv, NEW t \in Txns, Publish(t)
    PROVE  Session(t)' /\ Loaded(t) /\ Loaded(t)'
<1>1. PICK next \in {"set", "judge", "commit", "learn"} : Goto(t, next)
  BY PublishStep DEF SessionInv
<1>2. step'[t] = next /\ next \in Steps
  <2>1. next \in Steps
    BY DEF Steps
  <2>2. QED
    BY <1>1, <2>1, GotoTypes DEF SessionInv
<1>3. profile' = profile /\ UNCHANGED <<read, mine, cols, dirty>>
  BY PublishStep DEF SessionInv
<1>4. Loaded(t) /\ mine[t] # NoProfile
  BY PublishTypes, TableTypes
<1>5. QED
  BY <1>2, <1>3, <1>4 DEF SessionInv, Session, Loaded, Publishing

\* A step that flushes: what it writes is there already, or is not nothing.
LEMMA FlushSession ==
    ASSUME SessionInv, NEW t \in Txns, NEW new \in Table, Flush(t, new),
           step[t] \in Steps, Loaded(t) => new \in Real,
           NEW next \in {"publish_set", "publish_learnt", "commit"}, Goto(t, next),
           next \in Publishing => Loaded(t), profile' = profile
    PROVE  Session(t)' /\ (Loaded(t)' <=> Loaded(t)) /\ step'[t] = next
<1>1. step'[t] = next /\ next \in Steps \ {"lookup", "select", "insert"}
  <2>1. next \in Steps \ {"lookup", "select", "insert"}
    BY DEF Steps
  <2>2. QED
    BY <2>1, GotoTypes DEF SessionInv
<1>2. /\ mine'[t] = new /\ read'[t] = IF Loaded(t) THEN new ELSE NoProfile
      /\ t \notin dirty' /\ cols'[t] \subseteq Columns
  BY FlushTypes DEF SessionInv
<1>3. cols[t] \subseteq cols'[t] /\ (~Loaded(t) => cols'[t] = cols[t])
  BY FlushColumns DEF SessionInv
<1>4. Loaded(t) => new # NoProfile
  BY TableTypes
<1>5. QED
  BY <1>1, <1>2, <1>3, <1>4 DEF SessionInv, Session, Loaded, Publishing

\* What updates, learning and reviews write: they keep the row if they have it.
LEMMA WorkSession ==
    ASSUME SessionInv, NEW t \in Txns, Update(t) \/ Learn(t) \/ Judge(t) \/ Reject(t)
    PROVE  /\ Session(t)' /\ (Loaded(t)' <=> Loaded(t)) /\ Elsewhere
           /\ step[t] \in {"set", "learn", "judge", "lookup"}
           /\ step'[t] \in {"publish_set", "publish_learnt", "commit"}
<1>1. mine[t] \in Table /\ (Loaded(t) => mine[t] \in Real)
  BY TableTypes DEF SessionInv, Session, Types, Loaded
<1>2. {"set", "learn", "judge", "lookup"} \subseteq Steps
  BY DEF Steps
<1>3. CASE Update(t)
  <2>1. PICK new \in Real, next \in {"publish_set", "publish_learnt"} :
           /\ step[t] = "set" /\ Loaded(t) /\ Flush(t, new) /\ Goto(t, next) /\ Elsewhere
    BY <1>3, UpdateStep
  <2>2. QED
    BY <1>2, <2>1, TableTypes, FlushSession DEF Elsewhere
<1>4. CASE Learn(t)
  <2>1. PICK new \in Real, next \in {"commit", "publish_learnt"} :
           step[t] = "learn" /\ Loaded(t) /\ Flush(t, new) /\ Goto(t, next) /\ Elsewhere
    BY <1>4, LearnStep
  <2>2. QED
    BY <1>2, <2>1, TableTypes, FlushSession DEF Elsewhere
<1>5. CASE Judge(t) \/ Reject(t)
  <2>1. /\ step[t] \in {"judge", "lookup"} /\ Goto(t, "commit") /\ Elsewhere
        /\ \/ Flush(t, mine[t])
           \/ UNCHANGED <<read, mine, cols, dirty>> /\ step[t] = "lookup"
    BY <1>5, JudgeStep
  <2>2. "commit" \notin Publishing /\ step'[t] = "commit"
    <3>1. "commit" \notin Publishing /\ "commit" \in Steps
      BY DEF Publishing, Steps
    <3>2. QED
      BY <2>1, <3>1, GotoTypes DEF SessionInv
  <2>3. CASE Flush(t, mine[t])
    BY <1>1, <1>2, <2>1, <2>2, <2>3, FlushSession DEF Elsewhere
  <2>4. CASE UNCHANGED <<read, mine, cols, dirty>> /\ step[t] = "lookup"
    <3>1. ~Loaded(t)
      BY <2>4 DEF SessionInv, Session
    <3>2. QED
      BY <2>1, <2>2, <2>4, <3>1 DEF SessionInv, Session, Loaded, Publishing
  <2>5. QED
    BY <2>1, <2>3, <2>4
<1>6. QED
  BY <1>3, <1>4, <1>5

\* The end of a transaction, by a commit or not.
LEMMA CloseSession ==
    ASSUME SessionInv, NEW t \in Txns, NEW outcome \in Ended, Close(t, outcome)
    PROVE  Session(t)' /\ ~Loaded(t)'
<1>1. /\ step'[t] = outcome /\ read'[t] = NoProfile /\ cols'[t] = {} /\ t \notin dirty'
  BY CloseTypes DEF SessionInv
<1>2. outcome \notin Publishing \cup {"set", "learn", "judge"}
  BY DEF Ended, Publishing
<1>3. QED
  BY <1>1, <1>2 DEF Session, Loaded

\* A transaction keeps the profile, or commits one.
LEMMA OwnSession ==
    ASSUME SessionInv, NEW t \in Txns, StepOf(t)
    PROVE  /\ Types' /\ Session(t)' /\ (profile' = profile \/ profile' # NoProfile)
           /\ Loaded(t)' => Loaded(t) \/ Select(t) \/ Insert(t)
           /\ "crossed" \in doubts => "crossed" \in doubts'
           /\ profile' # profile => Commit(t)
<1>1. CASE \E k \in MayBe[t] : Start(t, k)
  BY <1>1, StartSession, StartTypes DEF SessionInv
<1>2. CASE Lookup(t) \/ Select(t) \/ Insert(t)
  <2>1. Types' /\ Session(t)' /\ profile' = profile
        /\ ("crossed" \in doubts => "crossed" \in doubts')
    BY <1>2, LoadSession, LoadTypes DEF SessionInv
  <2>2. Loaded(t)' => Loaded(t) \/ Select(t) \/ Insert(t)
    BY <1>2 DEF Lookup, Loaded
  <2>3. QED
    BY <2>1, <2>2
<1>3. CASE Publish(t)
  <2>1. Types' /\ Session(t)' /\ Loaded(t)
    BY <1>3, PublishSession, PublishTypes
  <2>2. profile' = profile /\ ("crossed" \in doubts => "crossed" \in doubts')
    BY <1>3, PublishStep DEF SessionInv
  <2>3. QED
    BY <2>1, <2>2
<1>4. CASE Update(t) \/ Learn(t) \/ Judge(t) \/ Reject(t)
  BY <1>4, WorkSession, WorkTypes DEF Elsewhere
<1>5. CASE Commit(t)
  <2>1. profile' = profile \/ profile' # NoProfile
    BY <1>5, CommitProfile, TableTypes
  <2>2. QED
    BY <1>5, <2>1, CloseSession, CommitTypes
<1>6. CASE Collide(t) \/ Die(t)
  <2>1. PICK outcome \in Ended :
           /\ Close(t, outcome) /\ UNCHANGED <<profile, cache, runs, early>>
           /\ doubts' = IF cols[t] = {} THEN doubts ELSE doubts \cup {"spoiled"}
    BY <1>6, RollBackStep
  <2>2. QED
    BY <1>6, <2>1, CloseSession, RollBackTypes
<1>7. QED
  BY <1>1, <1>2, <1>3, <1>4, <1>5, <1>6 DEF Work, StepOf

\* Every step keeps every session in order, and the table never loses its row.
LEMMA SessionStep ==
    ASSUME SessionInv, Next
    PROVE  SessionInv' /\ (profile' = profile \/ profile' # NoProfile)
<1>1. CASE Expire
  <2>1. Types' /\ UNCHANGED <<profile, step, read, mine, cols, dirty>>
    BY <1>1, ExpireTypes
  <2>2. \A u \in Txns : Session(u)'
    BY <2>1 DEF SessionInv, Session, Loaded
  <2>3. QED
    BY <2>1, <2>2 DEF SessionInv
<1>2. ASSUME NEW t \in Txns, StepOf(t)
      PROVE  SessionInv' /\ (profile' = profile \/ profile' # NoProfile)
  <2>1. Types' /\ Session(t)' /\ (profile' = profile \/ profile' # NoProfile) /\ Apart(t)
    BY <1>2, OwnSession, StepsApart
  <2>2. ASSUME NEW u \in Txns PROVE Session(u)'
    BY <2>1, <2>2, SessionElsewhere
  <2>3. QED
    BY <2>1, <2>2 DEF SessionInv
<1>3. QED
  BY <1>1, <1>2 DEF Next, StepOf

-----------------------------------------------------------------------------
(* One transaction at a time has the row of the profile, and what it has   *)
(* not written of it is as committed, unless two that have read it are     *)
(* known to have crossed.                                                  *)

Sole == \A t, u \in Txns : Loaded(t) /\ Loaded(u) => t = u

Agrees(t) ==
    Loaded(t) => /\ "threshold" \notin cols[t] => mine[t].threshold = profile.threshold
                 /\ "weights" \notin cols[t] => mine[t].weights = profile.weights

AloneInv == "crossed" \notin doubts => Sole /\ \A t \in Txns : Agrees(t)

\* A transaction that loads the row is the only one that has it, or crosses another.
LEMMA LoadsAlone ==
    ASSUME SessionInv, NEW t \in Txns, Select(t) \/ Insert(t), Loaded(t)',
           "crossed" \notin doubts'
    PROVE  \A u \in Txns : ~Loaded(u)
<1>1. ~Loaded(t)
  BY LoadSession
<1>2. CASE Select(t)
  <2>1. ProfileReaders \ {t} = {}
    BY <1>2 DEF Select
  <2>2. QED
    BY <1>1, <2>1 DEF ProfileReaders, SessionInv, Session, Loaded, Open
<1>3. CASE Insert(t)
  <2>1. profile = NoProfile /\ ~ProfileLocked(t)
    BY <1>3 DEF Insert
  <2>2. QED
    BY <1>1, <2>1 DEF ProfileLocked, SessionInv, Session, Loaded, Open, Columns
<1>4. QED
  BY <1>2, <1>3

\* A flush writes all that it changes.
LEMMA FlushAgrees ==
    ASSUME SessionInv, NEW t \in Txns, NEW new \in Table, Flush(t, new), Agrees(t),
           Loaded(t)' <=> Loaded(t), profile' = profile
    PROVE  Agrees(t)'
<1>1. CASE ~Loaded(t)
  BY <1>1 DEF Agrees
<1>2. CASE Loaded(t)
  <2>1. mine'[t] = new /\ mine[t] = read[t]
    BY <1>2, FlushTypes DEF SessionInv, Session
  <2>2. /\ cols[t] \subseteq cols'[t]
        /\ "threshold" \notin cols'[t] => new.threshold = mine[t].threshold
        /\ "weights" \notin cols'[t] => new.weights = mine[t].weights
    BY <1>2, <2>1, FlushColumns DEF SessionInv
  <2>3. /\ "threshold" \notin cols'[t] => mine'[t].threshold = profile.threshold
        /\ "weights" \notin cols'[t] => mine'[t].weights = profile.weights
    BY <1>2, <2>1, <2>2 DEF Agrees
  <2>4. QED
    BY <2>3 DEF Agrees
<1>3. QED
  BY <1>1, <1>2

\* A transaction loads what is committed, and writes what it changes.
LEMMA OwnAgrees ==
    ASSUME SessionInv, NEW t \in Txns, StepOf(t), Agrees(t)
    PROVE  Agrees(t)'
<1>1. Types /\ TypeOK
  BY DEF SessionInv, Types
<1>2. CASE ~Loaded(t)'
  BY <1>2 DEF Agrees
<1>3. CASE Select(t) \/ Insert(t)
  <2>1. profile' = profile
    BY <1>3 DEF Select, Insert, shared
  <2>2. mine'[t] = profile \/ cols'[t] = Columns
    BY <1>1, <1>3 DEF Select, Insert, TypeOK, Columns
  <2>3. QED
    BY <2>1, <2>2 DEF Agrees, Columns
<1>4. CASE Publish(t)
  BY <1>1, <1>4, PublishStep DEF Agrees, Loaded
<1>5. CASE Update(t) \/ Learn(t) \/ Judge(t) \/ Reject(t)
  <2>1. (Loaded(t)' <=> Loaded(t)) /\ profile' = profile
    BY <1>5, WorkSession DEF Elsewhere
  <2>2. \/ \E new \in Table : Flush(t, new)
        \/ UNCHANGED <<read, mine, cols, dirty>>
    <3>1. Real \subseteq Table /\ mine[t] \in Table
      BY <1>1, TableTypes DEF Types
    <3>2. QED
      BY <1>5, <3>1, UpdateStep, LearnStep, JudgeStep
  <2>3. CASE UNCHANGED <<read, mine, cols, dirty>>
    BY <2>1, <2>3 DEF Agrees, Loaded
  <2>4. QED
    BY <2>1, <2>2, <2>3, FlushAgrees
<1>6. CASE \E outcome \in Ended : Close(t, outcome)
  BY <1>6, CloseSession DEF Agrees
<1>7. CASE Commit(t) \/ Collide(t) \/ Die(t)
  BY <1>6, <1>7, CommitTypes, RollBackStep
<1>8. CASE (\E k \in MayBe[t] : Start(t, k)) \/ Lookup(t)
  <2>1. ~Loaded(t)'
    BY <1>8, StartSession, LoadSession DEF Lookup, Loaded
  <2>2. QED
    BY <1>2, <2>1
<1>9. QED
  BY <1>3, <1>4, <1>5, <1>7, <1>8 DEF StepOf, Work

\* No step makes two have the row, or one have another row than is committed,
\* unless they have crossed.
LEMMA AloneStep ==
    ASSUME SessionInv, AloneInv, Next
    PROVE  AloneInv'
<1>1. CASE Expire
  <2>1. UNCHANGED <<profile, step, read, mine, cols>>
        /\ doubts' = IF ProfileReaders = {} THEN {} ELSE doubts \cap {"crossed"}
    BY <1>1, ExpireTypes
  <2>2. CASE ProfileReaders = {}
    <3>1. \A t \in Txns : ~Loaded(t)
      BY <2>2 DEF ProfileReaders, SessionInv, Session, Loaded, Open
    <3>2. \A t \in Txns : ~Loaded(t)'
      BY <2>1, <3>1 DEF Loaded
    <3>3. QED
      BY <3>2 DEF AloneInv, Sole, Agrees
  <2>3. CASE ProfileReaders # {}
    <3>1. "crossed" \in doubts' <=> "crossed" \in doubts
      BY <2>1, <2>3
    <3>2. QED
      BY <2>1, <3>1 DEF AloneInv, Sole, Agrees, Loaded
  <2>4. QED
    BY <2>2, <2>3
<1>2. ASSUME NEW t \in Txns, StepOf(t), "crossed" \notin doubts'
      PROVE  Sole' /\ \A u \in Txns : Agrees(u)'
  <2>1. Apart(t) /\ \A u \in Txns \ {t} : Loaded(u)' <=> Loaded(u)
    BY <1>2, StepsApart DEF Apart, Loaded
  <2>2. /\ Loaded(t)' => Loaded(t) \/ Select(t) \/ Insert(t)
        /\ "crossed" \notin doubts
        /\ profile' # profile => Commit(t)
    BY <1>2, OwnSession
  <2>3. Sole /\ \A u \in Txns : Agrees(u)
    BY <2>2 DEF AloneInv
  <2>4. Loaded(t)' /\ ~Loaded(t) => \A u \in Txns : ~Loaded(u)
    BY <1>2, <2>2, LoadsAlone
  <2>5. Sole'
    BY <2>1, <2>3, <2>4 DEF Sole
  <2>6. ASSUME NEW u \in Txns PROVE Agrees(u)'
    <3>1. CASE u = t
      BY <1>2, <2>3, <3>1, OwnAgrees
    <3>2. CASE u # t /\ profile' = profile
      <4>1. mine'[u] = mine[u] /\ cols'[u] = cols[u] /\ (Loaded(u)' <=> Loaded(u))
        BY <2>1, <3>2 DEF Apart
      <4>2. QED
        BY <2>3, <3>2, <4>1 DEF Agrees
    <3>3. CASE u # t /\ profile' # profile
      <4>1. Loaded(t)
        BY <2>2, <3>3, CommitProfile
      <4>2. ~Loaded(u)'
        BY <2>1, <2>3, <3>3, <4>1 DEF Sole
      <4>3. QED
        BY <4>2 DEF Agrees
    <3>4. QED
      BY <3>1, <3>2, <3>3
  <2>7. QED
    BY <2>5, <2>6
<1>3. QED
  BY <1>1, <1>2 DEF Next, StepOf, AloneInv

-----------------------------------------------------------------------------
(* What the cache has of the profile.                                      *)

\* Nobody has the row: the cache says what is committed.
Settled == (\A t \in Txns : ~Loaded(t)) => cache \in {NoProfile, Serialized(profile)}

\* Somebody has it: the cache says what the session has, unless it has written and
\* is about to publish.
Follows(t) ==
    Loaded(t) /\ (step[t] \notin Publishing \/ cols[t] = {}) =>
        cache \in {NoProfile, Serialized(mine[t])}

CacheInv == doubts = {} => Settled /\ \A t \in Txns : Follows(t)

\* The transaction at work has the row and the cache follows it, or has nothing to
\* do with it, or gives it up with the cache as committed.
OwnCache(t) ==
    \/ Loaded(t)' /\ Follows(t)'
    \/ ~Loaded(t)' /\ ~Loaded(t) /\ UNCHANGED <<profile, cache>>
    \/ ~Loaded(t)' /\ Loaded(t) /\ cache' \in {NoProfile, Serialized(profile')}

\* The row is loaded from the table by one who then is alone with it.
LEMMA LoadCached ==
    ASSUME SessionInv, Settled, NEW t \in Txns, "crossed" \notin doubts',
           (\E k \in MayBe[t] : Start(t, k)) \/ Lookup(t) \/ Select(t) \/ Insert(t)
    PROVE  OwnCache(t)
<1>1. UNCHANGED <<profile, cache>>
  BY DEF Start, Lookup, Select, Insert, shared
<1>2. ~Loaded(t)
  BY LoadSession, StartSession
<1>3. CASE ~Loaded(t)'
  BY <1>1, <1>2, <1>3 DEF OwnCache
<1>4. CASE Loaded(t)'
  <2>1. Select(t) \/ Insert(t)
    BY <1>2, <1>4, StartSession DEF Lookup, Loaded
  <2>2. \A u \in Txns : ~Loaded(u)
    BY <1>4, <2>1, LoadsAlone
  <2>3. Types /\ TypeOK
    BY DEF SessionInv, Types
  <2>4. CASE Select(t)
    <3>1. mine'[t] = profile
      BY <2>3, <2>4 DEF Select, TypeOK
    <3>2. cache \in {NoProfile, Serialized(profile)}
      BY <2>2 DEF Settled
    <3>3. QED
      BY <1>1, <1>4, <3>1, <3>2 DEF OwnCache, Follows, Serialized, Gap
  <2>5. CASE Insert(t)
    <3>1. cols'[t] = Columns /\ step'[t] = "publish"
      BY <2>3, <2>5, GotoTypes DEF Insert, TypeOK, Columns, Steps
    <3>2. QED
      BY <1>4, <3>1 DEF OwnCache, Follows, Columns, Publishing
  <2>6. QED
    BY <2>1, <2>4, <2>5
<1>5. QED
  BY <1>3, <1>4

\* Publishing makes the cache what the session has; failing to do so leaves a doubt,
\* unless there is nothing new to publish.
LEMMA PublishCached ==
    ASSUME SessionInv, NEW t \in Txns, Publish(t), doubts' = {}, doubts = {} => Follows(t)
    PROVE  OwnCache(t)
<1>1. /\ \/ cache' = Serialized(mine[t])
         \/ cache' = cache /\ cols[t] = {} /\ doubts = {}
      /\ step[t] \in Publishing /\ UNCHANGED <<read, mine, cols>>
  BY PublishStep DEF SessionInv
<1>2. Loaded(t) /\ Loaded(t)'
  BY PublishSession
<1>3. cache' \in {NoProfile, Serialized(mine[t])}
  BY <1>1, <1>2 DEF Follows
<1>4. QED
  BY <1>1, <1>2, <1>3 DEF OwnCache, Follows, Serialized, Gap

\* A step that flushes: it publishes what it has changed in the next.
LEMMA FlushCached ==
    ASSUME SessionInv, NEW t \in Txns, NEW new \in Table, Flush(t, new), Follows(t),
           Loaded(t) => new \in Real, Loaded(t)' <=> Loaded(t), step[t] \notin Publishing,
           step'[t] \in Publishing \/ new = mine[t],
           UNCHANGED <<profile, cache>>
    PROVE  OwnCache(t)
<1>1. CASE ~Loaded(t)
  BY <1>1 DEF OwnCache
<1>2. CASE Loaded(t)
  <2>1. mine'[t] = new /\ mine[t] = read[t] /\ mine[t] \in Real
    BY <1>2, FlushTypes, TableTypes DEF SessionInv, Session, Loaded, Types
  <2>2. /\ "threshold" \notin cols'[t] => new.threshold = mine[t].threshold
        /\ "weights" \notin cols'[t] => new.weights = mine[t].weights
    BY <1>2, <2>1, FlushColumns DEF SessionInv
  <2>3. cache \in {NoProfile, Serialized(mine[t])}
    BY <1>2 DEF Follows
  <2>4. ASSUME step'[t] \notin Publishing \/ cols'[t] = {}
        PROVE  new = mine[t]
    <3>1. CASE cols'[t] = {}
      <4>1. new.threshold = mine[t].threshold /\ new.weights = mine[t].weights
        BY <2>2, <3>1
      <4>2. new \in Real
        BY <1>2
      <4>3. QED
        BY <2>1, <4>1, <4>2 DEF Real
    <3>2. CASE cols'[t] # {}
      BY <2>4, <3>2
    <3>3. QED
      BY <3>1, <3>2
  <2>5. Follows(t)'
    BY <2>1, <2>3, <2>4 DEF Follows, Serialized, Gap
  <2>6. QED
    BY <1>2, <2>5 DEF OwnCache
<1>3. QED
  BY <1>1, <1>2

\* Updates and learning publish next, and a review changes nothing.
LEMMA WorkCached ==
    ASSUME SessionInv, NEW t \in Txns, Follows(t), Update(t) \/ Learn(t) \/ Judge(t) \/ Reject(t)
    PROVE  OwnCache(t)
<1>1. /\ Loaded(t)' <=> Loaded(t)
      /\ step[t] \notin Publishing /\ Elsewhere
  BY WorkSession DEF Publishing
<1>2. mine[t] \in Table /\ (Loaded(t) => mine[t] \in Real)
  BY TableTypes DEF SessionInv, Session, Types, Loaded
<1>3. UNCHANGED <<profile, cache>>
  BY <1>1 DEF Elsewhere
<1>4. ASSUME NEW next \in {"publish_set", "publish_learnt"}, Goto(t, next)
      PROVE  step'[t] \in Publishing
  <2>1. next \in Steps /\ next \in Publishing
    BY DEF Steps, Publishing
  <2>2. QED
    BY <1>4, <2>1, GotoTypes DEF SessionInv
<1>5. CASE Update(t)
  <2>1. PICK new \in Real, next \in {"publish_set", "publish_learnt"} :
           Flush(t, new) /\ Goto(t, next)
    BY <1>5, UpdateStep
  <2>2. QED
    BY <1>1, <1>3, <1>4, <2>1, TableTypes, FlushCached
<1>6. CASE Learn(t)
  <2>1. PICK new \in Real :
           Flush(t, new) /\ (new = mine[t] \/ Goto(t, "publish_learnt"))
    BY <1>6, LearnStep
  <2>2. QED
    BY <1>1, <1>3, <1>4, <2>1, TableTypes, FlushCached
<1>7. CASE Judge(t) \/ Reject(t)
  <2>1. Flush(t, mine[t]) \/ (UNCHANGED <<read, mine, cols, dirty>> /\ step[t] = "lookup")
    BY <1>7, JudgeStep
  <2>2. CASE step[t] = "lookup"
    BY <1>1, <1>3, <2>2 DEF OwnCache, SessionInv, Session
  <2>3. QED
    BY <1>1, <1>2, <1>3, <2>1, <2>2, FlushCached
<1>8. QED
  BY <1>5, <1>6, <1>7

\* A commit makes the table what has been published.
LEMMA CommitCached ==
    ASSUME SessionInv, NEW t \in Txns, Agrees(t), Follows(t), Commit(t)
    PROVE  OwnCache(t)
<1>1. Close(t, "done") /\ "done" \in Ended /\ cache' = cache /\ step[t] \notin Publishing
  BY CommitTypes DEF Publishing
<1>2. ~Loaded(t)'
  BY <1>1, CloseSession
<1>3. CASE ~Loaded(t)
  BY <1>1, <1>2, <1>3, CommitProfile DEF OwnCache
<1>4. CASE Loaded(t)
  <2>1. profile' = mine[t]
    BY <1>4, CommitProfile DEF Agrees
  <2>2. cache \in {NoProfile, Serialized(mine[t])}
    BY <1>1, <1>4 DEF Follows
  <2>3. cache' \in {NoProfile, Serialized(profile')}
    BY <1>1, <2>1, <2>2 DEF Serialized, Gap
  <2>4. QED
    BY <1>2, <1>4, <2>3 DEF OwnCache
<1>5. QED
  BY <1>3, <1>4

\* A transaction rolled back before it has written anything.
LEMMA RollBackCached ==
    ASSUME SessionInv, NEW t \in Txns, Agrees(t), Follows(t), Collide(t) \/ Die(t), doubts' = {}
    PROVE  OwnCache(t)
<1>1. PICK outcome \in Ended :
         Close(t, outcome) /\ UNCHANGED <<profile, cache>> /\ cols[t] = {}
  BY RollBackStep
<1>2. ~Loaded(t)'
  BY <1>1, CloseSession
<1>3. CASE ~Loaded(t)
  BY <1>1, <1>2, <1>3 DEF OwnCache
<1>4. CASE Loaded(t)
  <2>1. /\ cache \in {NoProfile, Serialized(mine[t])}
        /\ mine[t].threshold = profile.threshold /\ mine[t].weights = profile.weights
    BY <1>1, <1>4 DEF Follows, Agrees
  <2>2. mine[t] \in Real /\ profile \in Real
    BY <1>1, <1>4, TableTypes DEF SessionInv, Session, Loaded, Types, Columns
  <2>3. mine[t] = profile
    BY <2>1, <2>2 DEF Real
  <2>4. cache' \in {NoProfile, Serialized(profile')}
    BY <1>1, <2>1, <2>3 DEF Serialized, Gap
  <2>5. QED
    BY <1>2, <1>4, <2>4 DEF OwnCache
<1>5. QED
  BY <1>3, <1>4

\* Only a publication that succeeds takes a doubt away.
LEMMA DoubtsGrow ==
    ASSUME SessionInv, NEW t \in Txns, StepOf(t), ~Publish(t)
    PROVE  doubts \subseteq doubts'
<1>1. CASE \E k \in MayBe[t] : Start(t, k)
  BY <1>1, StartTypes DEF SessionInv
<1>2. CASE Lookup(t) \/ Select(t) \/ Insert(t)
  BY <1>2, LoadTypes DEF SessionInv
<1>3. CASE Update(t) \/ Learn(t) \/ Judge(t) \/ Reject(t)
  BY <1>3, WorkSession DEF Elsewhere
<1>4. CASE Commit(t)
  BY <1>4, CommitTypes
<1>5. CASE Collide(t) \/ Die(t)
  BY <1>5, RollBackStep
<1>6. QED
  BY <1>1, <1>2, <1>3, <1>4, <1>5 DEF StepOf, Work

\* Every step keeps the cache in line.
LEMMA CacheStep ==
    ASSUME SessionInv, AloneInv, CacheInv, Next
    PROVE  CacheInv'
<1>1. CASE Expire
  <2>1. cache' = NoProfile
    BY <1>1, ExpireTypes
  <2>2. QED
    BY <2>1 DEF CacheInv, Settled, Follows
<1>2. ASSUME NEW t \in Txns, StepOf(t), doubts' = {}
      PROVE  Settled' /\ \A u \in Txns : Follows(u)'
  <2>1. Apart(t) /\ AloneInv' /\ "crossed" \notin doubts'
    BY <1>2, StepsApart, AloneStep DEF Next, StepOf
  <2>2. Sole' /\ Agrees(t)
    BY <2>1, <1>2, OwnSession DEF AloneInv
  <2>3. ~Publish(t) => doubts = {}
    BY <1>2, DoubtsGrow
  <2>4. doubts = {} => Settled /\ \A u \in Txns : Follows(u)
    BY DEF CacheInv
  <2>5. OwnCache(t)
    <3>1. CASE Publish(t)
      BY <1>2, <2>4, <3>1, PublishCached
    <3>2. CASE ~Publish(t)
      <4>1. Settled /\ Follows(t)
        BY <2>3, <2>4, <3>2
      <4>2. QED
        BY <1>2, <2>1, <2>2, <3>2, <4>1, LoadCached, WorkCached, CommitCached, RollBackCached
        DEF StepOf, Work
    <3>3. QED
      BY <3>1, <3>2
  <2>6. \A u \in Txns \ {t} : Loaded(u)' <=> Loaded(u)
    BY <2>1 DEF Apart, Loaded
  <2>7. CASE Loaded(t)'
    <3>1. Follows(t)' /\ \A u \in Txns \ {t} : ~Loaded(u)'
      BY <2>2, <2>5, <2>7 DEF OwnCache, Sole
    <3>2. QED
      BY <2>7, <3>1 DEF Settled, Follows
  <2>8. CASE ~Loaded(t)' /\ ~Loaded(t)
    <3>1. UNCHANGED <<profile, cache>>
      BY <2>5, <2>8 DEF OwnCache
    <3>2. Settled /\ \A u \in Txns : Follows(u)
      BY <2>3, <2>4, <2>8, PublishSession
    <3>3. Settled'
      BY <2>6, <2>8, <3>1, <3>2 DEF Settled, Serialized, Gap
    <3>4. ASSUME NEW u \in Txns, Loaded(u)' PROVE Follows(u)'
      <4>1. u # t /\ Loaded(u)
        BY <2>6, <2>8, <3>4
      <4>2. step'[u] = step[u] /\ mine'[u] = mine[u] /\ cols'[u] = cols[u]
        BY <2>1, <4>1 DEF Apart
      <4>3. QED
        BY <3>1, <3>2, <4>1, <4>2 DEF Follows, Serialized, Gap
    <3>5. \A u \in Txns : ~Loaded(u)' => Follows(u)'
      BY DEF Follows
    <3>6. QED
      BY <3>3, <3>4, <3>5
  <2>9. CASE ~Loaded(t)' /\ Loaded(t)
    <3>1. cache' \in {NoProfile, Serialized(profile')}
      BY <2>5, <2>9 DEF OwnCache
    <3>2. Sole
      BY <2>1, <1>2, OwnSession DEF AloneInv
    <3>3. \A u \in Txns : ~Loaded(u)'
      BY <2>6, <2>9, <3>2 DEF Sole
    <3>4. QED
      BY <3>1, <3>3 DEF Settled, Follows, Serialized, Gap
  <2>10. QED
    BY <2>7, <2>8, <2>9
<1>3. QED
  BY <1>1, <1>2 DEF Next, StepOf, CacheInv

-----------------------------------------------------------------------------
(* Where every threshold and all weights come from.                        *)

\* What transactions have ended with, and the default.
Ends == {DefaultProfile} \cup versions

\* Some profile of a set has the threshold that is in force with p, or its weights.
ThresholdFrom(p, S) == \E q \in S : Gap(q) = Gap(p)
WeightsFrom(p, S) == \E q \in S : q.weights = p.weights
From(p, S) == ThresholdFrom(p, S) /\ WeightsFrom(p, S)

\* A row that is no verdict on a session, or follows from what a set has.
Grounded(r, S) ==
    r.reason = "session" =>
        \E p \in Real, d \in Decisions : From(p, S) /\ r = SessionReview(p, d)

\* What a transaction has not written of the row, and what it has not yet changed
\* since it inserted it, are from the ends of others.
Untouched(t) ==
    Loaded(t) =>
       /\ "threshold" \notin cols[t] \/ step[t] \in {"publish", "set"}
          => ThresholdFrom(mine[t], Ends)
       /\ "weights" \notin cols[t] \/ step[t] \in {"publish", "set", "publish_set", "learn"}
          => WeightsFrom(mine[t], Ends)

GroundInv ==
    /\ profile # NoProfile => From(profile, Ends)
    /\ cache # NoProfile => From(cache, Grounds)
    /\ \A t \in Txns : /\ mine[t] # NoProfile => From(mine[t], Grounds)
                       /\ Untouched(t)
                       /\ Grounded(draft[t], Grounds) /\ Grounded(runs[t], Grounds)

\* All that one set has another has, column by column.
Covers(later, S) == \A q \in S : From(q, later)

\* What is from the one is from the other,
LEMMA CoversAll ==
    ASSUME NEW S, NEW later, Covers(later, S)
    PROVE  /\ \A p : ThresholdFrom(p, S) => ThresholdFrom(p, later)
           /\ \A p : WeightsFrom(p, S) => WeightsFrom(p, later)
           /\ \A p : From(p, S) => From(p, later)
           /\ \A r : Grounded(r, S) => Grounded(r, later)
<1>1. \A p : ThresholdFrom(p, S) => ThresholdFrom(p, later)
  BY DEF ThresholdFrom, Covers, From
<1>2. \A p : WeightsFrom(p, S) => WeightsFrom(p, later)
  BY DEF WeightsFrom, Covers, From
<1>3. \A p : From(p, S) => From(p, later)
  BY <1>1, <1>2 DEF From
<1>4. \A r : Grounded(r, S) => Grounded(r, later)
  BY <1>3 DEF Grounded
<1>5. QED
  BY <1>1, <1>2, <1>3, <1>4

\* ... and a set covers its subsets.
LEMMA CoversSubset ==
    ASSUME NEW S, NEW later, S \subseteq later
    PROVE  Covers(later, S)
BY DEF Covers, From, ThresholdFrom, WeightsFrom

\* The profile a session has is from its own writing or from the ends of others.
LEMMA LoadedFrom ==
    ASSUME NEW t \in Txns, Loaded(t), Untouched(t)
    PROVE  From(mine[t], Ends \cup {mine[u] : u \in {v \in Txns : cols[v] # {}}})
<1>1. CASE cols[t] # {}
  BY <1>1 DEF From, ThresholdFrom, WeightsFrom
<1>2. CASE cols[t] = {}
  <2>1. From(mine[t], Ends)
    BY <1>2 DEF Untouched, From
  <2>2. QED
    BY <2>1, CoversSubset, CoversAll
<1>3. QED
  BY <1>1, <1>2

\* What may be at work is there beside the ends.
LEMMA GroundsAre ==
    Grounds = Ends \cup {mine[u] : u \in {v \in Txns : cols[v] # {}}}
BY DEF Grounds, Ends

\* What a step of a transaction keeps of the row.
LEMMA OwnUntouched ==
    ASSUME SessionInv, GroundInv, NEW t \in Txns, StepOf(t), Ends \subseteq Ends'
    PROVE  Untouched(t)'
<1>1. Types /\ TypeOK
  BY DEF SessionInv, Types
<1>2. CASE ~Loaded(t)'
  BY <1>2 DEF Untouched
<1>3. /\ \A p : ThresholdFrom(p, Ends) => ThresholdFrom(p, Ends')
      /\ \A p : WeightsFrom(p, Ends) => WeightsFrom(p, Ends')
      /\ \A p : From(p, Ends) => From(p, Ends')
  BY CoversSubset, CoversAll
<1>4. CASE Select(t) \/ Insert(t)
  <2>1. mine'[t] \in {profile, DefaultProfile}
    BY <1>1, <1>4 DEF Select, Insert, TypeOK
  <2>2. CASE mine'[t] = NoProfile
    <3>1. ~Loaded(t)'
      BY <1>1, <1>4, <2>2, TableTypes DEF Select, Insert, Loaded, TypeOK
    <3>2. QED
      BY <1>2, <3>1
  <2>3. From(DefaultProfile, Ends)
    BY DEF From, ThresholdFrom, WeightsFrom, Ends
  <2>4. CASE mine'[t] # NoProfile
    <3>1. From(mine'[t], Ends)
      BY <2>1, <2>3, <2>4 DEF GroundInv
    <3>2. From(mine'[t], Ends')
      BY <1>3, <3>1
    <3>3. QED
      BY <3>2 DEF Untouched, From
  <2>5. QED
    BY <2>2, <2>4
<1>5. CASE Publish(t)
  <2>1. PICK next \in {"set", "judge", "commit", "learn"} :
           /\ step'[t] = next
           /\ next = "set" => step[t] = "publish"
           /\ next = "learn" => step[t] = "publish_set"
    <3>1. PICK next \in {"set", "judge", "commit", "learn"} :
             /\ Goto(t, next)
             /\ next = "set" => step[t] = "publish"
             /\ next = "learn" => step[t] = "publish_set"
      BY <1>1, <1>5, PublishStep
    <3>2. step'[t] = next
      <4>1. next \in Steps
        BY DEF Steps
      <4>2. QED
        BY <1>1, <3>1, <4>1, GotoTypes
    <3>3. QED
      BY <3>1, <3>2
  <2>2. UNCHANGED <<read, mine, cols>> /\ Loaded(t)
    BY <1>1, <1>5, PublishStep, PublishSession
  <2>3. /\ "threshold" \notin cols[t] \/ step'[t] \in {"publish", "set"}
           => ThresholdFrom(mine[t], Ends)
        /\ "weights" \notin cols[t] \/ step'[t] \in {"publish", "set", "publish_set", "learn"}
           => WeightsFrom(mine[t], Ends)
    BY <2>1, <2>2 DEF GroundInv, Untouched
  <2>4. QED
    BY <1>3, <2>2, <2>3 DEF Untouched
<1>6. ASSUME NEW new \in Table, Flush(t, new), Loaded(t),
             step'[t] \in {"publish_set", "publish_learnt", "commit"},
             step'[t] = "publish_set" => WeightsFrom(new, Ends),
             step[t] \in {"set", "learn", "judge"}
      PROVE  Untouched(t)'
  <2>1. mine'[t] = new /\ mine[t] = read[t]
    BY <1>6, FlushTypes DEF SessionInv, Session
  <2>2. /\ cols[t] \subseteq cols'[t]
        /\ "threshold" \notin cols'[t] => new.threshold = mine[t].threshold
        /\ "weights" \notin cols'[t] => new.weights = mine[t].weights
    BY <1>1, <1>6, <2>1, FlushColumns
  <2>3. ASSUME "threshold" \notin cols'[t] PROVE ThresholdFrom(new, Ends)
    <3>1. ThresholdFrom(mine[t], Ends)
      BY <1>6, <2>2, <2>3 DEF GroundInv, Untouched
    <3>2. QED
      BY <2>2, <2>3, <3>1 DEF ThresholdFrom, Gap
  <2>4. ASSUME "weights" \notin cols'[t] PROVE WeightsFrom(new, Ends)
    <3>1. WeightsFrom(mine[t], Ends)
      BY <1>6, <2>2, <2>4 DEF GroundInv, Untouched
    <3>2. QED
      BY <2>2, <2>4, <3>1 DEF WeightsFrom
  <2>5. QED
    BY <1>3, <1>6, <2>1, <2>3, <2>4 DEF Untouched
<1>7. CASE Update(t)
  <2>1. PICK new \in Real, next \in {"publish_set", "publish_learnt"} :
           /\ step[t] = "set" /\ Loaded(t) /\ Flush(t, new) /\ Goto(t, next)
           /\ next = "publish_set" => new.weights = mine[t].weights
    BY <1>7, UpdateStep
  <2>2. step'[t] = next
    <3>1. next \in Steps
      BY DEF Steps
    <3>2. QED
      BY <1>1, <2>1, <3>1, GotoTypes
  <2>3. WeightsFrom(mine[t], Ends)
    BY <2>1 DEF GroundInv, Untouched
  <2>4. next = "publish_set" => WeightsFrom(new, Ends)
    BY <2>1, <2>3 DEF WeightsFrom
  <2>5. QED
    BY <1>6, <2>1, <2>2, <2>3, <2>4, TableTypes
<1>8. CASE Learn(t)
  <2>1. PICK new \in Real, next \in {"commit", "publish_learnt"} :
           /\ step[t] = "learn" /\ Loaded(t) /\ Flush(t, new) /\ Goto(t, next)
    BY <1>8, LearnStep
  <2>2. step'[t] = next
    <3>1. next \in Steps
      BY DEF Steps
    <3>2. QED
      BY <1>1, <2>1, <3>1, GotoTypes
  <2>3. QED
    BY <1>6, <2>1, <2>2, TableTypes
<1>9. CASE Judge(t) \/ Reject(t)
  <2>1. /\ Goto(t, "commit") /\ (Loaded(t)' <=> Loaded(t))
        /\ \/ Flush(t, mine[t]) /\ step[t] = "judge" /\ mine[t] \in Real
           \/ step[t] = "lookup"
    BY <1>9, JudgeStep, WorkSession
  <2>2. step'[t] = "commit"
    <3>1. "commit" \in Steps
      BY DEF Steps
    <3>2. QED
      BY <1>1, <2>1, <3>1, GotoTypes
  <2>3. CASE step[t] = "lookup"
    <3>1. ~Loaded(t)
      BY <2>3 DEF SessionInv, Session
    <3>2. QED
      BY <1>2, <2>1, <3>1
  <2>4. CASE Flush(t, mine[t]) /\ step[t] = "judge" /\ mine[t] \in Real
    BY <1>2, <1>6, <2>1, <2>2, <2>4, TableTypes
  <2>5. QED
    BY <2>1, <2>3, <2>4
<1>10. CASE (\E k \in MayBe[t] : Start(t, k)) \/ Lookup(t) \/ Commit(t) \/ Collide(t) \/ Die(t)
  <2>1. ~Loaded(t)'
    BY <1>10, StartSession, LoadSession, CloseSession, CommitTypes, RollBackStep DEF Lookup, Loaded
  <2>2. QED
    BY <1>2, <2>1
<1>11. QED
  BY <1>4, <1>5, <1>7, <1>8, <1>9, <1>10 DEF StepOf, Work

\* What is open stays where it is, or ends and is kept: no number gets lost.
LEMMA GroundsKept ==
    ASSUME SessionInv, GroundInv, NEW t \in Txns, StepOf(t)
    PROVE  Ends \subseteq Ends' /\ Covers(Grounds', Grounds)
<1>1. Types /\ TypeOK /\ Apart(t)
  BY StepsApart DEF SessionInv, Types
<1>2. \/ versions' = versions
      \/ \E outcome : Close(t, outcome)
  <2>1. CASE \E k \in MayBe[t] : Start(t, k)
    BY <2>1, StartTypes DEF SessionInv
  <2>2. CASE Lookup(t) \/ Select(t) \/ Insert(t)
    BY <1>1, <2>2, LoadTypes
  <2>3. CASE Publish(t)
    BY <1>1, <2>3, PublishStep
  <2>4. CASE Update(t) \/ Learn(t) \/ Judge(t) \/ Reject(t)
    BY <2>4, WorkSession DEF Elsewhere
  <2>5. CASE Commit(t) \/ Collide(t) \/ Die(t)
    BY <2>5 DEF Commit, Collide, Die, RollBack
  <2>6. QED
    BY <2>1, <2>2, <2>3, <2>4, <2>5 DEF StepOf, Work
<1>3. versions \subseteq versions'
  BY <1>2 DEF Close
<1>4. Ends \subseteq Ends' /\ Ends' \subseteq Grounds'
  BY <1>3, GroundsAre DEF Ends, Grounds
<1>5. ASSUME NEW u \in Txns \ {t}, cols[u] # {}
      PROVE  From(mine[u], Grounds')
  <2>1. mine[u] \in Grounds'
    BY <1>1, <1>5 DEF Apart, Grounds
  <2>2. QED
    BY <2>1 DEF From, ThresholdFrom, WeightsFrom
<1>6. \A p : From(p, Ends) => From(p, Grounds')
  <2>1. Ends \subseteq Grounds'
    BY <1>4
  <2>2. QED
    BY <2>1, CoversSubset, CoversAll
<1>7. ASSUME NEW p, p \in Grounds' PROVE From(p, Grounds')
  BY <1>7 DEF From, ThresholdFrom, WeightsFrom
<1>8. ASSUME cols[t] # {}
      PROVE  From(mine[t], Grounds')
  <2>1. Loaded(t)
    BY <1>8 DEF SessionInv, Session
  <2>2. CASE Publish(t)
    <3>1. mine[t] \in Grounds'
      BY <1>1, <1>8, <2>2, PublishStep DEF Grounds
    <3>2. QED
      BY <1>7, <3>1
  <2>3. CASE Update(t)
    <3>1. step[t] = "set"
      BY <2>3 DEF Update
    <3>2. From(mine[t], Ends)
      BY <2>1, <3>1 DEF GroundInv, Untouched, From
    <3>3. QED
      BY <1>6, <3>2
  <2>4. CASE Learn(t)
    <3>1. PICK new \in Real :
             step[t] = "learn" /\ Flush(t, new) /\ new.threshold = mine[t].threshold
      BY <2>4, LearnStep
    <3>2. mine'[t] = new /\ cols'[t] # {}
      BY <1>1, <1>8, <3>1, TableTypes, FlushTypes, FlushColumns
    <3>3. new \in Grounds'
      BY <3>2 DEF Grounds
    <3>4. ThresholdFrom(mine[t], Grounds')
      BY <3>1, <3>3 DEF ThresholdFrom, Gap
    <3>5. WeightsFrom(mine[t], Ends)
      BY <2>1, <3>1 DEF GroundInv, Untouched
    <3>6. WeightsFrom(mine[t], Grounds')
      BY <1>4, <3>5 DEF WeightsFrom
    <3>7. QED
      BY <3>4, <3>6 DEF From
  <2>5. CASE Judge(t) \/ Reject(t)
    <3>1. \/ Flush(t, mine[t])
          \/ UNCHANGED <<read, mine, cols, dirty>>
      BY <2>5, JudgeStep
    <3>2. mine[t] \in Table
      BY <1>1 DEF Types
    <3>3. mine'[t] = mine[t] /\ cols'[t] # {}
      BY <1>1, <1>8, <3>1, <3>2, FlushTypes, FlushColumns
    <3>4. mine[t] \in Grounds'
      BY <3>3 DEF Grounds
    <3>5. QED
      BY <1>7, <3>4
  <2>6. CASE Commit(t) \/ Collide(t) \/ Die(t)
    <3>1. mine[t] \in versions'
      BY <1>8, <2>6 DEF Commit, Collide, Die, RollBack, Close
    <3>2. mine[t] \in Grounds'
      BY <3>1 DEF Grounds
    <3>3. QED
      BY <1>7, <3>2
  <2>7. CASE (\E k \in MayBe[t] : Start(t, k)) \/ Lookup(t) \/ Select(t) \/ Insert(t)
    BY <2>1, <2>7, StartSession, LoadSession
  <2>8. QED
    BY <2>2, <2>3, <2>4, <2>5, <2>6, <2>7 DEF StepOf, Work
<1>9. ASSUME NEW p \in Grounds PROVE From(p, Grounds')
  <2>1. CASE p \in Ends
    BY <1>4, <1>7, <2>1
  <2>2. CASE \E u \in Txns : cols[u] # {} /\ p = mine[u]
    BY <1>5, <1>8, <2>2
  <2>3. QED
    BY <2>1, <2>2, GroundsAre
<1>10. QED
  BY <1>4, <1>9 DEF Covers

\* The table and the cache take their columns from a session.
LEMMA SharedGround ==
    ASSUME SessionInv, GroundInv, NEW t \in Txns, StepOf(t)
    PROVE  /\ profile' # NoProfile => From(profile', Ends')
           /\ cache' # NoProfile => From(cache', Grounds')
<1>1. /\ \A p : From(p, Ends) => From(p, Ends')
      /\ \A p : From(p, Grounds) => From(p, Grounds')
  BY GroundsKept, CoversSubset, CoversAll
<1>2. Types
  BY DEF SessionInv
<1>3. ASSUME profile' # NoProfile PROVE From(profile', Ends')
  <2>1. CASE profile' = profile
    BY <1>1, <1>3, <2>1 DEF GroundInv
  <2>2. CASE Commit(t) /\ Loaded(t)
    <3>1. From(mine[t], Ends')
      <4>1. CASE cols[t] # {}
        <5>1. mine[t] \in Ends'
          BY <2>2, <4>1 DEF Commit, Close, Ends
        <5>2. QED
          BY <5>1 DEF From, ThresholdFrom, WeightsFrom
      <4>2. CASE cols[t] = {}
        <5>1. From(mine[t], Ends)
          BY <2>2, <4>2 DEF GroundInv, Untouched, From
        <5>2. QED
          BY <1>1, <5>1
      <4>3. QED
        BY <4>1, <4>2
    <3>2. /\ profile'.threshold \in {mine[t].threshold, profile.threshold}
          /\ profile'.weights \in {mine[t].weights, profile.weights}
          /\ profile = NoProfile => profile' = mine[t]
      BY <2>2, CommitProfile
    <3>3. profile # NoProfile => From(profile, Ends')
      BY <1>1 DEF GroundInv
    <3>4. CASE profile = NoProfile
      BY <3>1, <3>2, <3>4
    <3>5. CASE profile # NoProfile
      <4>1. ThresholdFrom(profile', Ends')
        BY <3>1, <3>2, <3>3, <3>5 DEF From, ThresholdFrom, Gap
      <4>2. WeightsFrom(profile', Ends')
        BY <3>1, <3>2, <3>3, <3>5 DEF From, WeightsFrom
      <4>3. QED
        BY <4>1, <4>2 DEF From
    <3>6. QED
      BY <3>4, <3>5
  <2>3. QED
    BY <2>1, <2>2, OwnSession, CommitProfile
<1>4. ASSUME cache' # NoProfile PROVE From(cache', Grounds')
  <2>1. CASE cache' = cache
    BY <1>1, <1>4, <2>1 DEF GroundInv
  <2>2. CASE Publish(t) /\ cache' = Serialized(mine[t])
    <3>1. mine[t] \in Real /\ mine[t] # NoProfile
      BY <2>2, PublishTypes, TableTypes
    <3>2. From(mine[t], Grounds')
      BY <1>1, <3>1 DEF GroundInv
    <3>3. Gap(cache') = Gap(mine[t]) /\ cache'.weights = mine[t].weights
      BY <2>2, <3>1, SerializedIsReal DEF Gap
    <3>4. QED
      BY <3>2, <3>3 DEF From, ThresholdFrom, WeightsFrom
  <2>3. CASE ~Publish(t)
    <3>1. cache' = cache
      <4>1. CASE \E k \in MayBe[t] : Start(t, k)
        BY <1>2, <4>1, StartTypes
      <4>2. CASE Lookup(t) \/ Select(t) \/ Insert(t)
        BY <1>2, <4>2, LoadTypes
      <4>3. CASE Update(t) \/ Learn(t) \/ Judge(t) \/ Reject(t)
        BY <4>3, WorkSession DEF Elsewhere
      <4>4. CASE Commit(t) \/ Collide(t) \/ Die(t)
        BY <4>4, CommitTypes, RollBackStep
      <4>5. QED
        BY <2>3, <4>1, <4>2, <4>3, <4>4 DEF StepOf, Work
    <3>2. QED
      BY <2>1, <3>1
  <2>4. QED
    BY <1>2, <2>1, <2>2, <2>3, PublishStep
<1>5. QED
  BY <1>3, <1>4

\* A session takes its profile from the cache, from the table or from itself.
LEMMA OwnGround ==
    ASSUME SessionInv, GroundInv, NEW t \in Txns, StepOf(t)
    PROVE  mine'[t] # NoProfile => From(mine'[t], Grounds')
<1>1. Types /\ TypeOK
  BY DEF SessionInv, Types
<1>2. \A p : From(p, Grounds) => From(p, Grounds')
  BY GroundsKept, CoversAll
<1>3. CASE Loaded(t)'
  <2>1. Untouched(t)'
    BY OwnUntouched, GroundsKept
  <2>2. CASE cols'[t] # {}
    <3>1. mine'[t] \in Grounds'
      BY <2>2 DEF Grounds
    <3>2. QED
      BY <3>1 DEF From, ThresholdFrom, WeightsFrom
  <2>3. CASE cols'[t] = {}
    <3>1. From(mine'[t], Ends')
      BY <1>3, <2>1, <2>3 DEF Untouched, From
    <3>2. Ends' \subseteq Grounds'
      BY DEF Ends, Grounds
    <3>3. QED
      BY <3>1, <3>2, CoversSubset, CoversAll
  <2>4. QED
    BY <2>2, <2>3
<1>4. CASE mine'[t] = mine[t]
  BY <1>2, <1>4 DEF GroundInv
<1>5. CASE Lookup(t)
  <2>1. mine'[t] = mine[t] \/ (mine'[t] = cache /\ cache # NoProfile)
    BY <1>1, <1>5 DEF Lookup, TypeOK
  <2>2. QED
    BY <1>2, <1>4, <2>1 DEF GroundInv
<1>6. CASE Select(t)
  <2>1. mine'[t] = read'[t]
    BY <1>1, <1>6 DEF Select, TypeOK
  <2>2. QED
    BY <1>3, <2>1 DEF Loaded
<1>7. CASE Insert(t)
  <2>1. mine'[t] = read'[t]
    BY <1>1, <1>7 DEF Insert, TypeOK
  <2>2. QED
    BY <1>3, <2>1 DEF Loaded
<1>8. CASE Update(t) \/ Learn(t)
  BY <1>3, <1>8, UpdateStep, LearnStep, WorkSession
<1>9. CASE Judge(t) \/ Reject(t)
  <2>1. mine[t] \in Table
    BY <1>1 DEF Types
  <2>2. mine'[t] = mine[t]
    BY <1>1, <1>9, <2>1, JudgeStep, FlushTypes
  <2>3. QED
    BY <1>4, <2>2
<1>10. CASE (\E k \in MayBe[t] : Start(t, k)) \/ Publish(t)
  BY <1>1, <1>4, <1>10, StartTypes, PublishStep
<1>11. CASE Commit(t) \/ Collide(t) \/ Die(t)
  BY <1>1, <1>11, CommitTypes, RollBackStep, CloseTypes
<1>12. QED
  BY <1>5, <1>6, <1>7, <1>8, <1>9, <1>10, <1>11 DEF StepOf, Work

\* A verdict is decided by what the session has, and committed as it was decided.
LEMMA OwnVerdict ==
    ASSUME SessionInv, GroundInv, NEW t \in Txns, StepOf(t)
    PROVE  Grounded(draft'[t], Grounds') /\ Grounded(runs'[t], Grounds')
<1>1. Types /\ TypeOK
  BY DEF SessionInv, Types
<1>2. Grounded(draft[t], Grounds') /\ Grounded(runs[t], Grounds')
  BY GroundsKept, CoversAll DEF GroundInv
<1>3. Grounded(NoRun, Grounds')
  BY FailedRows DEF Grounded
<1>4. CASE UNCHANGED <<draft, runs>>
  BY <1>2, <1>4
<1>5. CASE Judge(t) \/ Reject(t)
  <2>1. PICK r \in Drafts :
           /\ draft' = [draft EXCEPT ![t] = r] /\ Elsewhere
           /\ r.reason = "session" =>
                 step[t] = "judge" /\ \E d \in Decisions : r = SessionReview(mine[t], d)
    BY <1>5, JudgeStep
  <2>2. draft'[t] = r /\ runs' = runs
    BY <1>1, <2>1 DEF TypeOK, Elsewhere
  <2>3. ASSUME r.reason = "session"
        PROVE  \E p \in Real, d \in Decisions : From(p, Grounds') /\ r = SessionReview(p, d)
    <3>1. mine[t] \in Real /\ mine[t] # NoProfile
      BY <1>1, <2>1, <2>3, TableTypes DEF SessionInv, Session, Types
    <3>2. From(mine[t], Grounds')
      BY <3>1, GroundsKept, CoversAll DEF GroundInv
    <3>3. QED
      BY <2>1, <2>3, <3>1, <3>2
  <2>4. Grounded(r, Grounds')
    BY <2>3 DEF Grounded
  <2>5. QED
    BY <1>2, <2>2, <2>4
<1>6. CASE Commit(t)
  <2>1. runs'[t] = draft[t] /\ draft'[t] = NoRun
    BY <1>1, <1>6, CommitTypes, CloseTypes DEF TypeOK
  <2>2. QED
    BY <1>2, <1>3, <2>1
<1>7. CASE Collide(t) \/ Die(t)
  <2>1. runs' = runs /\ draft'[t] = NoRun
    BY <1>1, <1>7, RollBackStep, CloseTypes
  <2>2. QED
    BY <1>2, <1>3, <2>1
<1>8. CASE \/ \E k \in MayBe[t] : Start(t, k)
           \/ Lookup(t) \/ Select(t) \/ Insert(t) \/ Publish(t)
  BY <1>1, <1>4, <1>8, StartTypes, LoadTypes, PublishStep
<1>9. CASE Update(t) \/ Learn(t)
  BY <1>4, <1>9 DEF Update, Learn, shared
<1>10. QED
  BY <1>5, <1>6, <1>7, <1>8, <1>9 DEF StepOf, Work

\* Every step keeps all numbers and all verdicts grounded.
LEMMA GroundStep ==
    ASSUME SessionInv, GroundInv, Next
    PROVE  GroundInv'
<1>1. CASE Expire
  <2>1. UNCHANGED <<profile, runs, step, read, mine, cols, draft, versions>> /\ cache' = NoProfile
    BY <1>1, ExpireTypes
  <2>2. Ends' = Ends /\ Grounds' = Grounds
    BY <2>1 DEF Ends, Grounds
  <2>3. \A t \in Txns : Untouched(t)'
    BY <2>1, <2>2 DEF GroundInv, Untouched, Loaded
  <2>4. \A t \in Txns : /\ mine'[t] # NoProfile => From(mine'[t], Grounds')
                        /\ Grounded(draft'[t], Grounds') /\ Grounded(runs'[t], Grounds')
    BY <2>1, <2>2 DEF GroundInv
  <2>5. profile' # NoProfile => From(profile', Ends')
    BY <2>1, <2>2 DEF GroundInv
  <2>6. QED
    BY <2>1, <2>3, <2>4, <2>5 DEF GroundInv
<1>2. ASSUME NEW t \in Txns, StepOf(t)
      PROVE  GroundInv'
  <2>1. Apart(t) /\ Covers(Grounds', Grounds) /\ Ends \subseteq Ends'
    BY <1>2, StepsApart, GroundsKept
  <2>2. ASSUME NEW u \in Txns
        PROVE  /\ mine'[u] # NoProfile => From(mine'[u], Grounds')
               /\ Untouched(u)'
               /\ Grounded(draft'[u], Grounds') /\ Grounded(runs'[u], Grounds')
    <3>1. CASE u = t
      BY <1>2, <2>1, <3>1, OwnGround, OwnUntouched, OwnVerdict
    <3>2. CASE u # t
      <4>1. /\ step'[u] = step[u] /\ read'[u] = read[u] /\ mine'[u] = mine[u]
            /\ cols'[u] = cols[u] /\ draft'[u] = draft[u] /\ runs'[u] = runs[u]
        BY <2>1, <3>2 DEF Apart
      <4>2. /\ mine[u] # NoProfile => From(mine[u], Grounds')
            /\ Grounded(draft[u], Grounds') /\ Grounded(runs[u], Grounds')
        BY <2>1, CoversAll DEF GroundInv
      <4>3. Covers(Ends', Ends)
        BY <2>1, CoversSubset
      <4>4. /\ \A p : ThresholdFrom(p, Ends) => ThresholdFrom(p, Ends')
            /\ \A p : WeightsFrom(p, Ends) => WeightsFrom(p, Ends')
        BY <4>3, CoversAll
      <4>5. Untouched(u)'
        BY <4>1, <4>4 DEF GroundInv, Untouched, Loaded
      <4>6. QED
        BY <4>1, <4>2, <4>5
    <3>3. QED
      BY <3>1, <3>2
  <2>3. QED
    BY <1>2, <2>2, SharedGround DEF GroundInv
<1>3. QED
  BY <1>1, <1>2 DEF Next, StepOf

-----------------------------------------------------------------------------
(* Those that wait for the organization's first profile.                   *)

\* Who has found no profile, and then finds one, was there when it was committed.
Waits(t) ==
    /\ step[t] = "insert" /\ profile # NoProfile => t \in early
    /\ step[t] = "collided" => t \in early /\ profile # NoProfile

FirstInv == \A t \in Txns : Waits(t)

\* What the transaction at work ends up with.
LEMMA OwnWait ==
    ASSUME SessionInv, FirstInv, NEW t \in Txns, StepOf(t)
    PROVE  /\ Waits(t)'
           /\ Commit(t) \/ (early' = early /\ profile' = profile)
<1>1. Types
  BY DEF SessionInv
<1>2. ASSUME step'[t] \notin {"insert", "collided"} PROVE Waits(t)'
  BY <1>2 DEF Waits
<1>3. CASE \E k \in MayBe[t] : Start(t, k)
  BY <1>1, <1>2, <1>3, StartTypes
<1>4. CASE Lookup(t) \/ Select(t) \/ Insert(t)
  <2>1. UNCHANGED <<profile, early>>
    BY <1>1, <1>4, LoadTypes
  <2>2. CASE step'[t] # "insert"
    <3>1. step'[t] # "collided"
      BY <1>1, <1>4, LoadTypes DEF Steps
    <3>2. QED
      BY <1>2, <2>1, <2>2, <3>1
  <2>3. CASE step'[t] = "insert"
    <3>1. ~(profile # NoProfile)
      <4>1. ASSUME NEW next \in Steps \ {"insert"}, Goto(t, next) PROVE FALSE
        BY <1>1, <2>3, <4>1, GotoTypes
      <4>2. {"select", "set", "publish", "commit", "judge"} \subseteq Steps \ {"insert"}
        BY DEF Steps
      <4>3. ~Lookup(t) /\ ~Insert(t)
        BY <4>1, <4>2, AfterProfileSteps DEF Lookup, Insert
      <4>4. QED
        BY <1>4, <4>1, <4>2, <4>3 DEF Select
    <3>2. QED
      BY <2>1, <2>3, <3>1 DEF Waits
  <2>4. QED
    BY <2>1, <2>2, <2>3
<1>5. CASE Publish(t)
  <2>1. PICK next \in {"set", "judge", "commit", "learn"} : Goto(t, next)
    BY <1>1, <1>5, PublishStep
  <2>2. step'[t] = next
    <3>1. next \in Steps
      BY DEF Steps
    <3>2. QED
      BY <1>1, <2>1, <3>1, GotoTypes
  <2>3. QED
    BY <1>1, <1>2, <1>5, <2>2, PublishStep
<1>6. CASE Update(t) \/ Learn(t) \/ Judge(t) \/ Reject(t)
  BY <1>2, <1>6, WorkSession DEF Elsewhere
<1>7. CASE Commit(t)
  <2>1. step'[t] = "done"
    BY <1>1, <1>7, CommitTypes, CloseTypes
  <2>2. QED
    BY <1>2, <1>7, <2>1
<1>8. CASE Collide(t) \/ Die(t)
  <2>1. PICK outcome \in Ended \ {"done"} :
           /\ Close(t, outcome) /\ UNCHANGED <<profile, early>>
           /\ outcome = "collided" => profile # NoProfile /\ step[t] = "insert"
    BY <1>8, RollBackStep
  <2>2. step'[t] = outcome /\ outcome # "insert"
    BY <1>1, <2>1, CloseTypes DEF Ended
  <2>3. QED
    BY <2>1, <2>2 DEF FirstInv, Waits
<1>9. QED
  BY <1>3, <1>4, <1>5, <1>6, <1>7, <1>8 DEF StepOf, Work

\* Whoever waits when the first profile is committed is open.
LEMMA FirstStep ==
    ASSUME SessionInv, FirstInv, Next
    PROVE  FirstInv'
<1>1. CASE Expire
  BY <1>1, ExpireTypes DEF FirstInv, Waits
<1>2. ASSUME NEW t \in Txns, StepOf(t), NEW u \in Txns
      PROVE  Waits(u)'
  <2>1. CASE u = t
    BY <1>2, <2>1, OwnWait
  <2>2. CASE u # t
    <3>1. step'[u] = step[u] /\ (profile' = profile \/ profile' # NoProfile)
      BY <1>2, <2>2, StepsApart, OwnSession DEF Apart
    <3>2. CASE early' = early /\ profile' = profile
      BY <3>1, <3>2 DEF FirstInv, Waits
    <3>3. CASE Commit(t)
      <4>1. CASE early' = early /\ profile # NoProfile
        BY <3>1, <4>1 DEF FirstInv, Waits
      <4>2. CASE profile = NoProfile
        <5>1. step[u] # "collided"
          BY <4>2 DEF FirstInv, Waits
        <5>2. CASE profile' = NoProfile
          BY <3>1, <5>1, <5>2 DEF Waits
        <5>3. CASE profile' # NoProfile
          <6>1. Loaded(t)
            BY <3>3, <4>2, <5>3, CommitProfile
          <6>2. cols[t] = Columns
            BY <4>2, <6>1 DEF SessionInv, Session
          <6>3. early' = {v \in Txns : Open(v)}
            BY <3>3, <4>2, <6>2 DEF Commit, Columns
          <6>4. step[u] = "insert" => u \in early'
            BY <6>3 DEF Open, Steps
          <6>5. QED
            BY <3>1, <5>1, <6>4 DEF Waits
        <5>4. QED
          BY <5>2, <5>3
      <4>3. QED
        BY <3>3, <4>1, <4>2 DEF Commit
    <3>4. QED
      BY <1>2, <3>2, <3>3, OwnWait
  <2>3. QED
    BY <2>1, <2>2
<1>3. QED
  BY <1>1, <1>2 DEF Next, StepOf, FirstInv

-----------------------------------------------------------------------------
(* The theorem.                                                            *)

\* The inductive invariant.
Inv ==
    /\ SessionInv
    /\ AloneInv
    /\ CacheInv
    /\ GroundInv
    /\ FirstInv

\* It holds at the beginning,
LEMMA InvInit == Init => Inv
<1> SUFFICES ASSUME Init PROVE Inv
  OBVIOUS
<1>1. /\ profile = NoProfile /\ cache = NoProfile
      /\ runs = [t \in Txns |-> NoRun]
      /\ kind = [t \in Txns |-> "none"]
      /\ step = [t \in Txns |-> "idle"]
      /\ read = [t \in Txns |-> NoProfile] /\ mine = [t \in Txns |-> NoProfile]
      /\ cols = [t \in Txns |-> {}] /\ dirty = {}
      /\ draft = [t \in Txns |-> NoRun]
      /\ versions = {} /\ early = {} /\ doubts = {}
  BY DEF Init
<1>2. NoRun \in Drafts /\ NoProfile \in Table /\ NoProfile \in Profiles
      /\ NoRun.reason # "session"
  BY FailedRows, TableTypes
<1>3. Types
  BY <1>1, <1>2 DEF Types, TypeOK
<1>4. \A t \in Txns : Session(t) /\ ~Loaded(t) /\ Waits(t)
  BY <1>1 DEF Session, Loaded, Publishing, Waits
<1>5. AloneInv /\ CacheInv
  BY <1>1, <1>4 DEF AloneInv, Sole, Agrees, CacheInv, Settled, Follows
<1>6. GroundInv
  BY <1>1, <1>2, <1>4 DEF GroundInv, Untouched, Grounded
<1>7. QED
  BY <1>3, <1>4, <1>5, <1>6 DEF Inv, SessionInv, FirstInv

\* ... and every step keeps it.
LEMMA InvStep ==
    ASSUME Inv, [Next]_vars
    PROVE  Inv'
<1>1. CASE Next
  BY <1>1, SessionStep, AloneStep, CacheStep, GroundStep, FirstStep DEF Inv
<1>2. CASE UNCHANGED vars
  <2>1. /\ UNCHANGED <<profile, cache, runs>> /\ UNCHANGED <<kind, step>>
        /\ UNCHANGED <<read, mine, cols, dirty>> /\ UNCHANGED draft
        /\ UNCHANGED <<versions, early, doubts>>
    BY <1>2 DEF vars, shared, session, history
  <2>2. Types' /\ (\A t \in Txns : Session(t)') /\ FirstInv'
    BY <2>1 DEF Inv, SessionInv, Types, TypeOK, Session, Loaded, FirstInv, Waits
  <2>3. AloneInv' /\ CacheInv'
    BY <2>1 DEF Inv, AloneInv, Sole, Agrees, CacheInv, Settled, Follows, Loaded, Serialized, Gap
  <2>4. GroundInv'
    <3>1. Ends' = Ends /\ Grounds' = Grounds
      BY <2>1 DEF Ends, Grounds
    <3>2. \A t \in Txns : Untouched(t)'
      BY <2>1, <3>1 DEF Inv, GroundInv, Untouched, Loaded
    <3>3. QED
      BY <2>1, <3>1, <3>2 DEF Inv, GroundInv
  <2>5. QED
    BY <2>2, <2>3, <2>4 DEF Inv, SessionInv
<1>3. QED
  BY <1>1, <1>2

\* What the run checks follows: with no reader of the profile nobody has its row.
LEMMA InvImplies ==
    ASSUME Inv
    PROVE  MetaInv
<1>1. TypeOK
  BY DEF Inv, SessionInv, Types
<1>2. CacheAccounted
  <2>1. ASSUME ProfileReaders = {}, doubts = {}
        PROVE  cache \in {NoProfile, Serialized(profile)}
    <3>1. \A t \in Txns : ~Loaded(t)
      BY <2>1 DEF ProfileReaders, Inv, SessionInv, Session, Loaded, Open
    <3>2. QED
      BY <2>1, <3>1 DEF Inv, CacheInv, Settled
  <2>2. QED
    BY <2>1 DEF CacheAccounted
<1>3. VerdictsGrounded
  <2>1. SUFFICES ASSUME NEW t \in Txns, runs[t].reason = "session"
                 PROVE  \E threshold \in {p.threshold : p \in Grounds},
                           weights \in {p.weights : p \in Grounds}, d \in Decisions :
                              runs[t] = SessionReview([threshold |-> threshold,
                                                       weights |-> weights], d)
    BY DEF VerdictsGrounded
  <2>2. PICK p \in Real, d \in Decisions : From(p, Grounds) /\ runs[t] = SessionReview(p, d)
    BY <2>1 DEF Inv, GroundInv, Grounded
  <2>3. PICK q \in Grounds : Gap(q) = Gap(p)
    BY <2>2 DEF From, ThresholdFrom
  <2>4. PICK o \in Grounds : o.weights = p.weights
    BY <2>2 DEF From, WeightsFrom
  <2> DEFINE n == [threshold |-> q.threshold, weights |-> o.weights]
  <2>5. Gap(n) = Gap(p) /\ n.weights = p.weights
    BY <2>3, <2>4 DEF Gap
  <2>6. runs[t] = SessionReview(n, d)
    BY <2>2, <2>5, SessionReviewOf
  <2>7. q.threshold \in {r.threshold : r \in Grounds} /\ o.weights \in {r.weights : r \in Grounds}
    OBVIOUS
  <2>8. QED
    BY <2>6, <2>7
<1>4. OnlyTheFirstCollide
  BY DEF Inv, FirstInv, Waits, OnlyTheFirstCollide
<1>5. QED
  BY <1>1, <1>2, <1>3, <1>4 DEF MetaInv

\* What the meta agent's cache, its profile and its rows say of each other, always:
\* with nobody at work on the profile the cache is the profile, unless two have
\* crossed or one was rolled back or could not publish; a verdict on a session
\* follows from a threshold and weights that transactions have ended with; and only
\* those collide that were open when the first profile was committed.
THEOREM TablesAgree == Spec => []MetaInv
<1>1. Init => Inv
  BY InvInit
<1>2. Inv /\ [Next]_vars => Inv'
  BY InvStep
<1>3. Inv => MetaInv
  BY InvImplies
<1>4. QED
  BY <1>1, <1>2, <1>3, PTL DEF Spec

=============================================================================
