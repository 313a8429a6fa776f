----------------------- MODULE KnowledgeReview_proofs -----------------------
(***************************************************************************)
(* What the review of knowledge keeps for any items, versions and callers: *)
(* own version numbers, one promotion and a final decision where calls do  *)
(* not overlap, and no more promotions than callers where they do.         *)
(*                                                                         *)
(* The invariant says what a transaction knows: who has a number knows the *)
(* ones below it, who decides alone still finds the request pending, and   *)
(* who loaded the item alone still has its published version.              *)
(***************************************************************************)
EXTENDS KnowledgeReview, FiniteSetTheorems, WellFoundedInduction, TLAPS

Active(u) == step[u] # "idle"
Decides(u, i, k) == Active(u) /\ op[u] \in {"approve", "reject"} /\ item[u] = i /\ ver[u] = k
Approvers(i, k) == {u \in Users : Decides(u, i, k)}

\* The operation of an open call, as far as its step tells.
StepInv(u) ==
    /\ step[u] \in {"created", "numbered"} => op[u] = "submit"
    /\ step[u] = "checked" => op[u] = "approve"
    /\ step[u] = "loaded" => op[u] # "submit"

\* A submitter's number follows the ones that exist, and is nobody's once the
\* version is inserted.
NumberInv(u) ==
    op[u] = "submit" /\ step[u] \in {"numbered", "flushed"} =>
        /\ ver[u] \in Versions
        /\ \A j \in 1..(ver[u] - 1) : HasVersion(item[u], j)
        /\ Flushed(u) => ~HasVersion(item[u], ver[u])

KeyInv ==
    \A u, v \in Users :
        /\ u # v /\ Flushed(u) /\ Flushed(v) /\ op[u] = "submit" /\ op[v] = "submit"
        /\ item[u] = item[v]
        => ver[u] # ver[v]

\* What a call that reads a version has found.
ReadInv(u) ==
    Active(u) /\ op[u] # "submit" =>
        /\ ver[u] \in Versions /\ HasVersion(item[u], ver[u])
        /\ item[u] \notin overlapped =>
              /\ op[u] \in {"approve", "reject"} => review[item[u]][ver[u]] = "pending"
              /\ op[u] # "reject" /\ step[u] # "checked" => loaded[u] = published[item[u]]

AloneInv ==
    \A u, v \in Users :
        u # v /\ Active(u) /\ Active(v) /\ item[u] = item[v] => item[u] \in overlapped

NoGaps ==
    \A i \in Items : \A k \in Versions : HasVersion(i, k) => \A j \in 1..k : HasVersion(i, j)

\* A version that was promoted is decided; who can still promote it, or has,
\* are different callers.
PromotionInv(i, k) ==
    /\ memories[i][k] > 0 => review[i][k] \in Decided
    /\ memories[i][k] + Cardinality(Approvers(i, k)) <= Cardinality(Users)
    /\ i \notin overlapped /\ memories[i][k] > 0 => memories[i][k] = 1 /\ review[i][k] = "approved"

IInv ==
    /\ TypeOK
    /\ NoGaps
    /\ KeyInv
    /\ AloneInv
    /\ LastPointerWins
    /\ \A u \in Users : StepInv(u) /\ NumberInv(u) /\ ReadInv(u)
    /\ \A i \in Items : \A k \in Versions : PromotionInv(i, k)

-----------------------------------------------------------------------------
(* Lemmas.                                                                 *)

\* The last version is one that exists, or there is none.
LEMMA LastVersionExists ==
    ASSUME ReviewAssumption, NEW i \in Items
    PROVE  /\ LastVersion(i) \in 0..MaxVersions
           /\ LastVersion(i) # 0 => HasVersion(i, LastVersion(i))
           /\ \A k \in Versions : HasVersion(i, k) => k <= LastVersion(i)
<1> DEFINE Has == {k \in Versions : HasVersion(i, k)}
           Above == {MaxVersions - k : k \in Has}
           Less == {ss \in Nat \X Nat : ss[1] < ss[2]}
<1>1. CASE Has = {}
  BY <1>1, ReviewAssumption DEF LastVersion
<1>2. CASE Has # {}
  <2>1. Above \subseteq Nat /\ Above # {}
    BY <1>2, ReviewAssumption DEF Versions
  <2>2. PICK x \in Above : \A y \in Above : <<y, x>> \notin Less
    <3> HIDE DEF Above
    <3>1. IsWellFoundedOn(Less, Nat)
      <4>1. Less = OpToRel(<, Nat)
        BY Zenon DEF OpToRel
      <4>2. QED
        BY <4>1, NatLessThanWellFounded
    <3>2. QED
      BY <2>1, <3>1, WFMin
  <2>3. \A y \in Above : ~(y < x)
    BY <2>1, <2>2
  <2>4. PICK m \in Has : x = MaxVersions - m
    OBVIOUS
  <2>5. \A j \in Has : j <= m
    <3> SUFFICES ASSUME NEW j \in Has PROVE j <= m
      OBVIOUS
    <3>1. MaxVersions - j \in Above /\ j \in Nat /\ m \in Nat
      BY DEF Versions
    <3>2. ~(MaxVersions - j < x)
      <4> HIDE DEF Above
      <4> QED
        BY <2>3, <3>1
    <3>3. QED
      BY <2>4, <3>1, <3>2, ReviewAssumption
  <2>6. \E k \in Versions : HasVersion(i, k) /\ \A j \in Versions : HasVersion(i, j) => j <= k
    BY <2>4, <2>5
  <2>7. QED
    BY <2>6, ReviewAssumption DEF LastVersion, Versions
<1>3. QED
  BY <1>1, <1>2

\* Fewer approvers leave as much room for promotions as before.
LEMMA FewerApprovers ==
    ASSUME ReviewAssumption, NEW S \in SUBSET Users, NEW T \in SUBSET S, NEW n \in Nat,
           n + Cardinality(S) <= Cardinality(Users)
    PROVE  n + Cardinality(T) <= Cardinality(Users)
<1>1. IsFiniteSet(S) /\ IsFiniteSet(T) /\ IsFiniteSet(Users)
  BY ReviewAssumption, FS_Subset
<1>2. Cardinality(T) <= Cardinality(S)
  BY <1>1, FS_Subset
<1>3. Cardinality(T) \in Nat /\ Cardinality(S) \in Nat /\ Cardinality(Users) \in Nat
  BY <1>1, FS_CardinalityType
<1>4. QED
  BY <1>2, <1>3

\* An approver that commits leaves room for the promotion it made.
LEMMA OneApproverLess ==
    ASSUME ReviewAssumption, NEW S \in SUBSET Users, NEW u \in S, NEW n \in Nat,
           n + Cardinality(S) <= Cardinality(Users)
    PROVE  n + 1 + Cardinality(S \ {u}) <= Cardinality(Users)
<1>1. IsFiniteSet(S) /\ IsFiniteSet(S \ {u}) /\ IsFiniteSet(Users)
  BY ReviewAssumption, FS_Subset
<1>2. Cardinality(S \ {u}) = Cardinality(S) - 1
  BY <1>1, FS_RemoveElement
<1>3. Cardinality(S) \in Nat /\ Cardinality(Users) \in Nat
  BY <1>1, FS_CardinalityType
<1>4. QED
  BY <1>2, <1>3

-----------------------------------------------------------------------------
(* The steps that leave the committed rows alone.                          *)

LEMMA InitIInv == Init => IInv
<1> SUFFICES ASSUME Init PROVE IInv
  OBVIOUS
<1>1. AnItem \in Items
  BY ReviewAssumption DEF AnItem
<1>2. TypeOK
  BY <1>1, ReviewAssumption DEF Init, TypeOK, Versions, Reviews, Ops
<1>3. \A i \in Items : \A k \in Versions : ~HasVersion(i, k) /\ memories[i][k] = 0
  BY DEF Init, HasVersion
<1>4. \A i, k : Approvers(i, k) = {}
  BY DEF Init, Approvers, Decides, Active
<1>5. \A i \in Items : \A k \in Versions : PromotionInv(i, k)
  <2>1. Cardinality({}) = 0 /\ Cardinality(Users) \in Nat
    BY ReviewAssumption, FS_CardinalityType, FS_EmptySet
  <2>2. ASSUME NEW i \in Items, NEW k \in Versions PROVE PromotionInv(i, k)
    <3>1. memories[i][k] = 0 /\ Approvers(i, k) = {}
      BY <1>3, <1>4
    <3>2. QED
      BY <2>1, <3>1 DEF PromotionInv
  <2>3. QED
    BY <2>2
<1>6. KeyInv /\ AloneInv /\ \A u \in Users : StepInv(u) /\ NumberInv(u) /\ ReadInv(u)
  BY DEF Init, KeyInv, AloneInv, StepInv, NumberInv, ReadInv, Flushed, Active
<1>7. NoGaps /\ LastPointerWins
  BY <1>3 DEF Init, NoGaps, LastPointerWins
<1>8. QED
  BY <1>2, <1>5, <1>6, <1>7 DEF IInv

\* A call on an item that another has open makes it overlapped.
LEMMA StartStep ==
    ASSUME TypeOK, AloneInv, NEW u \in Users, NEW name \in Ops, NEW i \in Items,
           NEW k \in 0..MaxVersions, NEW next \in {"created", "checked", "loaded"},
           Start(u, name, i, k, next)
    PROVE  /\ AloneInv'
           /\ overlapped' \subseteq Items /\ overlapped \subseteq overlapped'
           /\ step' \in [Users -> {"idle", "created", "numbered", "checked", "loaded", "flushed"}]
           /\ op' \in [Users -> Ops] /\ item' \in [Users -> Items] /\ ver' \in [Users -> 0..MaxVersions]
           /\ i \notin overlapped' => \A v \in Users \ {u} : ~(Active(v) /\ item[v] = i)
<1>1. QED
  BY DEF Start, TypeOK, AloneInv, Active, Others

\* While the committed rows stand, what they say stays true: a new approver
\* joins only those of a request that is pending.
LEMMA RowsStand ==
    ASSUME IInv, ReviewAssumption, UNCHANGED committed, overlapped \subseteq overlapped',
           \A i \in Items : \A k \in Versions :
              Approvers(i, k)' \subseteq Approvers(i, k) \/ review[i][k] = "pending"
    PROVE  /\ NoGaps' /\ LastPointerWins'
           /\ \A i \in Items : \A k \in Versions : PromotionInv(i, k)'
<1>1. NoGaps' /\ LastPointerWins'
  BY DEF IInv, committed, NoGaps, HasVersion, LastPointerWins
<1>2. ASSUME NEW i \in Items, NEW k \in Versions PROVE PromotionInv(i, k)'
  <2>1. /\ memories[i][k] \in Nat /\ PromotionInv(i, k)
        /\ Approvers(i, k) \in SUBSET Users /\ Approvers(i, k)' \in SUBSET Users
    BY <1>2 DEF IInv, TypeOK, Approvers
  <2>2. memories[i][k] + Cardinality(Approvers(i, k)') <= Cardinality(Users)
    <3>1. CASE Approvers(i, k)' \subseteq Approvers(i, k)
      BY <2>1, <3>1, FewerApprovers DEF PromotionInv
    <3>2. CASE review[i][k] = "pending"
      <4>1. memories[i][k] = 0
        BY <2>1, <3>2 DEF PromotionInv, Decided
      <4>2. Cardinality(Users) \in Nat /\ 0 + Cardinality(Users) <= Cardinality(Users)
        BY ReviewAssumption, FS_CardinalityType
      <4>3. QED
        BY <2>1, <4>1, <4>2, FewerApprovers
    <3>3. QED
      BY <1>2, <3>1, <3>2
  <2>3. QED
    BY <1>2, <2>1, <2>2 DEF committed, PromotionInv
<1>3. QED
  BY <1>1, <1>2

\* A call ends without a commit.
LEMMA AbortStep ==
    ASSUME IInv, ReviewAssumption, NEW u \in Users, Abort(u)
    PROVE  IInv'
<1> USE DEF Abort, Finish, committed, locals, Active, Flushed
<1>1. TypeOK' /\ AloneInv' /\ KeyInv'
  BY DEF IInv, TypeOK, AloneInv, KeyInv
<1>2. \A v \in Users : StepInv(v)' /\ NumberInv(v)' /\ ReadInv(v)'
  BY DEF IInv, TypeOK, StepInv, NumberInv, ReadInv, HasVersion
<1>3. \A i, k : Approvers(i, k)' \subseteq Approvers(i, k)
  BY DEF IInv, TypeOK, Approvers, Decides
<1>4. NoGaps' /\ LastPointerWins' /\ \A i \in Items : \A k \in Versions : PromotionInv(i, k)'
  BY <1>3, RowsStand
<1>5. QED
  BY <1>1, <1>2, <1>4 DEF IInv

\* submit_for_review, up to the insertion of the version.
LEMMA SubmitStep ==
    ASSUME IInv, ReviewAssumption, NEW u \in Users, NEW i \in Items, Submit(u, i)
    PROVE  IInv'
<1> USE DEF Submit, committed, Active, Flushed
<1>1. /\ AloneInv' /\ overlapped' \subseteq Items /\ overlapped \subseteq overlapped'
      /\ step' \in [Users -> {"idle", "created", "numbered", "checked", "loaded", "flushed"}]
      /\ op' \in [Users -> Ops] /\ item' \in [Users -> Items] /\ ver' \in [Users -> 0..MaxVersions]
  BY ReviewAssumption, StartStep DEF IInv, Ops
<1>2. TypeOK'
  BY <1>1 DEF IInv, TypeOK
<1>3. KeyInv'
  BY DEF IInv, TypeOK, KeyInv, Start
<1>4. \A v \in Users : StepInv(v)' /\ NumberInv(v)' /\ ReadInv(v)'
  BY <1>1 DEF IInv, TypeOK, Start, StepInv, NumberInv, ReadInv, HasVersion
<1>5. \A j, k : Approvers(j, k)' \subseteq Approvers(j, k)
  BY DEF IInv, TypeOK, Start, Approvers, Decides
<1>6. NoGaps' /\ LastPointerWins' /\ \A j \in Items : \A k \in Versions : PromotionInv(j, k)'
  BY <1>1, <1>5, RowsStand
<1>7. QED
  BY <1>1, <1>2, <1>3, <1>4, <1>6 DEF IInv

LEMMA NumberStep ==
    ASSUME IInv, ReviewAssumption, NEW u \in Users, Number(u)
    PROVE  IInv'
<1> USE DEF committed, Active, Flushed
<1>1. TypeOK' /\ AloneInv'
  <2>1. ver' \in [Users -> 0..MaxVersions]
    <3>1. ver \in [Users -> 0..MaxVersions]
      BY DEF IInv, TypeOK
    <3>2. PICK new : ver' = [ver EXCEPT ![u] = new]
      BY DEF Number
    <3>3. new \in 0..MaxVersions
      BY <3>1, <3>2, ReviewAssumption DEF Number, Versions
    <3>4. QED
      BY <3>1, <3>2, <3>3
  <2>2. QED
    BY <2>1 DEF IInv, TypeOK, AloneInv, Number
<1>2. KeyInv'
  BY DEF IInv, TypeOK, KeyInv, Number
<1>3. \A v \in Users : StepInv(v)' /\ ReadInv(v)'
  BY DEF IInv, TypeOK, Number, StepInv, ReadInv, HasVersion
<1>4. ASSUME NEW v \in Users PROVE NumberInv(v)'
  <2>1. item[u] \in Items /\ NoGaps
    BY DEF IInv, TypeOK
  <2>2. \A j \in 1..LastVersion(item[u]) : HasVersion(item[u], j)
    BY <2>1, ReviewAssumption, LastVersionExists DEF NoGaps, Versions
  <2>3. LastVersion(item[u]) \in Nat
    BY <2>1, ReviewAssumption, LastVersionExists
  <2>4. QED
    BY <1>4, <2>1, <2>2, <2>3 DEF IInv, TypeOK, Number, NumberInv, HasVersion
<1>5. \A i, k : Approvers(i, k)' \subseteq Approvers(i, k)
  BY DEF IInv, TypeOK, Number, StepInv, Approvers, Decides
<1>6. NoGaps' /\ LastPointerWins' /\ \A i \in Items : \A k \in Versions : PromotionInv(i, k)'
  BY <1>5, RowsStand DEF Number
<1>7. QED
  BY <1>1, <1>2, <1>3, <1>4, <1>6 DEF IInv

LEMMA InsertVersionStep ==
    ASSUME IInv, ReviewAssumption, NEW u \in Users, InsertVersion(u)
    PROVE  IInv'
<1> USE DEF committed, locals, Active, Flushed
<1>1. /\ step[u] = "numbered" /\ DOMAIN step = Users
      /\ \/ step' = [step EXCEPT ![u] = "idle"]
         \/ /\ step' = [step EXCEPT ![u] = "flushed"]
            /\ ~HasVersion(item[u], ver[u])
            /\ \A v \in Users \ {u} : ~HoldsVersionKey(v, item[u], ver[u])
      /\ UNCHANGED <<committed, overlapped, locals>>
  BY DEF IInv, TypeOK, InsertVersion, Others
<1>2. TypeOK' /\ AloneInv'
  <2>1. TypeOK'
    BY <1>1 DEF IInv, TypeOK
  <2>2. AloneInv'
    BY <1>1 DEF IInv, AloneInv
  <2>3. QED
    BY <2>1, <2>2
<1>3. KeyInv'
  BY <1>1 DEF IInv, KeyInv, HoldsVersionKey
<1>4. \A v \in Users : StepInv(v)' /\ ReadInv(v)' /\ NumberInv(v)'
  BY <1>1 DEF IInv, StepInv, ReadInv, NumberInv, HasVersion
<1>5. \A i, k : Approvers(i, k)' \subseteq Approvers(i, k)
  BY <1>1 DEF Approvers, Decides
<1>6. NoGaps' /\ LastPointerWins' /\ \A i \in Items : \A k \in Versions : PromotionInv(i, k)'
  BY <1>1, <1>5, RowsStand
<1>7. QED
  BY <1>2, <1>3, <1>4, <1>6 DEF IInv

-----------------------------------------------------------------------------
(* Decisions and rollbacks, up to the flush.                               *)

LEMMA DecideStep ==
    ASSUME IInv, ReviewAssumption, NEW u \in Users, NEW i \in Items, NEW k \in Versions,
           NEW name \in {"approve", "reject"}, NEW p \in BOOLEAN, Decide(u, name, i, k, p)
    PROVE  IInv'
<1> USE DEF Decide, committed, Active, Flushed
<1>1. /\ AloneInv' /\ overlapped' \subseteq Items /\ overlapped \subseteq overlapped'
      /\ step' \in [Users -> {"idle", "created", "numbered", "checked", "loaded", "flushed"}]
      /\ op' \in [Users -> Ops] /\ item' \in [Users -> Items] /\ ver' \in [Users -> 0..MaxVersions]
  <2>1. k \in 0..MaxVersions /\ name \in Ops
    BY ReviewAssumption DEF Versions, Ops
  <2>2. QED
    BY <2>1, StartStep DEF IInv
<1>2. TypeOK'
  BY <1>1 DEF IInv, TypeOK
<1>3. KeyInv'
  BY DEF IInv, TypeOK, KeyInv, Start
<1>4. \A v \in Users : StepInv(v)' /\ NumberInv(v)' /\ ReadInv(v)'
  <2>1. \A v \in Users : StepInv(v)' /\ NumberInv(v)'
    BY DEF IInv, TypeOK, Start, StepInv, NumberInv, HasVersion
  <2>2. ReadInv(u)'
    BY DEF IInv, TypeOK, Start, ReadInv, HasVersion
  <2>3. ASSUME NEW v \in Users \ {u} PROVE ReadInv(v)'
    BY <1>1, <2>3 DEF IInv, TypeOK, Start, ReadInv, HasVersion
  <2>4. QED
    BY <2>1, <2>2, <2>3
<1>5. \A j \in Items : \A l \in Versions :
         Approvers(j, l)' \subseteq Approvers(j, l) \/ review[j][l] = "pending"
  <2> SUFFICES ASSUME NEW j \in Items, NEW l \in Versions, j # i \/ l # k
               PROVE  Approvers(j, l)' \subseteq Approvers(j, l)
    OBVIOUS
  <2> QED
    BY DEF IInv, TypeOK, Start, Approvers, Decides
<1>6. NoGaps' /\ LastPointerWins' /\ \A j \in Items : \A l \in Versions : PromotionInv(j, l)'
  BY <1>1, <1>5, RowsStand
<1>7. QED
  BY <1>1, <1>2, <1>3, <1>4, <1>6 DEF IInv

LEMMA RollbackStep ==
    ASSUME IInv, ReviewAssumption, NEW u \in Users, NEW i \in Items, NEW k \in Versions,
           Rollback(u, i, k)
    PROVE  IInv'
<1> USE DEF Rollback, committed, Active, Flushed
<1>1. /\ AloneInv' /\ overlapped' \subseteq Items /\ overlapped \subseteq overlapped'
      /\ step' \in [Users -> {"idle", "created", "numbered", "checked", "loaded", "flushed"}]
      /\ op' \in [Users -> Ops] /\ item' \in [Users -> Items] /\ ver' \in [Users -> 0..MaxVersions]
  <2>1. k \in 0..MaxVersions /\ "rollback" \in Ops
    BY ReviewAssumption DEF Versions, Ops
  <2>2. QED
    BY <2>1, StartStep DEF IInv
<1>2. TypeOK'
  BY <1>1 DEF IInv, TypeOK
<1>3. KeyInv'
  BY DEF IInv, TypeOK, KeyInv, Start
<1>4. \A v \in Users : StepInv(v)' /\ NumberInv(v)' /\ ReadInv(v)'
  <2>1. \A v \in Users : StepInv(v)' /\ NumberInv(v)'
    BY DEF IInv, TypeOK, Start, StepInv, NumberInv, HasVersion
  <2>2. ReadInv(u)'
    BY DEF IInv, TypeOK, Start, ReadInv, HasVersion
  <2>3. ASSUME NEW v \in Users \ {u} PROVE ReadInv(v)'
    BY <1>1, <2>3 DEF IInv, TypeOK, Start, ReadInv, HasVersion
  <2>4. QED
    BY <2>1, <2>2, <2>3
<1>5. \A j, l : Approvers(j, l)' \subseteq Approvers(j, l)
  BY DEF IInv, TypeOK, Start, Approvers, Decides
<1>6. NoGaps' /\ LastPointerWins' /\ \A j \in Items : \A l \in Versions : PromotionInv(j, l)'
  BY <1>1, <1>5, RowsStand
<1>7. QED
  BY <1>1, <1>2, <1>3, <1>4, <1>6 DEF IInv

LEMMA FlushStep ==
    ASSUME IInv, ReviewAssumption, NEW u \in Users, LoadItem(u) \/ Flush(u)
    PROVE  IInv'
<1> USE DEF committed, locals, Active, Flushed
<1>1. /\ step[u] \in {"checked", "loaded"} /\ step' \in [Users -> {"idle", "created", "numbered", "checked", "loaded", "flushed"}]
      /\ step'[u] \in {"loaded", "flushed"} /\ \A v \in Users \ {u} : step'[v] = step[v]
      /\ loaded' \in [Users -> 0..MaxVersions] /\ \A v \in Users \ {u} : loaded'[v] = loaded[v]
      /\ loaded'[u] = IF step[u] = "checked" THEN published[item[u]] ELSE loaded[u]
      /\ op[u] # "submit"
      /\ UNCHANGED <<committed, overlapped, op, item, ver, promote>>
  BY DEF IInv, TypeOK, StepInv, LoadItem, Flush
<1>2. TypeOK' /\ AloneInv' /\ KeyInv'
  <2>1. TypeOK'
    BY <1>1 DEF IInv, TypeOK
  <2>2. AloneInv' /\ KeyInv'
    BY <1>1 DEF IInv, AloneInv, KeyInv
  <2>3. QED
    BY <2>1, <2>2
<1>3. \A v \in Users : StepInv(v)' /\ NumberInv(v)' /\ ReadInv(v)'
  BY <1>1 DEF IInv, StepInv, NumberInv, ReadInv, HasVersion
<1>4. \A i, k : Approvers(i, k)' \subseteq Approvers(i, k)
  BY <1>1 DEF Approvers, Decides
<1>5. NoGaps' /\ LastPointerWins' /\ \A i \in Items : \A k \in Versions : PromotionInv(i, k)'
  BY <1>1, <1>4, RowsStand
<1>6. QED
  BY <1>2, <1>3, <1>5 DEF IInv
-----------------------------------------------------------------------------
(* The commit.                                                             *)

\* The columns after a commit, row by row.
LEMMA CommitRows ==
    ASSUME IInv, ReviewAssumption, NEW u \in Users, Commit(u)
    PROVE  /\ item[u] \in Items /\ ver[u] \in Versions /\ step[u] = "flushed"
           /\ \A i \in Items : \A k \in Versions :
                 IF i = item[u] /\ k = ver[u]
                 THEN /\ review'[i][k] = Verdict(u, review[i][k])
                      /\ memories'[i][k] = IF op[u] = "approve" /\ promote[u] THEN memories[i][k] + 1
                                           ELSE memories[i][k]
                 ELSE review'[i][k] = review[i][k] /\ memories'[i][k] = memories[i][k]
           /\ \A i \in Items \ {item[u]} : /\ published'[i] = published[i]
                                          /\ repointed'[i] = repointed[i]
           /\ published'[item[u]] = Pointer(u)
           /\ repointed'[item[u]] = IF op[u] \in {"approve", "rollback"} THEN ver[u]
                                    ELSE repointed[item[u]]
           /\ step' = [step EXCEPT ![u] = "idle"]
           /\ UNCHANGED <<locals, overlapped>>
<1>1. item[u] \in Items /\ ver[u] \in Versions /\ step[u] = "flushed"
  BY DEF IInv, TypeOK, Commit, NumberInv, ReadInv, Active
<1>2. /\ review \in [Items -> [Versions -> Reviews]] /\ memories \in [Items -> [Versions -> Nat]]
      /\ published \in [Items -> 0..MaxVersions] /\ repointed \in [Items -> 0..MaxVersions]
  BY DEF IInv, TypeOK
<1>3. ASSUME NEW i \in Items, NEW k \in Versions, i # item[u] \/ k # ver[u]
      PROVE  review'[i][k] = review[i][k] /\ memories'[i][k] = memories[i][k]
  BY <1>1, <1>2, <1>3 DEF Commit
<1>4. /\ review'[item[u]][ver[u]] = Verdict(u, review[item[u]][ver[u]])
      /\ memories'[item[u]][ver[u]] = IF op[u] = "approve" /\ promote[u]
                                      THEN memories[item[u]][ver[u]] + 1
                                      ELSE memories[item[u]][ver[u]]
  BY <1>1, <1>2 DEF Commit
<1>5. /\ \A i \in Items \ {item[u]} : published'[i] = published[i] /\ repointed'[i] = repointed[i]
      /\ published'[item[u]] = Pointer(u)
      /\ repointed'[item[u]] = IF op[u] \in {"approve", "rollback"} THEN ver[u]
                               ELSE repointed[item[u]]
      /\ step' = [step EXCEPT ![u] = "idle"]
      /\ UNCHANGED <<locals, overlapped>>
  BY <1>1, <1>2 DEF Commit, Finish
<1>6. QED
  BY <1>1, <1>3, <1>4, <1>5

\* What exists is never lost, and only a submission adds to it.
LEMMA CommitVersions ==
    ASSUME IInv, ReviewAssumption, NEW u \in Users, Commit(u)
    PROVE  \A i \in Items : \A k \in Versions :
              review'[i][k] # "none" <=>
                 review[i][k] # "none" \/ (op[u] = "submit" /\ i = item[u] /\ k = ver[u])
<1>1. op[u] \in Ops /\ review[item[u]][ver[u]] \in Reviews
  BY CommitRows DEF IInv, TypeOK
<1>2. Verdict(u, review[item[u]][ver[u]]) # "none"
         <=> HasVersion(item[u], ver[u]) \/ op[u] = "submit"
  BY <1>1, CommitRows DEF IInv, ReadInv, Active, Verdict, HasVersion, Ops
<1>3. ASSUME NEW i \in Items, NEW k \in Versions, i # item[u] \/ k # ver[u]
      PROVE  review'[i][k] = review[i][k]
  BY <1>3, CommitRows
<1>4. review'[item[u]][ver[u]] = Verdict(u, review[item[u]][ver[u]])
  BY CommitRows
<1>5. QED
  BY <1>2, <1>3, <1>4 DEF HasVersion

LEMMA CommitStep ==
    ASSUME IInv, ReviewAssumption, NEW u \in Users, Commit(u)
    PROVE  IInv'
<1> DEFINE i == item[u]
           k == ver[u]
<1>1. op[u] \in Ops /\ review[i][k] \in Reviews /\ Verdict(u, review[i][k]) \in Reviews
  BY CommitRows DEF IInv, TypeOK, Verdict, Ops, Reviews
<1>2. TypeOK'
  <2>1. Pointer(u) \in 0..MaxVersions
    BY DEF IInv, TypeOK, Pointer
  <2>2. review' \in [Items -> [Versions -> Reviews]]
    BY <1>1 DEF IInv, TypeOK, Commit
  <2>3. memories' \in [Items -> [Versions -> Nat]]
    <3> DEFINE n == IF op[u] = "approve" /\ promote[u] THEN memories[i][k] + 1 ELSE memories[i][k]
    <3>1. memories' = [memories EXCEPT ![i][k] = n]
      BY DEF Commit
    <3>2. n \in Nat /\ memories \in [Items -> [Versions -> Nat]]
      BY CommitRows DEF IInv, TypeOK
    <3> HIDE DEF n
    <3>3. QED
      BY <3>1, <3>2
  <2>4. QED
    BY <2>1, <2>2, <2>3 DEF IInv, TypeOK, Commit, Finish, locals
<1>3. AloneInv' /\ KeyInv'
  <2>1. step' = [step EXCEPT ![u] = "idle"] /\ DOMAIN step = Users /\ UNCHANGED <<locals, overlapped>>
    BY CommitRows DEF IInv, TypeOK
  <2>2. QED
    BY <2>1 DEF IInv, AloneInv, KeyInv, Active, Flushed, locals
<1>4. NoGaps'
  <2>1. CASE op[u] = "submit"
    <3>1. \A j \in 1..k : j = k \/ HasVersion(i, j)
      <4>1. k \in Nat /\ \A j \in 1..(k - 1) : HasVersion(i, j)
        BY <2>1, CommitRows DEF IInv, NumberInv, Versions
      <4>2. QED
        BY <4>1
    <3>2. QED
      BY <2>1, <3>1, CommitRows, CommitVersions, ReviewAssumption DEF IInv, NoGaps, Versions, HasVersion
  <2>2. CASE op[u] # "submit"
    BY <2>2, CommitVersions, ReviewAssumption DEF IInv, NoGaps, Versions, HasVersion
  <2>3. QED
    BY <2>1, <2>2
<1>5. \A v \in Users : StepInv(v)'
  BY CommitRows DEF IInv, StepInv, TypeOK, locals
<1>6. ASSUME NEW v \in Users PROVE NumberInv(v)'
  <2>1. CASE op[v] = "submit" /\ step'[v] \in {"numbered", "flushed"}
    <3>1. v # u /\ step'[v] = step[v] /\ item[v] \in Items
      BY <2>1, CommitRows DEF IInv, TypeOK
    <3>2. NumberInv(v) /\ ver[v] \in Versions
      BY <2>1, <3>1 DEF IInv, NumberInv
    <3>3. \A j \in 1..(ver[v] - 1) : HasVersion(item[v], j)'
      BY <2>1, <3>1, <3>2, CommitRows, CommitVersions, ReviewAssumption
         DEF NumberInv, Versions, HasVersion, Flushed, locals
    <3>4. Flushed(v) => ~HasVersion(item[v], ver[v])'
      BY <2>1, <3>1, <3>2, CommitRows, CommitVersions
         DEF IInv, KeyInv, NumberInv, Flushed, HasVersion, locals
    <3>5. QED
      BY <3>1, <3>2, <3>3, <3>4, CommitRows DEF NumberInv, Flushed, locals, HasVersion
  <2>2. QED
    BY <2>1, CommitRows DEF NumberInv, locals
<1>7. ASSUME NEW v \in Users PROVE ReadInv(v)'
  <2>1. CASE Active(v)' /\ op[v] # "submit"
    <3>1. v # u /\ step'[v] = step[v] /\ item[v] \in Items /\ Active(u) /\ Active(v)
      BY <2>1, CommitRows DEF IInv, TypeOK, Active
    <3>2. ReadInv(v) /\ ver[v] \in Versions /\ HasVersion(item[v], ver[v])'
      BY <2>1, <3>1, CommitRows, CommitVersions DEF IInv, ReadInv, HasVersion, Active, locals
    <3>3. item[v] \notin overlapped => item[v] # item[u]
      BY <3>1 DEF IInv, AloneInv
    <3>4. QED
      BY <2>1, <3>1, <3>2, <3>3, CommitRows DEF ReadInv, locals, HasVersion, Active
  <2>2. QED
    BY <2>1, CommitRows DEF ReadInv, locals, Active
<1>8. LastPointerWins'
  BY CommitRows DEF IInv, LastPointerWins, ReadInv, Active, Pointer, locals
<1>9. ASSUME NEW j \in Items, NEW l \in Versions PROVE PromotionInv(j, l)'
  <2>1. /\ memories[j][l] \in Nat /\ PromotionInv(j, l) /\ Approvers(j, l) \in SUBSET Users
        /\ Approvers(j, l)' = Approvers(j, l) \ {u}
    BY CommitRows DEF IInv, TypeOK, Approvers, Decides, Active, locals
  <2>2. CASE j = i /\ l = k /\ op[u] = "approve" /\ promote[u]
    <3>1. u \in Approvers(j, l) /\ memories'[j][l] = memories[j][l] + 1 /\ review'[j][l] = "approved"
      BY <2>2, CommitRows DEF Approvers, Decides, Active, Verdict
    <3>2. memories[j][l] + 1 + Cardinality(Approvers(j, l) \ {u}) <= Cardinality(Users)
      BY <2>1, <3>1, OneApproverLess DEF PromotionInv
    <3>3. j \notin overlapped => memories[j][l] = 0
      BY <2>1, <2>2, CommitRows DEF IInv, ReadInv, Active, PromotionInv, Decided
    <3>4. QED
      BY <2>1, <3>1, <3>2, <3>3, CommitRows DEF PromotionInv, Decided
  <2>3. CASE ~(j = i /\ l = k /\ op[u] = "approve" /\ promote[u])
    <3>1. memories'[j][l] = memories[j][l]
      BY <2>3, CommitRows
    <3>2. memories[j][l] + Cardinality(Approvers(j, l)') <= Cardinality(Users)
      BY <2>1, FewerApprovers DEF PromotionInv
    <3>3. memories[j][l] > 0 => /\ review'[j][l] \in Decided
                                /\ j \notin overlapped => review'[j][l] = review[j][l]
      BY <1>1, <2>1, CommitRows
         DEF IInv, PromotionInv, NumberInv, ReadInv, Active, Flushed, HasVersion, Verdict, Ops, Decided
    <3>4. QED
      BY <2>1, <3>1, <3>2, <3>3, CommitRows DEF PromotionInv
  <2>4. QED
    BY <2>2, <2>3
<1>10. QED
  BY <1>2, <1>3, <1>4, <1>5, <1>6, <1>7, <1>8, <1>9 DEF IInv

-----------------------------------------------------------------------------
(* The theorems.                                                           *)

LEMMA NextIInv == IInv /\ [Next]_vars => IInv'
<1> SUFFICES ASSUME IInv, [Next]_vars PROVE IInv'
  OBVIOUS
<1> USE ReviewAssumption
<1>1. ASSUME NEW u \in Users, NEW i \in Items, Submit(u, i) PROVE IInv'
  BY <1>1, SubmitStep
<1>2. ASSUME NEW u \in Users,
             Number(u) \/ InsertVersion(u) \/ LoadItem(u) \/ Flush(u) \/ Commit(u) \/ Abort(u)
      PROVE  IInv'
  BY <1>2, NumberStep, InsertVersionStep, FlushStep, CommitStep, AbortStep
<1>3. ASSUME NEW u \in Users, NEW i \in Items, NEW k \in Versions,
             NEW name \in {"approve", "reject"}, NEW p \in BOOLEAN,
             Decide(u, name, i, k, p) \/ Rollback(u, i, k)
      PROVE  IInv'
  BY <1>3, DecideStep, RollbackStep
<1>4. CASE UNCHANGED vars
  <2>1. NoGaps' /\ LastPointerWins' /\ \A i \in Items : \A k \in Versions : PromotionInv(i, k)'
    BY <1>4, RowsStand DEF vars, locals, committed, Approvers, Decides, Active
  <2>2. QED
    BY <1>4, <2>1 DEF vars, committed, locals, IInv, TypeOK, KeyInv, AloneInv, StepInv, NumberInv,
                      ReadInv, Active, Flushed, HasVersion
<1>5. QED
  BY <1>1, <1>2, <1>3, <1>4 DEF Next

THEOREM Invariant == Spec => []IInv
BY InitIInv, NextIInv, PTL DEF Spec

\* Versions are numbered from 1 without gaps and no two submissions share a
\* number, and the published version is the one named last while calls on the
\* item do not overlap.
THEOREM VersionsAreSound == Spec => []VersionInv
<1>1. IInv => VersionInv
  BY DEF IInv, VersionInv, OwnNumbers, NoGaps, NumberInv, Flushed
<1>2. QED
  BY <1>1, Invariant, PTL

\* A version is promoted once, by an approval, while calls do not overlap, and
\* at most once by each concurrent caller while they do.
THEOREM PromotionsAreBounded == Spec => []PromotionsBounded
<1>1. ASSUME IInv, NEW i \in Items, NEW k \in Versions
      PROVE  memories[i][k] <= Cardinality(Users)
  <2>1. memories[i][k] \in Nat /\ Approvers(i, k) \in SUBSET Users
    BY <1>1 DEF IInv, TypeOK, Approvers
  <2>2. Cardinality(Users) \in Nat /\ Cardinality(Approvers(i, k)) \in Nat
    BY <2>1, ReviewAssumption, FS_Subset, FS_CardinalityType
  <2>3. QED
    BY <1>1, <2>1, <2>2 DEF IInv, PromotionInv
<1>2. IInv => PromotionsBounded
  BY <1>1 DEF IInv, PromotionInv, PromotionsBounded
<1>3. QED
  BY <1>2, Invariant, PTL

\* A decided request stays as it was decided unless two calls on its item
\* overlap.
THEOREM DecisionsAreFinal == Spec => DecisionIsFinal
<1> DEFINE Final == \A i \in Items : \A k \in Versions :
                       review[i][k] \in Decided /\ i \notin overlapped => review'[i][k] = review[i][k]
<1>1. ASSUME IInv, [Next]_vars PROVE Final
  <2>1. CASE UNCHANGED review
    BY <2>1
  <2>2. ASSUME NEW u \in Users, Commit(u) PROVE Final
    <3> SUFFICES ASSUME NEW i \in Items, NEW k \in Versions, review[i][k] \in Decided,
                        i \notin overlapped
                 PROVE  review'[i][k] = review[i][k]
      OBVIOUS
    <3>1. op[u] \in Ops
      BY <1>1 DEF IInv, TypeOK
    <3>2. QED
      BY <1>1, <2>2, <3>1, ReviewAssumption, CommitRows
         DEF IInv, NumberInv, ReadInv, Active, Flushed, HasVersion, Verdict, Ops, Decided
  <2>3. QED
    BY <1>1, <2>1, <2>2
       DEF Next, Submit, Number, InsertVersion, Decide, Rollback, LoadItem, Flush, Abort, vars,
           committed
<1>2. QED
  BY <1>1, Invariant, PTL DEF Spec, DecisionIsFinal

=============================================================================
