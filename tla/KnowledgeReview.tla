--------------------------- MODULE KnowledgeReview --------------------------
(***************************************************************************)
(* Knowledge items, their versions and their review requests               *)
(* (backend/app/services/knowledge_review_service.py).                     *)
(*                                                                         *)
(* Each call is one transaction at READ COMMITTED that reads its rows      *)
(* without locking them, decides, and writes them in a flush at the end.   *)
(* The flush writes only the columns whose value differs from the one that *)
(* was read, and locks the rows it writes until the commit.  The unique    *)
(* indexes on an item's key and on (item_id, version_number) make an       *)
(* INSERT wait for the transaction that holds the same key.                *)
(***************************************************************************)
EXTENDS Naturals, FiniteSets

CONSTANTS
    Items,         \* knowledge items, one per key
    MaxVersions,   \* versions an item ever gets (bounds the model)
    Users          \* concurrent callers

ASSUME ReviewAssumption == MaxVersions \in Nat /\ Items # {} /\ IsFiniteSet(Users)

Versions == 1..MaxVersions
Reviews == {"none", "pending", "approved", "rejected"}
Decided == {"approved", "rejected"}
Ops == {"submit", "approve", "reject", "rollback"}

VARIABLES
    \* committed rows
    exists,      \* items
    review,      \* status of the request of each version of each item
    published,   \* published version of each item, or 0
    memories,    \* long-term memories each version was promoted to
    \* each caller's transaction
    step, op, item, ver,
    loaded,      \* published_version_id of the item when it was read
    promote,     \* promote_to_memory
    \* history
    repointed,   \* version the last committed approval or rollback of each item named
    overlapped   \* items that two callers had open at once

committed == <<exists, review, published, memories, repointed>>
locals == <<op, item, ver, loaded, promote>>
vars == <<committed, step, locals, overlapped>>

AnItem == CHOOSE i \in Items : TRUE

Init ==
    /\ exists = {}
    /\ review = [i \in Items |-> [k \in Versions |-> "none"]]
    /\ published = [i \in Items |-> 0]
    /\ memories = [i \in Items |-> [k \in Versions |-> 0]]
    /\ repointed = [i \in Items |-> 0]
    /\ step = [u \in Users |-> "idle"]
    /\ op = [u \in Users |-> "submit"]
    /\ item = [u \in Users |-> AnItem]
    /\ ver = [u \in Users |-> 0]
    /\ loaded = [u \in Users |-> 0]
    /\ promote = [u \in Users |-> FALSE]
    /\ overlapped = {}

-----------------------------------------------------------------------------
(* What the open transactions have written, and so locked.                 *)

HasVersion(i, k) == review[i][k] # "none"

\* coalesce(max(version_number), 0).
LastVersion(i) ==
    IF \E k \in Versions : HasVersion(i, k)
    THEN CHOOSE k \in Versions : HasVersion(i, k) /\ \A j \in Versions : HasVersion(i, j) => j <= k
    ELSE 0

Flushed(u) == step[u] = "flushed"
WritesItem(u, i) == Flushed(u) /\ op[u] \in {"approve", "rollback"} /\ item[u] = i
WritesRequest(u, i, k) == /\ Flushed(u) /\ op[u] \in {"approve", "reject"}
                          /\ item[u] = i /\ ver[u] = k
HoldsVersionKey(u, i, k) == Flushed(u) /\ op[u] = "submit" /\ item[u] = i /\ ver[u] = k
HoldsItemKey(u, i) == /\ i \notin exists
                      /\ op[u] = "submit" /\ item[u] = i /\ step[u] # "idle"

Others(u) == Users \ {u}

\* A call begins: nothing is read yet, or all that matters is read at once.
Start(u, name, i, k, next) ==
    /\ step[u] = "idle"
    /\ step' = [step EXCEPT ![u] = next]
    /\ op' = [op EXCEPT ![u] = name]
    /\ item' = [item EXCEPT ![u] = i]
    /\ ver' = [ver EXCEPT ![u] = k]
    /\ overlapped' = IF \E v \in Others(u) : step[v] # "idle" /\ item[v] = i
                     THEN overlapped \cup {i} ELSE overlapped

Finish(u) == step' = [step EXCEPT ![u] = "idle"]

-----------------------------------------------------------------------------
(* submit_for_review.                                                      *)

\* A new item is inserted, which waits for another INSERT of its key, or the
\* named item is looked up.  A key that exists already is refused.
Submit(u, i) ==
    /\ i \notin exists => \A v \in Others(u) : ~HoldsItemKey(v, i)
    /\ Start(u, "submit", i, 0, "created")
    /\ UNCHANGED <<committed, loaded, promote>>

\* The next version number: the largest committed one, plus one.
Number(u) ==
    /\ step[u] = "created"
    /\ ver' = [ver EXCEPT ![u] = LastVersion(item[u]) + 1]
    /\ ver'[u] \in Versions
    /\ step' = [step EXCEPT ![u] = "numbered"]
    /\ UNCHANGED <<committed, overlapped, op, item, loaded, promote>>

\* Mutant of InsertVersion: no unique index on (item_id, version_number).
InsertVersionAnyway(u) ==
    /\ step[u] = "numbered"
    /\ step' = [step EXCEPT ![u] = "flushed"]
    /\ UNCHANGED <<committed, overlapped, locals>>

\* The version and its pending request are inserted, unless the number is taken.
InsertVersion(u) ==
    /\ step[u] = "numbered"
    /\ \A v \in Others(u) : ~HoldsVersionKey(v, item[u], ver[u])
    /\ step' = [step EXCEPT ![u] = IF HasVersion(item[u], ver[u]) THEN "idle" ELSE "flushed"]
    /\ UNCHANGED <<committed, overlapped, locals>>

-----------------------------------------------------------------------------
(* approve_review_request, reject_review_request, rollback_item.           *)

\* Mutant of Decide: the test that the request is pending is dropped.
DecideAgain(u, name, i, k, p) ==
    /\ review[i][k] # "none"
    /\ Start(u, name, i, k, IF name = "approve" THEN "checked" ELSE "loaded")
    /\ promote' = [promote EXCEPT ![u] = p /\ name = "approve"]
    /\ UNCHANGED <<committed, loaded>>

\* The request is read and found pending.
Decide(u, name, i, k, p) ==
    /\ review[i][k] = "pending"
    /\ Start(u, name, i, k, IF name = "approve" THEN "checked" ELSE "loaded")
    /\ promote' = [promote EXCEPT ![u] = p /\ name = "approve"]
    /\ UNCHANGED <<committed, loaded>>

\* Mutant of LoadItem: the item is not read again.
LoadItemCached(u) ==
    /\ step[u] = "checked"
    /\ step' = [step EXCEPT ![u] = "loaded"]
    /\ UNCHANGED <<committed, overlapped, locals>>

\* An approval then reads the item and the version.
LoadItem(u) ==
    /\ step[u] = "checked"
    /\ loaded' = [loaded EXCEPT ![u] = published[item[u]]]
    /\ step' = [step EXCEPT ![u] = "loaded"]
    /\ UNCHANGED <<committed, overlapped, op, item, ver, promote>>

\* rollback_item reads the item and any version of it, approved or not.
Rollback(u, i, k) ==
    /\ HasVersion(i, k)
    /\ Start(u, "rollback", i, k, "loaded")
    /\ loaded' = [loaded EXCEPT ![u] = published[i]]
    /\ UNCHANGED <<committed, promote>>

\* The flush: its UPDATEs wait for the rows that others have written.
Flush(u) ==
    /\ step[u] = "loaded"
    /\ op[u] \in {"approve", "rollback"} => \A v \in Others(u) : ~WritesItem(v, item[u])
    /\ op[u] \in {"approve", "reject"} => \A v \in Others(u) : ~WritesRequest(v, item[u], ver[u])
    /\ step' = [step EXCEPT ![u] = "flushed"]
    /\ UNCHANGED <<committed, overlapped, locals>>

-----------------------------------------------------------------------------
\* Mutant of Verdict: the approval forgets to set the status of the request.
VerdictForgotten(u, old) ==
    CASE op[u] = "submit" -> "pending"
      [] op[u] = "reject" -> "rejected"
      [] OTHER -> old

\* The status the transaction gives to the request of its version.
Verdict(u, old) ==
    CASE op[u] = "submit" -> "pending"
      [] op[u] = "approve" -> "approved"
      [] op[u] = "reject" -> "rejected"
      [] op[u] = "rollback" -> old

\* The published version after the transaction: the column is written when
\* the new value differs from the one that was loaded.
Pointer(u) ==
    IF op[u] \in {"approve", "rollback"} /\ loaded[u] # ver[u]
    THEN ver[u] ELSE published[item[u]]

Commit(u) ==
    LET i == item[u]
        k == ver[u]
    IN
    /\ step[u] = "flushed"
    /\ exists' = exists \cup {i}
    /\ review' = [review EXCEPT ![i][k] = Verdict(u, @)]
    /\ published' = [published EXCEPT ![i] = Pointer(u)]
    /\ memories' = [memories EXCEPT ![i][k] = IF op[u] = "approve" /\ promote[u] THEN @ + 1 ELSE @]
    /\ repointed' = [repointed EXCEPT ![i] = IF op[u] \in {"approve", "rollback"} THEN k ELSE @]
    /\ Finish(u)
    /\ UNCHANGED <<locals, overlapped>>

\* An exception, a deadlock or a lost connection rolls the transaction back.
Abort(u) ==
    /\ step[u] # "idle"
    /\ Finish(u)
    /\ UNCHANGED <<committed, overlapped, locals>>

Next ==
    \E u \in Users :
        \/ \E i \in Items : Submit(u, i)
        \/ Number(u) \/ InsertVersion(u)
        \/ \E i \in Items, k \in Versions :
              \/ \E name \in {"approve", "reject"}, p \in BOOLEAN : Decide(u, name, i, k, p)
              \/ Rollback(u, i, k)
        \/ LoadItem(u) \/ Flush(u) \/ Commit(u) \/ Abort(u)

Spec == Init /\ [][Next]_vars

-----------------------------------------------------------------------------
(* Properties.                                                             *)

TypeOK ==
    /\ exists \subseteq Items
    /\ review \in [Items -> [Versions -> Reviews]]
    /\ published \in [Items -> 0..MaxVersions]
    /\ memories \in [Items -> [Versions -> Nat]]
    /\ repointed \in [Items -> 0..MaxVersions]
    /\ overlapped \subseteq Items
    /\ step \in [Users -> {"idle", "created", "numbered", "checked", "loaded", "flushed"}]
    /\ op \in [Users -> Ops]
    /\ item \in [Users -> Items]
    /\ ver \in [Users -> 0..MaxVersions]
    /\ loaded \in [Users -> 0..MaxVersions]
    /\ promote \in [Users -> BOOLEAN]

\* The versions of an item are numbered from 1 without gaps, and a submission
\* that is about to commit adds one that nobody has: the number is read without
\* a lock, and it is the index that sends one of two submitters away.
OwnNumbers ==
    /\ \A i \in Items : \A k \in Versions :
          HasVersion(i, k) => \A j \in 1..k : HasVersion(i, j)
    /\ \A u \in Users :
          Flushed(u) /\ op[u] = "submit" => ~HasVersion(item[u], ver[u])

\* A request that was decided stays as it was decided ("Review request is not
\* pending" is the answer to a second decision), as long as the calls on its
\* item do not overlap.
DecisionIsFinal ==
    [][\A i \in Items : \A k \in Versions :
          review[i][k] \in Decided /\ i \notin overlapped => review'[i][k] = review[i][k]]_vars

\* The same without the condition: the code looks at a copy that may be stale.
NoSecondDecision ==
    [][\A i \in Items : \A k \in Versions :
          review[i][k] \in Decided => review'[i][k] = review[i][k]]_vars

\* What is in long-term memory was approved and put there once ("knowledge must
\* pass review before promotion") if no calls overlap, and never more often than
\* there are concurrent callers: nobody reads a decided request as pending.
PromotionsBounded ==
    \A i \in Items : \A k \in Versions :
        /\ memories[i][k] <= Cardinality(Users)
        /\ i \notin overlapped /\ memories[i][k] > 0 =>
              memories[i][k] = 1 /\ review[i][k] = "approved"

\* An approval or a rollback that commits points the item at its version
\* ("repoint the published version"), as long as the calls do not overlap: the
\* column is left out of an UPDATE that would not change what was read.
LastPointerWins ==
    \A i \in Items \ overlapped : published[i] = repointed[i]

\* What the rows of an item say of its versions, at every commit.
VersionInv ==
    /\ TypeOK
    /\ OwnNumbers
    /\ LastPointerWins

=============================================================================
