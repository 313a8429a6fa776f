---------------------------- MODULE MemoryStores ----------------------------
(***************************************************************************)
(* A memory's life across the three stores of the hybrid architecture:     *)
(* Redis (backend/app/services/short_term_memory.py), PostgreSQL and       *)
(* Qdrant (backend/app/services/memory_promoter.py, memory_service.py).    *)
(*                                                                         *)
(* Redis and Qdrant are written at once, PostgreSQL when the request       *)
(* commits at its end.  A request is one process that runs one operation;  *)
(* the rows it creates are named <<request, memory>>, since every          *)
(* promotion makes a new memory id and a new vector id.  The unique index  *)
(* on memory_promotion_history makes a second promotion of a memory wait   *)
(* for the transaction that holds the first one.                           *)
(***************************************************************************)
EXTENDS Naturals, FiniteSets, Relation

CONSTANTS
    Mem,        \* short-term memories
    Direct,     \* stands for the memory of a row that was never short-term
    Req,        \* requests and promotion cycles, each runs once
    Threshold,  \* ACCESS_COUNT_THRESHOLD
    Left,       \* copies that failed requests may have left in Redis, eligible
    MayFail     \* may workers die and stores fail?

ASSUME StoresAssumption ==
    /\ Threshold \in Nat \ {0}
    /\ Direct \notin Mem
    /\ Left \subseteq Mem
    /\ MayFail \in BOOLEAN

Row == Req \X (Mem \cup {Direct})
Ops == {"none", "create", "smart", "get", "promote", "cycle", "delete"}
Steps == {"idle", "touch", "save", "promote", "upsert", "drop", "scan", "erase", "commit"}
Outcomes == {"done", "failed"}

VARIABLES
    \* Redis
    stored,     \* ids given to memories so far
    copy,       \* stm:<id>: absent, with a TTL, or without one
    flagged,    \* memories whose copy says promotion_eligible
    hits,       \* stm_access:<id>, up to the threshold
    \* PostgreSQL
    rows,       \* committed rows of memory_metadata
    inactive,   \* committed rows with is_active = FALSE
    \* Qdrant
    vectors,
    \* each request
    step, op, cur,
    wrote,      \* rows its transaction has inserted
    erased,     \* rows it has marked inactive
    todo,       \* memories, or rows, it still has to visit
    poisoned,   \* cycles whose session a failed flush has rolled back
    \* history
    dropped,    \* memories each request removed from Redis after promoting them
    missed      \* rows whose vector was not written

redis == <<stored, copy, flagged, hits>>
postgres == <<rows, inactive>>
session == <<wrote, erased, poisoned>>
vars == <<redis, postgres, vectors, step, op, cur, session, todo, dropped, missed>>

Init ==
    /\ flagged \in SUBSET Left /\ stored = flagged
    /\ copy = [m \in Mem |-> IF m \in flagged THEN "volatile" ELSE "none"]
    /\ hits = [m \in Mem |-> 0]
    /\ rows = {} /\ inactive = {} /\ vectors = {}
    /\ step = [p \in Req |-> "idle"]
    /\ op = [p \in Req |-> "none"]
    /\ cur = [p \in Req |-> Direct]
    /\ wrote = [p \in Req |-> {}] /\ erased = [p \in Req |-> {}]
    /\ todo = [p \in Req |-> {}] /\ poisoned = {}
    /\ dropped = [p \in Req |-> {}] /\ missed = {}

-----------------------------------------------------------------------------
Open(p) == step[p] \in Steps \ {"idle"}
Active == rows \ inactive

\* Has a row of memory_promotion_history been committed for m?
Promoted(m) == \E r \in rows : r[2] = m

\* Does p's open transaction hold the key of m in that table?
Holds(p, m) == Open(p) /\ <<p, m>> \in wrote[p]

Begin(p, name, m, next) ==
    /\ step[p] = "idle"
    /\ step' = [step EXCEPT ![p] = next]
    /\ op' = [op EXCEPT ![p] = name]
    /\ cur' = [cur EXCEPT ![p] = m]

Goto(p, next) == step' = [step EXCEPT ![p] = next] /\ UNCHANGED op

\* The request ends and closes its session, which rolls back what is uncommitted.
Close(p, outcome) ==
    /\ Goto(p, outcome)
    /\ wrote' = [wrote EXCEPT ![p] = {}]
    /\ todo' = [todo EXCEPT ![p] = {}]
    /\ UNCHANGED <<erased, poisoned>>

-----------------------------------------------------------------------------
(* Creation.                                                               *)

\* create_memory: the row is flushed, its vector is written next.
CreateMemory(p) ==
    /\ Begin(p, "create", Direct, "upsert")
    /\ wrote' = [wrote EXCEPT ![p] = {<<p, Direct>>}]
    /\ UNCHANGED <<redis, postgres, vectors, erased, poisoned, todo, dropped, missed>>

\* store: a new copy with a TTL, eligible at once if its importance says so.
\* create_memory_smart then promotes it and keeps the copy.
CreateMemorySmart(p, m, important) ==
    /\ m \notin stored /\ stored' = stored \cup {m}
    /\ copy' = [copy EXCEPT ![m] = "volatile"]
    /\ hits' = [hits EXCEPT ![m] = 0]
    /\ flagged' = IF important THEN flagged \cup {m} ELSE flagged
    /\ Begin(p, "smart", m, IF important THEN "promote" ELSE "commit")
    /\ UNCHANGED <<postgres, vectors, session, todo, dropped, missed>>

-----------------------------------------------------------------------------
(* Reading a short-term memory, which counts the access.                   *)

\* get_memory_smart and promote_by_id read the copy.  Without one the first
\* falls back to PostgreSQL and the second answers that there is none.
Read(p, name, m) ==
    /\ Begin(p, name, m, IF copy[m] = "none" THEN "done" ELSE "touch")
    /\ UNCHANGED <<redis, postgres, vectors, session, todo, dropped, missed>>

AfterRead(p) == IF op[p] = "promote" THEN "promote" ELSE "done"

\* INCR of the access count, which makes the key if it is gone.
Touch(p) ==
    LET m == cur[p] IN
    /\ step[p] = "touch"
    /\ hits' = [hits EXCEPT ![m] = IF @ < Threshold THEN @ + 1 ELSE @]
    /\ Goto(p, IF hits'[m] >= Threshold THEN "save" ELSE AfterRead(p))
    /\ UNCHANGED <<stored, copy, flagged, postgres, vectors, cur, session, todo, dropped, missed>>

\* The copy that was read is written back, now eligible, with the TTL the key
\* has: none, if the key has gone since.  Then it is promoted.
Save(p) ==
    LET m == cur[p] IN
    /\ step[p] = "save"
    /\ copy' = [copy EXCEPT ![m] = IF @ = "none" THEN "lasting" ELSE @]
    /\ flagged' = flagged \cup {m}
    /\ Goto(p, "promote")
    /\ UNCHANGED <<stored, hits, postgres, vectors, cur, session, todo, dropped, missed>>

-----------------------------------------------------------------------------
(* promote_memory.                                                         *)

\* The flush of the history row waits for the transaction that holds its key.
WaitsFor(p, q) == p # q /\ step[p] = "promote" /\ p \notin poisoned /\ Holds(q, cur[p])
Blocked(p) == \E q \in Req : WaitsFor(p, q)

\* PostgreSQL fails one of the transactions that wait for each other.
Waits == [p, q \in Req |-> WaitsFor(p, q)]
InDeadlock(p) == Blocked(p) /\ TransitiveClosure(Waits, Req)[p, p]

\* Mutant of FlushPromotion: no unique index on the promotion history.
FlushPromotionTwice(p) ==
    /\ step[p] = "promote" /\ p \notin poisoned
    /\ wrote' = [wrote EXCEPT ![p] = @ \cup {<<p, cur[p]>>}]
    /\ Goto(p, "upsert")
    /\ UNCHANGED <<redis, postgres, vectors, cur, erased, poisoned, todo, dropped, missed>>

\* The row and its history are flushed: this memory was never promoted.
FlushPromotion(p) ==
    /\ step[p] = "promote" /\ p \notin poisoned
    /\ ~Promoted(cur[p]) /\ ~Blocked(p)
    /\ wrote' = [wrote EXCEPT ![p] = @ \cup {<<p, cur[p]>>}]
    /\ Goto(p, "upsert")
    /\ UNCHANGED <<redis, postgres, vectors, cur, erased, poisoned, todo, dropped, missed>>

\* The flush fails.  A request is rolled back and answers with an error.  A
\* cycle notes the error and goes on: the flush has rolled its whole session
\* back, and every later use of it fails.
FailFlush(p) ==
    /\ step[p] = "promote"
    /\ p \in poisoned \/ Promoted(cur[p]) \/ InDeadlock(p)
    /\ IF op[p] = "cycle"
       THEN /\ wrote' = [wrote EXCEPT ![p] = {}]
            /\ poisoned' = poisoned \cup {p}
            /\ Goto(p, "scan")
            /\ UNCHANGED <<erased, todo>>
       ELSE Close(p, "failed")
    /\ UNCHANGED <<redis, postgres, vectors, cur, dropped, missed>>

\* The vector is written.  Only promote_by_id and the cycle remove the copy.
Upsert(p) ==
    /\ step[p] = "upsert"
    /\ vectors' = vectors \cup {<<p, cur[p]>>}
    /\ Goto(p, IF op[p] \in {"promote", "cycle"} THEN "drop" ELSE "commit")
    /\ UNCHANGED <<redis, postgres, cur, session, todo, dropped, missed>>

\* The cycle catches an error of Qdrant, or of building the payload of a
\* team's memory, and keeps the rows that it has flushed.
SkipUpsert(p) ==
    /\ step[p] = "upsert" /\ op[p] = "cycle" /\ MayFail
    /\ missed' = missed \cup {<<p, cur[p]>>}
    /\ Goto(p, "scan")
    /\ UNCHANGED <<redis, postgres, vectors, cur, session, todo, dropped>>

\* The copy and its access count are deleted from Redis.
Drop(p) ==
    LET m == cur[p] IN
    /\ step[p] = "drop"
    /\ copy' = [copy EXCEPT ![m] = "none"]
    /\ hits' = [hits EXCEPT ![m] = 0]
    /\ flagged' = flagged \ {m}
    /\ dropped' = [dropped EXCEPT ![p] = @ \cup {m}]
    /\ Goto(p, IF op[p] = "cycle" THEN "scan" ELSE "commit")
    /\ UNCHANGED <<stored, postgres, vectors, cur, session, todo, missed>>

-----------------------------------------------------------------------------
(* run_promotion_cycle.                                                    *)

StartCycle(p) ==
    /\ Begin(p, "cycle", Direct, "scan")
    /\ todo' = [todo EXCEPT ![p] = Mem]
    /\ UNCHANGED <<redis, postgres, vectors, session, dropped, missed>>

\* The scan yields the keys in any order, each at most once; a key that has
\* come or gone during the scan may be passed over.
ScanNext(p, m) ==
    /\ step[p] = "scan" /\ m \in todo[p]
    /\ todo' = [todo EXCEPT ![p] = @ \ {m}]
    /\ Goto(p, IF copy[m] # "none" /\ m \in flagged THEN "promote" ELSE "scan")
    /\ cur' = [cur EXCEPT ![p] = IF copy[m] # "none" /\ m \in flagged THEN m ELSE @]
    /\ UNCHANGED <<redis, postgres, vectors, session, dropped, missed>>

EndScan(p) ==
    /\ step[p] = "scan" /\ todo[p] = {}
    /\ Goto(p, "commit")
    /\ UNCHANGED <<redis, postgres, vectors, cur, session, todo, dropped, missed>>

-----------------------------------------------------------------------------
(* Deletion, alone or in a batch.                                          *)

DeleteMemories(p, rs) ==
    /\ rs # {} /\ rs \subseteq Active
    /\ Begin(p, "delete", Direct, "erase")
    /\ todo' = [todo EXCEPT ![p] = rs]
    /\ UNCHANGED <<redis, postgres, vectors, session, dropped, missed>>

\* Mutant of Erase: the vector is left in Qdrant.
EraseRowOnly(p, r) ==
    /\ step[p] = "erase" /\ r \in todo[p]
    /\ erased' = [erased EXCEPT ![p] = @ \cup {r}]
    /\ todo' = [todo EXCEPT ![p] = @ \ {r}]
    /\ Goto(p, IF todo'[p] = {} THEN "commit" ELSE "erase")
    /\ UNCHANGED <<redis, postgres, vectors, cur, wrote, poisoned, dropped, missed>>

\* One row is marked inactive and its vector deleted.
Erase(p, r) ==
    /\ step[p] = "erase" /\ r \in todo[p]
    /\ erased' = [erased EXCEPT ![p] = @ \cup {r}]
    /\ vectors' = vectors \ {r}
    /\ todo' = [todo EXCEPT ![p] = @ \ {r}]
    /\ Goto(p, IF todo'[p] = {} THEN "commit" ELSE "erase")
    /\ UNCHANGED <<redis, postgres, cur, wrote, poisoned, dropped, missed>>

-----------------------------------------------------------------------------
(* The end of a request, failures and expiry.                              *)

\* Mutant of Commit: the session that was rolled back is taken for committed.
CommitSilently(p) ==
    /\ step[p] = "commit"
    /\ rows' = rows \cup wrote[p]
    /\ inactive' = inactive \cup erased[p]
    /\ Close(p, "done")
    /\ UNCHANGED <<redis, vectors, cur, dropped, missed>>

\* The commit of a session that a failed flush has rolled back raises.
Commit(p) ==
    /\ step[p] = "commit"
    /\ IF p \in poisoned
       THEN Close(p, "failed") /\ UNCHANGED postgres
       ELSE /\ rows' = rows \cup wrote[p]
            /\ inactive' = inactive \cup erased[p]
            /\ Close(p, "done")
    /\ UNCHANGED <<redis, vectors, cur, dropped, missed>>

\* The worker dies, the database is lost, or an error of Qdrant leaves the
\* request: the transaction is rolled back, not what Redis and Qdrant hold.
Abort(p) ==
    /\ Open(p) /\ MayFail
    /\ Close(p, "failed")
    /\ UNCHANGED <<redis, postgres, vectors, cur, dropped, missed>>

\* The TTL of the copy and of its access count runs out.
Expire(m) ==
    /\ copy[m] = "volatile"
    /\ copy' = [copy EXCEPT ![m] = "none"]
    /\ hits' = [hits EXCEPT ![m] = 0]
    /\ flagged' = flagged \ {m}
    /\ UNCHANGED <<stored, postgres, vectors, step, op, cur, session, todo, dropped, missed>>

-----------------------------------------------------------------------------
Continue(p) ==
    \/ Touch(p) \/ Save(p) \/ FlushPromotion(p) \/ FailFlush(p)
    \/ Upsert(p) \/ Drop(p) \/ EndScan(p) \/ Commit(p)
    \/ \E m \in Mem : ScanNext(p, m)
    \/ \E r \in todo[p] : Erase(p, r)

Next ==
    \/ \E p \in Req :
        \/ Continue(p) \/ SkipUpsert(p) \/ Abort(p)
        \/ CreateMemory(p) \/ StartCycle(p)
        \/ \E m \in Mem, b \in BOOLEAN : CreateMemorySmart(p, m, b)
        \/ \E m \in Mem, name \in {"get", "promote"} : Read(p, name, m)
        \/ \E rs \in SUBSET Active : DeleteMemories(p, rs)
    \/ \E m \in Mem : Expire(m)

Spec == Init /\ [][Next]_vars

-----------------------------------------------------------------------------
TypeOK ==
    /\ copy \in [Mem -> {"none", "volatile", "lasting"}]
    /\ flagged \subseteq stored /\ stored \subseteq Mem
    /\ hits \in [Mem -> 0..Threshold]
    /\ rows \subseteq Row /\ inactive \subseteq rows /\ vectors \subseteq Row
    /\ step \in [Req -> Steps \cup Outcomes] /\ op \in [Req -> Ops]
    /\ cur \in [Req -> Mem \cup {Direct}]
    /\ wrote \in [Req -> SUBSET Row] /\ erased \in [Req -> SUBSET Row]
    /\ todo \in [Req -> SUBSET (Mem \cup Row)]
    /\ poisoned \subseteq Req
    /\ dropped \in [Req -> SUBSET Mem] /\ missed \subseteq Row

\* A short-term memory has at most one long-term row, however many requests,
\* retries and cycles promote it at once.
PromotedOnce ==
    \A r, s \in rows : r[2] = s[2] /\ r[2] # Direct => r = s

\* The row of a request and the vector of a request agree, unless a request
\* that writes or deletes them has not ended, or has ended in an error, or the
\* vector was never written and the row was kept.
Divergent(r) == (r \in vectors) # (r \in Active)
DivergenceExplained ==
    \A r \in vectors \cup rows :
        Divergent(r) => \/ step[r[1]] # "done"
                        \/ r \in missed
                        \/ \E q \in Req : r \in erased[q] /\ step[q] # "done"

\* A memory that a promotion took out of Redis is in PostgreSQL, unless that
\* promotion has not ended or has ended in an error.
DroppedIsStored ==
    \A p \in Req : step[p] = "done" => dropped[p] \subseteq {r[2] : r \in rows}

\* memory_promoter.py:45-54 "The promotion process: ... 3. Store metadata in
\* PostgreSQL ... 5. Delete from Redis": a memory that is removed from Redis by a
\* promotion that has ended is in PostgreSQL.
RemovedMeansStored ==
    \A p \in Req : step[p] \in Outcomes => dropped[p] \subseteq {r[2] : r \in rows}

\* The stores agree with each other, as far as the requests that have ended go.
StoresInv ==
    /\ TypeOK
    /\ DivergenceExplained

=============================================================================
