------------------------ MODULE MemoryStores_proofs -------------------------
(***************************************************************************)
(* What requests and cycles over the three stores keep, for any number of  *)
(* them: a memory is promoted once, a promotion that has ended lost        *)
(* nothing, and rows and vectors differ only as DivergenceExplained says.  *)
(*                                                                         *)
(* The invariant follows a row from the transaction that writes it, alone  *)
(* with its memory's key, through the commit to its deletion.              *)
(***************************************************************************)
EXTENDS MemoryStores, TLAPS

\* The keys of the promotion history: an open transaction has the key of a
\* memory alone, and only of a memory that was not promoted.
KeyInv ==
    \A p, q \in Req : \A m \in Mem :
        <<p, m>> \in wrote[p] => /\ \A r \in rows : r[2] # m
                                 /\ <<q, m>> \in wrote[q] => p = q

\* What a request's transaction holds at its step.
SessionInv(p) ==
    /\ \A r \in wrote[p] : r[1] = p
    /\ step[p] \in Outcomes \cup {"idle", "touch", "save", "erase"} => wrote[p] = {}
    /\ step[p] \in {"idle", "touch", "save"} => erased[p] = {} /\ dropped[p] = {}
    /\ step[p] \in {"upsert", "drop"} => <<p, cur[p]>> \in wrote[p] /\ erased[p] = {}
    /\ step[p] \in {"drop", "scan", "promote"} => erased[p] = {}
    /\ p \in poisoned => wrote[p] = {} /\ step[p] \in {"scan", "promote", "commit", "failed"}
    /\ step[p] = "erase" => todo[p] \subseteq rows
    /\ step[p] = "scan" => op[p] = "cycle"
    /\ step[p] \in {"scan", "promote", "upsert", "drop"} /\ op[p] = "cycle" => todo[p] \subseteq Mem
    /\ step[p] \in {"touch", "save"} => cur[p] \in stored /\ op[p] \in {"get", "promote"}
    /\ step[p] \in {"promote", "drop"} \/ (step[p] = "upsert" /\ op[p] # "create") => cur[p] \in Mem

\* What it has removed from Redis is written, unless its session was lost.
DropInv(p) ==
    /\ Open(p) /\ p \notin poisoned => \A m \in dropped[p] : <<p, m>> \in wrote[p]
    /\ step[p] = "done" => \A m \in dropped[p] : <<p, m>> \in rows

\* What it has written has its vector, or is about to, or does without.
WriteInv(p) ==
    \A r \in wrote[p] : \/ r \in vectors \cup missed
                        \/ step[p] = "upsert" /\ r = <<p, cur[p]>>

\* Rows are committed by requests that are done, and what erased them has left
\* neither a vector nor, if it is done, an active row.
RowInv(r) ==
    /\ r \in rows => /\ step[r[1]] = "done"
                     /\ r \in vectors \cup missed \/ \E q \in Req : r \in erased[q]
    /\ r \in vectors => /\ step[r[1]] = "done" => r \in rows
                        /\ Open(r[1]) /\ r[1] \notin poisoned => r \in wrote[r[1]]
                        /\ step[r[1]] # "idle"
                        /\ r \notin inactive
                        /\ \A q \in Req : r \notin erased[q]

EraseInv(q) == /\ erased[q] \subseteq rows
               /\ step[q] = "done" => erased[q] \subseteq inactive

\* Only what was stored has a copy.
CopyInv == \A m \in Mem : copy[m] # "none" => m \in stored

IInv ==
    /\ TypeOK
    /\ CopyInv
    /\ PromotedOnce
    /\ KeyInv
    /\ \A p \in Req : SessionInv(p) /\ DropInv(p) /\ WriteInv(p) /\ EraseInv(p)
    /\ \A r \in Row : RowInv(r)

LEMMA InitIInv == Init => IInv
BY StoresAssumption DEF Init, IInv, TypeOK, CopyInv, PromotedOnce, KeyInv, SessionInv, DropInv, WriteInv, EraseInv,
       RowInv, Row, Steps, Ops, Outcomes, Open

-----------------------------------------------------------------------------
(* Steps that change neither rows, vectors nor what a transaction wrote.   *)

\* The request's step moves on and the stores stay: what the other parts of the
\* invariant say of it does not change.
LEMMA MoveStep ==
    ASSUME IInv, NEW p \in Req, NEW next \in Steps \cup Outcomes,
           step' = [step EXCEPT ![p] = next], TypeOK', CopyInv', SessionInv(p)', DropInv(p)', EraseInv(p)',
           step[p] # "upsert", step[p] \notin Outcomes,
           next = "done" => \A r \in vectors : r[1] # p,
           next # "idle",
           stored \subseteq stored',
           UNCHANGED <<postgres, vectors, wrote, erased, poisoned, dropped, missed>>,
           \A q \in Req \ {p} : op'[q] = op[q] /\ cur'[q] = cur[q] /\ todo'[q] = todo[q]
    PROVE  IInv'
<1> USE DEF IInv, postgres
<1>1. PromotedOnce' /\ KeyInv'
  BY DEF PromotedOnce, KeyInv
<1>2. \A q \in Req : SessionInv(q)' /\ DropInv(q)' /\ EraseInv(q)'
  <2>1. SUFFICES ASSUME NEW q \in Req \ {p}
                 PROVE  SessionInv(q)' /\ DropInv(q)' /\ EraseInv(q)'
    OBVIOUS
  <2>2. step'[q] = step[q] /\ op'[q] = op[q] /\ cur'[q] = cur[q] /\ todo'[q] = todo[q]
    BY DEF TypeOK
  <2>3. SessionInv(q)'
    BY <2>1, <2>2 DEF SessionInv
  <2>4. DropInv(q)' /\ EraseInv(q)'
    BY <2>1, <2>2 DEF DropInv, EraseInv, Open
  <2>5. QED
    BY <2>3, <2>4
<1>3. \A q \in Req : WriteInv(q)'
  BY DEF TypeOK, WriteInv
<1>4. \A r \in Row : RowInv(r)'
  BY DEF TypeOK, RowInv, Row, Open, Outcomes
<1>5. QED
  BY <1>1, <1>2, <1>3, <1>4

\* A request begins and finds what it needs, or not.
LEMMA BeginStep ==
    ASSUME IInv, NEW p \in Req,
           \/ \E m \in Mem, name \in {"get", "promote"} : Read(p, name, m)
           \/ \E m \in Mem, b \in BOOLEAN : CreateMemorySmart(p, m, b)
           \/ StartCycle(p)
           \/ \E rs \in SUBSET Active : DeleteMemories(p, rs)
    PROVE  IInv'
<1> PICK next \in {"done", "touch", "promote", "commit", "scan", "erase"} :
        /\ step[p] = "idle" /\ step' = [step EXCEPT ![p] = next]
        /\ next = "scan" => op'[p] = "cycle" /\ todo'[p] = Mem
        /\ next = "erase" => todo'[p] \subseteq rows
        /\ next = "promote" => op'[p] = "smart" /\ cur'[p] \in Mem
        /\ next = "touch" => cur'[p] \in stored' /\ op'[p] \in {"get", "promote"}
        /\ stored \subseteq stored' /\ CopyInv'
        /\ UNCHANGED <<postgres, vectors, wrote, erased, poisoned, dropped, missed>>
        /\ \A q \in Req \ {p} : op'[q] = op[q] /\ cur'[q] = cur[q] /\ todo'[q] = todo[q]
  BY DEF IInv, TypeOK, Read, CreateMemorySmart, StartCycle, DeleteMemories, Begin, redis, session,
         Active, CopyInv
<1>1. TypeOK'
  <2>1. CASE \E m \in Mem, name \in {"get", "promote"} : Read(p, name, m)
    BY <2>1 DEF IInv, TypeOK, Read, Begin, redis, postgres, session, Steps, Outcomes, Ops
  <2>2. CASE \E m \in Mem, b \in BOOLEAN : CreateMemorySmart(p, m, b)
    BY <2>2, StoresAssumption
       DEF IInv, TypeOK, CreateMemorySmart, Begin, postgres, session, Steps, Outcomes, Ops
  <2>3. CASE StartCycle(p)
    BY <2>3 DEF IInv, TypeOK, StartCycle, Begin, redis, postgres, session, Steps, Outcomes, Ops
  <2>4. CASE \E rs \in SUBSET Active : DeleteMemories(p, rs)
    BY <2>4 DEF IInv, TypeOK, DeleteMemories, Begin, redis, postgres, session, Active, Steps, Outcomes,
                Ops
  <2>5. QED
    BY <2>1, <2>2, <2>3, <2>4
<1>2. SessionInv(p)' /\ DropInv(p)' /\ EraseInv(p)'
  BY DEF IInv, TypeOK, SessionInv, DropInv, EraseInv, postgres, Outcomes, Open
<1>3. \A r \in vectors : r[1] # p
  BY DEF IInv, TypeOK, RowInv
<1>4. QED
  BY <1>1, <1>2, <1>3, MoveStep DEF Steps, Outcomes

\* It reads its copy and writes it back, or looks for the next one.
LEMMA VisitStep ==
    ASSUME IInv, NEW p \in Req, Touch(p) \/ Save(p) \/ EndScan(p) \/ \E m \in Mem : ScanNext(p, m)
    PROVE  IInv'
<1> DEFINE Moves(next) ==
        /\ step' = [step EXCEPT ![p] = next]
        /\ \/ step[p] \in {"touch", "save"} /\ next \in {"save", "done", "promote"}
           \/ /\ step[p] = "scan" /\ next \in {"scan", "promote", "commit"}
              /\ todo'[p] \subseteq todo[p]
        /\ next = "save" => cur'[p] \in stored
        /\ next = "promote" => cur'[p] \in Mem
        /\ stored' = stored /\ CopyInv' /\ TypeOK'
        /\ op' = op /\ UNCHANGED <<postgres, vectors, wrote, erased, poisoned, dropped, missed>>
        /\ \A q \in Req \ {p} : cur'[q] = cur[q] /\ todo'[q] = todo[q]
<1> USE DEF IInv, TypeOK, Goto, postgres, session, redis, Steps, Outcomes
<1>1. ASSUME Touch(p) PROVE \E next \in {"save", "done", "promote"} : Moves(next)
  <2>1. cur[p] \in stored /\ cur[p] \in Mem
    BY <1>1 DEF SessionInv, Touch
  <2>2. hits[cur[p]] \in 0..Threshold
    BY <2>1
  <2>3. hits' \in [Mem -> 0..Threshold]
    BY <1>1, <2>1, <2>2, StoresAssumption DEF Touch
  <2>4. step'[p] \in {"save", "done", "promote"}
    BY <1>1 DEF Touch, AfterRead
  <2>5. Moves(step'[p])
    BY <1>1, <2>1, <2>3, <2>4 DEF Touch, CopyInv
  <2>6. QED
    BY <2>4, <2>5
<1>2. ASSUME Save(p) PROVE Moves("promote")
  <2>1. cur[p] \in stored /\ cur[p] \in Mem
    BY <1>2 DEF SessionInv, Save
  <2>2. copy' \in [Mem -> {"none", "volatile", "lasting"}] /\ CopyInv'
    BY <1>2, <2>1 DEF Save, CopyInv
  <2>3. QED
    BY <1>2, <2>1, <2>2 DEF Save
<1>3. ASSUME EndScan(p) PROVE Moves("commit")
  BY <1>3 DEF EndScan, CopyInv
<1>4. ASSUME NEW m \in Mem, ScanNext(p, m) PROVE \E next \in {"scan", "promote"} : Moves(next)
  <2>1. CASE copy[m] # "none" /\ m \in flagged
    <3>1. Moves("promote")
      BY <1>4, <2>1 DEF ScanNext, CopyInv
    <3>2. QED
      BY <3>1
  <2>2. CASE ~(copy[m] # "none" /\ m \in flagged)
    <3>1. cur' = cur
      BY <1>4, <2>2 DEF ScanNext
    <3>2. Moves("scan")
      BY <1>4, <2>2, <3>1 DEF ScanNext, CopyInv
    <3>3. QED
      BY <3>2
  <2>3. QED
    BY <2>1, <2>2
<1>5. PICK next \in {"save", "done", "promote", "scan", "commit"} : Moves(next)
  <2> HIDE DEF Moves
  <2> QED
    BY <1>1, <1>2, <1>3, <1>4
<1>6. SessionInv(p)' /\ DropInv(p)' /\ EraseInv(p)'
  BY <1>5 DEF SessionInv, DropInv, EraseInv, Open
<1>7. next = "done" => \A r \in vectors : r[1] # p
  BY <1>5 DEF RowInv, SessionInv, Open
<1>8. QED
  BY <1>5, <1>6, <1>7, MoveStep

-----------------------------------------------------------------------------
(* Steps that write.                                                       *)

\* A row, and with it its memory's key, is added to the transaction.
LEMMA InsertStep ==
    ASSUME IInv, NEW p \in Req, CreateMemory(p) \/ FlushPromotion(p)
    PROVE  IInv'
<1> DEFINE new == <<p, cur'[p]>>
<1>1. /\ step[p] \in {"idle", "promote"} /\ step' = [step EXCEPT ![p] = "upsert"]
      /\ wrote' = [wrote EXCEPT ![p] = @ \cup {new}] /\ new \in Row
      /\ step[p] = "idle" => op'[p] = "create"
      /\ step[p] = "promote" => op'[p] = op[p] /\ cur'[p] \in Mem
      /\ cur'[p] \in Mem => /\ \A r \in rows : r[2] # cur'[p]
                            /\ \A q \in Req \ {p} : new \notin wrote[q] /\ <<q, cur'[p]>> \notin wrote[q]
      /\ p \notin poisoned
      /\ UNCHANGED <<redis, postgres, vectors, erased, poisoned, todo, dropped, missed>>
      /\ \A q \in Req \ {p} : op'[q] = op[q] /\ cur'[q] = cur[q]
  <2>1. CASE CreateMemory(p)
    <3>1. cur'[p] = Direct /\ wrote[p] = {} /\ p \notin poisoned
      BY <2>1 DEF IInv, TypeOK, CreateMemory, Begin, SessionInv
    <3>2. QED
      BY <2>1, <3>1, StoresAssumption DEF IInv, TypeOK, CreateMemory, Begin, Row
  <2>2. CASE FlushPromotion(p)
    <3>1. \A q \in Req \ {p} : ~Holds(q, cur[p])
      BY <2>2 DEF FlushPromotion, Blocked, WaitsFor
    <3>2. \A q \in Req \ {p} : <<q, cur[p]>> \notin wrote[q] /\ <<p, cur[p]>> \notin wrote[q]
      BY <3>1 DEF IInv, TypeOK, SessionInv, Holds, Open, Steps, Outcomes
    <3>3. cur' = cur /\ cur[p] \in Mem /\ step[p] = "promote" /\ p \notin poisoned
      BY <2>2 DEF IInv, SessionInv, FlushPromotion
    <3>4. QED
      BY <2>2, <3>2, <3>3 DEF FlushPromotion, Goto, Promoted, Row
  <2>3. QED
    BY <2>1, <2>2
<1> USE DEF IInv, TypeOK, postgres, redis
<1>2. TypeOK' /\ CopyInv'
  BY <1>1 DEF CopyInv, CreateMemory, FlushPromotion, Begin, Goto, Steps, Ops
<1>3. PromotedOnce' /\ KeyInv'
  BY <1>1 DEF PromotedOnce, KeyInv
<1>4. ASSUME NEW q \in Req PROVE SessionInv(q)'
  <2>1. CASE q = p
    <3>1. wrote'[p] = wrote[p] \cup {new} /\ step'[p] = "upsert" /\ SessionInv(p)
      BY <1>1
    <3>2. op'[p] # "cycle" \/ todo[p] \subseteq Mem
      BY <1>1, <3>1 DEF SessionInv
    <3>3. \A r \in wrote'[p] : r[1] = p
      BY <3>1 DEF SessionInv
    <3>4. QED
      BY <1>1, <2>1, <3>1, <3>2, <3>3 DEF SessionInv, Outcomes
  <2>2. CASE q # p
    BY <1>1, <2>2 DEF SessionInv, Outcomes
  <2>3. QED
    BY <2>1, <2>2
<1>5. \A q \in Req : DropInv(q)'
  BY <1>1 DEF SessionInv, DropInv, Open, Steps
<1>6. ASSUME NEW q \in Req PROVE WriteInv(q)' /\ EraseInv(q)'
  <2>1. CASE q = p
    BY <1>1, <2>1 DEF WriteInv, EraseInv
  <2>2. CASE q # p
    BY <1>1, <2>2 DEF WriteInv, EraseInv
  <2>3. QED
    BY <2>1, <2>2
<1>7. \A r \in Row : RowInv(r)'
  BY <1>1 DEF RowInv, Row, Open, Steps
<1>8. QED
  BY <1>2, <1>3, <1>4, <1>5, <1>6, <1>7

\* A request is rolled back; what it did to Redis and Qdrant stays.
LEMMA FailStep ==
    ASSUME IInv, NEW p \in Req, Open(p), Close(p, "failed"),
           UNCHANGED <<redis, postgres, vectors, cur, dropped, missed>>
    PROVE  IInv'
<1> USE DEF IInv, TypeOK, postgres, redis, Close, Goto, Open, Steps
<1>1. TypeOK' /\ CopyInv'
  BY DEF CopyInv, Outcomes
<1>2. PromotedOnce' /\ KeyInv'
  BY DEF PromotedOnce, KeyInv
<1>3. \A q \in Req : SessionInv(q)'
  BY DEF SessionInv, Outcomes
<1>4. \A q \in Req : DropInv(q)' /\ WriteInv(q)' /\ EraseInv(q)'
  BY DEF DropInv, WriteInv, EraseInv
<1>5. \A r \in Row : RowInv(r)'
  BY DEF RowInv, Row
<1>6. QED
  BY <1>1, <1>2, <1>3, <1>4, <1>5

\* The flush of a cycle fails, and with it goes all that its session wrote.
LEMMA PoisonStep ==
    ASSUME IInv, NEW p \in Req, FailFlush(p), op[p] = "cycle"
    PROVE  IInv'
<1> USE DEF IInv, TypeOK, postgres, redis, FailFlush, Goto, Open, Steps
<1>1. TypeOK' /\ CopyInv'
  BY DEF CopyInv
<1>2. PromotedOnce' /\ KeyInv'
  <2>1. PromotedOnce'
    BY DEF PromotedOnce
  <2>2. wrote'[p] = {} /\ \A q \in Req \ {p} : wrote'[q] = wrote[q]
    OBVIOUS
  <2>3. KeyInv'
    BY <2>2 DEF KeyInv
  <2>4. QED
    BY <2>1, <2>3
<1>3. \A q \in Req : SessionInv(q)'
  BY DEF SessionInv, Outcomes
<1>4. \A q \in Req : DropInv(q)' /\ WriteInv(q)' /\ EraseInv(q)'
  BY DEF DropInv, WriteInv, EraseInv
<1>5. \A r \in Row : RowInv(r)'
  BY DEF RowInv, Row
<1>6. QED
  BY <1>1, <1>2, <1>3, <1>4, <1>5

\* The vector is written, or its failure is swallowed.
LEMMA VectorStep ==
    ASSUME IInv, NEW p \in Req, Upsert(p) \/ SkipUpsert(p)
    PROVE  IInv'
<1> DEFINE new == <<p, cur[p]>>
<1>1. PICK next \in {"drop", "commit", "scan"} :
         /\ step[p] = "upsert" /\ step' = [step EXCEPT ![p] = next]
         /\ next = "scan" => op[p] = "cycle"
         /\ next = "drop" => op[p] # "create"
  BY DEF Upsert, SkipUpsert, Goto
<1>2. /\ new \in wrote[p] /\ new \in Row /\ new \notin rows /\ p \notin poisoned /\ erased[p] = {}
      /\ \A q \in Req : new \notin erased[q]
  BY <1>1 DEF IInv, TypeOK, SessionInv, RowInv, EraseInv
<1>3. /\ vectors \subseteq vectors' /\ vectors' \subseteq vectors \cup {new}
      /\ missed \subseteq missed' /\ missed' \subseteq missed \cup {new}
      /\ new \in vectors' \cup missed'
      /\ UNCHANGED <<redis, postgres, cur, op, session, todo, dropped>>
  BY DEF Upsert, SkipUpsert, Goto
<1> USE DEF IInv, TypeOK, postgres, redis, session
<1>4. TypeOK' /\ CopyInv'
  BY <1>1, <1>2, <1>3 DEF CopyInv, Steps
<1>5. PromotedOnce' /\ KeyInv'
  BY <1>3 DEF PromotedOnce, KeyInv
<1>6. \A q \in Req : SessionInv(q)'
  BY <1>1, <1>2, <1>3 DEF SessionInv, Outcomes
<1>7. \A q \in Req : DropInv(q)' /\ WriteInv(q)' /\ EraseInv(q)'
  <2>1. \A q \in Req : DropInv(q)'
    BY <1>1, <1>2, <1>3 DEF DropInv, Open, Steps
  <2>2. \A q \in Req : WriteInv(q)'
    BY <1>1, <1>2, <1>3 DEF WriteInv
  <2>3. \A q \in Req : EraseInv(q)'
    BY <1>1, <1>2, <1>3 DEF EraseInv
  <2>4. QED
    BY <2>1, <2>2, <2>3
<1>8. \A r \in Row : RowInv(r)'
  BY <1>1, <1>2, <1>3 DEF RowInv, Row, Open, Steps
<1>9. QED
  BY <1>4, <1>5, <1>6, <1>7, <1>8

\* The copy is removed: its row is written, though not committed.
LEMMA DropStep ==
    ASSUME IInv, NEW p \in Req, Drop(p)
    PROVE  IInv'
<1>1. PICK next \in {"scan", "commit"} :
         /\ step[p] = "drop" /\ step' = [step EXCEPT ![p] = next]
         /\ next = "scan" => op[p] = "cycle"
  BY DEF Drop, Goto
<1>2. /\ <<p, cur[p]>> \in wrote[p] /\ dropped' = [dropped EXCEPT ![p] = @ \cup {cur[p]}]
      /\ cur[p] \in Mem
      /\ UNCHANGED <<stored, postgres, vectors, cur, op, session, todo, missed>>
  BY DEF IInv, SessionInv, Drop, Goto
<1> USE DEF IInv, TypeOK, postgres, session
<1>3. TypeOK' /\ CopyInv'
  BY <1>1, <1>2, StoresAssumption DEF Drop, CopyInv, Steps
<1>4. PromotedOnce' /\ KeyInv'
  BY <1>2 DEF PromotedOnce, KeyInv
<1>5. \A q \in Req : SessionInv(q)'
  BY <1>1, <1>2 DEF SessionInv, Outcomes
<1>6. \A q \in Req : DropInv(q)' /\ WriteInv(q)' /\ EraseInv(q)'
  BY <1>1, <1>2 DEF DropInv, WriteInv, EraseInv, Open, Steps
<1>7. \A r \in Row : RowInv(r)'
  BY <1>1, <1>2 DEF RowInv, Row, Open, Steps
<1>8. QED
  BY <1>3, <1>4, <1>5, <1>6, <1>7

\* A committed row is marked in the transaction, and its vector goes at once.
LEMMA EraseStep ==
    ASSUME IInv, NEW p \in Req, NEW r \in todo[p], Erase(p, r)
    PROVE  IInv'
<1>1. PICK next \in {"commit", "erase"} : step[p] = "erase" /\ step' = [step EXCEPT ![p] = next]
  BY DEF Erase, Goto
<1>2. r \in rows /\ r \in Row /\ p \notin poisoned /\ wrote[p] = {}
  BY <1>1 DEF IInv, TypeOK, SessionInv
<1>3. ASSUME NEW q \in Req, r \in wrote[q] PROVE FALSE
  <2>1. SessionInv(q) /\ RowInv(r)
    BY <1>2 DEF IInv
  <2>2. r[1] = q
    BY <1>3, <2>1 DEF SessionInv
  <2>3. step[q] = "done"
    BY <1>2, <2>1, <2>2 DEF RowInv
  <2>4. QED
    BY <1>3, <2>1, <2>3 DEF SessionInv, Outcomes
<1>4. /\ erased' = [erased EXCEPT ![p] = @ \cup {r}] /\ vectors' = vectors \ {r}
      /\ todo' = [todo EXCEPT ![p] = @ \ {r}]
      /\ UNCHANGED <<redis, postgres, cur, op, wrote, poisoned, dropped, missed>>
  BY DEF Erase, Goto
<1> USE DEF IInv, TypeOK, postgres, redis
<1>5. TypeOK' /\ CopyInv'
  BY <1>1, <1>2, <1>4 DEF CopyInv, Steps
<1>6. PromotedOnce' /\ KeyInv'
  BY <1>4 DEF PromotedOnce, KeyInv
<1>7. \A q \in Req : SessionInv(q)'
  BY <1>1, <1>2, <1>4 DEF SessionInv, Outcomes
<1>8. \A q \in Req : DropInv(q)' /\ WriteInv(q)' /\ EraseInv(q)'
  BY <1>1, <1>2, <1>3, <1>4 DEF DropInv, WriteInv, EraseInv, Open, Steps
<1>9. ASSUME NEW s \in Row PROVE RowInv(s)'
  <2>1. s # r \/ (s \notin vectors' /\ s \in erased'[p])
    BY <1>4
  <2>2. \A q \in Req : erased[q] \subseteq erased'[q] /\ erased'[q] \subseteq erased[q] \cup {r}
    BY <1>4
  <2>3. QED
    BY <1>1, <1>2, <1>4, <1>9, <2>1, <2>2 DEF RowInv, Row, Open, Steps
<1>10. QED
  BY <1>5, <1>6, <1>7, <1>8, <1>9

\* The transaction is committed: what it wrote becomes rows, what it erased
\* inactive.
LEMMA CommitStep ==
    ASSUME IInv, NEW p \in Req, Commit(p), p \notin poisoned
    PROVE  IInv'
<1>1. /\ step[p] = "commit" /\ step' = [step EXCEPT ![p] = "done"]
      /\ rows' = rows \cup wrote[p] /\ inactive' = inactive \cup erased[p]
      /\ wrote' = [wrote EXCEPT ![p] = {}] /\ todo' = [todo EXCEPT ![p] = {}]
      /\ UNCHANGED <<redis, vectors, cur, op, erased, poisoned, dropped, missed>>
  BY DEF Commit, Close, Goto
<1> USE DEF IInv, TypeOK, redis
<1>2. TypeOK' /\ CopyInv'
  BY <1>1 DEF CopyInv, EraseInv, Steps, Outcomes
<1>3. \A t \in wrote[p] : t \in Row /\ t = <<p, t[2]>>
  <2> SUFFICES ASSUME NEW t \in wrote[p] PROVE t \in Row /\ t = <<p, t[2]>>
    OBVIOUS
  <2>1. t \in Row /\ t[1] = p
    BY DEF SessionInv
  <2>2. QED
    BY <2>1 DEF Row
<1>4. PromotedOnce'
  <2> SUFFICES ASSUME NEW r \in rows', NEW s \in rows', r[2] = s[2], r[2] # Direct
               PROVE  r = s
    BY DEF PromotedOnce
  <2>1. \A t \in wrote[p] : t[2] \in Mem => \A v \in rows : v[2] # t[2]
    BY <1>3 DEF KeyInv
  <2>2. r[2] \in Mem
    BY <1>1, <1>3 DEF Row
  <2>3. QED
    BY <1>1, <1>3, <2>1, <2>2 DEF PromotedOnce
<1>5. KeyInv'
  <2> SUFFICES ASSUME NEW q \in Req, NEW m \in Mem, <<q, m>> \in wrote'[q]
               PROVE  /\ \A r \in rows' : r[2] # m
                      /\ \A v \in Req : <<v, m>> \in wrote'[v] => q = v
    BY DEF KeyInv
  <2>1. q # p /\ <<q, m>> \in wrote[q]
    BY <1>1
  <2>2. <<p, m>> \notin wrote[p]
    BY <2>1 DEF KeyInv
  <2>3. QED
    BY <1>1, <1>3, <2>1, <2>2 DEF KeyInv
<1>6. \A q \in Req : SessionInv(q)'
  BY <1>1 DEF SessionInv, Outcomes
<1>7. \A q \in Req : DropInv(q)' /\ WriteInv(q)' /\ EraseInv(q)'
  BY <1>1 DEF DropInv, WriteInv, EraseInv, Open, Steps
<1>8. ASSUME NEW r \in Row PROVE RowInv(r)'
  <2>1. r \in wrote[p] => r[1] = p /\ r \in vectors \cup missed
    BY <1>1 DEF SessionInv, WriteInv
  <2>2. r \in vectors /\ r[1] = p => r \in wrote[p]
    BY <1>1, <1>8 DEF RowInv, Open, Steps
  <2>3. r \in vectors => r \notin inactive'
    BY <1>1, <1>8 DEF RowInv
  <2>4. QED
    BY <1>1, <1>8, <2>1, <2>2, <2>3 DEF RowInv, Row, Open, Steps
<1>9. QED
  BY <1>2, <1>4, <1>5, <1>6, <1>7, <1>8

\* The time of a copy runs out.
LEMMA ExpireStep ==
    ASSUME IInv, NEW m \in Mem, Expire(m)
    PROVE  IInv'
<1> USE DEF IInv, TypeOK, Expire, postgres, session
<1>1. TypeOK' /\ CopyInv'
  BY StoresAssumption DEF CopyInv
<1>2. PromotedOnce' /\ KeyInv' /\ \A r \in Row : RowInv(r)'
  BY DEF PromotedOnce, KeyInv, RowInv, Open
<1>3. \A p \in Req : SessionInv(p)' /\ DropInv(p)' /\ WriteInv(p)' /\ EraseInv(p)'
  BY DEF SessionInv, DropInv, WriteInv, EraseInv, Open
<1>4. QED
  BY <1>1, <1>2, <1>3

-----------------------------------------------------------------------------
(* The theorems.                                                           *)

LEMMA NextIInv == IInv /\ [Next]_vars => IInv'
<1> SUFFICES ASSUME IInv, [Next]_vars PROVE IInv'
  OBVIOUS
<1>1. ASSUME NEW p \in Req, FailFlush(p) PROVE IInv'
  <2>1. CASE op[p] = "cycle"
    BY <1>1, <2>1, PoisonStep
  <2>2. CASE op[p] # "cycle"
    BY <1>1, <2>2, FailStep DEF FailFlush, Open, Steps
  <2>3. QED
    BY <2>1, <2>2
<1>2. ASSUME NEW p \in Req, Commit(p) PROVE IInv'
  <2>1. CASE p \in poisoned
    BY <1>2, <2>1, FailStep DEF Commit, Open, Steps
  <2>2. CASE p \notin poisoned
    BY <1>2, <2>2, CommitStep
  <2>3. QED
    BY <2>1, <2>2
<1>3. ASSUME NEW p \in Req, Continue(p) PROVE IInv'
  BY <1>1, <1>2, <1>3, VisitStep, InsertStep, VectorStep, DropStep, EraseStep DEF Continue
<1>4. ASSUME NEW p \in Req, SkipUpsert(p) \/ Abort(p) \/ CreateMemory(p) PROVE IInv'
  BY <1>4, VectorStep, InsertStep, FailStep DEF Abort
<1>5. ASSUME NEW p \in Req,
             \/ StartCycle(p)
             \/ \E m \in Mem, b \in BOOLEAN : CreateMemorySmart(p, m, b)
             \/ \E m \in Mem, name \in {"get", "promote"} : Read(p, name, m)
             \/ \E rs \in SUBSET Active : DeleteMemories(p, rs)
      PROVE  IInv'
  BY <1>5, BeginStep
<1>6. CASE UNCHANGED vars
  <2> USE <1>6 DEF vars, redis, postgres, session, IInv
  <2>1. TypeOK' /\ CopyInv' /\ PromotedOnce' /\ KeyInv' /\ \A r \in Row : RowInv(r)'
    BY DEF TypeOK, CopyInv, PromotedOnce, KeyInv, RowInv, Open
  <2>2. \A p \in Req : SessionInv(p)' /\ DropInv(p)' /\ WriteInv(p)' /\ EraseInv(p)'
    BY DEF SessionInv, DropInv, WriteInv, EraseInv, Open
  <2>3. QED
    BY <2>1, <2>2
<1>7. QED
  BY <1>3, <1>4, <1>5, <1>6, ExpireStep DEF Next

THEOREM Invariant == Spec => []IInv
BY InitIInv, NextIInv, PTL DEF Spec

\* However many requests and cycles promote a memory, it has one row.
THEOREM MemoriesArePromotedOnce == Spec => []PromotedOnce
<1>1. IInv => PromotedOnce
  BY DEF IInv
<1>2. QED
  BY <1>1, Invariant, PTL

\* A promotion that is done has stored what it removed from Redis.
THEOREM DoneIsStored == Spec => []DroppedIsStored
<1>1. IInv => DroppedIsStored
  <2> SUFFICES ASSUME IInv, NEW p \in Req, step[p] = "done", NEW m \in dropped[p]
               PROVE  m \in {r[2] : r \in rows}
    BY DEF DroppedIsStored
  <2>1. <<p, m>> \in rows
    BY DEF IInv, DropInv
  <2>2. <<p, m>>[2] = m
    OBVIOUS
  <2>3. QED
    BY <2>1, <2>2
<1>2. QED
  BY <1>1, Invariant, PTL

\* Rows and vectors agree except where a request failed, has not ended, or has
\* swallowed the failure of a vector.
THEOREM StoresAgree == Spec => []StoresInv
<1>1. ASSUME IInv, NEW r \in vectors \cup rows, Divergent(r), step[r[1]] = "done", r \notin missed
      PROVE  \E q \in Req : r \in erased[q] /\ step[q] # "done"
  <2>1. r \in Row
    BY <1>1 DEF IInv, TypeOK
  <2>2. r \in rows /\ r \notin vectors /\ r \notin inactive
    BY <1>1, <2>1 DEF IInv, RowInv, Divergent, Active
  <2>3. PICK q \in Req : r \in erased[q]
    BY <1>1, <2>1, <2>2 DEF IInv, RowInv
  <2>4. QED
    BY <1>1, <2>2, <2>3 DEF IInv, EraseInv
<1>2. IInv => StoresInv
  BY <1>1 DEF IInv, StoresInv, DivergenceExplained
<1>3. QED
  BY <1>2, Invariant, PTL

=============================================================================
