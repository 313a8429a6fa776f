------------------------ MODULE MemoryAccess_proofs -------------------------
(***************************************************************************)
(* Proofs about the decision on a memory and what requests do with it, for *)
(* every number of memories, users, sessions and attachments, and every    *)
(* offer of operations.                                                    *)
(*                                                                         *)
(* 1. The two checkers decide by the same four grounds (GroundsOf).        *)
(* 2. A decision of three queries is that of some moment: what has been    *)
(*    granted so far was grounded at some moment of the check, and no      *)
(*    ground consulted so far was there all along for what has not         *)
(*    (KnownInv).                                                          *)
(* 3. A read that is under way has loaded a count no greater than the      *)
(*    number of logs, and exactly the count unless it was raced (CountInv).*)
(* 4. The attachment of a request between its two stores is where the      *)
(*    request has left it (FilesInv).                                      *)
(***************************************************************************)
EXTENDS MemoryAccess, TLAPS

-----------------------------------------------------------------------------
(* The inductive invariant.                                                *)

Checking == {"team", "share", "decided"}
OpenWork == [op : Operation, offer : Offer, at : Checking \cup {"next", "file", "commit"}, count : Nat,
             won : SUBSET Memory, todo : SUBSET Memory, batch : SUBSET Memory, yes : SUBSET Memory,
             att : SUBSET Attachment]

Types ==
    /\ TypeOK
    /\ work \in [Client -> OpenWork \cup {Idle}]

\* The operations on one memory.
Single == {"get", "upload", "remove"}

\* A request is somewhere between its first memory and its commit.
WorkInv(w) ==
    /\ w.op = w.offer.op
    /\ w.at = "next" => w.todo # {}
    /\ w.batch # {} <=> w.at \in Checking
    /\ w.yes \subseteq w.batch
    /\ w.att # {} => w.at = "commit"
    /\ w.op \in Single => /\ w.todo \cup w.batch \cup w.won \subseteq w.offer.on
                          /\ w.at \in {"file", "commit"} => w.won # {}
    /\ ~Filters(w) => /\ \A m, n \in w.batch : m = n
                      /\ w.at = "team" => \A m \in w.batch : AsksTeam(w.offer.user, m)
                      /\ w.at = "share" => \A m \in w.batch : ~DecidedByRow(w.offer.user, m)
RequestsInv == \A c \in Client : Open(c) => WorkInv(work[c])

\* What a read has loaded is what will be written, plus one.
CountInv == \A c \in Client, m \in Memory : Reading(c, m) =>
    /\ work[c].count <= logs[m]
    /\ m \notin raced => work[c].count = reads[m]

\* An upload has written its file, a removal unlinked it or left it.
FilesInv == \A c \in Client : \A a \in work[c].att :
    /\ work[c].op = "upload" => a \in file
    /\ work[c].op = "remove" /\ a \in file => a \in left

\* The grounds that a check has asked for, at each of its queries.
Consulted(w) ==
    CASE w.at = "team" -> {"own"} \cup (IF Filters(w) THEN {"scope"} ELSE {})
      [] w.at = "share" -> {"own", "team"} \cup (IF Filters(w) THEN {"scope"} ELSE {})
      [] OTHER -> Ground

KnownOf(c) == work[c].batch # {} =>
    /\ work[c].at # "decided" => known[c].always \subseteq Now(c) /\ Now(c) \subseteq known[c].ever
    /\ \A m \in work[c].yes : \E g \in Ground : <<m, g>> \in known[c].ever
    /\ \A m \in work[c].batch \ work[c].yes : \A g \in Consulted(work[c]) : <<m, g>> \notin known[c].always
KnownInv == \A c \in Client : KnownOf(c)

-----------------------------------------------------------------------------
(* The decision.                                                           *)

\* What grounds there are for a user and a memory, in the checkers' own terms.
LEMMA GroundsOf ==
    ASSUME TypeOK, NEW u \in User, NEW m \in Memory, NEW action \in Action
    PROVE  /\ "own" \in Grounds(u, m, action) <=> GrantedByRow(u, m)
           /\ "team" \in Grounds(u, m, action) <=>
                 Cleared(u, m) /\ Row[m].scope = "team" /\ TeamGrants(member[u], action)
           /\ "share" \in Grounds(u, m, action) <=>
                 Cleared(u, m) /\ ShareGrants(share[m][u], action)
           /\ "scope" \in Grounds(u, m, action) <=>
                 Cleared(u, m) /\ ScopeGrants(Row[m].scope, action)
<1>1. "own" \in Grounds(u, m, action) <=> GrantedByRow(u, m)
  BY DEF Grounds, Ground, GrantedByRow, Cleared
<1>2. TeamGrants(member[u], action) <=> member[u] \in RolesFor[action]
  BY DEF TeamGrants, RolesFor, Action, Role
<1>3. ShareGrants(share[m][u], action) <=>
         share[m][u].valid /\ share[m][u].grant \in PermissionsFor[action]
  <2>1. share[m][u].valid \in BOOLEAN
    BY DEF TypeOK
  <2>2. QED
    BY <2>1 DEF ShareGrants, PermissionsFor, Action, Permission
<1>4. QED
  BY <1>1, <1>2, <1>3 DEF Grounds, Ground, Cleared, ScopeGrants

\* check_memory_access grants what there is a ground for.
LEMMA CheckIsGrounded ==
    ASSUME TypeOK, NEW u \in User, NEW m \in Memory, NEW action \in Action
    PROVE  CheckMemoryAccess(u, m, action) <=> Grounds(u, m, action) # {}
<1>1. Grounds(u, m, action) # {} <=> \E g \in Ground : g \in Grounds(u, m, action)
  BY DEF Grounds
<1>2. Grounds(u, m, action) # {} <=>
         \/ GrantedByRow(u, m)
         \/ Cleared(u, m) /\ Row[m].scope = "team" /\ TeamGrants(member[u], action)
         \/ Cleared(u, m) /\ ShareGrants(share[m][u], action)
         \/ Cleared(u, m) /\ ScopeGrants(Row[m].scope, action)
  BY <1>1, GroundsOf DEF Ground
<1>3. QED
  BY <1>2 DEF CheckMemoryAccess, DecidedByRow, AsksTeam, GrantedByRow

\* So does the filter for reads and comments; for the rest it knows no team.
LEMMA FilterIsGrounded ==
    ASSUME TypeOK, NEW u \in User, NEW m \in Memory, NEW action \in Action
    PROVE  /\ m \in FilterIds(u, Memory, action) => Grounds(u, m, action) # {}
           /\ action \in {"read", "comment"} /\ Grounds(u, m, action) # {} =>
                 m \in FilterIds(u, Memory, action)
<1>1. action \in {"read", "comment"} => (TeamGrants(member[u], action) <=> member[u] \in Role)
  BY DEF TeamGrants
<1>2. m \in FilterIds(u, Memory, action) <=>
         \/ GrantedByRow(u, m)
         \/ Cleared(u, m) /\ ScopeGrants(Row[m].scope, action)
         \/ /\ Cleared(u, m) /\ action \in {"read", "comment"}
            /\ Row[m].scope = "team" /\ TeamGrants(member[u], action)
         \/ Cleared(u, m) /\ ShareGrants(share[m][u], action)
  BY <1>1 DEF FilterIds, FilterByRow, FilterByTeam, FilterByShare, GrantedByRow
<1>3. Grounds(u, m, action) # {} <=> \E g \in Ground : g \in Grounds(u, m, action)
  BY DEF Grounds
<1>4. QED
  BY <1>2, <1>3, GroundsOf DEF Ground

\* The two checkers agree whatever the roles and the shares are.
LEMMA CheckersAgree == TypeOK => FilterAgrees
<1> SUFFICES ASSUME TypeOK, NEW u \in User, NEW action \in Action
             PROVE  LET granted == {m \in Memory : CheckMemoryAccess(u, m, action)} IN
                    /\ FilterIds(u, Memory, action) \subseteq granted
                    /\ action \in {"read", "comment"} => FilterIds(u, Memory, action) = granted
                    /\ granted = {m \in Memory : Grounds(u, m, action) # {}}
  BY DEF FilterAgrees
<1>1. FilterIds(u, Memory, action) \subseteq Memory
  BY DEF FilterIds, FilterByRow, FilterByTeam, FilterByShare
<1>2. QED
  BY <1>1, CheckIsGrounded, FilterIsGrounded

-----------------------------------------------------------------------------
(* Requests.                                                               *)

\* An open request, in the terms of the invariant.
LEMMA OpenRequest ==
    ASSUME Types, RequestsInv, NEW c \in Client, Open(c)
    PROVE  /\ work[c] \in OpenWork /\ WorkInv(work[c])
           /\ work[c].offer \in Offer /\ work[c].offer.user \in User
           /\ work[c].op \in Operation /\ ActionOf(work[c].op) \in Action
           /\ work[c].op \in Single => \E m \in Memory : work[c].offer.on = {m}
<1>1. work[c] \in OpenWork /\ WorkInv(work[c])
  BY DEF Types, RequestsInv, Open, Idle
<1>2. work[c].offer \in Offer /\ work[c].op \in Operation /\ work[c].op = work[c].offer.op
  BY <1>1 DEF OpenWork, WorkInv
<1>3. ActionOf(work[c].op) \in Action
  BY <1>2 DEF ActionOf, Operation, Action
<1>4. QED
  BY <1>1, <1>2, <1>3, AccessAssumption DEF Single

\* A step of one request leaves the others where they are.
LEMMA OneRequest ==
    ASSUME Types, RequestsInv, NEW c \in Client, NEW w, work' = [work EXCEPT ![c] = w],
           w = Idle \/ (w \in OpenWork /\ WorkInv(w))
    PROVE  /\ work' \in [Client -> OpenWork \cup {Idle}] /\ RequestsInv'
           /\ work'[c] = w /\ \A d \in Client \ {c} : work'[d] = work[d]
<1>1. work' \in [Client -> OpenWork \cup {Idle}] /\ work'[c] = w
  BY DEF Types
<1>2. \A d \in Client \ {c} : work'[d] = work[d]
  BY DEF Types
<1>3. RequestsInv'
  <2>1. ASSUME NEW d \in Client, work'[d].op # "none" PROVE WorkInv(work'[d])
    <3>1. CASE d = c
      BY <1>1, <2>1, <3>1 DEF Idle
    <3>2. CASE d # c
      BY <1>2, <2>1, <3>2 DEF RequestsInv, Open
    <3>3. QED
      BY <3>1, <3>2
  <2>2. QED
    BY <2>1 DEF RequestsInv, Open
<1>4. QED
  BY <1>1, <1>2, <1>3

\* A request ends.
LEMMA RequestEnds ==
    ASSUME Types, RequestsInv, NEW c \in Client, work' = [work EXCEPT ![c] = Idle]
    PROVE  /\ work' \in [Client -> OpenWork \cup {Idle}] /\ RequestsInv'
           /\ work'[c] = Idle /\ \A d \in Client \ {c} : work'[d] = work[d]
BY OneRequest

\* What each step makes of the request that takes it.
LEMMA AskRequest ==
    ASSUME Types, RequestsInv, NEW c \in Client, NEW o \in Offer, Ask(c, o)
    PROVE  /\ work' \in [Client -> OpenWork \cup {Idle}] /\ RequestsInv'
           /\ \A d \in Client \ {c} : work'[d] = work[d]
           /\ work'[c].batch = {} /\ work'[c].won = {} /\ work'[c].att = {}
<1> DEFINE w == [op |-> o.op, offer |-> o, at |-> "next", count |-> 0, won |-> {},
                 todo |-> IF o.op = "search" THEN o.on \cap live ELSE o.on,
                 batch |-> {}, yes |-> {}, att |-> {}]
<1>1. /\ o.op \in Operation /\ o.on \subseteq Memory /\ o.on # {}
      /\ o.op = "search" => o.on \cap live # {}
  BY AccessAssumption DEF Ask
<1>2. w.todo \subseteq o.on /\ w.todo # {}
  BY <1>1
<1>3. w \in OpenWork
  BY <1>1 DEF OpenWork
<1>4. WorkInv(w)
  BY <1>2 DEF WorkInv, Checking, Filters, Single
<1>5. work' = [work EXCEPT ![c] = w]
  BY DEF Ask
<1> HIDE DEF w
<1>6. /\ work' \in [Client -> OpenWork \cup {Idle}] /\ RequestsInv'
      /\ work'[c] = w /\ \A d \in Client \ {c} : work'[d] = work[d]
  BY <1>3, <1>4, <1>5, OneRequest
<1>7. QED
  BY <1>6 DEF w

\* A request looks up the next of its memories.
LEMMA LoadRequest ==
    ASSUME Types, RequestsInv, NEW c \in Client, Load(c)
    PROVE  /\ work' \in [Client -> OpenWork \cup {Idle}] /\ RequestsInv'
           /\ \A d \in Client \ {c} : work'[d] = work[d]
           /\ Open(c) /\ work[c].batch = {} /\ work[c].att = {}
           /\ \E ids \in NextBatch(work[c]) :
                LET w == work[c]  v == work'[c]  u == w.offer.user  a == ActionOf(w.op) IN
                /\ v.op = w.op /\ v.offer = w.offer /\ v.won = w.won /\ v.att = {}
                /\ v.batch = ids /\ ids # {} /\ ids \subseteq Memory
                /\ v.yes = IF Filters(w) THEN FilterByRow(u, ids, a)
                           ELSE {m \in ids : GrantedByRow(u, m)}
                /\ v.at = IF Filters(w) THEN "team"
                          ELSE IF \A m \in ids : DecidedByRow(u, m) THEN "decided"
                          ELSE IF \A m \in ids : AsksTeam(u, m) THEN "team" ELSE "share"
                /\ w.op = "get" => v.count = reads[CHOOSE m \in ids : TRUE]
<1> DEFINE w == work[c]
           u == w.offer.user
           a == ActionOf(w.op)
<1>1. /\ Open(c) /\ w.at = "next" /\ w \in OpenWork /\ WorkInv(w) /\ u \in User /\ a \in Action
      /\ w.op \in Single => \E m \in Memory : w.offer.on = {m}
  BY OpenRequest DEF Load
<1>2. PICK ids \in NextBatch(w) : work' = [work EXCEPT ![c] = Loaded(w, ids)]
  BY DEF Load
<1> DEFINE count == IF w.op = "get" THEN reads[CHOOSE m \in ids : TRUE] ELSE 0
           yes == IF Filters(w) THEN FilterByRow(u, ids, a) ELSE {m \in ids : GrantedByRow(u, m)}
           at == IF Filters(w) THEN "team"
                 ELSE IF \A m \in ids : DecidedByRow(u, m) THEN "decided"
                 ELSE IF \A m \in ids : AsksTeam(u, m) THEN "team" ELSE "share"
           v == [w EXCEPT !.todo = @ \ ids, !.batch = ids, !.count = count, !.yes = yes, !.at = at]
<1>3. ids # {} /\ ids \subseteq w.todo /\ ids \subseteq Memory
  BY <1>1 DEF NextBatch, OpenWork, WorkInv
<1>4. ~Filters(w) => \E m \in Memory : ids = {m}
  BY <1>3 DEF NextBatch
<1>5. count \in Nat
  BY <1>3 DEF Types, TypeOK
<1>6. yes \subseteq ids
  BY DEF FilterByRow
<1>7. at \in Checking
  BY DEF Checking
<1>8. /\ ~Filters(w) /\ at = "team" => \A m \in ids : AsksTeam(u, m)
      /\ ~Filters(w) /\ at = "share" => \A m \in ids : ~DecidedByRow(u, m)
  BY <1>4
<1>9. w.batch = {} /\ w.att = {}
  BY <1>1 DEF WorkInv, Checking
<1> HIDE DEF count, yes, at
<1>10. /\ v \in OpenWork
       /\ v.op = w.op /\ v.offer = w.offer /\ v.won = w.won /\ v.att = w.att
       /\ v.todo = w.todo \ ids /\ v.batch = ids /\ v.yes = yes /\ v.at = at /\ v.count = count
  BY <1>1, <1>3, <1>5, <1>6, <1>7 DEF OpenWork
<1> HIDE DEF v
<1>11. Filters(v) <=> Filters(w)
  BY <1>10 DEF Filters
<1>12. WorkInv(v)
  BY <1>1, <1>3, <1>4, <1>6, <1>7, <1>8, <1>9, <1>10, <1>11 DEF WorkInv, Checking
<1>13. work' = [work EXCEPT ![c] = v]
  BY <1>2 DEF Loaded, v, count, yes, at
<1>14. /\ work' \in [Client -> OpenWork \cup {Idle}] /\ RequestsInv'
       /\ work'[c] = v /\ \A d \in Client \ {c} : work'[d] = work[d]
  BY <1>10, <1>12, <1>13, OneRequest
<1>15. /\ work'[c].op = w.op /\ work'[c].offer = w.offer /\ work'[c].won = w.won /\ work'[c].att = {}
       /\ work'[c].batch = ids /\ ids # {} /\ ids \subseteq Memory
       /\ work'[c].yes = yes /\ work'[c].at = at /\ work'[c].count = count
  BY <1>3, <1>9, <1>10, <1>14
<1>16. w.op = "get" => count = reads[CHOOSE m \in ids : TRUE]
  BY DEF count
<1>17. QED
  BY <1>1, <1>9, <1>14, <1>15, <1>16 DEF yes, at

\* A query of a check: the batch stays, some of it is granted.
Queried(w, yes, at) == [w EXCEPT !.yes = @ \cup yes, !.at = at]

\* Such a query keeps the request where the invariant wants it.
LEMMA QueryRequest ==
    ASSUME Types, RequestsInv, NEW c \in Client, Open(c), work[c].at \in Checking,
           NEW yes \in SUBSET work[c].batch, NEW at \in {"share", "decided"},
           at = "share" => work[c].at = "team",
           work' = [work EXCEPT ![c] = Queried(work[c], yes, at)]
    PROVE  /\ work' \in [Client -> OpenWork \cup {Idle}] /\ RequestsInv'
           /\ \A d \in Client \ {c} : work'[d] = work[d]
           /\ work'[c].op = work[c].op /\ work'[c].offer = work[c].offer
           /\ work'[c].won = work[c].won /\ work'[c].batch = work[c].batch /\ work'[c].count = work[c].count
           /\ work'[c].att = {} /\ work[c].att = {} /\ work'[c].at = at
           /\ work'[c].yes = work[c].yes \cup yes
<1> DEFINE w == work[c]
<1>0. PICK v : v = Queried(w, yes, at)
  OBVIOUS
<1>1. w \in OpenWork /\ WorkInv(w)
  BY OpenRequest
<1>2. /\ v \in OpenWork
      /\ v.op = w.op /\ v.offer = w.offer /\ v.won = w.won /\ v.att = w.att /\ v.count = w.count
      /\ v.todo = w.todo /\ v.batch = w.batch /\ v.yes = w.yes \cup yes /\ v.at = at
  BY <1>0, <1>1 DEF OpenWork, Checking, Queried
<1>3. Filters(v) <=> Filters(w)
  BY <1>2 DEF Filters
<1>4. w.att = {}
  BY <1>1 DEF WorkInv, Checking
<1>5. WorkInv(v)
  BY <1>1, <1>2, <1>3 DEF WorkInv, Checking, AsksTeam
<1>6. /\ work' \in [Client -> OpenWork \cup {Idle}] /\ RequestsInv'
      /\ work'[c] = v /\ \A d \in Client \ {c} : work'[d] = work[d]
  <2>1. work' = [work EXCEPT ![c] = v]
    BY <1>0
  <2>2. v \in OpenWork /\ WorkInv(v)
    BY <1>2, <1>5
  <2>3. QED
    BY <2>1, <2>2, OneRequest
<1>7. QED
  BY <1>2, <1>4, <1>6

\* What the team and the shares grant, in a check and in the filter.
TeamYes(w) == IF Filters(w) THEN FilterByTeam(w.offer.user, w.batch, ActionOf(w.op))
              ELSE {m \in w.batch : TeamGrants(member[w.offer.user], ActionOf(w.op))}
SharesYes(w) == IF Filters(w) THEN FilterByShare(w.offer.user, w.batch, ActionOf(w.op))
                ELSE {m \in w.batch : \/ ShareGrants(share[m][w.offer.user], ActionOf(w.op))
                                      \/ ScopeGrants(Row[m].scope, ActionOf(w.op))}

\* The query for the team's members.
LEMMA AskTeamRequest ==
    ASSUME Types, RequestsInv, NEW c \in Client, AskTeam(c)
    PROVE  /\ work' \in [Client -> OpenWork \cup {Idle}] /\ RequestsInv'
           /\ \A d \in Client \ {c} : work'[d] = work[d]
           /\ Open(c) /\ work[c].at = "team"
           /\ work'[c].op = work[c].op /\ work'[c].offer = work[c].offer
           /\ work'[c].won = work[c].won /\ work'[c].batch = work[c].batch /\ work'[c].count = work[c].count
           /\ work'[c].att = {} /\ work[c].att = {}
           /\ work'[c].yes = work[c].yes \cup TeamYes(work[c])
           /\ work'[c].at = IF TeamYes(work[c]) # {} /\ ~Filters(work[c]) THEN "decided" ELSE "share"
<1>0. PICK yes, at : /\ yes = TeamYes(work[c])
                     /\ at = IF yes # {} /\ ~Filters(work[c]) THEN "decided" ELSE "share"
  OBVIOUS
<1>1. yes \in SUBSET work[c].batch
  BY <1>0 DEF TeamYes, FilterByTeam
<1>2. work' = [work EXCEPT ![c] = Queried(work[c], yes, at)]
  BY <1>0 DEF AskTeam, TeamYes, Queried
<1>3. Open(c) /\ work[c].at = "team" /\ at \in {"share", "decided"}
  BY <1>0 DEF AskTeam
<1>4. work[c].at \in Checking
  BY <1>3 DEF Checking
<1>5. /\ work' \in [Client -> OpenWork \cup {Idle}] /\ RequestsInv'
      /\ \A d \in Client \ {c} : work'[d] = work[d]
      /\ work'[c].op = work[c].op /\ work'[c].offer = work[c].offer
      /\ work'[c].won = work[c].won /\ work'[c].batch = work[c].batch /\ work'[c].count = work[c].count
      /\ work'[c].att = {} /\ work[c].att = {} /\ work'[c].at = at
      /\ work'[c].yes = work[c].yes \cup yes
  BY <1>1, <1>2, <1>3, <1>4, QueryRequest
<1>6. QED
  BY <1>0, <1>3, <1>5

\* The query for the shares.
LEMMA AskSharesRequest ==
    ASSUME Types, RequestsInv, NEW c \in Client, AskShares(c)
    PROVE  /\ work' \in [Client -> OpenWork \cup {Idle}] /\ RequestsInv'
           /\ \A d \in Client \ {c} : work'[d] = work[d]
           /\ Open(c) /\ work[c].at = "share"
           /\ work'[c].op = work[c].op /\ work'[c].offer = work[c].offer
           /\ work'[c].won = work[c].won /\ work'[c].batch = work[c].batch /\ work'[c].count = work[c].count
           /\ work'[c].att = {} /\ work[c].att = {}
           /\ work'[c].yes = work[c].yes \cup SharesYes(work[c])
           /\ work'[c].at = "decided"
<1>0. PICK yes, at : yes = SharesYes(work[c]) /\ at = "decided"
  OBVIOUS
<1>1. yes \in SUBSET work[c].batch
  BY <1>0 DEF SharesYes, FilterByShare
<1>2. work' = [work EXCEPT ![c] = Queried(work[c], yes, at)]
  BY <1>0 DEF AskShares, SharesYes, Queried
<1>3. Open(c) /\ work[c].at = "share" /\ at \in {"share", "decided"} /\ (at = "share" => work[c].at = "team")
  BY <1>0 DEF AskShares
<1>4. work[c].at \in Checking
  BY <1>3 DEF Checking
<1>5. /\ work' \in [Client -> OpenWork \cup {Idle}] /\ RequestsInv'
      /\ \A d \in Client \ {c} : work'[d] = work[d]
      /\ work'[c].op = work[c].op /\ work'[c].offer = work[c].offer
      /\ work'[c].won = work[c].won /\ work'[c].batch = work[c].batch /\ work'[c].count = work[c].count
      /\ work'[c].att = {} /\ work[c].att = {} /\ work'[c].at = at
      /\ work'[c].yes = work[c].yes \cup yes
  BY <1>1, <1>2, <1>3, <1>4, QueryRequest
<1>6. QED
  BY <1>0, <1>3, <1>5

\* The answer: the request ends, or keeps what it won and goes on.
LEMMA SettleRequest ==
    ASSUME Types, RequestsInv, NEW c \in Client, Settle(c)
    PROVE  /\ work' \in [Client -> OpenWork \cup {Idle}] /\ RequestsInv'
           /\ \A d \in Client \ {c} : work'[d] = work[d]
           /\ Open(c) /\ work[c].att = {} /\ work'[c].att = {} /\ work'[c].batch = {}
           /\ \/ work'[c] = Idle
              \/ /\ work'[c].op = work[c].op /\ work'[c].count = work[c].count
                 /\ work'[c].won = work[c].won \cup work[c].yes
                 /\ work[c].yes \subseteq work[c].batch
<1> DEFINE w == work[c]
           at == IF w.todo # {} THEN "next"
                 ELSE IF w.op \in {"upload", "remove"} THEN "file" ELSE "commit"
           v == [w EXCEPT !.won = @ \cup w.yes, !.batch = {}, !.yes = {}, !.at = at]
<1>1. /\ Open(c) /\ w.at = "decided" /\ w \in OpenWork /\ WorkInv(w)
      /\ work' = [work EXCEPT ![c] = IF w.yes = {} /\ EndsWhenRefused(w) THEN Idle ELSE v]
  BY OpenRequest DEF Settle
<1>2. w.att = {} /\ w.yes \subseteq w.batch
  BY <1>1 DEF WorkInv, Checking
<1>3. CASE w.yes = {} /\ EndsWhenRefused(w)
  <2>1. work' = [work EXCEPT ![c] = Idle]
    BY <1>1, <1>3
  <2>2. Idle.att = {} /\ Idle.batch = {}
    BY DEF Idle
  <2>3. /\ work' \in [Client -> OpenWork \cup {Idle}] /\ RequestsInv'
        /\ work'[c] = Idle /\ \A d \in Client \ {c} : work'[d] = work[d]
    BY <2>1, RequestEnds
  <2>4. QED
    BY <1>1, <1>2, <2>2, <2>3
<1>4. CASE ~(w.yes = {} /\ EndsWhenRefused(w))
  <2>1. at \in {"next", "file", "commit"} /\ (at = "next" => w.todo # {})
    OBVIOUS
  <2> HIDE DEF at
  <2>2. /\ v \in OpenWork
        /\ v.op = w.op /\ v.offer = w.offer /\ v.won = w.won \cup w.yes /\ v.att = w.att
        /\ v.todo = w.todo /\ v.batch = {} /\ v.yes = {} /\ v.at = at /\ v.count = w.count
    BY <1>1, <1>2, <2>1 DEF OpenWork
  <2>3. work' = [work EXCEPT ![c] = v]
    BY <1>1, <1>4 DEF at
  <2> HIDE DEF v
  <2>4. w.op \in Single => v.won # {}
    BY <1>4, <2>2 DEF Single, EndsWhenRefused
  <2>5. WorkInv(v)
    BY <1>1, <1>2, <2>1, <2>2, <2>4 DEF WorkInv, Checking
  <2>6. /\ work' \in [Client -> OpenWork \cup {Idle}] /\ RequestsInv'
        /\ work'[c] = v /\ \A d \in Client \ {c} : work'[d] = work[d]
    BY <2>2, <2>3, <2>5, OneRequest
  <2>7. QED
    BY <1>1, <1>2, <2>2, <2>6
<1>5. QED
  BY <1>3, <1>4

\* The attachment of a request goes to the disk before the commit.
Filed(w, a) == [w EXCEPT !.att = {a}, !.at = "commit"]

\* Such a step keeps the request where the invariant wants it.
LEMMA FileRequest ==
    ASSUME Types, RequestsInv, NEW c \in Client, Open(c), work[c].at = "file", NEW a \in Attachment,
           work' = [work EXCEPT ![c] = Filed(work[c], a)]
    PROVE  /\ work' \in [Client -> OpenWork \cup {Idle}] /\ RequestsInv'
           /\ \A d \in Client \ {c} : work'[d] = work[d]
           /\ work'[c].op = work[c].op /\ work'[c].won = work[c].won /\ work'[c].count = work[c].count
           /\ work[c].att = {} /\ work'[c].att = {a} /\ work[c].batch = {} /\ work'[c].batch = {}
<1> DEFINE w == work[c]
           v == Filed(w, a)
<1>1. w \in OpenWork /\ WorkInv(w)
  BY OpenRequest
<1>2. /\ v \in OpenWork
      /\ v.op = w.op /\ v.offer = w.offer /\ v.won = w.won /\ v.att = {a} /\ v.count = w.count
      /\ v.todo = w.todo /\ v.batch = w.batch /\ v.yes = w.yes /\ v.at = "commit"
  BY <1>1 DEF OpenWork, Filed
<1> HIDE DEF v
<1>3. w.att = {} /\ w.batch = {}
  BY <1>1 DEF WorkInv, Checking
<1>4. WorkInv(v)
  BY <1>1, <1>2, <1>3 DEF WorkInv, Checking
<1>5. /\ work' \in [Client -> OpenWork \cup {Idle}] /\ RequestsInv'
      /\ work'[c] = v /\ \A d \in Client \ {c} : work'[d] = work[d]
  BY <1>2, <1>4, OneRequest DEF v
<1>6. QED
  BY <1>2, <1>3, <1>5

\* A commit and a rollback end the request.
LEMMA FinishRequest ==
    ASSUME Types, RequestsInv, NEW c \in Client, Finish(c) \/ Abandon(c)
    PROVE  /\ work' \in [Client -> OpenWork \cup {Idle}] /\ RequestsInv'
           /\ work'[c] = Idle /\ \A d \in Client \ {c} : work'[d] = work[d]
BY RequestEnds DEF Finish, Abandon

\* Nothing is open at first.
LEMMA InitTypes == Init => Types /\ RequestsInv
<1> SUFFICES ASSUME Init PROVE Types /\ RequestsInv
  OBVIOUS
<1>1. TypeOK
  BY DEF Init, TypeOK, NoShare, Idle
<1>2. work = [c \in Client |-> Idle]
  BY DEF Init
<1>3. Types
  BY <1>1, <1>2 DEF Types
<1>4. RequestsInv
  BY <1>2 DEF RequestsInv, Open, Idle
<1>5. QED
  BY <1>3, <1>4

\* Whatever is committed, the tables keep their types.
LEMMA FinishTables ==
    ASSUME Types, RequestsInv, NEW c \in Client, Finish(c)
    PROVE  /\ live' \subseteq Memory /\ raced' \subseteq Memory
           /\ member' = member
           /\ share' \in [Memory -> [User -> [grant : Permission \cup {"none"}, valid : BOOLEAN]]]
           /\ reads' \in [Memory -> Nat] /\ logs' \in [Memory -> Nat]
           /\ DOMAIN row' \subseteq Attachment
           /\ UNCHANGED <<file, torn, left>>
<1> DEFINE w == work[c]
<1>1. /\ w \in OpenWork /\ WorkInv(w) /\ w.op \in Operation
      /\ w.op \in Single => \E m \in Memory : w.offer.on = {m}
      /\ w.at = "commit" /\ w.offer \in Offer
  BY OpenRequest DEF Finish
<1>2. UNCHANGED <<member, file, torn, left>>
  BY DEF Finish, Count, Share
<1>3. CASE w.op = "get" /\ Count(c)
  <2>1. \E m \in Memory : w.won = {m}
    BY <1>1, <1>3 DEF WorkInv, Single
  <2>2. PICK m \in Memory : m = CHOOSE k \in w.won : TRUE
    BY <2>1
  <2>3. /\ UNCHANGED <<live, share, row>>
        /\ logs' = [logs EXCEPT ![m] = @ + 1] /\ reads' = [reads EXCEPT ![m] = w.count + 1]
        /\ raced' \subseteq raced \cup {m}
    BY <1>3, <2>2 DEF Count
  <2>4. w.count \in Nat
    BY <1>1 DEF OpenWork
  <2>5. reads' \in [Memory -> Nat] /\ logs' \in [Memory -> Nat]
    BY <2>3, <2>4 DEF Types, TypeOK
  <2>6. QED
    BY <1>2, <2>3, <2>5 DEF Types, TypeOK
<1>4. CASE w.op = "share" /\ Share(c)
  <2>1. w.offer.grant \in Permission /\ w.offer.to \in User
    BY <1>1, <1>4, AccessAssumption DEF WorkInv
  <2>2. /\ share' = [m \in Memory |-> IF m \in w.won
                       THEN [share[m] EXCEPT ![w.offer.to] = [grant |-> w.offer.grant, valid |-> TRUE]]
                       ELSE share[m]]
        /\ UNCHANGED <<live, reads, logs, row, raced>>
    BY <1>4 DEF Share
  <2>3. \A m \in Memory : share'[m] \in [User -> [grant : Permission \cup {"none"}, valid : BOOLEAN]]
    <3>1. [grant |-> w.offer.grant, valid |-> TRUE] \in [grant : Permission \cup {"none"}, valid : BOOLEAN]
      BY <2>1
    <3>2. QED
      BY <2>2, <3>1 DEF Types, TypeOK
  <2>4. share' \in [Memory -> [User -> [grant : Permission \cup {"none"}, valid : BOOLEAN]]]
    BY <2>2, <2>3
  <2>5. QED
    BY <1>2, <2>2, <2>4 DEF Types, TypeOK
<1>5. CASE /\ UNCHANGED <<share, reads, logs, raced>>
           /\ live' \subseteq live
           /\ \/ row' = row
              \/ row' = [a \in DOMAIN row \cup w.att |->
                           IF a \in w.att THEN CHOOSE m \in w.won : TRUE ELSE row[a]]
              \/ row' = [a \in DOMAIN row \ w.att |-> row[a]]
  <2>1. w.att \subseteq Attachment
    BY <1>1 DEF OpenWork
  <2>2. DOMAIN row' \subseteq DOMAIN row \cup w.att
    BY <1>5
  <2>3. QED
    BY <1>2, <1>5, <2>1, <2>2 DEF Types, TypeOK
<1>6. QED
  BY <1>3, <1>4, <1>5 DEF Finish

\* The file of an upload, and the file that a removal unlinks or leaves.
LEMMA WriteFileRequest ==
    ASSUME Types, RequestsInv, NEW c \in Client, WriteFile(c)
    PROVE  /\ work' \in [Client -> OpenWork \cup {Idle}] /\ RequestsInv'
           /\ \A d \in Client \ {c} : work'[d] = work[d]
           /\ work'[c].op = work[c].op /\ work'[c].won = work[c].won /\ work'[c].count = work[c].count
           /\ work[c].att = {} /\ work[c].batch = {} /\ work'[c].batch = {}
           /\ Open(c) /\ work[c].op = "upload"
           /\ \E a \in Attachment : /\ a \notin file \cup DOMAIN row /\ \A d \in Client : a \notin work[d].att
                                    /\ file' = file \cup {a} /\ work'[c].att = {a}
<1>1. PICK a \in Attachment : /\ a \notin file \cup DOMAIN row /\ \A d \in Client : a \notin work[d].att
                              /\ file' = file \cup {a}
                              /\ work' = [work EXCEPT ![c].att = {a}, ![c].at = "commit"]
  BY DEF WriteFile
<1>2. work' = [work EXCEPT ![c] = Filed(work[c], a)]
  BY <1>1 DEF Filed
<1>3. Open(c) /\ work[c].at = "file" /\ work[c].op = "upload"
  BY DEF WriteFile
<1>4. /\ work' \in [Client -> OpenWork \cup {Idle}] /\ RequestsInv'
      /\ \A d \in Client \ {c} : work'[d] = work[d]
      /\ work'[c].op = work[c].op /\ work'[c].won = work[c].won /\ work'[c].count = work[c].count
      /\ work[c].att = {} /\ work'[c].att = {a} /\ work[c].batch = {} /\ work'[c].batch = {}
  BY <1>2, <1>3, FileRequest
<1>5. QED
  BY <1>1, <1>3, <1>4

\* A removal picks a row that no other request handles.
LEMMA UnlinkRequest ==
    ASSUME Types, RequestsInv, NEW c \in Client, Unlink(c)
    PROVE  /\ work' \in [Client -> OpenWork \cup {Idle}] /\ RequestsInv'
           /\ \A d \in Client \ {c} : work'[d] = work[d]
           /\ work'[c].op = work[c].op /\ work'[c].won = work[c].won /\ work'[c].count = work[c].count
           /\ work[c].att = {} /\ work[c].batch = {} /\ work'[c].batch = {}
           /\ Open(c) /\ work[c].op = "remove"
           /\ \E a \in DOMAIN row :
                /\ \A d \in Client : a \notin work[d].att
                /\ work'[c].att = {a}
                /\ \/ file' = file \ {a} /\ left' = left
                   \/ file' = file /\ left' = left \cup {a}
<1>1. PICK a \in DOMAIN row :
         /\ \A d \in Client : a \notin work[d].att
         /\ \/ file' = file \ {a} /\ left' = left
            \/ file' = file /\ left' = left \cup {a}
         /\ work' = [work EXCEPT ![c].att = {a}, ![c].at = "commit"]
  BY DEF Unlink
<1>2. work' = [work EXCEPT ![c] = Filed(work[c], a)]
  BY <1>1 DEF Filed
<1>3. Open(c) /\ work[c].at = "file" /\ work[c].op = "remove" /\ a \in Attachment
  BY DEF Unlink, Types, TypeOK
<1>4. /\ work' \in [Client -> OpenWork \cup {Idle}] /\ RequestsInv'
      /\ \A d \in Client \ {c} : work'[d] = work[d]
      /\ work'[c].op = work[c].op /\ work'[c].won = work[c].won /\ work'[c].count = work[c].count
      /\ work[c].att = {} /\ work'[c].att = {a} /\ work[c].batch = {} /\ work'[c].batch = {}
  BY <1>2, <1>3, FileRequest
<1>5. QED
  BY <1>1, <1>3, <1>4

\* The administrator and the clock.
LEMMA MeanwhileTables ==
    ASSUME Types, Meanwhile
    PROVE  /\ work' = work /\ UNCHANGED <<live, reads, logs, row, file, raced, torn, left>>
           /\ member' \in [User -> Role \cup {"none", "left"}]
           /\ share' \in [Memory -> [User -> [grant : Permission \cup {"none"}, valid : BOOLEAN]]]
<1>1. CASE \E u \in Newcomer, role \in Role : AddMember(u, role)
  BY <1>1, AccessAssumption DEF AddMember, Change, history, Types, TypeOK
<1>2. CASE \E u \in User : RemoveMember(u)
  BY <1>2 DEF RemoveMember, Change, history, Types, TypeOK
<1>3. CASE \E m \in Memory, u \in User : Expire(m, u)
  <2>1. PICK m \in Memory, u \in User : share' = [share EXCEPT ![m][u].valid = FALSE]
    BY <1>3 DEF Expire
  <2>2. share' \in [Memory -> [User -> [grant : Permission \cup {"none"}, valid : BOOLEAN]]]
    <3>1. share[m] \in [User -> [grant : Permission \cup {"none"}, valid : BOOLEAN]]
      BY DEF Types, TypeOK
    <3>2. [share[m][u] EXCEPT !.valid = FALSE] \in [grant : Permission \cup {"none"}, valid : BOOLEAN]
      BY <3>1
    <3>3. [share[m] EXCEPT ![u] = [share[m][u] EXCEPT !.valid = FALSE]]
             \in [User -> [grant : Permission \cup {"none"}, valid : BOOLEAN]]
      BY <3>1, <3>2
    <3>4. QED
      BY <2>1, <3>3 DEF Types, TypeOK
  <2>3. QED
    BY <1>3, <2>2 DEF Expire, Change, history, Types, TypeOK
<1>4. QED
  BY <1>1, <1>2, <1>3 DEF Meanwhile

\* Every step keeps the types, and every request where the invariant wants it.
LEMMA NextTypes ==
    ASSUME Types, RequestsInv, [Next]_vars
    PROVE  Types' /\ RequestsInv'
<1> DEFINE Rest == /\ live' \subseteq Memory /\ raced' \subseteq Memory
                   /\ member' \in [User -> Role \cup {"none", "left"}]
                   /\ share' \in [Memory -> [User -> [grant : Permission \cup {"none"}, valid : BOOLEAN]]]
                   /\ reads' \in [Memory -> Nat] /\ logs' \in [Memory -> Nat]
                   /\ DOMAIN row' \subseteq Attachment /\ file' \subseteq Attachment
                   /\ torn' \subseteq Attachment /\ left' \subseteq Attachment
           Works == work' \in [Client -> OpenWork \cup {Idle}] /\ RequestsInv'
<1>1. Rest /\ Works => Types' /\ RequestsInv'
  <2> SUFFICES ASSUME Rest, Works PROVE Types' /\ RequestsInv'
    OBVIOUS
  <2>1. \A c \in Client : work'[c].won \subseteq Memory /\ work'[c].att \subseteq Attachment
    BY DEF OpenWork, Idle
  <2>2. QED
    BY <2>1 DEF Types, TypeOK
<1>2. CASE Meanwhile
  <2>1. Rest
    BY <1>2, MeanwhileTables DEF Types, TypeOK
  <2>2. Works
    BY <1>2, MeanwhileTables DEF RequestsInv, Open, Types
  <2>3. QED
    BY <1>1, <2>1, <2>2
<1>3. ASSUME NEW c \in Client, \/ \E o \in Offer : Ask(c, o)
                               \/ Load(c) \/ AskTeam(c) \/ AskShares(c) \/ Settle(c)
      PROVE  Types' /\ RequestsInv'
  <2>1. UNCHANGED <<tables, file, history>>
    BY <1>3 DEF Ask, Load, AskTeam, AskShares, Settle
  <2>2. Rest
    BY <2>1 DEF tables, history, Types, TypeOK
  <2>3. Works
    BY <1>3, AskRequest, LoadRequest, AskTeamRequest, AskSharesRequest, SettleRequest
  <2>4. QED
    BY <1>1, <2>2, <2>3
<1>4. ASSUME NEW c \in Client, WriteFile(c)
      PROVE  Types' /\ RequestsInv'
  <2>1. UNCHANGED <<tables, history>>
    BY <1>4 DEF WriteFile
  <2>2. Rest
    BY <1>4, <2>1, WriteFileRequest DEF tables, history, Types, TypeOK
  <2>3. QED
    BY <1>1, <1>4, <2>2, WriteFileRequest
<1>5. ASSUME NEW c \in Client, Unlink(c)
      PROVE  Types' /\ RequestsInv'
  <2>1. UNCHANGED <<tables, raced, torn>>
    BY <1>5 DEF Unlink
  <2>2. Rest
    BY <1>5, <2>1, UnlinkRequest DEF tables, Types, TypeOK
  <2>3. QED
    BY <1>1, <1>5, <2>2, UnlinkRequest
<1>6. ASSUME NEW c \in Client, Finish(c)
      PROVE  Types' /\ RequestsInv'
  <2>1. Rest
    BY <1>6, FinishTables DEF Types, TypeOK
  <2>2. QED
    BY <1>1, <1>6, <2>1, FinishRequest
<1>7. ASSUME NEW c \in Client, Abandon(c)
      PROVE  Types' /\ RequestsInv'
  <2>1. UNCHANGED <<tables, file, raced, left>> /\ torn' = torn \cup work[c].att
    BY <1>7 DEF Abandon
  <2>2. Rest
    BY <2>1 DEF tables, Types, TypeOK
  <2>3. QED
    BY <1>1, <1>7, <2>2, FinishRequest
<1>8. CASE UNCHANGED vars
  BY <1>8 DEF vars, Types, TypeOK, RequestsInv, Open
<1>9. QED
  BY <1>2, <1>3, <1>4, <1>5, <1>6, <1>7, <1>8 DEF Next, Serve

-----------------------------------------------------------------------------
(* Reads and their logs.                                                   *)

\* A step that neither counts nor begins to read.
LEMMA NoNewReader ==
    ASSUME CountInv, ReadsAccounted, UNCHANGED <<reads, logs, raced>>,
           \A d \in Client, m \in Memory : Reading(d, m)' =>
              Reading(d, m) /\ work'[d].count = work[d].count
    PROVE  CountInv' /\ ReadsAccounted'
BY DEF CountInv, ReadsAccounted

\* A read loads the count that the row has.
LEMMA LoadCounts ==
    ASSUME Types, RequestsInv, CountInv, ReadsAccounted, NEW c \in Client, Load(c)
    PROVE  CountInv' /\ ReadsAccounted'
<1>1. UNCHANGED <<reads, logs, raced>> /\ \A d \in Client \ {c} : work'[d] = work[d]
  BY LoadRequest DEF Load, tables, history
<1>2. ASSUME NEW m \in Memory, Reading(c, m)'
      PROVE  work'[c].count = reads[m]
  <2>1. /\ work'[c].op = "get" /\ m \in work'[c].batch \cup work'[c].won
        /\ work'[c] \in OpenWork /\ WorkInv(work'[c])
        /\ work'[c].batch \cup work'[c].won \subseteq work'[c].offer.on
        /\ work'[c].offer \in Offer /\ work'[c].offer.op = "get"
    <3>1. work'[c].op = "get" /\ m \in work'[c].batch \cup work'[c].won
      BY <1>2 DEF Reading
    <3>2. work'[c] \in OpenWork /\ WorkInv(work'[c])
      BY <3>1, LoadRequest DEF Open, Idle, RequestsInv
    <3>3. QED
      BY <3>1, <3>2 DEF OpenWork, WorkInv, Single
  <2>2. PICK k \in Memory : work'[c].offer.on = {k}
    BY <2>1, AccessAssumption
  <2>3. PICK ids \in NextBatch(work[c]) :
           /\ work'[c].op = work[c].op /\ work'[c].batch = ids /\ ids # {}
           /\ work[c].op = "get" => work'[c].count = reads[CHOOSE k1 \in ids : TRUE]
    BY LoadRequest
  <2>4. ids = {m}
    BY <2>3, <2>1, <2>2
  <2>5. work'[c].count = reads[CHOOSE k1 \in ids : TRUE]
    BY <2>3, <2>1
  <2>6. QED
    BY <2>4, <2>5
<1>3. CountInv'
  <2>1. ASSUME NEW d \in Client, NEW m \in Memory, Reading(d, m)'
        PROVE  work'[d].count <= logs[m] /\ (m \notin raced => work'[d].count = reads[m])
    <3>1. CASE d = c
      BY <1>2, <2>1, <3>1 DEF ReadsAccounted
    <3>2. CASE d # c
      BY <1>1, <2>1, <3>2 DEF CountInv, Reading, Open
    <3>3. QED
      BY <3>1, <3>2
  <2>2. QED
    BY <1>1, <2>1 DEF CountInv
<1>4. QED
  BY <1>1, <1>3 DEF ReadsAccounted

\* A read that ends writes what it loaded, plus one.
LEMMA FinishCounts ==
    ASSUME Types, RequestsInv, CountInv, ReadsAccounted, NEW c \in Client, Finish(c)
    PROVE  CountInv' /\ ReadsAccounted'
<1>1. /\ work'[c] = Idle /\ \A d \in Client \ {c} : work'[d] = work[d]
  BY FinishRequest
<1>2. \A d \in Client, m \in Memory : Reading(d, m)' => d # c /\ Reading(d, m)
  BY <1>1 DEF Reading, Open, Idle
<1>3. CASE UNCHANGED <<reads, logs, raced>>
  <2>1. \A d \in Client, m \in Memory : Reading(d, m)' =>
           Reading(d, m) /\ work'[d].count = work[d].count
    BY <1>1, <1>2
  <2>2. QED
    BY <1>3, <2>1, NoNewReader
<1>4. CASE work[c].op = "get" /\ Count(c)
  <2>1. /\ Open(c) /\ work[c].at = "commit" /\ work[c] \in OpenWork /\ WorkInv(work[c])
        /\ \E k \in Memory : work[c].offer.on = {k}
    BY <1>4, OpenRequest DEF Finish, Single
  <2>2. \E k \in Memory : work[c].won = {k}
    BY <1>4, <2>1 DEF WorkInv, Single
  <2>3. PICK k \in Memory : k = CHOOSE m \in work[c].won : TRUE
    BY <2>2
  <2>4. Reading(c, k) /\ work[c].count \in Nat
    BY <1>4, <2>1, <2>2, <2>3 DEF Reading, OpenWork
  <2>5. /\ logs' = [logs EXCEPT ![k] = @ + 1] /\ reads' = [reads EXCEPT ![k] = work[c].count + 1]
        /\ raced' = IF \E d \in Client \ {c} : Reading(d, k) THEN raced \cup {k} ELSE raced
    BY <1>4, <2>3 DEF Count
  <2>6. \A m \in Memory : /\ logs[m] \in Nat /\ reads[m] \in Nat
                          /\ logs'[m] = IF m = k THEN logs[m] + 1 ELSE logs[m]
                          /\ reads'[m] = IF m = k THEN work[c].count + 1 ELSE reads[m]
    BY <2>5 DEF Types, TypeOK
  <2>7. ReadsAccounted'
    BY <2>4, <2>6, <2>5 DEF ReadsAccounted, CountInv
  <2>8. CountInv'
    <3>1. ASSUME NEW d \in Client, NEW m \in Memory, Reading(d, m)'
          PROVE  work'[d].count <= logs'[m] /\ (m \notin raced' => work'[d].count = reads'[m])
      <4>1. d # c /\ Reading(d, m) /\ work'[d] = work[d]
        BY <1>1, <1>2, <3>1
      <4>2. work[d].count <= logs[m] /\ (m \notin raced => work[d].count = reads[m])
        BY <4>1 DEF CountInv
      <4>3. work[d].count \in Nat
        BY <4>1, OpenRequest DEF Reading, OpenWork
      <4>4. QED
        BY <2>6, <2>5, <4>1, <4>2, <4>3
    <3>2. QED
      BY <3>1 DEF CountInv
  <2>9. QED
    BY <2>7, <2>8
<1>5. QED
  BY <1>3, <1>4 DEF Finish, Share

\* No step loses a read, except to a race that it records.
LEMMA NextCounts ==
    ASSUME Types, RequestsInv, CountInv, ReadsAccounted, [Next]_vars
    PROVE  CountInv' /\ ReadsAccounted'
<1>1. CASE Meanwhile \/ UNCHANGED vars
  <2>1. UNCHANGED <<work, reads, logs, raced>>
    BY <1>1, MeanwhileTables DEF vars
  <2>2. QED
    BY <2>1, NoNewReader DEF Reading, Open
<1>2. ASSUME NEW c \in Client, UNCHANGED <<reads, logs, raced>>,
             \A d \in Client \ {c} : work'[d] = work[d],
             \/ work'[c].op # "get" \/ work'[c].batch \cup work'[c].won = {}
             \/ /\ work'[c].op = work[c].op /\ work'[c].count = work[c].count
                /\ work'[c].batch \cup work'[c].won \subseteq work[c].batch \cup work[c].won
      PROVE  CountInv' /\ ReadsAccounted'
  <2>1. ASSUME NEW d \in Client, NEW m \in Memory, Reading(d, m)'
        PROVE  Reading(d, m) /\ work'[d].count = work[d].count
    <3>1. CASE d = c
      BY <1>2, <2>1, <3>1 DEF Reading, Open
    <3>2. CASE d # c
      BY <1>2, <2>1, <3>2 DEF Reading, Open
    <3>3. QED
      BY <3>1, <3>2
  <2>2. QED
    BY <1>2, <2>1, NoNewReader
<1>3. ASSUME NEW c \in Client, \/ \E o \in Offer : Ask(c, o)
                               \/ AskTeam(c) \/ AskShares(c) \/ Settle(c)
      PROVE  CountInv' /\ ReadsAccounted'
  <2>1. UNCHANGED <<reads, logs, raced>>
    BY <1>3 DEF Ask, AskTeam, AskShares, Settle, tables, history
  <2>2. CASE \E o \in Offer : Ask(c, o)
    BY <1>2, <2>1, <2>2, AskRequest
  <2>3. CASE AskTeam(c)
    BY <1>2, <2>1, <2>3, AskTeamRequest
  <2>4. CASE AskShares(c)
    BY <1>2, <2>1, <2>4, AskSharesRequest
  <2>5. CASE Settle(c)
    BY <1>2, <2>1, <2>5, SettleRequest DEF Idle
  <2>6. QED
    BY <1>3, <2>2, <2>3, <2>4, <2>5
<1>4. ASSUME NEW c \in Client, WriteFile(c) \/ Unlink(c) \/ Abandon(c)
      PROVE  CountInv' /\ ReadsAccounted'
  <2>1. UNCHANGED <<reads, logs, raced>>
    BY <1>4 DEF WriteFile, Unlink, Abandon, tables, history
  <2>2. CASE WriteFile(c)
    BY <1>2, <2>1, <2>2, WriteFileRequest
  <2>3. CASE Unlink(c)
    BY <1>2, <2>1, <2>3, UnlinkRequest
  <2>4. CASE Abandon(c)
    BY <1>2, <2>1, <2>4, FinishRequest DEF Idle
  <2>5. QED
    BY <1>4, <2>2, <2>3, <2>4
<1>5. QED
  BY <1>1, <1>3, <1>4, LoadCounts, FinishCounts DEF Next, Serve

-----------------------------------------------------------------------------
(* Attachments: the row and the file.                                      *)

Handled(op, a) == \E c \in Client : work[c].op = op /\ a \in work[c].att

\* A step that has nothing to do with attachments.
LEMMA FilesStay ==
    ASSUME FilesInv, AttachmentsWhole, UNCHANGED <<row, file, left>>, torn \subseteq torn',
           \A c \in Client : \/ work'[c].op = work[c].op /\ work'[c].att = work[c].att
                             \/ work'[c].att = {} /\ work[c].att \subseteq torn'
    PROVE  FilesInv' /\ AttachmentsWhole'
BY DEF FilesInv, AttachmentsWhole

\* A new file has a request that knows it.
LEMMA WriteFiles ==
    ASSUME Types, RequestsInv, FilesInv, AttachmentsWhole, NEW c \in Client, WriteFile(c)
    PROVE  FilesInv' /\ AttachmentsWhole'
<1>1. PICK a \in Attachment : /\ a \notin file \cup DOMAIN row /\ \A d \in Client : a \notin work[d].att
                              /\ file' = file \cup {a} /\ work'[c].att = {a}
  BY WriteFileRequest
<1>2. /\ work[c].op = "upload" /\ work'[c].op = "upload" /\ work[c].att = {}
      /\ \A d \in Client \ {c} : work'[d] = work[d]
  BY WriteFileRequest
<1>3. UNCHANGED <<row, torn, left>>
  BY DEF WriteFile, tables, history
<1>4. FilesInv'
  <2>1. ASSUME NEW d \in Client, NEW b \in work'[d].att
        PROVE  /\ work'[d].op = "upload" => b \in file'
               /\ work'[d].op = "remove" /\ b \in file' => b \in left
    <3>1. CASE d = c
      BY <1>1, <1>2, <2>1, <3>1
    <3>2. CASE d # c
      BY <1>1, <1>2, <2>1, <3>2 DEF FilesInv
    <3>3. QED
      BY <3>1, <3>2
  <2>2. QED
    BY <1>3, <2>1 DEF FilesInv
<1>5. AttachmentsWhole'
  <2>1. ASSUME NEW op, NEW b, b # a, Handled(op, b) PROVE Handled(op, b)'
    BY <1>2, <2>1 DEF Handled
  <2>2. Handled("upload", a)'
    BY <1>1, <1>2 DEF Handled
  <2>3. QED
    BY <1>1, <1>3, <2>1, <2>2 DEF AttachmentsWhole, Handled
<1>6. QED
  BY <1>4, <1>5

\* So has a row whose file is gone.
LEMMA UnlinkFiles ==
    ASSUME Types, RequestsInv, FilesInv, AttachmentsWhole, NEW c \in Client, Unlink(c)
    PROVE  FilesInv' /\ AttachmentsWhole'
<1>1. PICK a \in DOMAIN row : /\ \A d \in Client : a \notin work[d].att
                              /\ work'[c].att = {a}
                              /\ \/ file' = file \ {a} /\ left' = left
                                 \/ file' = file /\ left' = left \cup {a}
  BY UnlinkRequest
<1>2. /\ work[c].op = "remove" /\ work'[c].op = "remove" /\ work[c].att = {}
      /\ \A d \in Client \ {c} : work'[d] = work[d]
  BY UnlinkRequest
<1>3. UNCHANGED <<row, torn>>
  BY DEF Unlink, tables
<1>4. FilesInv'
  <2>1. ASSUME NEW d \in Client, NEW b \in work'[d].att
        PROVE  /\ work'[d].op = "upload" => b \in file'
               /\ work'[d].op = "remove" /\ b \in file' => b \in left'
    <3>1. CASE d = c
      BY <1>1, <1>2, <2>1, <3>1
    <3>2. CASE d # c
      BY <1>1, <1>2, <2>1, <3>2 DEF FilesInv
    <3>3. QED
      BY <3>1, <3>2
  <2>2. QED
    BY <2>1 DEF FilesInv
<1>5. AttachmentsWhole'
  <2>1. ASSUME NEW op, NEW b, b # a, Handled(op, b) PROVE Handled(op, b)'
    BY <1>2, <2>1 DEF Handled
  <2>2. Handled("remove", a)'
    BY <1>1, <1>2 DEF Handled
  <2>3. QED
    BY <1>1, <1>3, <2>1, <2>2 DEF AttachmentsWhole, Handled
<1>6. QED
  BY <1>4, <1>5

\* A commit brings the row to where the file is.
LEMMA FinishFiles ==
    ASSUME Types, RequestsInv, FilesInv, AttachmentsWhole, NEW c \in Client, Finish(c)
    PROVE  FilesInv' /\ AttachmentsWhole'
<1>1. /\ work'[c] = Idle /\ \A d \in Client \ {c} : work'[d] = work[d]
      /\ UNCHANGED <<file, torn, left>>
  BY FinishRequest, FinishTables
<1>2. Idle.att = {}
  BY DEF Idle
<1>3. FilesInv'
  BY <1>1, <1>2 DEF FilesInv
<1>4. \A op, b : Handled(op, b) => Handled(op, b)' \/ (work[c].op = op /\ b \in work[c].att)
  BY <1>1 DEF Handled
<1>5. CASE work[c].op = "upload"
  <2>1. DOMAIN row' = DOMAIN row \cup work[c].att
    BY <1>5 DEF Finish
  <2>2. work[c].att \subseteq file
    BY <1>5 DEF FilesInv
  <2>3. QED
    BY <1>1, <1>3, <1>4, <1>5, <2>1, <2>2 DEF AttachmentsWhole, Handled
<1>6. CASE work[c].op = "remove"
  <2>1. DOMAIN row' = DOMAIN row \ work[c].att
    BY <1>6 DEF Finish
  <2>2. work[c].att \cap file \subseteq left
    BY <1>6 DEF FilesInv
  <2>3. QED
    BY <1>1, <1>3, <1>4, <1>6, <2>1, <2>2 DEF AttachmentsWhole, Handled
<1>7. CASE work[c].op \notin {"upload", "remove"}
  <2>1. row' = row
    BY <1>7 DEF Finish, Count, Share
  <2>2. QED
    BY <1>1, <1>3, <1>4, <1>7, <2>1 DEF AttachmentsWhole, Handled
<1>8. QED
  BY <1>5, <1>6, <1>7

\* No step separates a row from its file unseen.
LEMMA NextFiles ==
    ASSUME Types, RequestsInv, FilesInv, AttachmentsWhole, [Next]_vars
    PROVE  FilesInv' /\ AttachmentsWhole'
<1>1. CASE Meanwhile \/ UNCHANGED vars
  <2>1. UNCHANGED <<work, row, file, torn, left>>
    BY <1>1, MeanwhileTables DEF vars
  <2>2. QED
    BY <2>1, FilesStay
<1>2. ASSUME NEW c \in Client, \/ \E o \in Offer : Ask(c, o)
                               \/ Load(c) \/ AskTeam(c) \/ AskShares(c) \/ Settle(c)
      PROVE  FilesInv' /\ AttachmentsWhole'
  <2>1. UNCHANGED <<row, file, torn, left>>
    BY <1>2 DEF Ask, Load, AskTeam, AskShares, Settle, tables, history
  <2>2. /\ work'[c].att = {} /\ work[c].att = {}
        /\ \A d \in Client \ {c} : work'[d] = work[d]
    <3>1. CASE \E o \in Offer : Ask(c, o)
      <4>1. work[c].att = {}
        BY <3>1 DEF Ask, Open, Types, OpenWork, Operation, Idle
      <4>2. QED
        BY <3>1, <4>1, AskRequest
    <3>2. CASE ~\E o \in Offer : Ask(c, o)
      BY <1>2, <3>2, LoadRequest, AskTeamRequest, AskSharesRequest, SettleRequest
    <3>3. QED
      BY <3>1, <3>2
  <2>3. QED
    BY <2>1, <2>2, FilesStay
<1>3. ASSUME NEW c \in Client, Abandon(c)
      PROVE  FilesInv' /\ AttachmentsWhole'
  <2>1. UNCHANGED <<row, file, left>> /\ torn' = torn \cup work[c].att
    BY <1>3 DEF Abandon, tables
  <2>2. work'[c].att = {} /\ \A d \in Client \ {c} : work'[d] = work[d]
    BY <1>3, FinishRequest DEF Idle
  <2>3. QED
    BY <2>1, <2>2, FilesStay
<1>4. QED
  BY <1>1, <1>2, <1>3, WriteFiles, UnlinkFiles, FinishFiles DEF Next, Serve

-----------------------------------------------------------------------------
(* What entitles the user while a check runs.                              *)

\* A ground of a session's user, now and after a step.
LEMMA NowHas ==
    ASSUME NEW c \in Client, NEW m, NEW g
    PROVE  /\ <<m, g>> \in Now(c) <=>
                 /\ m \in work[c].batch /\ g \in Ground
                 /\ g \in Grounds(work[c].offer.user, m, ActionOf(work[c].op))
           /\ work'[c].offer = work[c].offer /\ work'[c].op = work[c].op /\ UNCHANGED <<member, share>> =>
                 (<<m, g>> \in Now(c)' <=>
                    /\ m \in work'[c].batch /\ g \in Ground
                    /\ g \in Grounds(work[c].offer.user, m, ActionOf(work[c].op)))
BY DEF Now, Grounds, ActionOf

\* What the watch has seen of one session, step by step.
LEMMA WatchClient ==
    ASSUME Watch, NEW c \in Client, work'[c].batch # {}
    PROVE  /\ work[c].batch = {} => known'[c].ever = Now(c)' /\ known'[c].always = Now(c)'
           /\ work[c].batch # {} /\ work[c].at = "decided" => known'[c] = known[c]
           /\ work[c].batch # {} /\ work[c].at # "decided" =>
                 /\ known'[c].ever = known[c].ever \cup Now(c)'
                 /\ known'[c].always = known[c].always \cap Now(c)'
BY DEF Watch

\* Whatever the tables do, what is known of a check that makes no step holds.
LEMMA StayKnown ==
    ASSUME KnownInv, Watch, NEW c \in Client, work'[c] = work[c]
    PROVE  KnownOf(c)'
<1> SUFFICES ASSUME work[c].batch # {} PROVE KnownOf(c)'
  BY DEF KnownOf
<1>1. KnownOf(c)
  BY DEF KnownInv
<1>2. Consulted(work[c])' = Consulted(work[c])
  BY DEF Consulted, Filters
<1>3. CASE work[c].at = "decided"
  <2>1. known'[c] = known[c]
    BY <1>3, WatchClient
  <2>2. QED
    BY <1>1, <1>2, <1>3, <2>1 DEF KnownOf
<1>4. CASE work[c].at # "decided"
  <2>1. /\ known'[c].ever = known[c].ever \cup Now(c)'
        /\ known'[c].always = known[c].always \cap Now(c)'
    BY <1>4, WatchClient
  <2>2. QED
    BY <1>1, <1>2, <1>4, <2>1 DEF KnownOf
<1>5. QED
  BY <1>3, <1>4

\* A query: what it grants is grounded, what it does not grant has none of
\* the grounds that it asked for.
LEMMA QueryKnown ==
    ASSUME KnownInv, Watch, NEW c \in Client, work[c].batch # {}, work[c].at # "decided",
           UNCHANGED <<member, share>>,
           work'[c].offer = work[c].offer, work'[c].op = work[c].op, work'[c].batch = work[c].batch,
           \A m \in work'[c].yes \ work[c].yes : \E g \in Ground : <<m, g>> \in Now(c),
           \A m \in work'[c].batch \ work'[c].yes :
              \A g \in Consulted(work[c])' \ Consulted(work[c]) : <<m, g>> \notin Now(c),
           work[c].yes \subseteq work'[c].yes
    PROVE  KnownOf(c)'
<1>1. /\ known'[c].ever = known[c].ever \cup Now(c)'
      /\ known'[c].always = known[c].always \cap Now(c)'
  BY WatchClient
<1>2. ASSUME NEW m, NEW g PROVE <<m, g>> \in Now(c)' <=> <<m, g>> \in Now(c)
  <2>1. <<m, g>> \in Now(c) <=>
           /\ m \in work[c].batch /\ g \in Ground
           /\ g \in Grounds(work[c].offer.user, m, ActionOf(work[c].op))
    BY NowHas
  <2>2. <<m, g>> \in Now(c)' <=>
           /\ m \in work'[c].batch /\ g \in Ground
           /\ g \in Grounds(work[c].offer.user, m, ActionOf(work[c].op))
    BY NowHas
  <2>3. QED
    BY <2>1, <2>2
<1>3. KnownOf(c)
  BY DEF KnownInv
<1>4. ASSUME NEW m \in work'[c].yes PROVE \E g \in Ground : <<m, g>> \in known'[c].ever
  <2>1. CASE m \in work[c].yes
    <3>1. PICK g \in Ground : <<m, g>> \in known[c].ever
      BY <1>3, <2>1 DEF KnownOf
    <3>2. QED
      BY <1>1, <3>1
  <2>2. CASE m \notin work[c].yes
    <3>1. PICK g \in Ground : <<m, g>> \in Now(c)
      BY <2>2
    <3>2. QED
      BY <1>1, <1>2, <3>1
  <2>3. QED
    BY <2>1, <2>2
<1>5. ASSUME NEW m \in work'[c].batch \ work'[c].yes, NEW g \in Consulted(work[c])'
      PROVE  <<m, g>> \notin known'[c].always
  <2>1. CASE g \in Consulted(work[c])
    <3>1. <<m, g>> \notin known[c].always
      BY <1>3, <2>1 DEF KnownOf
    <3>2. QED
      BY <1>1, <3>1
  <2>2. CASE g \notin Consulted(work[c])
    <3>1. <<m, g>> \notin Now(c)
      BY <2>2
    <3>2. QED
      BY <1>1, <1>2, <3>1
  <2>3. QED
    BY <2>1, <2>2
<1>6. known'[c].always \subseteq Now(c)' /\ Now(c)' \subseteq known'[c].ever
  BY <1>1
<1>7. QED
  BY <1>4, <1>5, <1>6 DEF KnownOf

\* The row settles what it settles: the ground of the owner, and for the filter
\* that of the scope.
LEMMA LoadKnown ==
    ASSUME Types, RequestsInv, KnownInv, Watch, NEW c \in Client, Load(c)
    PROVE  KnownOf(c)'
<1>1. /\ Open(c) /\ work[c].batch = {}
      /\ work[c].offer.user \in User /\ ActionOf(work[c].op) \in Action
  BY LoadRequest, OpenRequest
<1>2. PICK u, a : u = work[c].offer.user /\ a = ActionOf(work[c].op)
  OBVIOUS
<1>3. PICK ids \in NextBatch(work[c]) :
         /\ work'[c].op = work[c].op /\ work'[c].offer = work[c].offer /\ work'[c].won = work[c].won
         /\ work'[c].batch = ids /\ ids # {} /\ ids \subseteq Memory
         /\ work'[c].yes = IF Filters(work[c]) THEN FilterByRow(u, ids, a)
                           ELSE {m \in ids : GrantedByRow(u, m)}
         /\ work'[c].at = IF Filters(work[c]) THEN "team"
                          ELSE IF \A m \in ids : DecidedByRow(u, m) THEN "decided"
                          ELSE IF \A m \in ids : AsksTeam(u, m) THEN "team" ELSE "share"
  <2>1. PICK ids \in NextBatch(work[c]) :
           LET w == work[c]  v == work'[c]  x == w.offer.user  y == ActionOf(w.op) IN
           /\ v.op = w.op /\ v.offer = w.offer /\ v.won = w.won /\ v.att = {}
           /\ v.batch = ids /\ ids # {} /\ ids \subseteq Memory
           /\ v.yes = IF Filters(w) THEN FilterByRow(x, ids, y)
                      ELSE {m \in ids : GrantedByRow(x, m)}
           /\ v.at = IF Filters(w) THEN "team"
                     ELSE IF \A m \in ids : DecidedByRow(x, m) THEN "decided"
                     ELSE IF \A m \in ids : AsksTeam(x, m) THEN "team" ELSE "share"
           /\ w.op = "get" => v.count = reads[CHOOSE m \in ids : TRUE]
    BY LoadRequest
  <2>2. QED
    BY <1>2, <2>1
<1>4. known'[c].ever = Now(c)' /\ known'[c].always = Now(c)'
  BY <1>1, <1>3, WatchClient
<1>5. UNCHANGED <<member, share>> /\ u \in User /\ a \in Action
  BY <1>1, <1>2 DEF Load, tables
<1>6. ASSUME NEW m \in ids, NEW g \in Ground
      PROVE  <<m, g>> \in Now(c)' <=> g \in Grounds(u, m, a)
  BY <1>2, <1>3, <1>5, NowHas
<1>7. Filters(work[c])' <=> Filters(work[c])
  BY <1>3 DEF Filters
<1>8. CASE Filters(work[c])
  <2>1. Consulted(work[c])' = {"own", "scope"}
    BY <1>3, <1>7, <1>8 DEF Consulted
  <2>2. ASSUME NEW m \in ids
        PROVE  m \in work'[c].yes <=> "own" \in Grounds(u, m, a) \/ "scope" \in Grounds(u, m, a)
    BY <1>3, <1>5, <1>8, GroundsOf DEF Types, FilterByRow, GrantedByRow
  <2>3. ASSUME NEW m \in work'[c].yes PROVE \E g \in Ground : <<m, g>> \in Now(c)'
    <3>1. m \in ids
      BY <1>3, <1>8 DEF FilterByRow
    <3>2. PICK g \in Ground : g \in Grounds(u, m, a)
      BY <2>2, <3>1 DEF Ground
    <3>3. QED
      BY <1>6, <3>1, <3>2
  <2>4. ASSUME NEW m \in ids \ work'[c].yes, NEW g \in Consulted(work[c])'
        PROVE  <<m, g>> \notin Now(c)'
    BY <1>6, <2>1, <2>2 DEF Ground
  <2>5. QED
    BY <1>3, <1>4, <2>3, <2>4 DEF KnownOf
<1>9. CASE ~Filters(work[c])
  <2>1. PICK k \in Memory : ids = {k}
    BY <1>3, <1>9 DEF NextBatch
  <2>2. ASSUME NEW m \in work'[c].yes PROVE \E g \in Ground : <<m, g>> \in Now(c)'
    <3>1. m = k /\ m \in ids /\ GrantedByRow(u, m)
      BY <1>3, <1>9, <2>1
    <3>2. "own" \in Grounds(u, m, a) /\ "own" \in Ground
      BY <1>5, <2>1, <3>1, GroundsOf DEF Types, Ground
    <3>3. QED
      BY <1>6, <3>1, <3>2
  <2>3. ASSUME NEW m \in ids \ work'[c].yes, NEW g \in Consulted(work[c])'
        PROVE  <<m, g>> \notin Now(c)'
    <3>1. m \in Memory /\ ~GrantedByRow(u, m)
      BY <1>3, <1>9
    <3>2. Consulted(work[c])' = IF \A n \in ids : DecidedByRow(u, n) THEN Ground
                                ELSE IF \A n \in ids : AsksTeam(u, n) THEN {"own"} ELSE {"own", "team"}
      BY <1>3, <1>7, <1>9 DEF Consulted
    <3>3. "own" \notin Grounds(u, m, a)
      BY <1>5, <3>1, GroundsOf DEF Types
    <3>4. CASE DecidedByRow(u, m)
      <4>1. Grounds(u, m, a) = {}
        BY <3>1, <3>4 DEF DecidedByRow, GrantedByRow, Grounds, Cleared
      <4>2. Ground = Ground \cup {"own", "team"}
        BY DEF Ground
      <4>3. QED
        BY <1>6, <3>2, <4>1, <4>2
    <3>5. CASE ~DecidedByRow(u, m)
      <4>1. g = "own" \/ (g = "team" /\ ~AsksTeam(u, m))
        BY <2>1, <3>2, <3>5
      <4>2. g \notin Grounds(u, m, a) /\ g \in Ground
        BY <3>3, <3>5, <4>1 DEF AsksTeam, Grounds, Ground
      <4>3. QED
        BY <1>6, <4>2
    <3>6. QED
      BY <3>4, <3>5
  <2>4. QED
    BY <1>3, <1>4, <2>2, <2>3 DEF KnownOf
<1>10. QED
  BY <1>8, <1>9

\* The team settles the ground of the team.
LEMMA AskTeamKnown ==
    ASSUME Types, RequestsInv, KnownInv, Watch, NEW c \in Client, AskTeam(c)
    PROVE  KnownOf(c)'
<1>1. /\ work[c] \in OpenWork /\ WorkInv(work[c]) /\ work[c].at = "team" /\ work[c].batch # {}
      /\ work[c].offer.user \in User /\ ActionOf(work[c].op) \in Action
  BY AskTeamRequest, OpenRequest DEF WorkInv, Checking
<1>2. PICK u, a : u = work[c].offer.user /\ a = ActionOf(work[c].op)
  OBVIOUS
<1>3. PICK yes : yes = TeamYes(work[c])
  OBVIOUS
<1>4. /\ work'[c].op = work[c].op /\ work'[c].offer = work[c].offer /\ work'[c].won = work[c].won
      /\ work'[c].batch = work[c].batch /\ work'[c].yes = work[c].yes \cup yes
      /\ work'[c].at = IF yes # {} /\ ~Filters(work[c]) THEN "decided" ELSE "share"
  BY <1>3, AskTeamRequest
<1>5. UNCHANGED <<member, share>> /\ u \in User /\ a \in Action
  BY <1>1, <1>2 DEF AskTeam, tables
<1>6. ASSUME NEW m \in work[c].batch PROVE m \in Memory /\ (m \in yes <=> "team" \in Grounds(u, m, a))
  <2>1. m \in Memory
    BY <1>1 DEF OpenWork
  <2>2. "team" \in Grounds(u, m, a) <=>
           Cleared(u, m) /\ Row[m].scope = "team" /\ TeamGrants(member[u], a)
    BY <1>5, <2>1, GroundsOf DEF Types
  <2>3. CASE Filters(work[c])
    <3>1. a = "read"
      BY <1>2, <2>3 DEF Filters, ActionOf
    <3>2. m \in yes <=> Cleared(u, m) /\ Row[m].scope = "team" /\ member[u] \in Role
      BY <1>2, <1>3, <2>3, <3>1 DEF TeamYes, FilterByTeam
    <3>3. QED
      BY <2>1, <2>2, <3>1, <3>2 DEF TeamGrants
  <2>4. CASE ~Filters(work[c])
    <3>1. AsksTeam(u, m)
      BY <1>1, <1>2, <2>4 DEF WorkInv
    <3>2. m \in yes <=> TeamGrants(member[u], a)
      BY <1>2, <1>3, <2>4 DEF TeamYes
    <3>3. QED
      BY <2>1, <2>2, <3>1, <3>2 DEF AsksTeam, DecidedByRow
  <2>5. QED
    BY <2>3, <2>4
<1>7. ASSUME NEW m \in work[c].batch, NEW g \in Ground
      PROVE  <<m, g>> \in Now(c) <=> g \in Grounds(u, m, a)
  BY <1>2, NowHas
<1>8. ASSUME NEW m \in work'[c].yes \ work[c].yes PROVE \E g \in Ground : <<m, g>> \in Now(c)
  <2>1. m \in yes /\ m \in work[c].batch
    BY <1>3, <1>4 DEF TeamYes, FilterByTeam
  <2>2. "team" \in Ground /\ "team" \in Grounds(u, m, a)
    BY <1>6, <2>1 DEF Ground
  <2>3. QED
    BY <1>7, <2>1, <2>2
<1>9. ASSUME NEW m \in work'[c].batch \ work'[c].yes,
             NEW g \in Consulted(work[c])' \ Consulted(work[c])
      PROVE  <<m, g>> \notin Now(c)
  <2>1. m \in work[c].batch /\ m \notin yes
    BY <1>4
  <2>2. work'[c].at = "share"
    <3>1. CASE Filters(work[c])
      BY <1>4, <3>1
    <3>2. CASE ~Filters(work[c])
      <4>1. \A n \in work[c].batch : n = m
        BY <1>1, <2>1, <3>2 DEF WorkInv
      <4>2. yes \subseteq work[c].batch
        BY <1>3 DEF TeamYes, FilterByTeam
      <4>3. QED
        BY <1>4, <2>1, <4>1, <4>2
    <3>3. QED
      BY <3>1, <3>2
  <2>3. Filters(work[c])' <=> Filters(work[c])
    BY <1>4 DEF Filters
  <2>4. g = "team" /\ g \in Ground
    BY <1>1, <2>2, <2>3 DEF Consulted, Ground
  <2>5. QED
    BY <1>6, <1>7, <2>1, <2>4
<1>10. work[c].yes \subseteq work'[c].yes /\ work[c].at # "decided"
  BY <1>1, <1>4
<1>11. QED
  BY <1>1, <1>4, <1>5, <1>8, <1>9, <1>10, QueryKnown

\* The shares settle the rest.
LEMMA AskSharesKnown ==
    ASSUME Types, RequestsInv, KnownInv, Watch, NEW c \in Client, AskShares(c)
    PROVE  KnownOf(c)'
<1>1. /\ work[c] \in OpenWork /\ WorkInv(work[c]) /\ work[c].at = "share" /\ work[c].batch # {}
      /\ work[c].offer.user \in User /\ ActionOf(work[c].op) \in Action
  BY AskSharesRequest, OpenRequest DEF WorkInv, Checking
<1>2. PICK u, a : u = work[c].offer.user /\ a = ActionOf(work[c].op)
  OBVIOUS
<1>3. PICK yes : yes = SharesYes(work[c])
  OBVIOUS
<1>4. /\ work'[c].op = work[c].op /\ work'[c].offer = work[c].offer /\ work'[c].won = work[c].won
      /\ work'[c].batch = work[c].batch /\ work'[c].yes = work[c].yes \cup yes
      /\ work'[c].at = "decided"
  BY <1>3, AskSharesRequest
<1>5. UNCHANGED <<member, share>> /\ u \in User /\ a \in Action
  BY <1>1, <1>2 DEF AskShares, tables
<1>6. ASSUME NEW m \in work[c].batch
      PROVE  /\ m \in yes => "share" \in Grounds(u, m, a) \/ "scope" \in Grounds(u, m, a)
             /\ m \notin yes => \A g \in Ground \ Consulted(work[c]) : g \notin Grounds(u, m, a)
  <2>1. m \in Memory
    BY <1>1 DEF OpenWork
  <2>2. /\ "share" \in Grounds(u, m, a) <=> Cleared(u, m) /\ ShareGrants(share[m][u], a)
        /\ "scope" \in Grounds(u, m, a) <=> Cleared(u, m) /\ ScopeGrants(Row[m].scope, a)
    BY <1>5, <2>1, GroundsOf DEF Types
  <2>3. CASE Filters(work[c])
    <3>1. m \in yes <=> Cleared(u, m) /\ ShareGrants(share[m][u], a)
      BY <1>2, <1>3, <2>3 DEF SharesYes, FilterByShare
    <3>2. Ground \ Consulted(work[c]) = {"share"}
      BY <1>1, <2>3 DEF Consulted, Ground
    <3>3. QED
      BY <2>2, <3>1, <3>2
  <2>4. CASE ~Filters(work[c])
    <3>1. Cleared(u, m)
      BY <1>1, <1>2, <2>4 DEF WorkInv, DecidedByRow
    <3>2. m \in yes <=> ShareGrants(share[m][u], a) \/ ScopeGrants(Row[m].scope, a)
      BY <1>2, <1>3, <2>4 DEF SharesYes
    <3>3. Ground \ Consulted(work[c]) = {"share", "scope"}
      BY <1>1, <2>4 DEF Consulted, Ground
    <3>4. QED
      BY <2>2, <3>1, <3>2, <3>3
  <2>5. QED
    BY <2>3, <2>4
<1>7. ASSUME NEW m \in work[c].batch, NEW g \in Ground
      PROVE  <<m, g>> \in Now(c) <=> g \in Grounds(u, m, a)
  BY <1>2, NowHas
<1>8. ASSUME NEW m \in work'[c].yes \ work[c].yes PROVE \E g \in Ground : <<m, g>> \in Now(c)
  <2>1. m \in yes /\ m \in work[c].batch
    BY <1>3, <1>4 DEF SharesYes, FilterByShare
  <2>2. PICK g \in Ground : g \in Grounds(u, m, a)
    BY <1>6, <2>1 DEF Ground
  <2>3. QED
    BY <1>7, <2>1, <2>2
<1>9. ASSUME NEW m \in work'[c].batch \ work'[c].yes,
             NEW g \in Consulted(work[c])' \ Consulted(work[c])
      PROVE  <<m, g>> \notin Now(c)
  <2>1. m \in work[c].batch /\ m \notin yes
    BY <1>4
  <2>2. g \in Ground \ Consulted(work[c])
    BY <1>4 DEF Consulted
  <2>3. QED
    BY <1>6, <1>7, <2>1, <2>2
<1>10. work[c].yes \subseteq work'[c].yes /\ work[c].at # "decided"
  BY <1>1, <1>4
<1>11. QED
  BY <1>1, <1>4, <1>5, <1>8, <1>9, <1>10, QueryKnown

\* Every step keeps what is known of every check.
LEMMA NextKnown ==
    ASSUME Types, RequestsInv, KnownInv, [Next]_vars
    PROVE  KnownInv'
<1>1. CASE UNCHANGED vars
  <2>1. \A c \in Client : Consulted(work[c])' = Consulted(work[c]) /\ Now(c)' = Now(c)
    BY <1>1 DEF vars, Consulted, Filters, Now, Grounds, ActionOf
  <2>2. QED
    BY <1>1, <2>1 DEF vars, KnownInv, KnownOf
<1>2. CASE Meanwhile /\ Watch
  BY <1>2, MeanwhileTables, StayKnown DEF KnownInv
<1>3. ASSUME Watch, NEW c \in Client, KnownOf(c)', \A d \in Client \ {c} : work'[d] = work[d]
      PROVE  KnownInv'
  <2>1. ASSUME NEW d \in Client PROVE KnownOf(d)'
    BY <1>3, StayKnown
  <2>2. QED
    BY <2>1 DEF KnownInv
<1>4. ASSUME Watch, NEW c \in Client, Serve(c)
      PROVE  KnownOf(c)' /\ \A d \in Client \ {c} : work'[d] = work[d]
  <2>1. CASE Load(c)
    BY <1>4, <2>1, LoadRequest, LoadKnown
  <2>2. CASE AskTeam(c)
    BY <1>4, <2>2, AskTeamRequest, AskTeamKnown
  <2>3. CASE AskShares(c)
    BY <1>4, <2>3, AskSharesRequest, AskSharesKnown
  <2>4. CASE \E o \in Offer : Ask(c, o)
    BY <2>4, AskRequest DEF KnownOf
  <2>5. CASE Settle(c)
    BY <2>5, SettleRequest DEF KnownOf
  <2>6. CASE WriteFile(c)
    BY <2>6, WriteFileRequest DEF KnownOf
  <2>7. CASE Unlink(c)
    BY <2>7, UnlinkRequest DEF KnownOf
  <2>8. CASE Finish(c) \/ Abandon(c)
    <3>1. work'[c].batch = {} /\ \A d \in Client \ {c} : work'[d] = work[d]
      BY <2>8, FinishRequest DEF Idle
    <3>2. QED
      BY <3>1 DEF KnownOf
  <2>9. QED
    BY <1>4, <2>1, <2>2, <2>3, <2>4, <2>5, <2>6, <2>7, <2>8 DEF Serve
<1>5. QED
  BY <1>1, <1>2, <1>3, <1>4 DEF Next

\* At the decision every ground has been consulted.
LEMMA KnownDecides == KnownInv => DecisionsHold
BY DEF KnownInv, KnownOf, DecisionsHold, Consulted

-----------------------------------------------------------------------------
(* The theorems.                                                           *)

IInv == /\ Types /\ RequestsInv
        /\ CountInv /\ ReadsAccounted
        /\ FilesInv /\ AttachmentsWhole
        /\ KnownInv

\* The invariant holds at first, when no request is open.
LEMMA InitInv == Init => IInv
<1> SUFFICES ASSUME Init PROVE IInv
  OBVIOUS
<1>1. Types /\ RequestsInv
  BY InitTypes
<1>2. \A c \in Client : work[c] = Idle
  BY DEF Init
<1>3. CountInv /\ FilesInv /\ KnownInv
  BY <1>2 DEF CountInv, Reading, Open, FilesInv, KnownInv, KnownOf, Idle
<1>4. ReadsAccounted
  <2>1. reads = [m \in Memory |-> 0] /\ logs = [m \in Memory |-> 0]
    BY DEF Init
  <2>2. ASSUME NEW m \in Memory PROVE reads[m] <= logs[m] /\ (m \notin raced => reads[m] = logs[m])
    <3>1. reads[m] = 0 /\ logs[m] = 0
      BY <2>1
    <3>2. QED
      BY <3>1
  <2>3. QED
    BY <2>2, Zenon DEF ReadsAccounted
<1>5. AttachmentsWhole
  <2>1. row = <<>> /\ file = {}
    BY DEF Init
  <2>2. \A a : a \notin DOMAIN row
    BY <2>1
  <2>3. QED
    BY <2>1, <2>2 DEF AttachmentsWhole
<1>6. QED
  BY <1>1, <1>3, <1>4, <1>5 DEF IInv

\* Every step keeps it.
LEMMA NextInv == IInv /\ [Next]_vars => IInv'
<1> SUFFICES ASSUME IInv, [Next]_vars PROVE IInv'
  OBVIOUS
<1>1. Types' /\ RequestsInv'
  BY NextTypes DEF IInv
<1>2. CountInv' /\ ReadsAccounted'
  BY NextCounts DEF IInv
<1>3. FilesInv' /\ AttachmentsWhole'
  BY NextFiles DEF IInv
<1>4. KnownInv'
  BY NextKnown DEF IInv
<1>5. QED
  BY <1>1, <1>2, <1>3, <1>4 DEF IInv

\* The inductive invariant: the requests, the counts, the files and the checks
\* that are under way, together.
THEOREM Invariant == Spec => []IInv
BY InitInv, NextInv, PTL DEF Spec

\* The rows and the files of attachments: whatever fails between the two
\* stores, and in whatever order requests commit, a row without a file or a
\* file without a row is that of a request between its two steps, of one that
\* was given up there, or of a file that could not be unlinked.
THEOREM AttachmentsStayWhole == Spec => []AccessInv
<1>1. IInv => AccessInv
  BY DEF IInv, Types, AccessInv
<1>2. QED
  BY <1>1, Invariant, PTL

\* check_memory_access and filter_memory_ids_with_access agree in every
\* reachable state on reads and comments, the filter grants nothing more on
\* other actions, and the check grants by the documented tables.
THEOREM CheckersAlwaysAgree == Spec => []FilterAgrees
<1>1. IInv => FilterAgrees
  BY CheckersAgree DEF IInv, Types
<1>2. QED
  BY <1>1, Invariant, PTL

\* However members and shares change between the three queries of a check, a
\* grant was grounded at some moment of it, and a ground that was there all along
\* is never overlooked.  Grounds that took turns may be: a refusal can combine
\* moments, and this does not say that it was right at any of them.
THEOREM DecisionsAreGrounded == Spec => []DecisionsHold
<1>1. IInv => DecisionsHold
  BY KnownDecides DEF IInv
<1>2. QED
  BY <1>1, Invariant, PTL

\* access_count is the number of logged reads, save of memories that two
\* sessions read at once, where it is less.
THEOREM ReadsStayAccounted == Spec => []ReadsAccounted
<1>1. IInv => ReadsAccounted
  BY DEF IInv
<1>2. QED
  BY <1>1, Invariant, PTL

=============================================================================
