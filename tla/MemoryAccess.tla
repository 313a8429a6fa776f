---------------------------- MODULE MemoryAccess ----------------------------
(***************************************************************************)
(* Who may do what with a memory, and what requests do with the answer:    *)
(* services/permission_checker.py (check_memory_access, and the batched    *)
(* filter_memory_ids_with_access), the requests that ask it                *)
(* (memory_service.py, memory_attachment_service.py, and the endpoints in  *)
(* memories.py and memory_activation.py that commit or do not), and the    *)
(* team members that an administrator adds and removes (teams.py).         *)
(*                                                                         *)
(* A request is one database session.  Its decision is not one read: the   *)
(* memory's row, the team's members and the shares are three queries, and  *)
(* members and shares change between them.  What it writes is committed    *)
(* later, after other requests committed.  The row's owner, scope and      *)
(* clearance never change, so they are a constant here; whether it is      *)
(* live (is_active) and how often it was read do change.                   *)
(***************************************************************************)
EXTENDS Integers, TLC

CONSTANTS
    Memory, User, Client,   \* Client: the sessions that may be open at a time
    Row,                    \* of each memory: its owner, scope and the clearance it needs
    Clearance,              \* of each user, from the access token
    Attachment,
    Offer,                  \* the operations that users ask for
    Newcomer,               \* users that an administrator may add to the team
    MaxRequests,            \* bound: requests that may be made
    MaxChanges              \* bound: what the administrator and the clock may change

Scope == {"personal", "team", "organization", "global"}
Role == {"member", "lead", "admin"}
Permission == {"read", "comment", "edit"}
Action == {"read", "comment", "write", "update", "share", "delete"}
Operation == {"get", "search", "neighbors", "share", "delete", "upload", "remove"}
Ground == {"own", "team", "share", "scope"}

ASSUME AccessAssumption ==
    /\ Row \in [Memory -> [owner : User, scope : Scope, need : Nat]]
    /\ Clearance \in [User -> Nat] /\ MaxRequests \in Nat /\ MaxChanges \in Nat /\ Newcomer \subseteq User
    /\ \A o \in Offer : /\ o.op \in Operation /\ o.user \in User
                        /\ o.on \in (SUBSET Memory) \ {{}}
                        /\ o.op = "share" => o.to \in User /\ o.grant \in Permission
                        /\ o.op \in {"get", "upload", "remove"} => \E m \in Memory : o.on = {m}

VARIABLES
    live,     \* memories that are not deleted
    member,   \* of each user: the role in the team, "none" without a row, "left" if removed
    share,    \* rows of memory_sharing: of a memory and a user
    reads,    \* access_count
    logs,     \* committed access logs of single reads
    row,      \* attachments' rows: the memory of each
    file,     \* attachments whose file is on the disk
    work,     \* the open request of each session
    asked, changed,
    known,    \* history: what entitled each session's user while its batch is checked
    raced, torn, left   \* history: see Count, Abandon, Unlink

vars == <<live, member, share, reads, logs, row, file, work, asked, changed, known, raced, torn, left>>
tables == <<live, member, share, reads, logs, row>>
history == <<raced, torn, left>>

NoShare == [grant |-> "none", valid |-> FALSE]
Idle == [op |-> "none", batch |-> {}, won |-> {}, att |-> {}]
Nothing == [ever |-> {}, always |-> {}]
Open(c) == work[c].op # "none"

-----------------------------------------------------------------------------
(* The decision *)

Cleared(u, m) == Row[m].need <= Clearance[u]

\* Mutant: is_active of the membership is not asked for, in the check
TeamGrantsOnceIn(role, action) ==
    CASE action \in {"read", "comment"} -> role # "none"
      [] action \in {"write", "update", "share"} -> role \in {"lead", "admin"}
      [] action = "delete" -> role = "admin"
      [] OTHER -> FALSE

\* _check_team_access: what the role lets its holder do
TeamGrants(role, action) ==
    CASE action \in {"read", "comment"} -> role \in Role
      [] action \in {"write", "update", "share"} -> role \in {"lead", "admin"}
      [] action = "delete" -> role = "admin"
      [] OTHER -> FALSE

\* permission_map of _check_share_access
ShareGrants(s, action) ==
    /\ s.valid
    /\ CASE action = "read" -> s.grant \in Permission
         [] action = "comment" -> s.grant \in {"comment", "edit"}
         [] action \in {"write", "update"} -> s.grant = "edit"
         [] OTHER -> FALSE

\* _check_scope_access
ScopeGrants(scope, action) == scope \in {"organization", "global"} /\ action = "read"

(* check_memory_access: the row is read first.  It settles the question, or
   the team is asked, or the shares and then the scope. *)
DecidedByRow(u, m) == ~Cleared(u, m) \/ Row[m].owner = u
AsksTeam(u, m) == ~DecidedByRow(u, m) /\ Row[m].scope = "team"
GrantedByRow(u, m) == Cleared(u, m) /\ Row[m].owner = u

CheckMemoryAccess(u, m, action) ==
    IF DecidedByRow(u, m) THEN GrantedByRow(u, m)
    ELSE \/ AsksTeam(u, m) /\ TeamGrants(member[u], action)
         \/ ShareGrants(share[m][u], action)
         \/ ScopeGrants(Row[m].scope, action)

(* filter_memory_ids_with_access: one query for the rows, one for the teams
   (reads and comments only), one for the shares. *)
FilterByRow(u, ids, action) ==
    {m \in ids : Cleared(u, m) /\ (Row[m].owner = u \/ ScopeGrants(Row[m].scope, action))}
\* Mutant: nor in the filter
FilterByTeamOnceIn(u, ids, action) ==
    {m \in ids : /\ Cleared(u, m) /\ action \in {"read", "comment"}
                 /\ Row[m].scope = "team" /\ member[u] # "none"}

FilterByTeam(u, ids, action) ==
    {m \in ids : /\ Cleared(u, m) /\ action \in {"read", "comment"}
                 /\ Row[m].scope = "team" /\ member[u] \in Role}
FilterByShare(u, ids, action) ==
    {m \in ids : Cleared(u, m) /\ ShareGrants(share[m][u], action)}
FilterIds(u, ids, action) ==
    FilterByRow(u, ids, action) \cup FilterByTeam(u, ids, action) \cup FilterByShare(u, ids, action)

-----------------------------------------------------------------------------
Init ==
    /\ live = Memory
    /\ member = [u \in User |-> "none"]
    /\ share = [m \in Memory |-> [u \in User |-> NoShare]]
    /\ reads = [m \in Memory |-> 0]
    /\ logs = [m \in Memory |-> 0]
    /\ row = <<>>
    /\ file = {}
    /\ work = [c \in Client |-> Idle]
    /\ asked = 0 /\ changed = 0
    /\ known = [c \in Client |-> Nothing]
    /\ raced = {} /\ torn = {} /\ left = {}

(* What the operation asks permission for. *)
ActionOf(op) == CASE op \in {"get", "search", "neighbors"} -> "read"
                  [] op \in {"upload", "remove"} -> "write"
                  [] OTHER -> op

(* A request: the endpoint sets the tenant and calls its service.
   todo: the memories still to be checked;  batch: those being checked;
   yes: of these, the ones granted so far;  count: access_count as loaded;
   won: those granted;  att: the attachment whose file is written or unlinked. *)
Ask(c, o) ==
    /\ ~Open(c) /\ asked < MaxRequests
    /\ o.op = "search" => o.on \cap live # {}
    /\ work' = [work EXCEPT ![c] =
          [op |-> o.op, offer |-> o, at |-> "next", count |-> 0, won |-> {},
           todo |-> IF o.op = "search" THEN o.on \cap live ELSE o.on,
           batch |-> {}, yes |-> {}, att |-> {}]]
    /\ asked' = asked + 1
    /\ UNCHANGED <<tables, file, changed, history>>

(* The next memory of the request is looked up: session.get, or the rows of
   the whole batch for the neighbors once the base memory is granted. *)
Filters(w) == w.op = "neighbors" /\ w.won # {}
NextBatch(w) == IF Filters(w) THEN {w.todo} ELSE {{m} : m \in w.todo}
Loaded(w, ids) ==
    LET u == w.offer.user  a == ActionOf(w.op) IN
    [w EXCEPT !.todo = @ \ ids, !.batch = ids,
              !.count = IF w.op = "get" THEN reads[CHOOSE m \in ids : TRUE] ELSE 0,
              !.yes = IF Filters(w) THEN FilterByRow(u, ids, a)
                      ELSE {m \in ids : GrantedByRow(u, m)},
              !.at = IF Filters(w) THEN "team"
                     ELSE IF \A m \in ids : DecidedByRow(u, m) THEN "decided"
                     ELSE IF \A m \in ids : AsksTeam(u, m) THEN "team" ELSE "share"]
Load(c) ==
    /\ Open(c) /\ work[c].at = "next"
    /\ \E ids \in NextBatch(work[c]) : work' = [work EXCEPT ![c] = Loaded(work[c], ids)]
    /\ UNCHANGED <<tables, file, asked, changed, history>>

AskTeam(c) ==
    /\ Open(c) /\ work[c].at = "team"
    /\ LET w == work[c]  u == w.offer.user  a == ActionOf(w.op)
           yes == IF Filters(w) THEN FilterByTeam(u, w.batch, a)
                  ELSE {m \in w.batch : TeamGrants(member[u], a)} IN
       work' = [work EXCEPT ![c].yes = @ \cup yes,
                            ![c].at = IF yes # {} /\ ~Filters(w) THEN "decided" ELSE "share"]
    /\ UNCHANGED <<tables, file, asked, changed, history>>

AskShares(c) ==
    /\ Open(c) /\ work[c].at = "share"
    /\ LET w == work[c]  u == w.offer.user  a == ActionOf(w.op)
           yes == IF Filters(w) THEN FilterByShare(u, w.batch, a)
                  ELSE {m \in w.batch : \/ ShareGrants(share[m][u], a)
                                        \/ ScopeGrants(Row[m].scope, a)} IN
       work' = [work EXCEPT ![c].yes = @ \cup yes, ![c].at = "decided"]
    /\ UNCHANGED <<tables, file, asked, changed, history>>

-----------------------------------------------------------------------------
(* What a request does with the answer *)

\* get_memory, get_attachment and the neighbors' base answer 403 and roll back;
\* search, the batches and the filter go on without the memory
EndsWhenRefused(w) == w.op \in {"get", "upload", "remove"} \/ (w.op = "neighbors" /\ w.won = {})

Settle(c) ==
    /\ Open(c) /\ work[c].at = "decided"
    /\ LET w == work[c] IN
       work' = [work EXCEPT ![c] =
          IF w.yes = {} /\ EndsWhenRefused(w) THEN Idle
          ELSE [w EXCEPT !.won = @ \cup w.yes, !.batch = {}, !.yes = {},
                         !.at = IF w.todo # {} THEN "next"
                                ELSE IF w.op \in {"upload", "remove"} THEN "file" ELSE "commit"]]
    /\ UNCHANGED <<tables, file, asked, changed, history>>

\* Mutant: the file is stored under its own name
WriteFileByName(c) ==
    /\ Open(c) /\ work[c].at = "file" /\ work[c].op = "upload"
    /\ \E a \in Attachment :
         /\ file' = file \cup {a}
         /\ work' = [work EXCEPT ![c].att = {a}, ![c].at = "commit"]
    /\ UNCHANGED <<tables, asked, changed, history>>

\* create_attachment writes the file under a new identifier; a file too large
\* or unreadable is unlinked again, which is Abandon before this step
WriteFile(c) ==
    /\ Open(c) /\ work[c].at = "file" /\ work[c].op = "upload"
    /\ \E a \in Attachment \ (file \cup DOMAIN row \cup torn \cup left
                              \cup UNION {work[d].att : d \in Client}) :
         /\ file' = file \cup {a}
         /\ work' = [work EXCEPT ![c].att = {a}, ![c].at = "commit"]
    /\ UNCHANGED <<tables, asked, changed, history>>

\* delete_attachment deletes the row (not yet committed) and unlinks the file,
\* which may fail: the row goes all the same
Unlink(c) ==
    /\ Open(c) /\ work[c].at = "file" /\ work[c].op = "remove"
    /\ \E a \in DOMAIN row, fails \in BOOLEAN :
         /\ row[a] \in work[c].won
         /\ \A d \in Client : a \notin work[d].att    \* the row is locked by its deletion
         /\ fails => a \in file
         /\ file' = IF fails THEN file ELSE file \ {a}
         /\ left' = IF fails THEN left \cup {a} ELSE left
         /\ work' = [work EXCEPT ![c].att = {a}, ![c].at = "commit"]
    /\ UNCHANGED <<tables, asked, changed, raced, torn>>

Reading(d, m) == Open(d) /\ work[d].op = "get" /\ m \in work[d].batch \cup work[d].won

\* Mutant: the log of a read is written in a transaction of its own, which is lost
CountUnlogged(c) ==
    LET m == CHOOSE n \in work[c].won : TRUE IN
    /\ reads' = [reads EXCEPT ![m] = work[c].count + 1]
    /\ raced' = IF \E d \in Client \ {c} : Reading(d, m) THEN raced \cup {m} ELSE raced
    /\ UNCHANGED <<live, member, share, logs, row, torn>>

Count(c) ==
    LET m == CHOOSE n \in work[c].won : TRUE IN
    /\ logs' = [logs EXCEPT ![m] = @ + 1]
    /\ reads' = [reads EXCEPT ![m] = work[c].count + 1]
    /\ raced' = IF \E d \in Client \ {c} : Reading(d, m) THEN raced \cup {m} ELSE raced
    /\ UNCHANGED <<live, member, share, row, torn>>

\* the unique index of memory_sharing refuses a second row for the pair, also
\* when the first has expired; the flush raises and the whole batch is lost
Share(c) ==
    LET w == work[c] IN
    /\ \A m \in w.won : share[m][w.offer.to] = NoShare
    /\ share' = [m \in Memory |-> IF m \in w.won
                                  THEN [share[m] EXCEPT ![w.offer.to] = [grant |-> w.offer.grant, valid |-> TRUE]]
                                  ELSE share[m]]
    /\ UNCHANGED <<live, member, reads, logs, row, raced, torn>>

Finish(c) ==
    /\ Open(c) /\ work[c].at = "commit"
    /\ LET w == work[c] IN
       \/ w.op = "get" /\ Count(c)
       \/ w.op = "share" /\ Share(c)
       \/ /\ w.op = "delete"
          /\ live' = live \ w.won
          /\ UNCHANGED <<member, share, reads, logs, row, raced, torn>>
       \/ /\ w.op = "upload"
          /\ row' = [a \in DOMAIN row \cup w.att |->
                        IF a \in w.att THEN CHOOSE m \in w.won : TRUE ELSE row[a]]
          /\ UNCHANGED <<live, member, share, reads, logs, raced, torn>>
       \/ /\ w.op = "remove"
          /\ row' = [a \in DOMAIN row \ w.att |-> row[a]]
          /\ UNCHANGED <<live, member, share, reads, logs, raced, torn>>
       \/ w.op \in {"search", "neighbors"} /\ UNCHANGED <<live, member, share, reads, logs, row, raced, torn>>
    /\ work' = [work EXCEPT ![c] = Idle]
    /\ UNCHANGED <<file, asked, changed, left>>

(* Anything may raise, and the process may die: the session is rolled back,
   the disk is not. *)
Abandon(c) ==
    /\ Open(c)
    /\ torn' = torn \cup work[c].att
    /\ work' = [work EXCEPT ![c] = Idle]
    /\ UNCHANGED <<tables, file, asked, changed, raced, left>>

-----------------------------------------------------------------------------
(* Meanwhile *)

Change == changed < MaxChanges /\ changed' = changed + 1 /\ UNCHANGED <<live, reads, logs, row, file, asked, history>>

\* add_team_member; who was removed still has a row, and is not added again
AddMember(u, role) ==
    /\ Change
    /\ member[u] = "none"
    /\ member' = [member EXCEPT ![u] = role]
    /\ UNCHANGED <<share, work>>

RemoveMember(u) ==
    /\ Change
    /\ member[u] \in Role
    /\ member' = [member EXCEPT ![u] = "left"]
    /\ UNCHANGED <<share, work>>

\* expires_at passes; nothing else ends a share
Expire(m, u) ==
    /\ Change
    /\ share[m][u].valid
    /\ share' = [share EXCEPT ![m][u].valid = FALSE]
    /\ UNCHANGED <<member, work>>

-----------------------------------------------------------------------------
(* History: what entitled the user, according to the tables of roles and of
   permissions that the checker documents *)

RolesFor == [read |-> Role, comment |-> Role, write |-> {"lead", "admin"}, update |-> {"lead", "admin"},
             share |-> {"lead", "admin"}, delete |-> {"admin"}]
PermissionsFor == [read |-> Permission, comment |-> {"comment", "edit"}, write |-> {"edit"},
                   update |-> {"edit"}, share |-> {}, delete |-> {}]

Grounds(u, m, action) ==
    {g \in Ground :
        /\ Row[m].need <= Clearance[u]
        /\ \/ g = "own" /\ Row[m].owner = u
           \/ g = "team" /\ Row[m].scope = "team" /\ member[u] \in RolesFor[action]
           \/ g = "share" /\ share[m][u].valid /\ share[m][u].grant \in PermissionsFor[action]
           \/ g = "scope" /\ Row[m].scope \in {"organization", "global"} /\ action = "read"}

Now(c) == {mg \in work[c].batch \X Ground :
              mg[2] \in Grounds(work[c].offer.user, mg[1], ActionOf(work[c].op))}

\* from the moment the row is looked up until the decision
Watch == known' =
    [c \in Client |->
        IF work'[c].batch = {} THEN Nothing
        ELSE IF work[c].batch = {} THEN [ever |-> Now(c)', always |-> Now(c)']
        ELSE IF work[c].at = "decided" THEN known[c]
        ELSE [ever |-> known[c].ever \cup Now(c)', always |-> known[c].always \cap Now(c)']]

Meanwhile ==
    \/ \E u \in Newcomer, role \in Role : AddMember(u, role)
    \/ \E u \in User : RemoveMember(u)
    \/ \E m \in Memory, u \in User : Expire(m, u)

Serve(c) ==
    \/ \E o \in Offer : Ask(c, o)
    \/ Load(c)
    \/ AskTeam(c)
    \/ AskShares(c)
    \/ Settle(c)
    \/ WriteFile(c)
    \/ Unlink(c)
    \/ Finish(c)
    \/ Abandon(c)

Next == (Meanwhile \/ \E c \in Client : Serve(c)) /\ Watch

Spec == Init /\ [][Next]_vars

-----------------------------------------------------------------------------
(* Properties *)

TypeOK ==
    /\ live \subseteq Memory /\ raced \subseteq Memory
    /\ member \in [User -> Role \cup {"none", "left"}]
    /\ share \in [Memory -> [User -> [grant : Permission \cup {"none"}, valid : BOOLEAN]]]
    /\ reads \in [Memory -> Nat] /\ logs \in [Memory -> Nat]
    /\ DOMAIN row \subseteq Attachment /\ file \subseteq Attachment
    /\ torn \subseteq Attachment /\ left \subseteq Attachment
    /\ \A c \in Client : work[c].won \subseteq Memory /\ work[c].att \subseteq Attachment

(* The two checkers agree.  The filter grants what check_memory_access grants
   for reads and comments ("It mirrors the same permission semantics", the
   filter's docstring), and never more for any other action. *)
FilterAgrees ==
    \A u \in User, action \in Action :
        LET granted == {m \in Memory : CheckMemoryAccess(u, m, action)} IN
        /\ FilterIds(u, Memory, action) \subseteq granted
        /\ action \in {"read", "comment"} => FilterIds(u, Memory, action) = granted
        /\ granted = {m \in Memory : Grounds(u, m, action) # {}}

(* A decision is three queries of changing tables.  What is granted, one ground
   entitled the user to at some moment while the check ran; what is refused, no
   single ground entitled the user to all along.  A refusal need not be the
   decision of any moment: each ground was absent at a moment of its own, and of
   two grounds that took turns one may have been there at every moment. *)
DecisionsHold ==
    \A c \in Client : Open(c) /\ work[c].at = "decided" =>
        \A m \in work[c].batch :
            /\ m \in work[c].yes => \E g \in Ground : <<m, g>> \in known[c].ever
            /\ m \notin work[c].yes => \A g \in Ground : <<m, g>> \notin known[c].always

(* access_count counts the committed reads, which are those that are logged;
   it falls behind only for a memory that two sessions read at once, and is
   never ahead. *)
ReadsAccounted ==
    \A m \in Memory : reads[m] <= logs[m] /\ (m \notin raced => reads[m] = logs[m])

(* An attachment's row and its file come and go together, except while a
   request is between the two, when it was abandoned there, or when the file
   could not be unlinked. *)
AttachmentsWhole ==
    \A a \in Attachment :
        LET handled(op) == \E c \in Client : work[c].op = op /\ a \in work[c].att IN
        /\ a \in DOMAIN row \ file => handled("remove") \/ a \in torn
        /\ a \in file \ DOMAIN row => handled("upload") \/ a \in torn \cup left

AccessInv == TypeOK /\ AttachmentsWhole

=============================================================================
