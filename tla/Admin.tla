---- MODULE Admin ----
(***************************************************************************)
(* The admin service of internal/admin: the HTTP handlers of service.go    *)
(* and the Milvus index of search.go.  A handler is a row of separate      *)
(* calls to Redis and Milvus without a transaction; the handlers of        *)
(* concurrent requests interleave call by call, and every call may fail.   *)
(*                                                                         *)
(* Users and documents are handled alike and are the items here; an item's *)
(* record is its user: or doc: key.  A permission is a triple of tenant,   *)
(* user and document, a member of the set acl:tenant:user.                 *)
(***************************************************************************)
EXTENDS Integers, Sequences, Functions

CONSTANTS
    Slots,        \* requests handled at the same time
    Users, Docs, Tenants,
    None,         \* no value
    Archived,     \* old documents, imported with their records into the cold collection
    Matches,      \* items whose fields contain the keyword of a listing
    Colons,       \* tenants and users with a colon in their id
    Limits,       \* limits asked of GetAuditLogs
    OldLog,       \* the audit list as it is found: 0 for an entry, None for one that is not JSON
    ExactSearch,  \* a vector search finds all of a small collection
    MaxOps,       \* bound on the requests
    MaxUnindexed, \* the same, for a service without search
    MaxFaults     \* bound on failing or repeated calls

Items == Users \union Docs
Permissions == Tenants \X Users \X Docs

(* Ids are strings, so that there are some; keys tell a user, a document   *)
(* and a permission apart, also where ids contain colons; no value is not  *)
(* the number of a request.                                                *)
ASSUME AdminAssumption ==
    /\ Users # {} /\ Docs # {} /\ Users \intersect Docs = {}
    /\ Items \intersect Permissions = {} /\ None \notin Int
    /\ Archived \subseteq Docs /\ Matches \subseteq Items
    /\ Colons \subseteq Tenants \union Users
    /\ Limits \subseteq Int /\ OldLog \in Seq({0, None})
    /\ ExactSearch \in BOOLEAN /\ MaxFaults \in Nat
    /\ MaxOps \in Nat /\ MaxUnindexed \in 0..MaxOps

KindOf(i) == IF i \in Users THEN Users ELSE Docs

VARIABLES
    search,   \* Service.search is not nil
    db,       \* records (by the request that wrote them), acl sets, Milvus
              \* collections and the audit list (newest first)
    slot,     \* the request in each slot
    ops, faults,
    ideal,    \* history: items and permissions there should be, by request
    dirty,    \* history: those whose last change overlapped another one or failed
    applied,  \* history: requests that made their change
    unlogged  \* history: requests whose audit entry was refused

OpsBound == IF search THEN MaxOps ELSE MaxUnindexed

history == <<ideal, dirty, applied, unlogged>>
vars == <<search, db, slot, ops, faults, history>>

Free == [op |-> "none", id |-> None, t |-> None, d |-> None, keyword |-> FALSE,
         no |-> 0, pc |-> "done", reply |-> "none", todo |-> {}, out |-> {},
         matching |-> FALSE, expired |-> FALSE, overlap |-> FALSE, failed |-> FALSE,
         there |-> {}, always |-> {}, limit |-> 0, total |-> 0, logs |-> <<>>]

Running(q) == q.pc # "done"
Changes(q) == q.op \in {"create", "delete", "grant", "revoke"}

(* The items and permissions a request changes. *)
Covers(q) ==
    CASE q.op = "create" -> {q.id}
      [] q.op = "delete" -> {q.id} \union {p \in Permissions : p[2] = q.id}
      [] q.op \in {"grant", "revoke"} -> {<<q.t, q.id, q.d>>}
      [] OTHER -> {}

Init ==
    /\ search \in BOOLEAN
    /\ db = [records |-> [i \in Items |-> IF i \in Archived THEN 0 ELSE None],
             acl |-> {}, usersHot |-> {}, docsHot |-> {}, docsCold |-> Archived, log |-> OldLog]
    /\ slot = [c \in Slots |-> Free]
    /\ ops = 0 /\ faults = 0
    /\ ideal = [x \in Items \union Permissions |-> IF x \in Archived THEN 0 ELSE None]
    /\ dirty = {} /\ applied = {} /\ unlogged = {}

----
(* What the call a request is about to make does to the stores.            *)

(* Plausible bug: users are inserted into the collection of documents. *)
IndexedAsDocument(m, i) == [m EXCEPT !.docsHot = @ \union {i}]

(* IndexUser and IndexDocument.  isHotData looks at the creation time,     *)
(* which is that of the request: a document always goes to the hot         *)
(* collection.                                                             *)
Indexed(m, i) ==
    IF i \in Users THEN [m EXCEPT !.usersHot = @ \union {i}]
                   ELSE [m EXCEPT !.docsHot = @ \union {i}]

Effect(m, q) ==
    CASE q.pc = "set"         -> [m EXCEPT !.records[q.id] = q.no]
      [] q.pc = "del"         -> [m EXCEPT !.records[q.id] = None]
      [] q.pc = "index"       -> Indexed(m, q.id)
      [] q.pc = "unindex"     -> [m EXCEPT !.usersHot = @ \ {q.id}]
      [] q.pc = "unindexHot"  -> [m EXCEPT !.docsHot = @ \ {q.id}]
      [] q.pc = "unindexCold" -> [m EXCEPT !.docsCold = @ \ {q.id}]
      [] q.pc = "sadd"        -> [m EXCEPT !.acl = @ \union {<<q.t, q.id, q.d>>}]
      [] q.pc = "srem"        -> [m EXCEPT !.acl = @ \ {<<q.t, q.id, q.d>>}]
      [] q.pc = "audit"       -> [m EXCEPT !.log = <<q.no>> \o @]
      [] OTHER                -> m

----
(* What a handler does next, once its call has succeeded (ok) or failed.   *)
(* Each operator gives the request states that may follow.                 *)
Goto(q, pc) == {[q EXCEPT !.pc = pc]}
Reply(q, code) == {[q EXCEPT !.pc = "done", !.reply = code, !.todo = {}]}

(* Plausible bug: the answer of Exists is ignored. *)
AfterCreateUnchecked(q, ok) ==
    CASE q.pc = "exists" -> IF ok THEN Goto(q, "set") ELSE Reply(q, "500")
      [] q.pc = "set"    -> IF ~ok THEN Reply(q, "500")
                            ELSE Goto(q, IF search THEN "index" ELSE "audit")
      [] q.pc = "index"  -> Goto(q, "audit")
      [] q.pc = "audit"  -> Reply(q, "200")

(* CreateUser, CreateDocument *)
AfterCreate(q, ok) ==
    CASE q.pc = "exists" -> IF ~ok THEN Reply(q, "500")
                            ELSE IF db.records[q.id] # None THEN Reply(q, "400")
                            ELSE Goto(q, "set")
      [] q.pc = "set"    -> IF ~ok THEN Reply(q, "500")
                            ELSE Goto(q, IF search THEN "index" ELSE "audit")
      [] q.pc = "index"  -> Goto(q, "audit")
      [] q.pc = "audit"  -> Reply(q, "200")

(* The acl keys DeleteUser finds and deletes one by one, each a tenant's. *)
AclKeys(u) == {t \in Tenants : \E d \in Docs : <<t, u, d>> \in db.acl}

(* DeleteUser *)
AfterDeleteUser(q, ok) ==
    CASE q.pc = "del"     -> IF ~ok THEN Reply(q, "500")
                             ELSE Goto(q, IF search THEN "unindex" ELSE "keys")
      [] q.pc = "unindex" -> Goto(q, "keys")
      [] q.pc = "keys"    -> IF ok /\ AclKeys(q.id) # {}
                               THEN {[q EXCEPT !.pc = "delKey", !.todo = AclKeys(q.id)]}
                               ELSE Goto(q, "audit")
      [] q.pc = "audit"   -> Reply(q, "200")

(* DeleteDocument *)
AfterDeleteDocument(q, ok) ==
    CASE q.pc = "del"         -> IF ~ok THEN Reply(q, "500")
                                 ELSE Goto(q, IF search THEN "unindexHot" ELSE "audit")
      [] q.pc = "unindexHot"  -> Goto(q, "unindexCold")
      [] q.pc = "unindexCold" -> Goto(q, "audit")
      [] q.pc = "audit"       -> Reply(q, "200")

(* Plausible bug: the audit entry is written whether or not the change was made. *)
AfterPermissionAlways(q, ok) ==
    CASE q.pc \in {"sadd", "srem"} -> Goto(q, "audit")
      [] q.pc = "audit"            -> Reply(q, "200")

(* GrantPermission, RevokePermission *)
AfterPermission(q, ok) ==
    CASE q.pc \in {"sadd", "srem"} -> IF ok THEN Goto(q, "audit") ELSE Reply(q, "500")
      [] q.pc = "audit"            -> Reply(q, "200")

(* What a vector search of a collection may return: the nearest entries,   *)
(* up to a number larger than the collections here, whatever the keyword.  *)
Search(collection) == IF ExactSearch THEN {collection} ELSE SUBSET collection

Present(kind) == {i \in kind : db.records[i] # None}

(* The listing goes on with the ids of the search or, if there are none,   *)
(* with string matching over all keys.                                     *)
Fetch(q, ids) ==
    IF ids = {} THEN {[q EXCEPT !.pc = "keys", !.todo = {}]}
                ELSE {[q EXCEPT !.pc = "get", !.todo = ids]}

(* SearchUsers, whose error counts as no ids. *)
AfterSearchUsers(q, ok) ==
    UNION {Fetch(q, ids) : ids \in IF ok THEN Search(db.usersHot) ELSE {{}}}

(* SearchDocuments: two searches, of which either may fail.  The one for   *)
(* hot documents looks into the collection of the users.                   *)
AfterSearchDocuments(q, ok) ==
    IF q.pc = "searchHot"
      THEN {[q EXCEPT !.pc = "searchCold", !.todo = ids] :
              ids \in IF ok THEN Search(db.usersHot) ELSE {{}}}
      ELSE UNION {Fetch(q, q.todo \union ids) :
                    ids \in IF ok THEN Search(db.docsCold) ELSE {{}}}

(* getUsersByStringMatch, getDocsByStringMatch *)
AfterKeys(q, ok) ==
    IF ok /\ Present(KindOf(q.id)) # {}
      THEN {[q EXCEPT !.pc = "get", !.matching = TRUE, !.todo = Present(KindOf(q.id))]}
      ELSE {[q EXCEPT !.pc = "done", !.matching = TRUE, !.reply = "200"]}

(* ListPermissions starts with the acl keys of the tenant.                 *)
AfterAclKeys(q, ok) ==
    LET users == {u \in Users : \E d \in Docs : <<q.t, u, d>> \in db.acl} IN
    IF ~ok THEN Reply(q, "500")
    ELSE IF users = {} THEN Reply(q, "200")
    ELSE {[q EXCEPT !.pc = "members", !.todo = users]}

(* How many entries LRANGE from 0 to stop gives of a list: stop is one of  *)
(* them, and a negative one counts from the end.                           *)
LRange(len, stop) ==
    IF stop >= len THEN len
    ELSE IF stop >= 0 THEN stop + 1
    ELSE IF len + stop >= 0 THEN len + stop + 1 ELSE 0

(* The entries of a range that are JSON, each with its place there as its  *)
(* id; the others are skipped.                                             *)
Readable(log, n) == [k \in {k \in 1..n : log[k] # None} |-> log[k]]

(* Plausible bug: the limit is taken for the last index. *)
AfterAuditLogsOneMore(q, ok) ==
    IF ~ok THEN Reply(q, "500")
    ELSE IF q.pc = "llen" THEN {[q EXCEPT !.pc = "lrange", !.total = Len(db.log)]}
    ELSE Reply([q EXCEPT !.logs = Readable(db.log, LRange(Len(db.log), q.limit))], "200")

(* GetAuditLogs: the length of the list, then its entries from 0 to        *)
(* limit - 1, whatever the limit is.                                       *)
AfterAuditLogs(q, ok) ==
    IF ~ok THEN Reply(q, "500")
    ELSE IF q.pc = "llen" THEN {[q EXCEPT !.pc = "lrange", !.total = Len(db.log)]}
    ELSE Reply([q EXCEPT !.logs = Readable(db.log, LRange(Len(db.log), q.limit - 1))], "200")

After(q, ok) ==
    CASE q.op = "create" -> AfterCreate(q, ok)
      [] q.op = "delete" /\ q.id \in Users -> AfterDeleteUser(q, ok)
      [] q.op = "delete" /\ q.id \in Docs -> AfterDeleteDocument(q, ok)
      [] q.op \in {"grant", "revoke"} -> AfterPermission(q, ok)
      [] q.pc = "search" -> AfterSearchUsers(q, ok)
      [] q.pc \in {"searchHot", "searchCold"} -> AfterSearchDocuments(q, ok)
      [] q.op = "list" /\ q.pc = "keys" -> AfterKeys(q, ok)
      [] q.op = "permissions" -> AfterAclKeys(q, ok)
      [] q.op = "audit" -> AfterAuditLogs(q, ok)

(* The loops: DeleteUser deletes the acl key of a tenant and drops the     *)
(* error, if any; a listing gets the record of an id and skips what it     *)
(* cannot get.  Only string matching looks at the keyword again.           *)
AfterDelKey(q, t) ==
    [q EXCEPT !.todo = @ \ {t}, !.pc = IF q.todo = {t} THEN "audit" ELSE "delKey"]

(* Plausible bug: what the search found is listed without its record. *)
AfterGetUnfetched(q, i, ok) ==
    [q EXCEPT !.out = IF ok /\ i \in KindOf(q.id) THEN @ \union {i} ELSE @,
              !.todo = @ \ {i},
              !.pc = IF q.todo = {i} THEN "done" ELSE "get",
              !.reply = IF q.todo = {i} THEN "200" ELSE "none"]

(* Plausible bug: a record that is gone ends the loop. *)
AfterGetStopping(q, i, ok) ==
    LET found == /\ ok
                 /\ i \in Present(KindOf(q.id))
                 /\ (q.matching /\ q.keyword) => i \in Matches
        last == q.todo = {i} \/ ~found
    IN  [q EXCEPT !.out = IF found THEN @ \union {i} ELSE @,
                  !.todo = @ \ {i},
                  !.pc = IF last THEN "done" ELSE "get",
                  !.reply = IF last THEN "200" ELSE "none"]

AfterGet(q, i, ok) ==
    LET found == /\ ok
                 /\ i \in Present(KindOf(q.id))
                 /\ (q.matching /\ q.keyword) => i \in Matches
    IN  [q EXCEPT !.out = IF found THEN @ \union {i} ELSE @,
                  !.todo = @ \ {i},
                  !.pc = IF q.todo = {i} THEN "done" ELSE "get",
                  !.reply = IF q.todo = {i} THEN "200" ELSE "none"]

(* ListPermissions takes a key apart at its colons and wants three parts.  *)
InThreeParts(t, u) == t \notin Colons /\ u \notin Colons

(* A round of ListPermissions gets the members of one user's set, and      *)
(* drops them when the key does not split at its colons in three parts.    *)
(* The titles of the documents, which are added to the answer, are left    *)
(* out.                                                                    *)
AfterMembers(q, u, ok) ==
    [q EXCEPT !.out = IF ok /\ InThreeParts(q.t, u)
                        THEN @ \union {p \in db.acl : p[1] = q.t /\ p[2] = u} ELSE @,
              !.todo = @ \ {u},
              !.pc = IF q.todo = {u} THEN "done" ELSE "members",
              !.reply = IF q.todo = {u} THEN "200" ELSE "none"]

----
(* A request arrives.  It and the running requests that change the same    *)
(* things overlap.                                                         *)
Begin(c, q) ==
    LET met == {b \in Slots : Running(slot[b]) /\ Covers(slot[b]) \intersect Covers(q) # {}} IN
    /\ ~Running(slot[c]) /\ ops < OpsBound
    /\ ops' = ops + 1
    /\ slot' = [b \in Slots |->
                  IF b = c THEN [q EXCEPT !.no = ops + 1, !.overlap = met # {}]
                  ELSE IF ~Running(slot[b]) THEN Free
                  ELSE [slot[b] EXCEPT !.overlap = @ \/ b \in met]]
    /\ UNCHANGED <<search, db, faults, history>>

Request(op, i, pc) == [Free EXCEPT !.op = op, !.id = i, !.pc = pc]

CreateUser(c, u) == Begin(c, Request("create", u, "exists"))

CreateDocument(c, d) == Begin(c, Request("create", d, "exists"))

DeleteUser(c, u) == Begin(c, Request("delete", u, "del"))

DeleteDocument(c, d) == Begin(c, Request("delete", d, "del"))

GrantPermission(c, t, u, d) ==
    Begin(c, [Request("grant", u, "sadd") EXCEPT !.t = t, !.d = d])

RevokePermission(c, t, u, d) ==
    Begin(c, [Request("revoke", u, "srem") EXCEPT !.t = t, !.d = d])

(* What a listing would show now.                                          *)
Shown(q, m) ==
    IF q.op = "permissions" THEN {p \in m.acl : p[1] = q.t}
                            ELSE {i \in KindOf(q.id) : m.records[i] # None}

Watching(q) == [q EXCEPT !.there = Shown(q, db), !.always = Shown(q, db)]

(* A listing starts with the vector search only if there is a keyword.     *)
Listing(i, first, keyword) ==
    Watching([Request("list", i, IF search /\ keyword THEN first ELSE "keys")
                EXCEPT !.keyword = keyword])

ListUsers(c, keyword) == Begin(c, Listing(CHOOSE u \in Users : TRUE, "search", keyword))

ListDocuments(c, keyword) == Begin(c, Listing(CHOOSE d \in Docs : TRUE, "searchHot", keyword))

ListPermissions(c, t) ==
    Begin(c, Watching([Request("permissions", None, "aclKeys")
                         EXCEPT !.t = t, !.matching = TRUE]))

GetAuditLogs(c, limit) ==
    Begin(c, [Request("audit", None, "llen") EXCEPT !.limit = limit])

----
(* History at the end of a change: a request that ran alone, without a     *)
(* failed call, settles what it covers.  A create leaves alone what is     *)
(* there, and settles nothing when it was refused.                         *)
Settled(q, x) ==
    IF q.op = "create" /\ x \notin dirty /\ ideal[x] # None THEN ideal[x]
    ELSE IF q.op \in {"create", "grant"} THEN q.no ELSE None

Record(q) ==
    LET alone == ~q.overlap /\ ~q.failed
        settles == alone /\ q.reply = "200"
    IN  IF Running(q) \/ ~Changes(q) THEN UNCHANGED <<ideal, dirty>>
        ELSE /\ ideal' = [x \in DOMAIN ideal |->
                             IF settles /\ x \in Covers(q) THEN Settled(q, x) ELSE ideal[x]]
             /\ dirty' = IF settles THEN dirty \ Covers(q)
                         ELSE IF alone THEN dirty ELSE dirty \union Covers(q)

(* The slots after a step: what a listing could have seen.  A request that *)
(* was answered before leaves its slot.                                    *)
Watched(s, m) ==
    [c \in Slots |-> IF ~Running(slot[c]) THEN Free
                     ELSE IF slot[c].op \in {"list", "permissions"}
                       THEN [s[c] EXCEPT !.there = @ \union Shown(s[c], m),
                                         !.always = @ \intersect Shown(s[c], m)]
                       ELSE s[c]]

MakesChange(q) == q.pc \in {"set", "del", "sadd", "srem"}
IsLoop(q) == q.pc \in {"delKey", "get", "members"}

(* A call that succeeds. *)
Call(c) ==
    LET q == slot[c] IN
    /\ Running(q) /\ ~IsLoop(q) /\ ~q.expired
    /\ db' = Effect(db, q)
    /\ \E r \in After(q, TRUE) :
         /\ slot' = Watched([slot EXCEPT ![c] = r], db')
         /\ Record(r)
    /\ applied' = IF MakesChange(q) THEN applied \union {q.no} ELSE applied
    /\ UNCHANGED <<search, ops, faults, unlogged>>

(* A call that fails: at once when the request has run out of its five     *)
(* seconds, else with its effect or without it.                            *)
CallFails(c) ==
    LET q == slot[c] IN
    /\ Running(q) /\ ~IsLoop(q)
    /\ \E done \in BOOLEAN :
         /\ q.expired => ~done
         /\ db' = IF done THEN Effect(db, q) ELSE db
         /\ applied' = IF done /\ MakesChange(q) THEN applied \union {q.no} ELSE applied
    /\ \E r \in After([q EXCEPT !.failed = TRUE], FALSE) :
         /\ slot' = Watched([slot EXCEPT ![c] = r], db')
         /\ Record(r)
    /\ unlogged' = IF q.pc = "audit" THEN unlogged \union {q.no} ELSE unlogged
    /\ IF q.expired THEN UNCHANGED faults ELSE faults < MaxFaults /\ faults' = faults + 1
    /\ UNCHANGED <<search, ops>>

(* A call whose answer was lost is made again by the client library. *)
Repeat(c) ==
    LET q == slot[c] IN
    /\ Running(q) /\ ~IsLoop(q) /\ ~q.expired /\ faults < MaxFaults
    /\ faults' = faults + 1
    /\ db' = Effect(db, q)
    /\ slot' = Watched(slot, db')
    /\ applied' = IF MakesChange(q) THEN applied \union {q.no} ELSE applied
    /\ UNCHANGED <<search, ops, ideal, dirty, unlogged>>

(* One round of the loop over the acl keys of a user: the DEL succeeds,    *)
(* fails with its effect or without it, or is made again.                  *)
DelKey(c, t) ==
    LET q == slot[c]
        Deleted == [db EXCEPT !.acl = {p \in @ : p[1] # t \/ p[2] # q.id}]
    IN
    /\ q.pc = "delKey" /\ t \in q.todo
    /\ \/ /\ ~q.expired
          /\ db' = Deleted
          /\ slot' = Watched([slot EXCEPT ![c] = AfterDelKey(q, t)], db')
          /\ UNCHANGED faults
       \/ /\ db' = db \/ (~q.expired /\ db' = Deleted)
          /\ IF q.expired THEN UNCHANGED faults ELSE faults < MaxFaults /\ faults' = faults + 1
          /\ slot' = Watched([slot EXCEPT ![c] = AfterDelKey([q EXCEPT !.failed = TRUE], t)], db')
       \/ /\ ~q.expired /\ faults < MaxFaults /\ faults' = faults + 1
          /\ db' = Deleted
          /\ slot' = Watched(slot, db')
    /\ UNCHANGED <<search, ops, history>>

(* One round of the loop over the ids of a listing, or over the users of a *)
(* listing of permissions.                                                 *)
Round(q, i, ok) == IF q.pc = "get" THEN AfterGet(q, i, ok) ELSE AfterMembers(q, i, ok)

Get(c, i) ==
    LET q == slot[c] IN
    /\ q.pc \in {"get", "members"} /\ i \in q.todo
    /\ \/ /\ ~q.expired
          /\ slot' = Watched([slot EXCEPT ![c] = Round(q, i, TRUE)], db)
          /\ UNCHANGED faults
       \/ /\ IF q.expired THEN UNCHANGED faults ELSE faults < MaxFaults /\ faults' = faults + 1
          /\ slot' = Watched([slot EXCEPT ![c] = Round([q EXCEPT !.failed = TRUE], i, FALSE)], db)
    /\ UNCHANGED <<search, db, ops, history>>

(* The request's context times out: all its later calls fail. *)
Expire(c) ==
    /\ Running(slot[c]) /\ ~slot[c].expired /\ faults < MaxFaults
    /\ faults' = faults + 1
    /\ slot' = [slot EXCEPT ![c].expired = TRUE]
    /\ UNCHANGED <<search, db, ops, history>>

Finished ==
    /\ ops = OpsBound /\ \A c \in Slots : ~Running(slot[c])
    /\ UNCHANGED vars

Next ==
    \/ \E c \in Slots :
         \/ \E u \in Users : CreateUser(c, u) \/ DeleteUser(c, u)
         \/ \E d \in Docs : CreateDocument(c, d) \/ DeleteDocument(c, d)
         \/ \E k \in BOOLEAN : ListUsers(c, k) \/ ListDocuments(c, k)
         \/ \E t \in Tenants, u \in Users, d \in Docs :
              GrantPermission(c, t, u, d) \/ RevokePermission(c, t, u, d)
         \/ \E t \in Tenants : ListPermissions(c, t)
         \/ \E limit \in Limits : GetAuditLogs(c, limit)
         \/ Call(c) \/ CallFails(c) \/ Repeat(c) \/ Expire(c)
         \/ \E t \in Tenants : DelKey(c, t)
         \/ \E i \in Items : Get(c, i)
    \/ Finished

Spec == Init /\ [][Next]_vars

----
TypeOK ==
    /\ search \in BOOLEAN
    /\ db.records \in [Items -> {None} \union 0..MaxOps]
    /\ db.acl \subseteq Permissions
    /\ db.usersHot \subseteq Users /\ db.docsHot \subseteq Docs /\ db.docsCold \subseteq Docs
    /\ db.log \in Seq({None} \union 0..MaxOps)
    /\ \A c \in Slots : /\ slot[c].out \subseteq Items \union Permissions
                        /\ slot[c].reply \in {"none", "200", "400", "500"}
    /\ ops \in 0..MaxOps /\ faults \in 0..MaxFaults

(* Nothing that covers x is under way. *)
AtRest(x) == \A c \in Slots : Running(slot[c]) => x \notin Covers(slot[c])

(* What the last change of a user, a document or a permission said is so,  *)
(* if that change ran alone and no call of it failed: records, search      *)
(* index and permissions agree, whatever went wrong or was repeated        *)
(* before.  A create never replaces a record, and deleting a user leaves   *)
(* none of the permissions granted before.                                 *)
StoresFollowHistory ==
    \A x \in (Items \union Permissions) \ dirty :
      AtRest(x) =>
        IF x \in Items
          THEN /\ db.records[x] = ideal[x]
               /\ search => (x \in db.usersHot \union db.docsHot \union db.docsCold
                               <=> ideal[x] # None)
          ELSE x \in db.acl <=> ideal[x] # None

(* The audit list tells the truth: a new entry stands only for a change    *)
(* that was made, also when calls fail or the request times out half way,  *)
(* and a change that was answered with 200 is missing only if the write of *)
(* its own entry failed.                                                   *)
AuditTellsTheTruth ==
    /\ Range(db.log) \subseteq applied \union Range(OldLog)
    /\ \A c \in Slots :
         LET q == slot[c] IN
         (Changes(q) /\ q.reply = "200" /\ q.no \notin unlogged) => q.no \in Range(db.log)

(* GetAuditLogs reads the length of the list and then its entries, while   *)
(* others write some.  What it shows is the list as it was at some moment  *)
(* since it read the length, newest first: as many of the newest entries   *)
(* as the limit says, or, for a limit of 0 or less, all but so many of the *)
(* oldest; of these, all that can be read.                                 *)
NewestEntriesShown ==
    \A c \in Slots :
      LET q == slot[c] IN
      (q.op = "audit" /\ q.reply = "200") =>
         \E newer \in 0..(Len(db.log) - q.total) :
           LET len == Len(db.log) - newer
               asked == IF q.limit > 0 THEN q.limit ELSE len + q.limit
           IN  q.logs = [k \in {k \in 1..len : k <= asked /\ db.log[newer + k] # None}
                           |-> db.log[newer + k]]

(* A listing contains no user, document or permission that was not there   *)
(* at some moment of it: entries the search index still has of a deleted   *)
(* item are not listed.                                                    *)
ListedWasThere == \A c \in Slots : slot[c].out \subseteq slot[c].there

(* A listing by string matching, or of permissions, misses nothing: what   *)
(* matched and was there all the time is listed, however creations,        *)
(* deletions, grants and revocations interleave with its calls.  The one   *)
(* exception are permissions with a colon in the tenant or the user.       *)
ListingComplete ==
    \A c \in Slots :
      LET q == slot[c] IN
      (~Running(q) /\ ~q.failed /\ q.matching)
        => {i \in q.always : /\ q.keyword => i \in Matches
                             /\ i \in Permissions => InThreeParts(i[1], i[2])} \subseteq q.out

====
