---- MODULE AdminProofs ----
(***************************************************************************)
(* Proofs about Admin, for all users, documents and tenants and for any    *)
(* number of requests at the same time: what a listing shows, what the     *)
(* audit list says, and that records, search index and permissions are as  *)
(* the last undisturbed change left them.  Each handler is first reduced   *)
(* to what it may do after a call (the lemmas on ...Moves), each step of   *)
(* the service to what it does to the request that takes it, to the others *)
(* and to the stores (Step).  The invariants are about one request at a    *)
(* time, with db what the stores hold.                                     *)
(***************************************************************************)
EXTENDS Admin, SequenceTheorems, TLAPS

Fields == {"op", "id", "t", "d", "keyword", "no", "pc", "reply", "todo", "out", "matching",
           "expired", "overlap", "failed", "there", "always", "limit", "total", "logs"}

(* The call a request can be in. *)
Shape(q) ==
    /\ q.op = "none" => q.pc = "done"
    /\ q.op = "create" =>
         q.id \in Items /\ q.pc \in {"exists", "set", "index", "audit", "done"}
    /\ q.op = "delete" =>
         \/ q.id \in Users /\ q.pc \in {"del", "unindex", "keys", "delKey", "audit", "done"}
         \/ q.id \in Docs /\ q.pc \in {"del", "unindexHot", "unindexCold", "audit", "done"}
    /\ q.op \in {"grant", "revoke"} => <<q.t, q.id, q.d>> \in Permissions
    /\ q.op = "grant" => q.pc \in {"sadd", "audit", "done"}
    /\ q.op = "revoke" => q.pc \in {"srem", "audit", "done"}
    /\ q.op = "list" =>
         \/ q.id \in Users /\ q.pc \in {"search", "keys", "get", "done"}
         \/ q.id \in Docs /\ q.pc \in {"searchHot", "searchCold", "keys", "get", "done"}
    /\ q.op = "permissions" => q.pc \in {"aclKeys", "members", "done"}
    /\ q.op = "audit" => q.pc \in {"llen", "lrange", "done"}

IsRequest(q, n) ==
    /\ DOMAIN q = Fields /\ Shape(q)
    /\ q.op \in {"none", "create", "delete", "grant", "revoke", "list", "permissions", "audit"}
    /\ Running(q) => q.no \in 1..n
    /\ q.out \subseteq Items \union Permissions
    /\ q.reply \in {"none", "200", "400", "500"}
    /\ q.overlap \in BOOLEAN

Requests ==
    /\ DOMAIN slot = Slots
    /\ \A c \in Slots : IsRequest(slot[c], ops)
    /\ ops \in 0..OpsBound /\ faults \in 0..MaxFaults /\ search \in BOOLEAN

Parts == {"records", "acl", "usersHot", "docsHot", "docsCold", "log"}

Stores(m) ==
    /\ DOMAIN m = Parts
    /\ m.records \in [Items -> {None} \union 0..MaxOps]
    /\ m.acl \subseteq Permissions
    /\ m.usersHot \subseteq Users /\ m.docsHot \subseteq Docs /\ m.docsCold \subseteq Docs
    /\ m.log \in Seq({None} \union 0..MaxOps)

(* Listings. *)
Lists(q) == q.op \in {"list", "permissions"}

Wanted(q) ==
    {i \in q.always : /\ q.keyword => i \in Matches
                      /\ i \in Permissions => InThreeParts(i[1], i[2])}

(* What a listing that matches strings still has to look at.               *)
Complete(q) ==
    /\ q.op = "permissions" => q.matching
    /\ q.pc \in {"keys", "search", "searchHot", "searchCold"} => ~q.matching
    /\ q.matching /\ ~q.failed =>
         /\ q.pc = "get" => Wanted(q) \subseteq q.out \union q.todo
         /\ q.pc = "members" => \A p \in Wanted(q) : p \in q.out \/ p[2] \in q.todo
         /\ q.pc = "done" => Wanted(q) \subseteq q.out

Following(q, m) ==
    /\ q.out \subseteq q.there
    /\ Lists(q) => Complete(q)
    /\ Lists(q) /\ Running(q) => q.always \subseteq Shown(q, m)
    /\ ~Lists(q) => q.always = {}

ListingsOK == \A c \in Slots : Following(slot[c], db)

(* What a reader q was shown of a list l that has newer entries since.     *)
Newest(q, l, newer) ==
    LET len == Len(l) - newer
        asked == IF q.limit > 0 THEN q.limit ELSE len + q.limit
    IN  q.logs = [k \in {k \in 1..len : k <= asked /\ l[newer + k] # None} |-> l[newer + k]]

AsOf(q, l) == \E newer \in 0..(Len(l) - q.total) : Newest(q, l, newer)

(* A request, the audit list l, the requests a that made their change and  *)
(* the requests u whose entry was refused.  MadePlaces are where the calls *)
(* of a change are once it is made.                                        *)
MadePlaces == {"index", "unindex", "unindexHot", "unindexCold", "keys", "delKey", "audit"}

Truthful(q, l, a, u) ==
    /\ Changes(q) /\ q.pc \in MadePlaces => q.no \in a
    /\ Changes(q) /\ q.reply = "200" /\ q.no \notin u => q.no \in Range(l)
    /\ q.op = "audit" => q.limit \in Int /\ (Running(q) => q.reply = "none")
    /\ q.pc = "lrange" => q.total \in Nat /\ q.total <= Len(l)
    /\ q.op = "audit" /\ q.reply = "200" => q.limit \in Int /\ q.total \in Nat /\ AsOf(q, l)

AuditOK ==
    /\ Range(db.log) \subseteq applied \union Range(OldLog)
    /\ \A c \in Slots : Truthful(slot[c], db.log, applied, unlogged)

----
(* Users and documents make up the items; permissions are none of them. *)
LEMMA Things ==
  /\ Users \subseteq Items /\ Docs \subseteq Items
  /\ \A i \in Users : i \notin Docs
  /\ \A i \in Items : i \in Users \/ i \in Docs
  /\ \A i \in Items : i \notin Permissions
  /\ None \notin Int
  BY AdminAssumption DEF Items

(* A permission is a tenant, a user and a document. *)
LEMMA PermissionParts ==
  /\ \A p \in Permissions : p[1] \in Tenants /\ p[2] \in Users /\ p[3] \in Docs /\ p = <<p[1], p[2], p[3]>>
  /\ \A t, u, d : <<t, u, d>> \in Permissions <=> t \in Tenants /\ u \in Users /\ d \in Docs
  BY DEF Permissions

(* What a call does to each part of the stores. *)
PartsAre(m, q, n) ==
    /\ DOMAIN n = Parts
    /\ n.records = IF q.pc = "set" THEN [m.records EXCEPT ![q.id] = q.no]
                   ELSE IF q.pc = "del" THEN [m.records EXCEPT ![q.id] = None] ELSE m.records
    /\ n.acl = IF q.pc = "sadd" THEN m.acl \union {<<q.t, q.id, q.d>>}
               ELSE IF q.pc = "srem" THEN m.acl \ {<<q.t, q.id, q.d>>} ELSE m.acl
    /\ n.usersHot = IF q.pc = "index" /\ q.id \in Users THEN m.usersHot \union {q.id}
                    ELSE IF q.pc = "unindex" THEN m.usersHot \ {q.id} ELSE m.usersHot
    /\ n.docsHot = IF q.pc = "index" /\ q.id \notin Users THEN m.docsHot \union {q.id}
                   ELSE IF q.pc = "unindexHot" THEN m.docsHot \ {q.id} ELSE m.docsHot
    /\ n.docsCold = IF q.pc = "unindexCold" THEN m.docsCold \ {q.id} ELSE m.docsCold
    /\ n.log = IF q.pc = "audit" THEN <<q.no>> \o m.log ELSE m.log

(* A call changes one part of the stores. *)
LEMMA EffectParts ==
  ASSUME NEW m, DOMAIN m = Parts, NEW q
  PROVE  PartsAre(m, q, Effect(m, q))
  <1> DEFINE n == Effect(m, q)
  <1> SUFFICES PartsAre(m, q, n)
    OBVIOUS
  <1>1. CASE q.pc = "set"
    <2>1. n = [m EXCEPT !.records[q.id] = q.no]
      BY <1>1 DEF Effect
    <2> HIDE DEF n
    <2> QED BY <1>1, <2>1 DEF Parts, PartsAre
  <1>2. CASE q.pc = "del"
    <2>1. n = [m EXCEPT !.records[q.id] = None]
      BY <1>2 DEF Effect
    <2> HIDE DEF n
    <2> QED BY <1>2, <2>1 DEF Parts, PartsAre
  <1>3. CASE q.pc = "index"
    <2>1. n = IF q.id \in Users THEN [m EXCEPT !.usersHot = @ \union {q.id}]
                                ELSE [m EXCEPT !.docsHot = @ \union {q.id}]
      BY <1>3 DEF Effect, Indexed
    <2> HIDE DEF n
    <2> QED BY <1>3, <2>1 DEF Parts, PartsAre
  <1>4. CASE q.pc = "unindex"
    <2>1. n = [m EXCEPT !.usersHot = @ \ {q.id}]
      BY <1>4 DEF Effect
    <2> HIDE DEF n
    <2> QED BY <1>4, <2>1 DEF Parts, PartsAre
  <1>5. CASE q.pc = "unindexHot"
    <2>1. n = [m EXCEPT !.docsHot = @ \ {q.id}]
      BY <1>5 DEF Effect
    <2> HIDE DEF n
    <2> QED BY <1>5, <2>1 DEF Parts, PartsAre
  <1>6. CASE q.pc = "unindexCold"
    <2>1. n = [m EXCEPT !.docsCold = @ \ {q.id}]
      BY <1>6 DEF Effect
    <2> HIDE DEF n
    <2> QED BY <1>6, <2>1 DEF Parts, PartsAre
  <1>7. CASE q.pc = "sadd"
    <2>1. n = [m EXCEPT !.acl = @ \union {<<q.t, q.id, q.d>>}]
      BY <1>7 DEF Effect
    <2> HIDE DEF n
    <2> QED BY <1>7, <2>1 DEF Parts, PartsAre
  <1>8. CASE q.pc = "srem"
    <2>1. n = [m EXCEPT !.acl = @ \ {<<q.t, q.id, q.d>>}]
      BY <1>8 DEF Effect
    <2> HIDE DEF n
    <2> QED BY <1>8, <2>1 DEF Parts, PartsAre
  <1>9. CASE q.pc = "audit"
    <2>1. n = [m EXCEPT !.log = <<q.no>> \o @]
      BY <1>9 DEF Effect
    <2> HIDE DEF n
    <2> QED BY <1>9, <2>1 DEF Parts, PartsAre
  <1>10. CASE q.pc \notin {"set", "del", "index", "unindex", "unindexHot", "unindexCold", "sadd", "srem", "audit"}
    <2>1. n = m
      BY <1>10 DEF Effect
    <2> HIDE DEF n
    <2> QED BY <1>10, <2>1 DEF PartsAre
  <1> HIDE DEF n
  <1> QED BY <1>1, <1>2, <1>3, <1>4, <1>5, <1>6, <1>7, <1>8, <1>9, <1>10

(* A call keeps the types of the stores. *)
LEMMA EffectTypes ==
  ASSUME NEW m, Stores(m), NEW q, NEW k \in 0..MaxOps, IsRequest(q, k), Running(q), ~IsLoop(q)
  PROVE  Stores(Effect(m, q))
  <1> DEFINE n == Effect(m, q)
  <1>1. MaxOps \in Nat
    BY AdminAssumption
  <1>2. q.no \in 1..MaxOps
    BY <1>1 DEF IsRequest
  <1>3. DOMAIN m = Parts
    BY DEF Stores
  <1>4. q.pc \in {"set", "del", "index"} => q.id \in Items
    BY Things DEF IsRequest, Shape
  <1>5. q.pc \in {"sadd", "srem"} => <<q.t, q.id, q.d>> \in Permissions
    BY DEF IsRequest, Shape
  <1>6. q.pc \in {"exists", "set", "index"} => q.op = "create"
    BY DEF IsRequest, Shape
  <1>0. PartsAre(m, q, n)
    BY <1>3, EffectParts
  <1> HIDE DEF n
  <1>7. n.records \in [Items -> {None} \union 0..MaxOps]
    <2>1. q.no \in {None} \union 0..MaxOps /\ None \in {None} \union 0..MaxOps
      BY <1>1, <1>2
    <2> QED BY <1>0, <1>4, <2>1 DEF PartsAre, Stores
  <1>8. n.acl \subseteq Permissions
    BY <1>0, <1>5 DEF PartsAre, Stores
  <1>9. n.usersHot \subseteq Users /\ n.docsHot \subseteq Docs /\ n.docsCold \subseteq Docs
    BY <1>0, <1>4, Things DEF PartsAre, Stores
  <1>10. n.log \in Seq({None} \union 0..MaxOps)
    <2> DEFINE S == {None} \union 0..MaxOps
    <2>1. q.no \in S /\ m.log \in Seq(S)
      BY <1>1, <1>2 DEF Stores
    <2> HIDE DEF S
    <2>2. <<q.no>> \o m.log \in Seq(S)
      BY <2>1
    <2> QED BY <1>0, <2>1, <2>2 DEF PartsAre, S
  <1>11. DOMAIN n = Parts
    BY <1>0 DEF PartsAre
  <1> QED BY <1>7, <1>8, <1>9, <1>10, <1>11 DEF Stores, n

----
(* What a handler does next. *)
Same(q, r) ==
    /\ DOMAIN r = Fields
    /\ r.op = q.op /\ r.id = q.id /\ r.t = q.t /\ r.d = q.d /\ r.keyword = q.keyword /\ r.no = q.no
    /\ r.expired = q.expired /\ r.overlap = q.overlap /\ r.failed = q.failed
    /\ r.there = q.there /\ r.always = q.always /\ r.limit = q.limit

Goes(q, r, pc) ==
    /\ Same(q, r) /\ r.pc = pc /\ r.reply = q.reply /\ r.todo = q.todo /\ r.out = q.out
    /\ r.matching = q.matching /\ r.total = q.total /\ r.logs = q.logs

Replies(q, r, code) ==
    /\ Same(q, r) /\ r.pc = "done" /\ r.reply = code /\ r.todo = {} /\ r.out = q.out
    /\ r.matching = q.matching /\ r.total = q.total /\ r.logs = q.logs

(* A handler that goes on to its next call, and one that answers. *)
LEMMA GotoGoes ==
  ASSUME NEW q, DOMAIN q = Fields, NEW pc, NEW r \in Goto(q, pc)
  PROVE  Goes(q, r, pc)
  <1>1. r = [q EXCEPT !.pc = pc]
    BY DEF Goto
  <1> QED BY <1>1 DEF Goes, Same, Fields

LEMMA ReplyReplies ==
  ASSUME NEW q, DOMAIN q = Fields, NEW code, NEW r \in Reply(q, code)
  PROVE  Replies(q, r, code)
  <1>1. r = [q EXCEPT !.pc = "done", !.reply = code, !.todo = {}]
    BY DEF Reply
  <1> QED BY <1>1 DEF Replies, Same, Fields

CreateMoves(q, ok, r) ==
    \/ q.pc \in {"exists", "set"} /\ ~ok /\ Replies(q, r, "500")
    \/ q.pc = "exists" /\ Replies(q, r, "400")
    \/ q.pc = "exists" /\ ok /\ db.records[q.id] = None /\ Goes(q, r, "set")
    \/ q.pc = "set" /\ ok /\ search /\ Goes(q, r, "index")
    \/ q.pc = "set" /\ ok /\ ~search /\ Goes(q, r, "audit")
    \/ q.pc = "index" /\ Goes(q, r, "audit")
    \/ q.pc = "audit" /\ Replies(q, r, "200")

(* createUser and createDocument, call by call. *)
LEMMA Create ==
  ASSUME NEW q, DOMAIN q = Fields, q.pc \in {"exists", "set", "index", "audit"},
         NEW ok \in BOOLEAN, NEW r \in AfterCreate(q, ok)
  PROVE  CreateMoves(q, ok, r)
  <1>1. CASE q.pc = "exists"
    <2>1. AfterCreate(q, ok) = IF ~ok THEN Reply(q, "500")
                               ELSE IF db.records[q.id] # None THEN Reply(q, "400")
                               ELSE Goto(q, "set")
      BY <1>1 DEF AfterCreate
    <2> QED BY <1>1, <2>1, GotoGoes, ReplyReplies DEF CreateMoves
  <1>2. CASE q.pc = "set"
    <2>1. AfterCreate(q, ok) = IF ~ok THEN Reply(q, "500")
                               ELSE Goto(q, IF search THEN "index" ELSE "audit")
      BY <1>2 DEF AfterCreate
    <2> QED BY <1>2, <2>1, GotoGoes, ReplyReplies DEF CreateMoves
  <1>3. CASE q.pc = "index"
    <2>1. AfterCreate(q, ok) = Goto(q, "audit")
      BY <1>3 DEF AfterCreate
    <2> QED BY <1>3, <2>1, GotoGoes DEF CreateMoves
  <1>4. CASE q.pc = "audit"
    <2>1. AfterCreate(q, ok) = Reply(q, "200")
      BY <1>4 DEF AfterCreate
    <2> QED BY <1>4, <2>1, ReplyReplies DEF CreateMoves
  <1> QED BY <1>1, <1>2, <1>3, <1>4

DeleteUserMoves(q, ok, r) ==
    \/ q.pc = "del" /\ ~ok /\ Replies(q, r, "500")
    \/ q.pc = "del" /\ ok /\ search /\ Goes(q, r, "unindex")
    \/ q.pc = "del" /\ ok /\ ~search /\ Goes(q, r, "keys")
    \/ q.pc = "unindex" /\ Goes(q, r, "keys")
    \/ q.pc = "keys" /\ (ok => AclKeys(q.id) = {}) /\ Goes(q, r, "audit")
    \/ /\ q.pc = "keys" /\ ok /\ Same(q, r) /\ r.pc = "delKey" /\ r.todo = AclKeys(q.id)
       /\ r.out = q.out /\ r.reply = q.reply
    \/ q.pc = "audit" /\ Replies(q, r, "200")

(* deleteUser: the record, its search entry, its acl keys, the audit entry. *)
LEMMA Delete ==
  ASSUME NEW q, DOMAIN q = Fields, q.pc \in {"del", "unindex", "keys", "audit"},
         NEW ok \in BOOLEAN, NEW r \in AfterDeleteUser(q, ok)
  PROVE  DeleteUserMoves(q, ok, r)
  <1>1. CASE q.pc = "del"
    <2>1. AfterDeleteUser(q, ok) = IF ~ok THEN Reply(q, "500")
                                   ELSE Goto(q, IF search THEN "unindex" ELSE "keys")
      BY <1>1 DEF AfterDeleteUser
    <2> QED BY <1>1, <2>1, GotoGoes, ReplyReplies DEF DeleteUserMoves
  <1>2. CASE q.pc = "unindex"
    <2>1. AfterDeleteUser(q, ok) = Goto(q, "keys")
      BY <1>2 DEF AfterDeleteUser
    <2> QED BY <1>2, <2>1, GotoGoes DEF DeleteUserMoves
  <1>3. CASE q.pc = "keys"
    <2>1. AfterDeleteUser(q, ok) = IF ok /\ AclKeys(q.id) # {}
                                     THEN {[q EXCEPT !.pc = "delKey", !.todo = AclKeys(q.id)]}
                                     ELSE Goto(q, "audit")
      BY <1>3 DEF AfterDeleteUser
    <2>2. CASE ok /\ AclKeys(q.id) # {}
      <3>1. r = [q EXCEPT !.pc = "delKey", !.todo = AclKeys(q.id)]
        BY <2>1, <2>2
      <3> QED BY <1>3, <2>2, <3>1 DEF DeleteUserMoves, Same, Fields
    <2>3. CASE ~(ok /\ AclKeys(q.id) # {})
      BY <1>3, <2>1, <2>3, GotoGoes DEF DeleteUserMoves
    <2> QED BY <2>2, <2>3
  <1>4. CASE q.pc = "audit"
    <2>1. AfterDeleteUser(q, ok) = Reply(q, "200")
      BY <1>4 DEF AfterDeleteUser
    <2> QED BY <1>4, <2>1, ReplyReplies DEF DeleteUserMoves
  <1> QED BY <1>1, <1>2, <1>3, <1>4

DeleteDocumentMoves(q, ok, r) ==
    \/ q.pc = "del" /\ ~ok /\ Replies(q, r, "500")
    \/ q.pc = "del" /\ ok /\ search /\ Goes(q, r, "unindexHot")
    \/ q.pc = "del" /\ ok /\ ~search /\ Goes(q, r, "audit")
    \/ q.pc = "unindexHot" /\ Goes(q, r, "unindexCold")
    \/ q.pc = "unindexCold" /\ Goes(q, r, "audit")
    \/ q.pc = "audit" /\ Replies(q, r, "200")

(* deleteDocument: the record, both search collections, the audit entry. *)
LEMMA DeleteDoc ==
  ASSUME NEW q, DOMAIN q = Fields, q.pc \in {"del", "unindexHot", "unindexCold", "audit"},
         NEW ok \in BOOLEAN, NEW r \in AfterDeleteDocument(q, ok)
  PROVE  DeleteDocumentMoves(q, ok, r)
  <1>1. CASE q.pc = "del"
    <2>1. AfterDeleteDocument(q, ok) = IF ~ok THEN Reply(q, "500")
                                       ELSE Goto(q, IF search THEN "unindexHot" ELSE "audit")
      BY <1>1 DEF AfterDeleteDocument
    <2> QED BY <1>1, <2>1, GotoGoes, ReplyReplies DEF DeleteDocumentMoves
  <1>2. CASE q.pc = "unindexHot"
    <2>1. AfterDeleteDocument(q, ok) = Goto(q, "unindexCold")
      BY <1>2 DEF AfterDeleteDocument
    <2> QED BY <1>2, <2>1, GotoGoes DEF DeleteDocumentMoves
  <1>3. CASE q.pc = "unindexCold"
    <2>1. AfterDeleteDocument(q, ok) = Goto(q, "audit")
      BY <1>3 DEF AfterDeleteDocument
    <2> QED BY <1>3, <2>1, GotoGoes DEF DeleteDocumentMoves
  <1>4. CASE q.pc = "audit"
    <2>1. AfterDeleteDocument(q, ok) = Reply(q, "200")
      BY <1>4 DEF AfterDeleteDocument
    <2> QED BY <1>4, <2>1, ReplyReplies DEF DeleteDocumentMoves
  <1> QED BY <1>1, <1>2, <1>3, <1>4

PermissionMoves(q, ok, r) ==
    \/ q.pc \in {"sadd", "srem"} /\ ok /\ Goes(q, r, "audit")
    \/ q.pc \in {"sadd", "srem"} /\ ~ok /\ Replies(q, r, "500")
    \/ q.pc = "audit" /\ Replies(q, r, "200")

(* GrantPermission and RevokePermission write the set, then the audit list. *)
LEMMA Permission ==
  ASSUME NEW q, DOMAIN q = Fields, q.pc \in {"sadd", "srem", "audit"},
         NEW ok \in BOOLEAN, NEW r \in AfterPermission(q, ok)
  PROVE  PermissionMoves(q, ok, r)
  <1>1. CASE q.pc \in {"sadd", "srem"}
    <2>1. AfterPermission(q, ok) = IF ok THEN Goto(q, "audit") ELSE Reply(q, "500")
      BY <1>1 DEF AfterPermission
    <2> QED BY <1>1, <2>1, GotoGoes, ReplyReplies DEF PermissionMoves
  <1>2. CASE q.pc = "audit"
    <2>1. AfterPermission(q, ok) = Reply(q, "200")
      BY <1>2 DEF AfterPermission
    <2> QED BY <1>2, <2>1, ReplyReplies DEF PermissionMoves
  <1> QED BY <1>1, <1>2

(* A listing. *)
Searches(q, r) ==
    /\ Same(q, r) /\ r.out = q.out /\ r.matching = q.matching /\ r.reply = q.reply
    /\ \/ q.pc = "search" /\ r.pc \in {"keys", "get"}
       \/ q.pc = "searchHot" /\ r.pc = "searchCold"
       \/ q.pc = "searchCold" /\ r.pc \in {"keys", "get"}

ListMoves(q, ok, r) ==
    \/ Searches(q, r)
    \/ /\ q.pc = "keys" /\ Same(q, r) /\ r.out = q.out /\ r.matching = TRUE
       /\ \/ r.pc = "get" /\ r.todo = Present(KindOf(q.id)) /\ r.reply = q.reply
          \/ r.pc = "done" /\ r.reply = "200" /\ (ok => Present(KindOf(q.id)) = {})

(* A listing that goes through records next. *)
LEMMA Fetched ==
  ASSUME NEW q, DOMAIN q = Fields, NEW ids, NEW r \in Fetch(q, ids)
  PROVE  /\ Same(q, r) /\ r.out = q.out /\ r.matching = q.matching /\ r.reply = q.reply
         /\ r.pc \in {"keys", "get"}
  <1>1. r = [q EXCEPT !.pc = "keys", !.todo = {}] \/ r = [q EXCEPT !.pc = "get", !.todo = ids]
    BY DEF Fetch
  <1>2. CASE r = [q EXCEPT !.pc = "keys", !.todo = {}]
    BY <1>2 DEF Same, Fields
  <1>3. CASE r = [q EXCEPT !.pc = "get", !.todo = ids]
    BY <1>3 DEF Same, Fields
  <1> QED BY <1>1, <1>2, <1>3

(* A search that answers, or that falls back on matching strings. *)
LEMMA SearchUsers ==
  ASSUME NEW q, DOMAIN q = Fields, q.pc = "search", NEW ok \in BOOLEAN, NEW r \in AfterSearchUsers(q, ok)
  PROVE  Searches(q, r)
  <1>1. PICK ids : r \in Fetch(q, ids)
    BY DEF AfterSearchUsers
  <1> QED BY <1>1, Fetched DEF Searches

(* The same for documents, hot collection first. *)
LEMMA SearchDocuments ==
  ASSUME NEW q, DOMAIN q = Fields, q.pc \in {"searchHot", "searchCold"}, NEW ok \in BOOLEAN,
         NEW r \in AfterSearchDocuments(q, ok)
  PROVE  Searches(q, r)
  <1>1. CASE q.pc = "searchHot"
    <2>1. PICK ids : r = [q EXCEPT !.pc = "searchCold", !.todo = ids]
      BY <1>1 DEF AfterSearchDocuments
    <2> QED BY <1>1, <2>1 DEF Searches, Same, Fields
  <1>2. CASE q.pc = "searchCold"
    <2>1. PICK ids : r \in Fetch(q, ids)
      BY <1>2 DEF AfterSearchDocuments
    <2> QED BY <1>2, <2>1, Fetched DEF Searches
  <1> QED BY <1>1, <1>2

(* KEYS of the records answers, or starts the loop over them. *)
LEMMA Keys ==
  ASSUME NEW q, DOMAIN q = Fields, q.pc = "keys", NEW ok \in BOOLEAN, NEW r \in AfterKeys(q, ok)
  PROVE  ListMoves(q, ok, r)
  <1> DEFINE ids == Present(KindOf(q.id))
  <1>1. CASE ok /\ ids # {}
    <2>1. r = [q EXCEPT !.pc = "get", !.matching = TRUE, !.todo = ids]
      BY <1>1 DEF AfterKeys
    <2> QED BY <2>1 DEF ListMoves, Same, Fields
  <1>2. CASE ~(ok /\ ids # {})
    <2>1. r = [q EXCEPT !.pc = "done", !.matching = TRUE, !.reply = "200"]
      BY <1>2 DEF AfterKeys
    <2> QED BY <1>2, <2>1 DEF ListMoves, Same, Fields
  <1> QED BY <1>1, <1>2

UsersOf(t) == {u \in Users : \E d \in Docs : <<t, u, d>> \in db.acl}

AclKeysMoves(q, ok, r) ==
    \/ ~ok /\ Replies(q, r, "500")
    \/ ok /\ UsersOf(q.t) = {} /\ Replies(q, r, "200")
    \/ /\ ok /\ Same(q, r) /\ r.pc = "members" /\ r.todo = UsersOf(q.t) /\ r.out = q.out
       /\ r.matching = q.matching /\ r.reply = q.reply

(* KEYS of a tenant's acl sets. *)
LEMMA AclKeysRead ==
  ASSUME NEW q, DOMAIN q = Fields, NEW ok \in BOOLEAN, NEW r \in AfterAclKeys(q, ok)
  PROVE  AclKeysMoves(q, ok, r)
  <1>1. AfterAclKeys(q, ok) = IF ~ok THEN Reply(q, "500")
                              ELSE IF UsersOf(q.t) = {} THEN Reply(q, "200")
                              ELSE {[q EXCEPT !.pc = "members", !.todo = UsersOf(q.t)]}
    BY DEF AfterAclKeys, UsersOf
  <1>2. CASE ok /\ UsersOf(q.t) # {}
    <2>1. r = [q EXCEPT !.pc = "members", !.todo = UsersOf(q.t)]
      BY <1>1, <1>2
    <2> QED BY <1>2, <2>1 DEF AclKeysMoves, Same, Fields
  <1>3. CASE ~(ok /\ UsersOf(q.t) # {})
    BY <1>1, <1>3, ReplyReplies DEF AclKeysMoves
  <1> QED BY <1>2, <1>3

(* What LRANGE gives of the audit list. *)
Answer(q) == Readable(db.log, LRange(Len(db.log), q.limit - 1))

AuditMoves(q, ok, r) ==
    \/ ~ok /\ Replies(q, r, "500")
    \/ /\ q.pc = "llen" /\ Same(q, r) /\ r.pc = "lrange" /\ r.total = Len(db.log) /\ r.out = q.out
       /\ r.reply = q.reply
    \/ /\ q.pc = "lrange" /\ Same(q, r) /\ r.pc = "done" /\ r.reply = "200" /\ r.out = q.out
       /\ r.total = q.total /\ r.logs = Answer(q)

(* GetAuditLogs: LLEN, then LRANGE. *)
LEMMA AuditRead ==
  ASSUME NEW q, DOMAIN q = Fields, q.pc \in {"llen", "lrange"}, NEW ok \in BOOLEAN,
         NEW r \in AfterAuditLogs(q, ok)
  PROVE  AuditMoves(q, ok, r)
  <1> DEFINE p == [q EXCEPT !.logs = Answer(q)]
  <1>1. AfterAuditLogs(q, ok) = IF ~ok THEN Reply(q, "500")
                                ELSE IF q.pc = "llen" THEN {[q EXCEPT !.pc = "lrange", !.total = Len(db.log)]}
                                ELSE Reply(p, "200")
    BY DEF AfterAuditLogs, Answer
  <1>2. CASE ~ok
    BY <1>1, <1>2, ReplyReplies DEF AuditMoves
  <1>3. CASE ok /\ q.pc = "llen"
    <2>1. r = [q EXCEPT !.pc = "lrange", !.total = Len(db.log)]
      BY <1>1, <1>3
    <2> QED BY <1>3, <2>1 DEF AuditMoves, Same, Fields
  <1>4. CASE ok /\ q.pc = "lrange"
    <2>1. r \in Reply(p, "200")
      BY <1>1, <1>4
    <2>2. /\ DOMAIN p = Fields /\ Same(q, p) /\ p.out = q.out /\ p.total = q.total
          /\ p.logs = Answer(q)
      BY DEF Same, Fields
    <2> HIDE DEF p
    <2>3. Replies(p, r, "200")
      BY <2>1, <2>2, ReplyReplies
    <2> QED BY <1>4, <2>2, <2>3 DEF AuditMoves, Replies, Same
  <1> QED BY <1>2, <1>3, <1>4

Moves(q, ok, r) ==
    /\ q.op = "create" => CreateMoves(q, ok, r)
    /\ q.op = "delete" /\ q.id \in Users => DeleteUserMoves(q, ok, r)
    /\ q.op = "delete" /\ q.id \in Docs => DeleteDocumentMoves(q, ok, r)
    /\ q.op \in {"grant", "revoke"} => PermissionMoves(q, ok, r)
    /\ q.op = "list" => ListMoves(q, ok, r)
    /\ q.op = "permissions" => AclKeysMoves(q, ok, r)
    /\ q.op = "audit" => AuditMoves(q, ok, r)

(* Every handler, after any of its calls outside a loop. *)
LEMMA Handled ==
  ASSUME NEW q, NEW k, IsRequest(q, k), Running(q), ~IsLoop(q), NEW ok \in BOOLEAN, NEW r \in After(q, ok)
  PROVE  Moves(q, ok, r) /\ q.op # "none"
  <1>1. DOMAIN q = Fields /\ Shape(q)
    BY DEF IsRequest
  <1>2. q.op \in {"create", "delete", "grant", "revoke", "list", "permissions", "audit"}
    BY <1>1 DEF IsRequest, Shape, Running
  <1>3. CASE q.op = "create"
    <2>1. q.pc \in {"exists", "set", "index", "audit"}
      BY <1>1, <1>3 DEF Shape, Running
    <2>2. After(q, ok) = AfterCreate(q, ok)
      BY <1>3, <2>1 DEF After
    <2> QED BY <1>1, <1>3, <2>1, <2>2, Create DEF Moves
  <1>4. CASE q.op = "delete" /\ q.id \in Users
    <2>1. q.pc \in {"del", "unindex", "keys", "audit"} /\ q.id \notin Docs
      BY <1>1, <1>4, Things DEF Shape, Running, IsLoop
    <2>2. After(q, ok) = AfterDeleteUser(q, ok)
      BY <1>4, <2>1 DEF After
    <2> QED BY <1>1, <1>4, <2>1, <2>2, Delete DEF Moves
  <1>5. CASE q.op = "delete" /\ q.id \in Docs
    <2>1. q.pc \in {"del", "unindexHot", "unindexCold", "audit"} /\ q.id \notin Users
      BY <1>1, <1>5, Things DEF Shape, Running
    <2>2. After(q, ok) = AfterDeleteDocument(q, ok)
      BY <1>5, <2>1 DEF After
    <2> QED BY <1>1, <1>5, <2>1, <2>2, DeleteDoc DEF Moves
  <1>6. CASE q.op \in {"grant", "revoke"}
    <2>1. q.pc \in {"sadd", "srem", "audit"}
      BY <1>1, <1>6 DEF Shape, Running
    <2>2. After(q, ok) = AfterPermission(q, ok)
      BY <1>6, <2>1 DEF After
    <2> QED BY <1>1, <1>6, <2>1, <2>2, Permission DEF Moves
  <1>7. CASE q.op = "list"
    <2>1. q.pc \in {"search", "searchHot", "searchCold", "keys"}
      BY <1>1, <1>7 DEF Shape, Running, IsLoop
    <2>2. CASE q.pc = "search"
      <3>1. After(q, ok) = AfterSearchUsers(q, ok)
        BY <1>7, <2>2 DEF After
      <3> QED BY <1>1, <1>7, <2>2, <3>1, SearchUsers DEF Moves, ListMoves
    <2>3. CASE q.pc \in {"searchHot", "searchCold"}
      <3>1. After(q, ok) = AfterSearchDocuments(q, ok)
        BY <1>7, <2>3 DEF After
      <3> QED BY <1>1, <1>7, <2>3, <3>1, SearchDocuments DEF Moves, ListMoves
    <2>4. CASE q.pc = "keys"
      <3>1. After(q, ok) = AfterKeys(q, ok)
        BY <1>7, <2>4 DEF After
      <3> QED BY <1>1, <1>7, <2>4, <3>1, Keys DEF Moves
    <2> QED BY <2>1, <2>2, <2>3, <2>4
  <1>8. CASE q.op = "permissions"
    <2>1. q.pc = "aclKeys"
      BY <1>1, <1>8 DEF Shape, Running, IsLoop
    <2>2. After(q, ok) = AfterAclKeys(q, ok)
      BY <1>8, <2>1 DEF After
    <2> QED BY <1>1, <1>8, <2>2, AclKeysRead DEF Moves
  <1>9. CASE q.op = "audit"
    <2>1. q.pc \in {"llen", "lrange"}
      BY <1>1, <1>9 DEF Shape, Running
    <2>2. After(q, ok) = AfterAuditLogs(q, ok)
      BY <1>9, <2>1 DEF After
    <2> QED BY <1>1, <1>9, <2>1, <2>2, AuditRead DEF Moves
  <1>10. q.op = "delete" => q.id \in Users \/ q.id \in Docs
    BY <1>1 DEF Shape
  <1> QED BY <1>2, <1>3, <1>4, <1>5, <1>6, <1>7, <1>8, <1>9, <1>10

(* A call leaves a request's own fields and what it has listed.            *)
LEMMA MovesKeeps ==
  ASSUME NEW q, NEW k, IsRequest(q, k), Running(q), q.op # "none", NEW ok \in BOOLEAN, NEW r, Moves(q, ok, r)
  PROVE  Same(q, r) /\ r.out = q.out /\ r.reply \in {q.reply, "200", "400", "500"} /\ Shape(r)
  <1>0. /\ Shape(q)
        /\ q.op \in {"create", "delete", "grant", "revoke", "list", "permissions", "audit"}
    BY DEF IsRequest
  <1>1. ASSUME Same(q, r) PROVE r.op = q.op /\ r.id = q.id /\ r.t = q.t /\ r.d = q.d
    BY <1>1 DEF Same
  <1>2. CASE q.op = "create"
    <2>1. CreateMoves(q, ok, r)
      BY <1>2 DEF Moves
    <2>2. /\ Same(q, r) /\ r.out = q.out /\ r.reply \in {q.reply, "200", "400", "500"}
          /\ r.pc \in {"set", "index", "audit", "done"}
      BY <2>1 DEF CreateMoves, Goes, Replies
    <2> QED BY <1>0, <1>1, <1>2, <2>2 DEF Shape
  <1>3. CASE q.op = "delete" /\ q.id \in Users
    <2>1. DeleteUserMoves(q, ok, r)
      BY <1>3 DEF Moves
    <2>2. /\ Same(q, r) /\ r.out = q.out /\ r.reply \in {q.reply, "200", "400", "500"}
          /\ r.pc \in {"unindex", "keys", "delKey", "audit", "done"}
      BY <2>1 DEF DeleteUserMoves, Goes, Replies
    <2> QED BY <1>0, <1>1, <1>3, <2>2 DEF Shape
  <1>4. CASE q.op = "delete" /\ q.id \in Docs
    <2>1. DeleteDocumentMoves(q, ok, r)
      BY <1>4 DEF Moves
    <2>2. /\ Same(q, r) /\ r.out = q.out /\ r.reply \in {q.reply, "200", "400", "500"}
          /\ r.pc \in {"unindexHot", "unindexCold", "audit", "done"}
      BY <2>1 DEF DeleteDocumentMoves, Goes, Replies
    <2> QED BY <1>0, <1>1, <1>4, <2>2 DEF Shape
  <1>5. CASE q.op \in {"grant", "revoke"}
    <2>1. PermissionMoves(q, ok, r)
      BY <1>5 DEF Moves
    <2>2. /\ Same(q, r) /\ r.out = q.out /\ r.reply \in {q.reply, "200", "400", "500"}
          /\ r.pc \in {"audit", "done"}
      BY <2>1 DEF PermissionMoves, Goes, Replies
    <2> QED BY <1>0, <1>1, <1>5, <2>2 DEF Shape
  <1>6. CASE q.op = "list"
    <2>1. ListMoves(q, ok, r)
      BY <1>6 DEF Moves
    <2>2. Same(q, r) /\ r.out = q.out /\ r.reply \in {q.reply, "200", "400", "500"}
      BY <2>1 DEF ListMoves, Searches
    <2>3. \/ r.pc \in {"keys", "get", "done"}
          \/ q.pc = "searchHot" /\ r.pc = "searchCold"
      BY <2>1 DEF ListMoves, Searches
    <2> QED BY <1>0, <1>1, <1>6, <2>2, <2>3, Things DEF Shape
  <1>7. CASE q.op = "permissions"
    <2>1. AclKeysMoves(q, ok, r)
      BY <1>7 DEF Moves
    <2>2. /\ Same(q, r) /\ r.out = q.out /\ r.reply \in {q.reply, "200", "400", "500"}
          /\ r.pc \in {"members", "done"}
      BY <2>1 DEF AclKeysMoves, Replies
    <2> QED BY <1>0, <1>1, <1>7, <2>2 DEF Shape
  <1>8. CASE q.op = "audit"
    <2>1. AuditMoves(q, ok, r)
      BY <1>8 DEF Moves
    <2>2. /\ Same(q, r) /\ r.out = q.out /\ r.reply \in {q.reply, "200", "400", "500"}
          /\ r.pc \in {"lrange", "done"}
      BY <2>1 DEF AuditMoves, Replies
    <2> QED BY <1>0, <1>1, <1>8, <2>2 DEF Shape
  <1>9. q.op = "delete" => q.id \in Users \/ q.id \in Docs
    BY <1>0 DEF Shape
  <1> QED BY <1>0, <1>2, <1>3, <1>4, <1>5, <1>6, <1>7, <1>8, <1>9

(* The rounds of the loops. *)
DelKeyMoves(q, t, r) ==
    /\ Same(q, r) /\ r.out = q.out /\ r.reply = q.reply /\ r.todo = q.todo \ {t}
    /\ r.pc = IF q.todo = {t} THEN "audit" ELSE "delKey"

(* A round of the loop of deleteUser over the acl keys. *)
LEMMA DelKeyRound ==
  ASSUME NEW q, DOMAIN q = Fields, NEW t
  PROVE  DelKeyMoves(q, t, AfterDelKey(q, t))
  <1> DEFINE r == AfterDelKey(q, t)
  <1>1. r = [q EXCEPT !.todo = q.todo \ {t}, !.pc = IF q.todo = {t} THEN "audit" ELSE "delKey"]
    BY DEF AfterDelKey
  <1> HIDE DEF r
  <1>2. DelKeyMoves(q, t, r)
    BY <1>1 DEF DelKeyMoves, Same, Fields
  <1> QED BY <1>2 DEF r

Fetchable(q, i) ==
    /\ i \in Present(KindOf(q.id))
    /\ q.matching /\ q.keyword => i \in Matches

RoundMoves(q, i, ok, r) ==
    /\ Same(q, r) /\ r.matching = q.matching /\ r.todo = q.todo \ {i}
    /\ q.pc = "get" => r.out = IF ok /\ Fetchable(q, i) THEN q.out \union {i} ELSE q.out
    /\ q.pc = "members" =>
         r.out = IF ok /\ InThreeParts(q.t, i)
                   THEN q.out \union {p \in db.acl : p[1] = q.t /\ p[2] = i} ELSE q.out
    /\ r.pc = IF q.todo = {i} THEN "done" ELSE q.pc
    /\ r.reply = IF q.todo = {i} THEN "200" ELSE "none"

(* A round of a listing's loop over records or acl sets. *)
LEMMA GetRound ==
  ASSUME NEW q, DOMAIN q = Fields, q.pc \in {"get", "members"}, NEW i, NEW ok \in BOOLEAN
  PROVE  RoundMoves(q, i, ok, Round(q, i, ok))
  <1> DEFINE r == Round(q, i, ok)
  <1>1. CASE q.pc = "get"
    <2>1. r = [q EXCEPT !.out = IF ok /\ Fetchable(q, i) THEN q.out \union {i} ELSE q.out,
                        !.todo = q.todo \ {i},
                        !.pc = IF q.todo = {i} THEN "done" ELSE "get",
                        !.reply = IF q.todo = {i} THEN "200" ELSE "none"]
      BY <1>1 DEF Round, AfterGet, Fetchable
    <2> HIDE DEF r
    <2>2. RoundMoves(q, i, ok, r)
      BY <1>1, <2>1 DEF RoundMoves, Same, Fields
    <2> QED BY <2>2 DEF r
  <1>2. CASE q.pc = "members"
    <2>1. r = [q EXCEPT !.out = IF ok /\ InThreeParts(q.t, i)
                                  THEN q.out \union {p \in db.acl : p[1] = q.t /\ p[2] = i} ELSE q.out,
                        !.todo = q.todo \ {i},
                        !.pc = IF q.todo = {i} THEN "done" ELSE "members",
                        !.reply = IF q.todo = {i} THEN "200" ELSE "none"]
      BY <1>2 DEF Round, AfterMembers
    <2> HIDE DEF r
    <2>2. RoundMoves(q, i, ok, r)
      BY <1>2, <2>1 DEF RoundMoves, Same, Fields
    <2> QED BY <2>2 DEF r
  <1> QED BY <1>1, <1>2

----
(* What a step does to the slots. *)
Resembles(q, s) ==
    /\ DOMAIN s = Fields
    /\ s.op = q.op /\ s.id = q.id /\ s.t = q.t /\ s.d = q.d /\ s.keyword = q.keyword /\ s.no = q.no
    /\ s.pc = q.pc /\ s.reply = q.reply /\ s.todo = q.todo /\ s.out = q.out /\ s.matching = q.matching
    /\ s.failed = q.failed /\ s.limit = q.limit /\ s.total = q.total /\ s.logs = q.logs

(* The slot of a request that went on to r, in stores m. *)
Tracks(r, s, m) ==
    /\ Resembles(r, s) /\ s.overlap = r.overlap
    /\ r.there \subseteq s.there /\ s.always \subseteq r.always
    /\ Lists(r) => Shown(r, m) \subseteq s.there /\ s.always \subseteq Shown(r, m)

(* A slot whose request did not go on. *)
Kept(q, s, m, m2) ==
    \/ s = Free /\ ~Running(q)
    \/ s = q /\ ~Running(q)
    \/ /\ Running(q) /\ Resembles(q, s)
       /\ s.overlap \in BOOLEAN /\ (q.overlap => s.overlap)
       /\ q.there \subseteq s.there /\ s.always \subseteq q.always
       /\ Lists(q) /\ q.always \subseteq Shown(q, m) => s.always \subseteq Shown(q, m2)

Track(r, m) ==
    IF r.op \in {"list", "permissions"}
      THEN [r EXCEPT !.there = @ \union Shown(r, m), !.always = @ \intersect Shown(r, m)]
      ELSE r

(* What is recorded of the stores as a listing goes on. *)
LEMMA TrackTracks ==
  ASSUME NEW r, DOMAIN r = Fields, NEW m
  PROVE  Tracks(r, Track(r, m), m)
  <1>1. CASE Lists(r)
    <2> DEFINE s == Track(r, m)
    <2>1. s = [r EXCEPT !.there = r.there \union Shown(r, m), !.always = r.always \intersect Shown(r, m)]
      BY <1>1 DEF Track, Lists
    <2> HIDE DEF s
    <2>2. /\ Resembles(r, s) /\ s.overlap = r.overlap
          /\ s.there = r.there \union Shown(r, m) /\ s.always = r.always \intersect Shown(r, m)
      BY <2>1 DEF Resembles, Fields
    <2>3. Tracks(r, s, m)
      BY <2>2 DEF Tracks
    <2> QED BY <2>3 DEF s
  <1>2. CASE ~Lists(r)
    <2>1. Track(r, m) = r
      BY <1>2 DEF Track, Lists
    <2> QED BY <1>2, <2>1 DEF Tracks, Resembles
  <1> QED BY <1>1, <1>2

(* A step of one request: the others only learn what the stores were. *)
LEMMA WatchedSlots ==
  ASSUME Requests, NEW c \in Slots, Running(slot[c]), NEW r, DOMAIN r = Fields, r.op = slot[c].op,
         NEW m, slot' = Watched([slot EXCEPT ![c] = r], m)
  PROVE  /\ DOMAIN slot' = Slots
         /\ Tracks(r, slot'[c], m)
         /\ \A b \in Slots : b # c => Kept(slot[b], slot'[b], db, m)
  <1>1. DOMAIN slot = Slots /\ \A b \in Slots : IsRequest(slot[b], ops)
    BY DEF Requests
  <1>2. DOMAIN slot' = Slots
    BY DEF Watched
  <1>3. slot'[c] = Track(r, m)
    BY <1>1 DEF Watched, Track
  <1>4. ASSUME NEW b \in Slots, b # c PROVE Kept(slot[b], slot'[b], db, m)
    <2>1. slot'[b] = IF ~Running(slot[b]) THEN Free ELSE Track(slot[b], m)
      BY <1>1, <1>4 DEF Watched, Track
    <2>2. DOMAIN slot[b] = Fields /\ slot[b].overlap \in BOOLEAN
      BY <1>1 DEF IsRequest
    <2>3. Tracks(slot[b], Track(slot[b], m), m)
      BY <2>2, TrackTracks
    <2> QED BY <2>1, <2>2, <2>3 DEF Kept, Tracks
  <1> QED BY <1>1, <1>2, <1>3, <1>4, TrackTracks

(* A request that has just arrived. *)
Fresh(q) ==
    /\ DOMAIN q = Fields /\ Shape(q) /\ Running(q)
    /\ q.op \in {"create", "delete", "grant", "revoke", "list", "permissions", "audit"}
    /\ q.out = {} /\ q.reply = "none" /\ ~q.failed
    /\ q.op = "create" => q.pc = "exists"
    /\ q.op = "delete" => q.pc = "del"
    /\ q.op = "grant" => q.pc = "sadd"
    /\ q.op = "revoke" => q.pc = "srem"
    /\ q.op = "list" => q.pc \in {"search", "searchHot", "keys"} /\ q.matching = FALSE
    /\ q.op = "permissions" => q.pc = "aclKeys" /\ q.matching = TRUE
    /\ q.op = "audit" => q.pc = "llen" /\ q.limit \in Int
    /\ Lists(q) => q.always = Shown(q, db)
    /\ ~Lists(q) => q.always = {}

(* The slots after the arrival of q. *)
Met(q) == {b \in Slots : Running(slot[b]) /\ Covers(slot[b]) \intersect Covers(q) # {}}

Arrived(q, s) ==
    /\ Resembles([q EXCEPT !.no = ops + 1], s)
    /\ s.overlap = (Met(q) # {}) /\ s.always = q.always /\ s.there = q.there

(* A request arrives, and whoever works on the same things overlaps it. *)
LEMMA BeginSlots ==
  ASSUME Requests, NEW c \in Slots, NEW q, Fresh(q), Begin(c, q)
  PROVE  /\ DOMAIN slot' = Slots
         /\ Arrived(q, slot'[c])
         /\ \A b \in Slots : b # c => /\ Kept(slot[b], slot'[b], db, db)
                                      /\ b \in Met(q) => slot'[b].overlap
         /\ ~Running(slot[c]) /\ ops' = ops + 1 /\ ops < OpsBound
         /\ UNCHANGED <<search, db, faults, ideal, dirty, applied, unlogged>>
  <1>1. DOMAIN slot = Slots /\ \A b \in Slots : IsRequest(slot[b], ops)
    BY DEF Requests
  <1>2. /\ slot' = [b \in Slots |->
                      IF b = c THEN [q EXCEPT !.no = ops + 1, !.overlap = Met(q) # {}]
                      ELSE IF ~Running(slot[b]) THEN Free
                      ELSE [slot[b] EXCEPT !.overlap = @ \/ b \in Met(q)]]
        /\ ~Running(slot[c]) /\ ops' = ops + 1 /\ ops < OpsBound
        /\ UNCHANGED <<search, db, faults, ideal, dirty, applied, unlogged>>
    BY DEF Begin, Met, history
  <1>3. DOMAIN slot' = Slots
    BY <1>2
  <1>4. slot'[c] = [q EXCEPT !.no = ops + 1, !.overlap = Met(q) # {}]
    BY <1>2
  <1>5. Arrived(q, slot'[c])
    <2> DEFINE s == slot'[c]
               o == Met(q) # {}
    <2>1. s = [q EXCEPT !.no = ops + 1, !.overlap = o]
      BY <1>4
    <2> HIDE DEF s, o
    <2>2. Resembles([q EXCEPT !.no = ops + 1], s) /\ s.overlap = o /\ s.always = q.always /\ s.there = q.there
      BY <2>1 DEF Fresh, Resembles, Fields
    <2> QED BY <2>2 DEF Arrived, s, o
  <1>6. ASSUME NEW b \in Slots, b # c, Running(slot[b])
        PROVE  /\ Kept(slot[b], slot'[b], db, db)
               /\ b \in Met(q) => slot'[b].overlap
    <2> DEFINE s == slot'[b]
               p == slot[b]
               o == p.overlap \/ b \in Met(q)
    <2>1. s = [p EXCEPT !.overlap = o]
      BY <1>2, <1>6
    <2>2. DOMAIN p = Fields /\ p.overlap \in BOOLEAN
      BY <1>1 DEF IsRequest
    <2>3. o \in BOOLEAN /\ (p.overlap => o) /\ (b \in Met(q) => o)
      OBVIOUS
    <2>5. Running(p)
      BY <1>6
    <2> HIDE DEF s, o, p
    <2>4. Resembles(p, s) /\ s.overlap = o /\ s.always = p.always /\ s.there = p.there
      BY <2>1, <2>2 DEF Resembles, Fields
    <2>6. Kept(p, s, db, db)
      BY <2>3, <2>4, <2>5 DEF Kept
    <2> QED BY <2>3, <2>4, <2>6 DEF s, p
  <1>7. ASSUME NEW b \in Slots, b # c, ~Running(slot[b])
        PROVE  /\ Kept(slot[b], slot'[b], db, db)
               /\ b \in Met(q) => slot'[b].overlap
    <2>1. slot'[b] = Free /\ b \notin Met(q)
      BY <1>2, <1>7 DEF Met
    <2> QED BY <1>7, <2>1 DEF Kept
  <1> QED BY <1>2, <1>3, <1>5, <1>6, <1>7

(* The requests that arrive. *)
LEMMA FreeFields ==
  /\ DOMAIN Free = Fields
  /\ Free.op = "none" /\ Free.pc = "done" /\ Free.reply = "none" /\ Free.out = {} /\ Free.always = {}
  /\ Free.overlap = FALSE /\ Free.failed = FALSE /\ Free.matching = FALSE /\ Free.keyword = FALSE
  BY DEF Free, Fields

Blank(q, op, i, pc) ==
    /\ DOMAIN q = Fields /\ q.op = op /\ q.id = i /\ q.pc = pc
    /\ q.reply = "none" /\ q.out = {} /\ q.failed = FALSE /\ q.matching = FALSE /\ q.overlap = FALSE
    /\ q.always = {}

(* A request before its handler's first call. *)
LEMMA RequestFields ==
  ASSUME NEW op, NEW i, NEW pc
  PROVE  Blank(Request(op, i, pc), op, i, pc)
  <1> DEFINE f == Free
             q == Request(op, i, pc)
  <1>1. q = [f EXCEPT !.op = op, !.id = i, !.pc = pc]
    BY DEF Request
  <1>2. /\ DOMAIN f = Fields /\ f.reply = "none" /\ f.out = {} /\ f.failed = FALSE /\ f.matching = FALSE
        /\ f.overlap = FALSE /\ f.always = {}
    BY FreeFields
  <1> HIDE DEF f, q
  <1>3. Blank(q, op, i, pc)
    BY <1>1, <1>2 DEF Fields, Blank
  <1> QED BY <1>3 DEF q

(* The requests that create and delete. *)
LEMMA ChangeFresh ==
  /\ \A i \in Items : Fresh(Request("create", i, "exists"))
  /\ \A i \in Items : Fresh(Request("delete", i, "del"))
  <1>1. ASSUME NEW i \in Items PROVE Fresh(Request("create", i, "exists"))
    <2> DEFINE q == Request("create", i, "exists")
    <2>0a. Blank(q, "create", i, "exists")
      BY RequestFields
    <2> HIDE DEF q
    <2>1. /\ DOMAIN q = Fields /\ q.op = "create" /\ q.id = i /\ q.pc = "exists"
          /\ q.reply = "none" /\ q.out = {} /\ q.failed = FALSE /\ q.matching = FALSE /\ q.always = {}
      BY <2>0a DEF Blank
    <2>2. Fresh(q)
      BY <2>1 DEF Fresh, Shape, Running, Lists
    <2> QED BY <2>2 DEF q
  <1>2. ASSUME NEW i \in Items PROVE Fresh(Request("delete", i, "del"))
    <2> DEFINE q == Request("delete", i, "del")
    <2>0a. Blank(q, "delete", i, "del")
      BY RequestFields
    <2> HIDE DEF q
    <2>1. /\ DOMAIN q = Fields /\ q.op = "delete" /\ q.id = i /\ q.pc = "del"
          /\ q.reply = "none" /\ q.out = {} /\ q.failed = FALSE /\ q.matching = FALSE /\ q.always = {}
      BY <2>0a DEF Blank
    <2>2. Fresh(q)
      BY <2>1, Things DEF Fresh, Shape, Running, Lists
    <2> QED BY <2>2 DEF q
  <1> QED BY <1>1, <1>2

(* The requests that grant and revoke. *)
LEMMA PermissionFresh ==
  ASSUME NEW t \in Tenants, NEW u \in Users, NEW d \in Docs
  PROVE  /\ Fresh([Request("grant", u, "sadd") EXCEPT !.t = t, !.d = d])
         /\ Fresh([Request("revoke", u, "srem") EXCEPT !.t = t, !.d = d])
  <1>1. <<t, u, d>> \in Permissions
    BY PermissionParts
  <1>2. ASSUME NEW op \in {"grant", "revoke"}, NEW pc, pc = IF op = "grant" THEN "sadd" ELSE "srem"
        PROVE  Fresh([Request(op, u, pc) EXCEPT !.t = t, !.d = d])
    <2> DEFINE p == Request(op, u, pc)
               q == [p EXCEPT !.t = t, !.d = d]
    <2>0a. Blank(p, op, u, pc)
      BY RequestFields
    <2> HIDE DEF p
    <2>1. /\ DOMAIN p = Fields /\ p.op = op /\ p.id = u /\ p.pc = pc
          /\ p.reply = "none" /\ p.out = {} /\ p.failed = FALSE /\ p.always = {}
      BY <2>0a DEF Blank
    <2>2. /\ DOMAIN q = Fields /\ q.op = op /\ q.id = u /\ q.pc = pc /\ q.t = t /\ q.d = d
          /\ q.reply = "none" /\ q.out = {} /\ q.failed = FALSE /\ q.always = {}
      BY <2>1 DEF Fields
    <2> HIDE DEF q
    <2>3. Fresh(q)
      BY <1>1, <1>2, <2>2 DEF Fresh, Shape, Running, Lists
    <2> QED BY <2>3 DEF q, p
  <1>3. Fresh([Request("grant", u, "sadd") EXCEPT !.t = t, !.d = d])
    BY <1>2
  <1>4. Fresh([Request("revoke", u, "srem") EXCEPT !.t = t, !.d = d])
    BY <1>2
  <1> QED BY <1>3, <1>4

(* A listing begins with what is there at its start. *)
LEMMA WatchingFields ==
  ASSUME NEW p, DOMAIN p = Fields
  PROVE  LET q == Watching(p) IN
         /\ DOMAIN q = Fields /\ q.op = p.op /\ q.id = p.id /\ q.t = p.t /\ q.pc = p.pc /\ q.reply = p.reply
         /\ q.out = p.out /\ q.failed = p.failed /\ q.matching = p.matching
         /\ q.always = Shown(q, db)
  <1> DEFINE q == Watching(p)
             shown == Shown(p, db)
  <1>1. q = [p EXCEPT !.there = shown, !.always = shown]
    BY DEF Watching
  <1> HIDE DEF q, shown
  <1>2. /\ DOMAIN q = Fields /\ q.op = p.op /\ q.id = p.id /\ q.t = p.t /\ q.pc = p.pc /\ q.reply = p.reply
        /\ q.out = p.out /\ q.failed = p.failed /\ q.matching = p.matching
        /\ q.always = shown
    BY <1>1 DEF Fields
  <1>3. Shown(q, db) = shown
    BY <1>2 DEF Shown, shown
  <1> QED BY <1>2, <1>3 DEF q

(* The requests that list users or documents. *)
LEMMA ListingFresh ==
  ASSUME NEW i \in Items, NEW first, first = IF i \in Users THEN "search" ELSE "searchHot", NEW keyword
  PROVE  Fresh(Listing(i, first, keyword))
  <1> DEFINE pc == IF search /\ keyword THEN first ELSE "keys"
             p0 == Request("list", i, pc)
             p == [p0 EXCEPT !.keyword = keyword]
             q == Watching(p)
  <1>0. Listing(i, first, keyword) = q
    BY DEF Listing
  <1>1. pc = first \/ pc = "keys"
    OBVIOUS
  <1> HIDE DEF pc
  <1>0a. Blank(p0, "list", i, pc)
    BY RequestFields
  <1> HIDE DEF p0
  <1>2. /\ DOMAIN p0 = Fields /\ p0.op = "list" /\ p0.id = i /\ p0.pc = pc
        /\ p0.reply = "none" /\ p0.out = {} /\ p0.failed = FALSE /\ p0.matching = FALSE
    BY <1>0a DEF Blank
  <1>3. /\ DOMAIN p = Fields /\ p.op = "list" /\ p.id = i /\ p.pc = pc
        /\ p.reply = "none" /\ p.out = {} /\ p.failed = FALSE /\ p.matching = FALSE
    BY <1>2 DEF Fields
  <1> HIDE DEF p
  <1>4. /\ DOMAIN q = Fields /\ q.op = "list" /\ q.id = i /\ q.pc = pc
        /\ q.reply = "none" /\ q.out = {} /\ q.failed = FALSE /\ q.matching = FALSE
        /\ q.always = Shown(q, db)
    BY <1>3, WatchingFields
  <1> HIDE DEF q
  <1>5. Fresh(q)
    BY <1>1, <1>4, Things DEF Fresh, Shape, Running, Lists
  <1> QED BY <1>0, <1>5

(* The request that lists a tenant's permissions. *)
LEMMA PermissionsFresh ==
  ASSUME NEW t
  PROVE  Fresh(Watching([Request("permissions", None, "aclKeys") EXCEPT !.t = t, !.matching = TRUE]))
  <1> DEFINE p0 == Request("permissions", None, "aclKeys")
             p == [p0 EXCEPT !.t = t, !.matching = TRUE]
             q == Watching(p)
  <1>0a. Blank(p0, "permissions", None, "aclKeys")
    BY RequestFields
  <1> HIDE DEF p0
  <1>2. /\ DOMAIN p0 = Fields /\ p0.op = "permissions" /\ p0.pc = "aclKeys"
        /\ p0.reply = "none" /\ p0.out = {} /\ p0.failed = FALSE
    BY <1>0a DEF Blank
  <1>3. /\ DOMAIN p = Fields /\ p.op = "permissions" /\ p.pc = "aclKeys"
        /\ p.reply = "none" /\ p.out = {} /\ p.failed = FALSE /\ p.matching = TRUE
    BY <1>2 DEF Fields
  <1> HIDE DEF p
  <1>4. /\ DOMAIN q = Fields /\ q.op = "permissions" /\ q.pc = "aclKeys"
        /\ q.reply = "none" /\ q.out = {} /\ q.failed = FALSE /\ q.matching = TRUE
        /\ q.always = Shown(q, db)
    BY <1>3, WatchingFields
  <1> HIDE DEF q
  <1>5. Fresh(q)
    BY <1>4 DEF Fresh, Shape, Running, Lists
  <1> QED BY <1>5 DEF q, p, p0

(* The request for the audit list. *)
LEMMA AuditFresh ==
  ASSUME NEW limit \in Limits
  PROVE  Fresh([Request("audit", None, "llen") EXCEPT !.limit = limit])
  <1> DEFINE p == Request("audit", None, "llen")
             q == [p EXCEPT !.limit = limit]
  <1>1. limit \in Int
    BY AdminAssumption
  <1>0a. Blank(p, "audit", None, "llen")
    BY RequestFields
  <1> HIDE DEF p
  <1>2. /\ DOMAIN p = Fields /\ p.op = "audit" /\ p.pc = "llen"
        /\ p.reply = "none" /\ p.out = {} /\ p.failed = FALSE /\ p.always = {}
    BY <1>0a DEF Blank
  <1>3. /\ DOMAIN q = Fields /\ q.op = "audit" /\ q.pc = "llen" /\ q.limit = limit
        /\ q.reply = "none" /\ q.out = {} /\ q.failed = FALSE /\ q.always = {}
    BY <1>2 DEF Fields
  <1> HIDE DEF q
  <1>4. Fresh(q)
    BY <1>1, <1>3 DEF Fresh, Shape, Running, Lists
  <1> QED BY <1>4 DEF q, p

(* A call that was answered, with success or not. *)
Tried(q, ok) == IF ok THEN q ELSE [q EXCEPT !.failed = TRUE]

(* A call that failed is remembered, and nothing else changes. *)
LEMMA TriedFields ==
  ASSUME NEW q, NEW k, IsRequest(q, k), NEW ok \in BOOLEAN
  PROVE  LET f == Tried(q, ok) IN
         /\ IsRequest(f, k)
         /\ f.op = q.op /\ f.id = q.id /\ f.t = q.t /\ f.d = q.d /\ f.keyword = q.keyword /\ f.no = q.no
         /\ f.pc = q.pc /\ f.reply = q.reply /\ f.todo = q.todo /\ f.out = q.out /\ f.matching = q.matching
         /\ f.overlap = q.overlap /\ f.there = q.there /\ f.always = q.always
         /\ f.limit = q.limit /\ f.total = q.total /\ f.logs = q.logs
         /\ ok => f.failed = q.failed
         /\ ~ok => f.failed
  <1> DEFINE f == Tried(q, ok)
  <1>1. CASE ok
    BY <1>1 DEF Tried
  <1>2. CASE ~ok
    <2>1. f = [q EXCEPT !.failed = TRUE]
      BY <1>2 DEF Tried
    <2> HIDE DEF f
    <2>2. /\ DOMAIN f = Fields
          /\ f.op = q.op /\ f.id = q.id /\ f.t = q.t /\ f.d = q.d /\ f.keyword = q.keyword /\ f.no = q.no
          /\ f.pc = q.pc /\ f.reply = q.reply /\ f.todo = q.todo /\ f.out = q.out /\ f.matching = q.matching
          /\ f.overlap = q.overlap /\ f.there = q.there /\ f.always = q.always
          /\ f.limit = q.limit /\ f.total = q.total /\ f.logs = q.logs /\ f.failed = TRUE
      BY <2>1 DEF IsRequest, Fields
    <2>3. IsRequest(f, k)
      BY <2>2 DEF IsRequest, Shape, Running
    <2> QED BY <1>2, <2>2, <2>3 DEF f
  <1> QED BY <1>1, <1>2

Answered(c, ok, r) ==
    LET q == slot[c] IN
    /\ Running(q) /\ ~IsLoop(q) /\ q.op # "none"
    /\ Moves(Tried(q, ok), ok, r)
    /\ slot' = Watched([slot EXCEPT ![c] = r], db')
    /\ Record(r)
    /\ \/ /\ db' = Effect(db, q)
          /\ applied' = IF MakesChange(q) THEN applied \union {q.no} ELSE applied
       \/ ~ok /\ db' = db /\ applied' = applied
    /\ unlogged' = IF ~ok /\ q.pc = "audit" THEN unlogged \union {q.no} ELSE unlogged
    /\ UNCHANGED <<search, ops>> /\ faults' \in 0..MaxFaults

(* A call that came through, or failed, and what its handler did then. *)
LEMMA CallAnswered ==
  ASSUME Requests, NEW c \in Slots, Call(c) \/ CallFails(c)
  PROVE  \E ok \in BOOLEAN : \E r : Answered(c, ok, r)
  <1> DEFINE q == slot[c]
             f == Tried(q, FALSE)
  <1>1. IsRequest(q, ops) /\ faults \in 0..MaxFaults /\ MaxFaults \in Nat
    BY AdminAssumption DEF Requests
  <1>2. CASE Call(c)
    <2>1. Running(q) /\ ~IsLoop(q)
      BY <1>2 DEF Call
    <2>2. PICK r \in After(q, TRUE) : /\ slot' = Watched([slot EXCEPT ![c] = r], db')
                                       /\ Record(r)
      BY <1>2 DEF Call
    <2>3. Moves(q, TRUE, r) /\ q.op # "none"
      BY <1>1, <2>1, Handled
    <2>4. Tried(q, TRUE) = q
      BY DEF Tried
    <2>5. Answered(c, TRUE, r)
      BY <1>1, <1>2, <2>1, <2>2, <2>3, <2>4 DEF Call, Answered
    <2> QED BY <2>5
  <1>3. CASE CallFails(c)
    <2>1. Running(q) /\ ~IsLoop(q)
      BY <1>3 DEF CallFails
    <2>2. f = [q EXCEPT !.failed = TRUE]
      BY DEF Tried
    <2>3. PICK r \in After(f, FALSE) : /\ slot' = Watched([slot EXCEPT ![c] = r], db')
                                        /\ Record(r)
      BY <1>3, <2>2 DEF CallFails
    <2>4. IsRequest(f, ops) /\ f.pc = q.pc /\ f.op = q.op
      BY <1>1, TriedFields
    <2>5. Moves(f, FALSE, r) /\ q.op # "none"
      <3> HIDE DEF f
      <3> QED BY <2>1, <2>4, Handled DEF Running, IsLoop
    <2>6. faults' \in 0..MaxFaults
      BY <1>1, <1>3 DEF CallFails
    <2>7. /\ \/ /\ db' = Effect(db, q)
                /\ applied' = IF MakesChange(q) THEN applied \union {q.no} ELSE applied
             \/ db' = db /\ applied' = applied
          /\ unlogged' = IF q.pc = "audit" THEN unlogged \union {q.no} ELSE unlogged
          /\ UNCHANGED <<search, ops>>
      BY <1>3 DEF CallFails
    <2>8. Answered(c, FALSE, r)
      BY <2>1, <2>3, <2>5, <2>6, <2>7 DEF Answered
    <2> QED BY <2>8
  <1> QED BY <1>2, <1>3

Step ==
    \/ \E c \in Slots : \E q : Fresh(q) /\ Begin(c, q)
    \/ \E c \in Slots, ok \in BOOLEAN : \E r : Answered(c, ok, r)
    \/ \E c \in Slots : Repeat(c) \/ Expire(c)
    \/ \E c \in Slots, t \in Tenants : DelKey(c, t)
    \/ \E c \in Slots, i \in Items : Get(c, i)
    \/ UNCHANGED vars

(* Every step, by what it does to the requests and the stores. *)
LEMMA NextStep ==
  ASSUME Requests, [Next]_vars PROVE Step
  <1>1. ASSUME NEW c \in Slots, NEW u \in Users, CreateUser(c, u) \/ DeleteUser(c, u) PROVE Step
    <2>1. u \in Items
      BY Things
    <2> QED BY <1>1, <2>1, ChangeFresh DEF CreateUser, DeleteUser, Step
  <1>2. ASSUME NEW c \in Slots, NEW d \in Docs, CreateDocument(c, d) \/ DeleteDocument(c, d) PROVE Step
    <2>1. d \in Items
      BY Things
    <2> QED BY <1>2, <2>1, ChangeFresh DEF CreateDocument, DeleteDocument, Step
  <1>3. ASSUME NEW c \in Slots, NEW k \in BOOLEAN, ListUsers(c, k) PROVE Step
    <2> DEFINE u == CHOOSE u \in Users : TRUE
    <2>1. u \in Users
      BY AdminAssumption
    <2> HIDE DEF u
    <2>2. Fresh(Listing(u, "search", k))
      BY <2>1, ListingFresh, Things
    <2>3. Begin(c, Listing(u, "search", k))
      BY <1>3 DEF ListUsers, u
    <2> QED BY <2>2, <2>3 DEF Step
  <1>4. ASSUME NEW c \in Slots, NEW k \in BOOLEAN, ListDocuments(c, k) PROVE Step
    <2> DEFINE d == CHOOSE d \in Docs : TRUE
    <2>1. d \in Docs
      BY AdminAssumption
    <2> HIDE DEF d
    <2>2. Fresh(Listing(d, "searchHot", k))
      BY <2>1, ListingFresh, Things
    <2>3. Begin(c, Listing(d, "searchHot", k))
      BY <1>4 DEF ListDocuments, d
    <2> QED BY <2>2, <2>3 DEF Step
  <1>5. ASSUME NEW c \in Slots, NEW t \in Tenants, NEW u \in Users, NEW d \in Docs,
               GrantPermission(c, t, u, d) \/ RevokePermission(c, t, u, d)
        PROVE  Step
    BY <1>5, PermissionFresh DEF GrantPermission, RevokePermission, Step
  <1>6. ASSUME NEW c \in Slots, NEW t \in Tenants, ListPermissions(c, t) PROVE Step
    BY <1>6, PermissionsFresh DEF ListPermissions, Step
  <1>7. ASSUME NEW c \in Slots, NEW limit \in Limits, GetAuditLogs(c, limit) PROVE Step
    BY <1>7, AuditFresh DEF GetAuditLogs, Step
  <1>8. ASSUME NEW c \in Slots, Call(c) \/ CallFails(c) PROVE Step
    BY <1>8, CallAnswered DEF Step
  <1>9. ASSUME NEW c \in Slots,
               \/ Repeat(c) \/ Expire(c)
               \/ \E t \in Tenants : DelKey(c, t)
               \/ \E i \in Items : Get(c, i)
        PROVE  Step
    BY <1>9 DEF Step
  <1>10. CASE Finished \/ UNCHANGED vars
    BY <1>10 DEF Finished, Step
  <1> QED BY <1>1, <1>2, <1>3, <1>4, <1>5, <1>6, <1>7, <1>8, <1>9, <1>10 DEF Next

----
(* What the loops, a repeated call and a timeout do to the slots. *)
Left(m, i, t) == {p \in m.acl : p[1] # t \/ p[2] # i}
Without(m, i, t) == [m EXCEPT !.acl = Left(m, i, t)]

(* The stores without an acl key differ in the permissions only. *)
LEMMA WithoutParts ==
  ASSUME NEW m, Stores(m), NEW i, NEW t
  PROVE  LET n == Without(m, i, t) IN
         /\ Stores(n) /\ n.acl = Left(m, i, t) /\ n.records = m.records /\ n.log = m.log
         /\ n.usersHot = m.usersHot /\ n.docsHot = m.docsHot /\ n.docsCold = m.docsCold
  <1> DEFINE n == Without(m, i, t)
             left == Left(m, i, t)
  <1>1. n = [m EXCEPT !.acl = left] /\ left \subseteq m.acl
    BY DEF Without, Left
  <1> HIDE DEF n, left
  <1>2. /\ DOMAIN n = Parts /\ n.acl = left /\ n.records = m.records /\ n.log = m.log
        /\ n.usersHot = m.usersHot /\ n.docsHot = m.docsHot /\ n.docsCold = m.docsCold
    BY <1>1 DEF Stores, Parts
  <1>3. Stores(n)
    BY <1>1, <1>2 DEF Stores
  <1> QED BY <1>2, <1>3 DEF n, left

KeyDeleted(c, t, ok, r) ==
    LET q == slot[c] IN
    /\ q.pc = "delKey" /\ t \in q.todo
    /\ DelKeyMoves(Tried(q, ok), t, r)
    /\ slot' = Watched([slot EXCEPT ![c] = r], db')
    /\ db' = Without(db, q.id, t) \/ (~ok /\ db' = db)
    /\ faults' \in 0..MaxFaults
    /\ UNCHANGED <<search, ops, ideal, dirty, applied, unlogged>>

KeyRepeated(c, t) ==
    LET q == slot[c] IN
    /\ q.pc = "delKey"
    /\ slot' = Watched(slot, db')
    /\ db' = Without(db, q.id, t)
    /\ faults' \in 0..MaxFaults
    /\ UNCHANGED <<search, ops, ideal, dirty, applied, unlogged>>

(* A round over one acl key: deleted or not, the loop goes on, or the call *)
(* is made again.                                                          *)
LEMMA DelKeySplit ==
  ASSUME Requests, NEW c \in Slots, NEW t, DelKey(c, t)
  PROVE  KeyRepeated(c, t) \/ \E ok \in BOOLEAN : \E r : KeyDeleted(c, t, ok, r)
  <1> DEFINE q == slot[c]
             f == Tried(q, FALSE)
  <1>1. IsRequest(q, ops) /\ faults \in 0..MaxFaults /\ MaxFaults \in Nat
    BY AdminAssumption DEF Requests
  <1>2. DOMAIN q = Fields /\ DOMAIN f = Fields
    BY <1>1, TriedFields DEF IsRequest
  <1>3. f = [q EXCEPT !.failed = TRUE] /\ Tried(q, TRUE) = q
    BY DEF Tried
  <1>4. q.pc = "delKey" /\ t \in q.todo /\ UNCHANGED <<search, ops, ideal, dirty, applied, unlogged>>
    BY DEF DelKey, history
  <1>0. [db EXCEPT !.acl = {p \in @ : p[1] # t \/ p[2] # q.id}] = Without(db, q.id, t)
    BY DEF Without, Left
  <1>5. CASE /\ ~q.expired
             /\ db' = Without(db, q.id, t)
             /\ slot' = Watched([slot EXCEPT ![c] = AfterDelKey(q, t)], db')
             /\ UNCHANGED faults
    <2>1. DelKeyMoves(q, t, AfterDelKey(q, t))
      BY <1>2, DelKeyRound
    <2>2. KeyDeleted(c, t, TRUE, AfterDelKey(q, t))
      BY <1>1, <1>3, <1>4, <1>5, <2>1 DEF KeyDeleted
    <2> QED BY <2>2
  <1>6. CASE /\ db' = db \/ (~q.expired /\ db' = Without(db, q.id, t))
             /\ IF q.expired THEN UNCHANGED faults ELSE faults < MaxFaults /\ faults' = faults + 1
             /\ slot' = Watched([slot EXCEPT ![c] = AfterDelKey([q EXCEPT !.failed = TRUE], t)], db')
    <2>1. DelKeyMoves(f, t, AfterDelKey(f, t))
      BY <1>2, DelKeyRound
    <2>2. slot' = Watched([slot EXCEPT ![c] = AfterDelKey(f, t)], db') /\ (db' = db \/ db' = Without(db, q.id, t))
      BY <1>3, <1>6
    <2>3. faults' \in 0..MaxFaults
      BY <1>1, <1>6
    <2> HIDE DEF f
    <2>4. KeyDeleted(c, t, FALSE, AfterDelKey(f, t))
      BY <1>4, <2>1, <2>2, <2>3 DEF KeyDeleted, f
    <2> QED BY <2>4
  <1>7. CASE /\ ~q.expired /\ faults < MaxFaults /\ faults' = faults + 1
             /\ db' = Without(db, q.id, t)
             /\ slot' = Watched(slot, db')
    <2>1. faults' \in 0..MaxFaults
      BY <1>1, <1>7
    <2>2. KeyRepeated(c, t)
      BY <1>4, <1>7, <2>1 DEF KeyRepeated
    <2> QED BY <2>2
  <1>8. \/ /\ ~q.expired
           /\ db' = Without(db, q.id, t)
           /\ slot' = Watched([slot EXCEPT ![c] = AfterDelKey(q, t)], db')
           /\ UNCHANGED faults
        \/ /\ db' = db \/ (~q.expired /\ db' = Without(db, q.id, t))
           /\ IF q.expired THEN UNCHANGED faults ELSE faults < MaxFaults /\ faults' = faults + 1
           /\ slot' = Watched([slot EXCEPT ![c] = AfterDelKey([q EXCEPT !.failed = TRUE], t)], db')
        \/ /\ ~q.expired /\ faults < MaxFaults /\ faults' = faults + 1
           /\ db' = Without(db, q.id, t)
           /\ slot' = Watched(slot, db')
    BY <1>0 DEF DelKey
  <1> QED BY <1>5, <1>6, <1>7, <1>8

Listed(c, i, ok, r) ==
    LET q == slot[c] IN
    /\ q.pc \in {"get", "members"} /\ i \in q.todo
    /\ RoundMoves(Tried(q, ok), i, ok, r)
    /\ slot' = Watched([slot EXCEPT ![c] = r], db)
    /\ faults' \in 0..MaxFaults
    /\ UNCHANGED <<search, db, ops, ideal, dirty, applied, unlogged>>

(* A round over one record or set: read or not, the loop goes on. *)
LEMMA GetSplit ==
  ASSUME Requests, NEW c \in Slots, NEW i, Get(c, i)
  PROVE  \E ok \in BOOLEAN : \E r : Listed(c, i, ok, r)
  <1> DEFINE q == slot[c]
             f == Tried(q, FALSE)
  <1>1. IsRequest(q, ops) /\ faults \in 0..MaxFaults /\ MaxFaults \in Nat
    BY AdminAssumption DEF Requests
  <1>2. DOMAIN q = Fields /\ DOMAIN f = Fields /\ f.pc = q.pc
    BY <1>1, TriedFields DEF IsRequest
  <1>3. f = [q EXCEPT !.failed = TRUE] /\ Tried(q, TRUE) = q
    BY DEF Tried
  <1>4. /\ q.pc \in {"get", "members"} /\ i \in q.todo
        /\ UNCHANGED <<search, db, ops, ideal, dirty, applied, unlogged>>
    BY DEF Get, history
  <1>5. CASE /\ ~q.expired
             /\ slot' = Watched([slot EXCEPT ![c] = Round(q, i, TRUE)], db)
             /\ UNCHANGED faults
    <2>1. RoundMoves(q, i, TRUE, Round(q, i, TRUE))
      BY <1>2, <1>4, GetRound
    <2>2. Listed(c, i, TRUE, Round(q, i, TRUE))
      BY <1>1, <1>3, <1>4, <1>5, <2>1 DEF Listed
    <2> QED BY <2>2
  <1>6. CASE /\ IF q.expired THEN UNCHANGED faults ELSE faults < MaxFaults /\ faults' = faults + 1
             /\ slot' = Watched([slot EXCEPT ![c] = Round([q EXCEPT !.failed = TRUE], i, FALSE)], db)
    <2>1. RoundMoves(f, i, FALSE, Round(f, i, FALSE))
      <3> HIDE DEF f
      <3> QED BY <1>2, <1>4, GetRound
    <2>2. slot' = Watched([slot EXCEPT ![c] = Round(f, i, FALSE)], db)
      BY <1>3, <1>6
    <2>3. faults' \in 0..MaxFaults
      BY <1>1, <1>6
    <2> HIDE DEF f
    <2>4. Listed(c, i, FALSE, Round(f, i, FALSE))
      BY <1>4, <2>1, <2>2, <2>3 DEF Listed, f
    <2> QED BY <2>4
  <1> QED BY <1>5, <1>6 DEF Get

(* A change of the stores while no request goes on. *)
LEMMA WatchedAll ==
  ASSUME Requests, NEW m, slot' = Watched(slot, m)
  PROVE  /\ DOMAIN slot' = Slots
         /\ \A b \in Slots : Kept(slot[b], slot'[b], db, m)
  <1>1. DOMAIN slot = Slots /\ \A b \in Slots : IsRequest(slot[b], ops)
    BY DEF Requests
  <1>2. DOMAIN slot' = Slots
    BY DEF Watched
  <1>3. ASSUME NEW b \in Slots PROVE Kept(slot[b], slot'[b], db, m)
    <2>1. slot'[b] = IF ~Running(slot[b]) THEN Free ELSE Track(slot[b], m)
      BY DEF Watched, Track
    <2>2. DOMAIN slot[b] = Fields /\ slot[b].overlap \in BOOLEAN
      BY <1>1 DEF IsRequest
    <2>3. Tracks(slot[b], Track(slot[b], m), m)
      BY <2>2, TrackTracks
    <2> QED BY <2>1, <2>2, <2>3 DEF Kept, Tracks
  <1> QED BY <1>2, <1>3

(* A call that the server carried out but whose answer was lost. *)
LEMMA RepeatSlots ==
  ASSUME Requests, NEW c \in Slots, Repeat(c)
  PROVE  /\ DOMAIN slot' = Slots
         /\ \A b \in Slots : Kept(slot[b], slot'[b], db, db')
         /\ Running(slot[c]) /\ ~IsLoop(slot[c]) /\ db' = Effect(db, slot[c])
  <1>1. /\ Running(slot[c]) /\ ~IsLoop(slot[c]) /\ db' = Effect(db, slot[c])
        /\ slot' = Watched(slot, db')
    BY DEF Repeat
  <1> QED BY <1>1, WatchedAll

(* Such a DEL of an acl key. *)
LEMMA KeyRepeatedSlots ==
  ASSUME Requests, Stores(db), NEW c \in Slots, NEW t, KeyRepeated(c, t)
  PROVE  /\ DOMAIN slot' = Slots
         /\ \A b \in Slots : Kept(slot[b], slot'[b], db, db')
         /\ Running(slot[c]) /\ slot[c].pc = "delKey" /\ slot[c].op = "delete" /\ slot[c].id \in Users
         /\ Stores(db') /\ db'.log = db.log /\ db'.acl = Left(db, slot[c].id, t)
         /\ db'.records = db.records /\ db'.usersHot = db.usersHot
         /\ db'.docsHot = db.docsHot /\ db'.docsCold = db.docsCold
         /\ UNCHANGED <<search, ops, ideal, dirty, applied, unlogged>> /\ faults' \in 0..MaxFaults
  <1>1. /\ slot[c].pc = "delKey" /\ slot' = Watched(slot, db') /\ db' = Without(db, slot[c].id, t)
        /\ UNCHANGED <<search, ops, ideal, dirty, applied, unlogged>> /\ faults' \in 0..MaxFaults
    BY DEF KeyRepeated
  <1>2. DOMAIN slot' = Slots /\ \A b \in Slots : Kept(slot[b], slot'[b], db, db')
    BY <1>1, WatchedAll
  <1>3. Running(slot[c]) /\ slot[c].op = "delete" /\ slot[c].id \in Users
    <2>1. IsRequest(slot[c], ops)
      BY DEF Requests
    <2> QED BY <1>1, <2>1 DEF Running, IsRequest, Shape
  <1>4. /\ Stores(db') /\ db'.log = db.log /\ db'.acl = Left(db, slot[c].id, t)
        /\ db'.records = db.records /\ db'.usersHot = db.usersHot
        /\ db'.docsHot = db.docsHot /\ db'.docsCold = db.docsCold
    BY <1>1, WithoutParts
  <1> QED BY <1>1, <1>2, <1>3, <1>4

(* A context that times out changes no store. *)
LEMMA ExpireSlots ==
  ASSUME Requests, NEW c \in Slots, Expire(c)
  PROVE  /\ DOMAIN slot' = Slots
         /\ \A b \in Slots : Kept(slot[b], slot'[b], db, db)
         /\ UNCHANGED <<search, db, ops, ideal, dirty, applied, unlogged>>
  <1>1. DOMAIN slot = Slots /\ \A b \in Slots : IsRequest(slot[b], ops)
    BY DEF Requests
  <1>2. /\ Running(slot[c]) /\ slot' = [slot EXCEPT ![c] = [slot[c] EXCEPT !.expired = TRUE]]
        /\ UNCHANGED <<search, db, ops, ideal, dirty, applied, unlogged>>
    BY DEF Expire, history
  <1>3. DOMAIN slot' = Slots
    BY <1>1, <1>2
  <1>4. ASSUME NEW b \in Slots PROVE Kept(slot[b], slot'[b], db, db)
    <2> DEFINE q == slot[b]
               s == slot'[b]
    <2>1. DOMAIN q = Fields /\ q.overlap \in BOOLEAN
      BY <1>1 DEF IsRequest
    <2>2. CASE s = q
      <3> HIDE DEF s, q
      <3>1. Running(q) => Resembles(q, s) /\ s.overlap = q.overlap /\ s.there = q.there /\ s.always = q.always
        BY <2>1, <2>2 DEF Resembles
      <3>2. Kept(q, s, db, db)
        BY <2>1, <2>2, <3>1 DEF Kept
      <3> QED BY <3>2 DEF s, q
    <2>3. CASE b = c
      <3>1. s = [q EXCEPT !.expired = TRUE] /\ Running(q)
        BY <1>1, <1>2, <2>3
      <3> HIDE DEF s, q
      <3>2. Resembles(q, s) /\ s.overlap = q.overlap /\ s.there = q.there /\ s.always = q.always
        BY <2>1, <3>1 DEF Resembles, Fields
      <3>3. Kept(q, s, db, db)
        BY <2>1, <3>1, <3>2 DEF Kept
      <3> QED BY <3>3 DEF s, q
    <2>4. b # c => s = q
      BY <1>1, <1>2
    <2> QED BY <2>2, <2>3, <2>4
  <1> QED BY <1>2, <1>3, <1>4

----
(* The requests and the stores keep their types. *)
LEMMA FreeRequest ==
  ASSUME NEW k PROVE IsRequest(Free, k)
  BY FreeFields DEF IsRequest, Shape, Running

(* A request that does not go on stays well-formed. *)
LEMMA KeptRequest ==
  ASSUME NEW q, NEW s, NEW m, NEW m2, Kept(q, s, m, m2), NEW k \in Nat, NEW k2 \in Nat, k <= k2, IsRequest(q, k)
  PROVE  IsRequest(s, k2)
  <1>1. Running(q) => q.no \in 1..k2
    BY DEF IsRequest
  <1>2. CASE s = Free
    BY <1>2, FreeRequest
  <1>3. CASE s = q
    BY <1>1, <1>3 DEF IsRequest
  <1>4. CASE Resembles(q, s) /\ s.overlap \in BOOLEAN
    BY <1>1, <1>4 DEF IsRequest, Resembles, Shape, Running
  <1> QED BY <1>2, <1>3, <1>4 DEF Kept

(* What is recorded of the stores leaves a request well-formed. *)
LEMMA TracksRequest ==
  ASSUME NEW r, NEW s, NEW m, Tracks(r, s, m), NEW k, IsRequest(r, k)
  PROVE  IsRequest(s, k)
  <1>1. Resembles(r, s) /\ s.overlap = r.overlap
    BY DEF Tracks
  <1> QED BY <1>1 DEF IsRequest, Resembles, Shape, Running

(* A handler's next place is one of its own places. *)
LEMMA MovesRequest ==
  ASSUME NEW q, NEW k, IsRequest(q, k), Running(q), q.op # "none", NEW ok \in BOOLEAN, NEW r,
         Moves(Tried(q, ok), ok, r)
  PROVE  IsRequest(r, k) /\ r.op = q.op /\ DOMAIN r = Fields /\ r.out = q.out
  <1> DEFINE f == Tried(q, ok)
  <1>1. IsRequest(f, k) /\ f.op = q.op /\ f.pc = q.pc /\ f.out = q.out
    BY TriedFields
  <1> HIDE DEF f
  <1>2. Running(f)
    BY <1>1 DEF Running
  <1>3. Same(f, r) /\ r.out = f.out /\ r.reply \in {f.reply, "200", "400", "500"} /\ Shape(r)
    BY <1>1, <1>2, MovesKeeps DEF f
  <1>4. DOMAIN r = Fields /\ r.op = f.op /\ r.no = f.no /\ r.overlap = f.overlap
    BY <1>3 DEF Same
  <1>5. IsRequest(r, k)
    BY <1>1, <1>2, <1>3, <1>4 DEF IsRequest
  <1> QED BY <1>1, <1>3, <1>4, <1>5

(* So it is after a round of deleteUser's loop. *)
LEMMA DelKeyRequest ==
  ASSUME NEW q, NEW k, IsRequest(q, k), q.pc = "delKey", NEW ok \in BOOLEAN, NEW t, NEW r,
         DelKeyMoves(Tried(q, ok), t, r)
  PROVE  IsRequest(r, k) /\ r.op = "delete" /\ q.op = "delete" /\ q.id \in Users /\ DOMAIN r = Fields
  <1> DEFINE f == Tried(q, ok)
  <1>1. IsRequest(f, k) /\ f.op = q.op /\ f.pc = q.pc /\ f.id = q.id
    BY TriedFields
  <1> HIDE DEF f
  <1>2. f.op = "delete" /\ f.id \in Users
    BY <1>1 DEF IsRequest, Shape
  <1>3. Same(f, r) /\ r.out = f.out /\ r.reply = f.reply /\ r.pc \in {"audit", "delKey"}
    BY DEF DelKeyMoves, f
  <1>4. DOMAIN r = Fields /\ r.op = f.op /\ r.id = f.id /\ r.no = f.no /\ r.overlap = f.overlap
    BY <1>3 DEF Same
  <1>5. Shape(r)
    BY <1>2, <1>3, <1>4 DEF Shape
  <1>6. Running(f)
    BY <1>1 DEF Running
  <1> QED BY <1>1, <1>2, <1>3, <1>4, <1>5, <1>6 DEF IsRequest

(* So it is after a round of a listing, which lists what it found. *)
LEMMA RoundRequest ==
  ASSUME NEW q, NEW k, IsRequest(q, k), q.pc \in {"get", "members"}, NEW ok \in BOOLEAN, NEW i, i \in Items, NEW r,
         RoundMoves(Tried(q, ok), i, ok, r), db.acl \subseteq Permissions
  PROVE  IsRequest(r, k) /\ r.op = q.op /\ DOMAIN r = Fields /\ Lists(q)
  <1> DEFINE f == Tried(q, ok)
  <1>1. IsRequest(f, k) /\ f.op = q.op /\ f.pc = q.pc /\ f.id = q.id
    BY TriedFields
  <1> HIDE DEF f
  <1>2. (f.op = "list" /\ f.pc = "get") \/ (f.op = "permissions" /\ f.pc = "members")
    <2>1. f.pc = "get" => f.op = "list"
      BY <1>1 DEF IsRequest, Shape
    <2>2. f.pc = "members" => f.op = "permissions"
      BY <1>1 DEF IsRequest, Shape
    <2> QED BY <1>1, <2>1, <2>2
  <1>3. Same(f, r) /\ r.pc \in {"done", f.pc} /\ r.reply \in {"200", "none"}
    BY DEF RoundMoves, f
  <1>4. r.out \subseteq f.out \union {i} \union db.acl
    BY <1>2 DEF RoundMoves, f
  <1>5. DOMAIN r = Fields /\ r.op = f.op /\ r.id = f.id /\ r.no = f.no /\ r.overlap = f.overlap
    BY <1>3 DEF Same
  <1>6. Shape(r)
    BY <1>1, <1>2, <1>3, <1>5 DEF Shape, IsRequest
  <1>7. Running(f)
    BY <1>2 DEF Running
  <1>8. r.out \subseteq Items \union Permissions
    BY <1>1, <1>4 DEF IsRequest
  <1>9. IsRequest(r, k)
    BY <1>1, <1>3, <1>5, <1>6, <1>7, <1>8 DEF IsRequest
  <1> QED BY <1>1, <1>2, <1>5, <1>9 DEF Lists

(* Requests are numbered within the bound. *)
LEMMA OpsFacts ==
  ASSUME Requests
  PROVE  ops \in Nat /\ ops \in 0..MaxOps /\ MaxOps \in Nat /\ OpsBound \in 0..MaxOps
  BY AdminAssumption DEF Requests, OpsBound

TInv == Requests /\ Stores(db)

(* Every step keeps the requests and the stores well-formed. *)
LEMMA TypesKept == TInv /\ [Next]_vars => TInv'
  <1> SUFFICES ASSUME TInv, Step PROVE TInv'
    BY NextStep DEF TInv
  <1> USE DEF TInv
  <1>0. /\ DOMAIN slot = Slots /\ (\A b \in Slots : IsRequest(slot[b], ops))
        /\ ops \in 0..OpsBound /\ faults \in 0..MaxFaults /\ search \in BOOLEAN
    BY DEF Requests
  <1>1. ASSUME NEW c \in Slots, NEW q, Fresh(q), Begin(c, q) PROVE TInv'
    <2>1. /\ DOMAIN slot' = Slots
          /\ Arrived(q, slot'[c])
          /\ \A b \in Slots : b # c => /\ Kept(slot[b], slot'[b], db, db)
                                       /\ b \in Met(q) => slot'[b].overlap
          /\ ~Running(slot[c]) /\ ops' = ops + 1 /\ ops < OpsBound
          /\ UNCHANGED <<search, db, faults, ideal, dirty, applied, unlogged>>
      BY <1>1, BeginSlots
    <2>2. ops' \in 0..OpsBound /\ ops \in Nat /\ ops' \in Nat /\ ops <= ops' /\ ops' \in 1..ops'
      BY <2>1, OpsFacts
    <2>3. IsRequest(slot'[c], ops')
      <3> DEFINE p == [q EXCEPT !.no = ops + 1]
                 s == slot'[c]
      <3>1. /\ DOMAIN p = Fields /\ p.op = q.op /\ p.id = q.id /\ p.t = q.t /\ p.d = q.d /\ p.pc = q.pc
            /\ p.no = ops' /\ p.out = {} /\ p.reply = "none"
        BY <1>1, <2>1 DEF Fresh, Fields
      <3>2. Resembles(p, s) /\ s.overlap \in BOOLEAN
        BY <2>1 DEF Arrived
      <3> HIDE DEF p, s
      <3>3. IsRequest(s, ops')
        BY <1>1, <2>2, <3>1, <3>2 DEF IsRequest, Resembles, Fresh, Shape, Running
      <3> QED BY <3>3 DEF s
    <2>4. \A b \in Slots : b # c => IsRequest(slot'[b], ops')
      <3> SUFFICES ASSUME NEW b \in Slots, b # c PROVE IsRequest(slot'[b], ops')
        OBVIOUS
      <3>1. Kept(slot[b], slot'[b], db, db) /\ IsRequest(slot[b], ops)
        BY <1>0, <2>1
      <3> QED BY <2>2, <3>1, KeptRequest
    <2>5. OpsBound' = OpsBound
      BY <2>1 DEF OpsBound
    <2> QED BY <1>0, <2>1, <2>2, <2>3, <2>4, <2>5 DEF Requests
  <1>2. ASSUME NEW c \in Slots, NEW ok \in BOOLEAN, NEW r, Answered(c, ok, r) PROVE TInv'
    <2> DEFINE q == slot[c]
    <2>1. IsRequest(q, ops) /\ Running(q) /\ ~IsLoop(q) /\ q.op # "none" /\ Moves(Tried(q, ok), ok, r)
      BY <1>0, <1>2 DEF Answered
    <2>2. IsRequest(r, ops) /\ r.op = q.op /\ DOMAIN r = Fields
      <3> HIDE DEF q
      <3> QED BY <2>1, MovesRequest
    <2>3. slot' = Watched([slot EXCEPT ![c] = r], db') /\ UNCHANGED <<search, ops>> /\ faults' \in 0..MaxFaults
      BY <1>2 DEF Answered
    <2>4. /\ DOMAIN slot' = Slots /\ Tracks(r, slot'[c], db')
          /\ \A b \in Slots : b # c => Kept(slot[b], slot'[b], db, db')
      BY <2>1, <2>2, <2>3, WatchedSlots
    <2>5. IsRequest(slot'[c], ops')
      BY <2>2, <2>3, <2>4, TracksRequest
    <2>6. \A b \in Slots : b # c => IsRequest(slot'[b], ops')
      <3>1. ops' = ops /\ ops \in Nat /\ ops <= ops
        BY <2>3, OpsFacts
      <3> SUFFICES ASSUME NEW b \in Slots, b # c PROVE IsRequest(slot'[b], ops')
        OBVIOUS
      <3>2. Kept(slot[b], slot'[b], db, db') /\ IsRequest(slot[b], ops)
        BY <1>0, <2>4
      <3> QED BY <3>1, <3>2, KeptRequest
    <2>7. db' = Effect(db, q) \/ db' = db
      BY <1>2 DEF Answered
    <2>8. Stores(db')
      BY <2>1, <2>7, EffectTypes, OpsFacts
    <2>9. OpsBound' = OpsBound
      BY <2>3 DEF OpsBound
    <2> QED BY <1>0, <2>3, <2>4, <2>5, <2>6, <2>8, <2>9 DEF Requests
  <1>3. ASSUME NEW c \in Slots, Repeat(c) PROVE TInv'
    <2> DEFINE q == slot[c]
    <2>1. /\ DOMAIN slot' = Slots
          /\ \A b \in Slots : Kept(slot[b], slot'[b], db, db')
          /\ Running(q) /\ ~IsLoop(q) /\ db' = Effect(db, q)
      BY <1>3, RepeatSlots
    <2>2. ops' = ops /\ search' = search /\ faults' \in 0..MaxFaults
      BY <1>0, <1>3, AdminAssumption DEF Repeat
    <2>3. \A b \in Slots : IsRequest(slot'[b], ops')
      BY <1>0, <2>1, <2>2, KeptRequest, OpsFacts
    <2>4. Stores(db')
      BY <1>0, <2>1, EffectTypes, OpsFacts
    <2>5. OpsBound' = OpsBound
      BY <2>2 DEF OpsBound
    <2> QED BY <1>0, <2>1, <2>2, <2>3, <2>4, <2>5 DEF Requests
  <1>4. ASSUME NEW c \in Slots, Expire(c) PROVE TInv'
    <2>1. /\ DOMAIN slot' = Slots
          /\ \A b \in Slots : Kept(slot[b], slot'[b], db, db)
          /\ UNCHANGED <<search, db, ops>>
      BY <1>4, ExpireSlots
    <2>2. faults' \in 0..MaxFaults
      BY <1>0, <1>4, AdminAssumption DEF Expire
    <2>3. \A b \in Slots : IsRequest(slot'[b], ops')
      BY <1>0, <2>1, KeptRequest, OpsFacts
    <2>4. OpsBound' = OpsBound
      BY <2>1 DEF OpsBound
    <2> QED BY <1>0, <2>1, <2>2, <2>3, <2>4 DEF Requests
  <1>5. ASSUME NEW c \in Slots, NEW t \in Tenants, DelKey(c, t) PROVE TInv'
    <2> DEFINE q == slot[c]
    <2>0. CASE KeyRepeated(c, t)
      <3>1. /\ DOMAIN slot' = Slots
            /\ \A b \in Slots : Kept(slot[b], slot'[b], db, db')
            /\ Stores(db') /\ UNCHANGED <<search, ops>> /\ faults' \in 0..MaxFaults
        BY <1>0, <2>0, KeyRepeatedSlots
      <3>2. \A b \in Slots : IsRequest(slot'[b], ops')
        BY <1>0, <3>1, KeptRequest, OpsFacts
      <3>3. OpsBound' = OpsBound
        BY <3>1 DEF OpsBound
      <3> QED BY <1>0, <3>1, <3>2, <3>3 DEF Requests
    <2> SUFFICES ASSUME \E ok \in BOOLEAN : \E r : KeyDeleted(c, t, ok, r) PROVE TInv'
      BY <1>5, <2>0, DelKeySplit
    <2>1a. PICK ok \in BOOLEAN : \E r : KeyDeleted(c, t, ok, r)
      OBVIOUS
    <2>1. PICK r : KeyDeleted(c, t, ok, r)
      BY <2>1a
    <2>2. IsRequest(q, ops) /\ q.pc = "delKey" /\ DelKeyMoves(Tried(q, ok), t, r)
      BY <1>0, <2>1 DEF KeyDeleted
    <2>3. IsRequest(r, ops) /\ r.op = q.op /\ DOMAIN r = Fields
      <3> HIDE DEF q
      <3> QED BY <2>2, DelKeyRequest
    <2>4. /\ slot' = Watched([slot EXCEPT ![c] = r], db') /\ UNCHANGED <<search, ops>> /\ faults' \in 0..MaxFaults
          /\ db' = Without(db, q.id, t) \/ db' = db
      BY <2>1 DEF KeyDeleted
    <2>5. Running(q)
      BY <2>2 DEF Running
    <2>6. /\ DOMAIN slot' = Slots /\ Tracks(r, slot'[c], db')
          /\ \A b \in Slots : b # c => Kept(slot[b], slot'[b], db, db')
      BY <2>3, <2>4, <2>5, WatchedSlots
    <2>7. IsRequest(slot'[c], ops')
      BY <2>3, <2>4, <2>6, TracksRequest
    <2>8. \A b \in Slots : b # c => IsRequest(slot'[b], ops')
      <3>1. ops' = ops /\ ops \in Nat /\ ops <= ops
        BY <2>4, OpsFacts
      <3> SUFFICES ASSUME NEW b \in Slots, b # c PROVE IsRequest(slot'[b], ops')
        OBVIOUS
      <3>2. Kept(slot[b], slot'[b], db, db') /\ IsRequest(slot[b], ops)
        BY <1>0, <2>4, <2>6
      <3> QED BY <3>1, <3>2, KeptRequest
    <2>9. Stores(db')
      BY <2>4, WithoutParts
    <2>10. OpsBound' = OpsBound
      BY <2>4 DEF OpsBound
    <2> QED BY <1>0, <2>4, <2>6, <2>7, <2>8, <2>9, <2>10 DEF Requests
  <1>6. ASSUME NEW c \in Slots, NEW i \in Items, Get(c, i) PROVE TInv'
    <2> DEFINE q == slot[c]
    <2>1a. PICK ok \in BOOLEAN : \E r : Listed(c, i, ok, r)
      BY <1>6, GetSplit
    <2>1. PICK r : Listed(c, i, ok, r)
      BY <2>1a
    <2>2. IsRequest(q, ops) /\ q.pc \in {"get", "members"} /\ RoundMoves(Tried(q, ok), i, ok, r)
      BY <1>0, <2>1 DEF Listed
    <2>3. IsRequest(r, ops) /\ r.op = q.op /\ DOMAIN r = Fields
      <3>1. db.acl \subseteq Permissions
        BY DEF Stores
      <3> HIDE DEF q
      <3> QED BY <2>2, <3>1, RoundRequest
    <2>4. /\ slot' = Watched([slot EXCEPT ![c] = r], db) /\ UNCHANGED <<search, db, ops>> /\ faults' \in 0..MaxFaults
      BY <2>1 DEF Listed
    <2>5. Running(q)
      BY <2>2 DEF Running
    <2>6. /\ DOMAIN slot' = Slots /\ Tracks(r, slot'[c], db)
          /\ \A b \in Slots : b # c => Kept(slot[b], slot'[b], db, db)
      BY <2>3, <2>4, <2>5, WatchedSlots
    <2>7. IsRequest(slot'[c], ops')
      BY <2>3, <2>4, <2>6, TracksRequest
    <2>8. \A b \in Slots : b # c => IsRequest(slot'[b], ops')
      <3>1. ops' = ops /\ ops \in Nat /\ ops <= ops
        BY <2>4, OpsFacts
      <3> SUFFICES ASSUME NEW b \in Slots, b # c PROVE IsRequest(slot'[b], ops')
        OBVIOUS
      <3>2. Kept(slot[b], slot'[b], db, db') /\ IsRequest(slot[b], ops)
        BY <1>0, <2>4, <2>6
      <3> QED BY <3>1, <3>2, KeptRequest
    <2>9. OpsBound' = OpsBound
      BY <2>4 DEF OpsBound
    <2> QED BY <1>0, <2>4, <2>6, <2>7, <2>8, <2>9 DEF Requests
  <1>7. CASE UNCHANGED vars
    BY <1>7 DEF vars, history, Requests, Stores, OpsBound
  <1> QED BY <1>1, <1>2, <1>3, <1>4, <1>5, <1>6, <1>7 DEF Step

(* The program starts so. *)
LEMMA TypesInit == Init => TInv
  <1> SUFFICES ASSUME Init PROVE TInv
    OBVIOUS
  <1>1. Requests
    <2>1. ops \in 0..OpsBound /\ faults \in 0..MaxFaults /\ search \in BOOLEAN
      BY AdminAssumption DEF Init, OpsBound
    <2>2. DOMAIN slot = Slots /\ \A c \in Slots : slot[c] = Free
      BY DEF Init
    <2> QED BY <2>1, <2>2, FreeRequest DEF Requests
  <1>2. Stores(db)
    <2>1. /\ DOMAIN db = Parts
          /\ db.records = [i \in Items |-> IF i \in Archived THEN 0 ELSE None]
          /\ db.acl = {} /\ db.usersHot = {} /\ db.docsHot = {} /\ db.docsCold = Archived /\ db.log = OldLog
      BY DEF Init, Parts
    <2>2. 0 \in 0..MaxOps
      BY AdminAssumption
    <2>3. OldLog \in Seq({None} \union 0..MaxOps)
      <3> DEFINE S == {0, None}
                 T == {None} \union 0..MaxOps
      <3>1. OldLog \in Seq(S) /\ S \subseteq T
        BY <2>2, AdminAssumption
      <3> HIDE DEF S, T
      <3>2. OldLog \in Seq(T)
        BY <3>1
      <3> QED BY <3>2 DEF T
    <2> QED BY <2>1, <2>2, <2>3, AdminAssumption DEF Stores
  <1> QED BY <1>1, <1>2 DEF TInv

(* Requests and stores are well-formed in every run. *)
LEMMA TypesHold == Spec => []TInv
  BY TypesInit, TypesKept, PTL DEF Spec

(* Types of the stores and of what requests list and answer. *)
THEOREM AdminTypeOKHolds == Spec => []TypeOK
  <1>1. TInv => TypeOK
    BY OpsFacts DEF TInv, Requests, Stores, IsRequest, TypeOK
  <1> QED BY <1>1, TypesHold, PTL

----
(* Listings. *)
LEMMA ShownAlike ==
  ASSUME NEW q, NEW s, s.op = q.op, s.id = q.id, s.t = q.t, NEW m
  PROVE  Shown(s, m) = Shown(q, m)
  BY DEF Shown

(* A listing that need show less still shows enough. *)
LEMMA CompleteLess ==
  ASSUME NEW q, NEW s, Resembles(q, s), s.always \subseteq q.always, Complete(q)
  PROVE  Complete(s)
  <1>1. Wanted(s) \subseteq Wanted(q)
    BY DEF Wanted, Resembles
  <1> QED BY <1>1 DEF Complete, Resembles

(* While others change the stores, a listing need show less and may show more. *)
LEMMA KeptFollowing ==
  ASSUME NEW q, NEW s, NEW m, NEW m2, Kept(q, s, m, m2), Following(q, m)
  PROVE  Following(s, m2)
  <1>1. CASE s = Free
    <2>1. s.out = {} /\ ~Lists(s) /\ s.always = {}
      BY <1>1, FreeFields DEF Lists
    <2> QED BY <2>1 DEF Following
  <1>2. CASE s = q /\ ~Running(q)
    BY <1>2 DEF Following
  <1>3. CASE /\ Running(q) /\ Resembles(q, s)
             /\ q.there \subseteq s.there /\ s.always \subseteq q.always
             /\ Lists(q) /\ q.always \subseteq Shown(q, m) => s.always \subseteq Shown(q, m2)
    <2>1. s.op = q.op /\ s.id = q.id /\ s.t = q.t /\ s.out = q.out
      BY <1>3 DEF Resembles
    <2>2. Lists(s) <=> Lists(q)
      BY <2>1 DEF Lists
    <2>3. Shown(s, m2) = Shown(q, m2)
      BY <2>1, ShownAlike
    <2>4. Lists(q) => Complete(s)
      BY <1>3, CompleteLess DEF Following
    <2> QED BY <1>3, <2>1, <2>2, <2>3, <2>4 DEF Following
  <1> QED BY <1>1, <1>2, <1>3 DEF Kept

(* The slot of a request that went on is as it should be if the request is. *)
LEMMA TracksFollowing ==
  ASSUME NEW r, NEW s, NEW m, Tracks(r, s, m),
         r.out \subseteq r.there \/ (Lists(r) /\ r.out \subseteq r.there \union Shown(r, m)),
         Lists(r) => Complete(r), ~Lists(r) => r.always = {}
  PROVE  Following(s, m)
  <1>1. Resembles(r, s) /\ r.there \subseteq s.there /\ s.always \subseteq r.always
    BY DEF Tracks
  <1>2. s.op = r.op /\ s.id = r.id /\ s.t = r.t /\ s.out = r.out
    BY <1>1 DEF Resembles
  <1>3. Lists(s) <=> Lists(r)
    BY <1>2 DEF Lists
  <1>4. Shown(s, m) = Shown(r, m)
    BY <1>2, ShownAlike
  <1>5. Lists(r) => Complete(s)
    BY <1>1, CompleteLess
  <1>6. Lists(r) => Shown(r, m) \subseteq s.there /\ s.always \subseteq Shown(r, m)
    BY DEF Tracks
  <1>7. s.out \subseteq s.there
    BY <1>1, <1>2, <1>6
  <1> QED BY <1>1, <1>2, <1>3, <1>4, <1>5, <1>6, <1>7 DEF Following

(* A call of a listing. *)
LEMMA ListCall ==
  ASSUME NEW f, NEW k, IsRequest(f, k), Running(f), f.op = "list", Complete(f), f.always \subseteq Shown(f, db),
         NEW ok \in BOOLEAN, ~ok => f.failed, NEW r, ListMoves(f, ok, r)
  PROVE  Complete(r)
  <1>1. Same(f, r)
    BY DEF ListMoves, Searches
  <1>2. /\ r.op = "list" /\ r.always = f.always /\ r.keyword = f.keyword /\ r.failed = f.failed
    BY <1>1 DEF Same
  <1>3. Shown(f, db) = Present(KindOf(f.id))
    BY DEF Shown, Present
  <1>4. Wanted(r) \subseteq Present(KindOf(f.id))
    BY <1>2, <1>3 DEF Wanted
  <1>5. CASE Searches(f, r)
    <2>1. f.pc \in {"search", "searchHot", "searchCold"} /\ r.matching = f.matching
      BY <1>5 DEF Searches
    <2>2. ~f.matching
      BY <2>1 DEF Complete
    <2> QED BY <1>2, <2>1, <2>2 DEF Complete
  <1>6. CASE /\ r.matching = TRUE
             /\ \/ r.pc = "get" /\ r.todo = Present(KindOf(f.id))
                \/ r.pc = "done" /\ (ok => Present(KindOf(f.id)) = {})
    BY <1>2, <1>4, <1>6 DEF Complete
  <1> QED BY <1>5, <1>6 DEF ListMoves

(* The call that finds the acl keys of a tenant finds all that must be shown. *)
LEMMA PermissionsCall ==
  ASSUME NEW f, f.op = "permissions", Complete(f), f.always \subseteq Shown(f, db), db.acl \subseteq Permissions,
         NEW ok \in BOOLEAN, ~ok => f.failed, NEW r, AclKeysMoves(f, ok, r)
  PROVE  Complete(r)
  <1>1. Same(f, r) /\ r.matching = f.matching
    BY DEF AclKeysMoves, Replies
  <1>2. /\ r.op = "permissions" /\ r.always = f.always /\ r.keyword = f.keyword /\ r.failed = f.failed
    BY <1>1 DEF Same
  <1>3. \A p \in Wanted(r) : p[2] \in UsersOf(f.t)
    <2> SUFFICES ASSUME NEW p \in Wanted(r) PROVE p[2] \in UsersOf(f.t)
      OBVIOUS
    <2>1. p \in db.acl /\ p[1] = f.t
      BY <1>2 DEF Wanted, Shown
    <2>2. p = <<f.t, p[2], p[3]>> /\ p[2] \in Users /\ p[3] \in Docs
      BY <2>1, PermissionParts
    <2>3. <<f.t, p[2], p[3]>> \in db.acl
      BY <2>1, <2>2
    <2> QED BY <2>2, <2>3 DEF UsersOf
  <1>4. f.matching
    BY DEF Complete
  <1>5. CASE ~ok /\ Replies(f, r, "500")
    BY <1>1, <1>2, <1>4, <1>5 DEF Complete, Replies
  <1>6. CASE UsersOf(f.t) = {} /\ Replies(f, r, "200")
    <2>1. Wanted(r) = {}
      BY <1>3, <1>6
    <2> QED BY <1>1, <1>2, <1>4, <1>6, <2>1 DEF Complete, Replies
  <1>7. CASE r.pc = "members" /\ r.todo = UsersOf(f.t)
    BY <1>1, <1>2, <1>3, <1>4, <1>7 DEF Complete
  <1> QED BY <1>5, <1>6, <1>7 DEF AclKeysMoves

(* A round of a listing. *)
LEMMA RoundComplete ==
  ASSUME NEW f, NEW k, IsRequest(f, k), f.pc \in {"get", "members"}, Complete(f), f.always \subseteq Shown(f, db),
         db.acl \subseteq Permissions,
         NEW i, NEW ok \in BOOLEAN, ~ok => f.failed, NEW r, RoundMoves(f, i, ok, r)
  PROVE  Complete(r) /\ r.out \subseteq f.out \union Shown(r, db)
  <1>1. Same(f, r) /\ r.matching = f.matching /\ r.todo = f.todo \ {i}
        /\ r.pc = IF f.todo = {i} THEN "done" ELSE f.pc
    BY DEF RoundMoves
  <1>2. /\ r.op = f.op /\ r.id = f.id /\ r.t = f.t /\ r.always = f.always /\ r.keyword = f.keyword
        /\ r.failed = f.failed
    BY <1>1 DEF Same
  <1>3. Shown(r, db) = Shown(f, db)
    BY <1>2, ShownAlike
  <1>4. Wanted(r) = Wanted(f)
    BY <1>2 DEF Wanted
  <1>5. CASE f.pc = "get"
    <2>1. f.op = "list"
      BY <1>5 DEF IsRequest, Shape
    <2>2. Shown(f, db) = Present(KindOf(f.id))
      BY <2>1 DEF Shown, Present
    <2>3. r.out = IF ok /\ Fetchable(f, i) THEN f.out \union {i} ELSE f.out
      BY <1>5 DEF RoundMoves
    <2>4. r.out \subseteq f.out \union Shown(r, db)
      BY <1>3, <2>2, <2>3 DEF Fetchable
    <2>5. ASSUME r.matching, ~r.failed
          PROVE  Wanted(r) \subseteq r.out \union r.todo
      <3>1. Wanted(f) \subseteq f.out \union f.todo /\ ok
        BY <1>1, <1>2, <1>5, <2>5 DEF Complete
      <3>2. i \in Wanted(f) => Fetchable(f, i)
        BY <2>2 DEF Wanted, Fetchable
      <3> QED BY <1>1, <1>4, <2>3, <3>1, <3>2
    <2>6. Complete(r)
      BY <1>1, <1>2, <1>5, <2>1, <2>5 DEF Complete
    <2> QED BY <2>4, <2>6
  <1>6. CASE f.pc = "members"
    <2>1. f.op = "permissions"
      BY <1>6 DEF IsRequest, Shape
    <2>2. Shown(f, db) = {p \in db.acl : p[1] = f.t}
      BY <2>1 DEF Shown
    <2>3. r.out = IF ok /\ InThreeParts(f.t, i)
                    THEN f.out \union {p \in db.acl : p[1] = f.t /\ p[2] = i} ELSE f.out
      BY <1>6 DEF RoundMoves
    <2>4. r.out \subseteq f.out \union Shown(r, db)
      BY <1>3, <2>2, <2>3
    <2>5. ASSUME r.matching, ~r.failed
          PROVE  \A p \in Wanted(r) : p \in r.out \/ p[2] \in r.todo
      <3> SUFFICES ASSUME NEW p \in Wanted(f) PROVE p \in r.out \/ p[2] \in r.todo
        BY <1>4
      <3>1. (p \in f.out \/ p[2] \in f.todo) /\ ok
        BY <1>1, <1>2, <1>6, <2>5 DEF Complete
      <3>2. p \in db.acl /\ p[1] = f.t /\ InThreeParts(p[1], p[2])
        BY <2>2 DEF Wanted
      <3>3. CASE p[2] = i
        <4>1. r.out = f.out \union {x \in db.acl : x[1] = f.t /\ x[2] = i}
          BY <2>3, <3>1, <3>2, <3>3
        <4> QED BY <3>2, <3>3, <4>1
      <3>4. CASE p[2] # i
        BY <1>1, <2>3, <3>1, <3>4
      <3> QED BY <3>3, <3>4
    <2>6. Complete(r)
      <3>1. f.matching
        BY <2>1 DEF Complete
      <3>2. f.todo = {i} => r.todo = {}
        BY <1>1
      <3> QED BY <1>1, <1>2, <1>6, <2>1, <2>5, <3>1, <3>2 DEF Complete
    <2> QED BY <2>4, <2>6
  <1> QED BY <1>5, <1>6

(* Every step keeps the listings as they should be. *)
LEMMA ListingsKept == TInv /\ ListingsOK /\ [Next]_vars => ListingsOK'
  <1> SUFFICES ASSUME TInv, ListingsOK, Step, NEW b \in Slots PROVE Following(slot'[b], db')
    BY NextStep DEF TInv, ListingsOK
  <1>0. Requests /\ Stores(db) /\ DOMAIN slot = Slots /\ db.acl \subseteq Permissions
    BY DEF TInv, Requests, Stores
  <1>1. IsRequest(slot[b], ops) /\ Following(slot[b], db)
    BY DEF TInv, Requests, ListingsOK
  <1>2. ASSUME Kept(slot[b], slot'[b], db, db') PROVE Following(slot'[b], db')
    BY <1>1, <1>2, KeptFollowing
  <1>3. ASSUME NEW c \in Slots, NEW q, Fresh(q), Begin(c, q) PROVE Following(slot'[b], db')
    <2>1. /\ Arrived(q, slot'[c]) /\ db' = db
          /\ \A x \in Slots : x # c => Kept(slot[x], slot'[x], db, db)
      BY <1>0, <1>3, BeginSlots
    <2>2. CASE b = c
      <3> DEFINE p == [q EXCEPT !.no = ops + 1]
                 s == slot'[c]
      <3>1. /\ p.op = q.op /\ p.id = q.id /\ p.t = q.t /\ p.pc = q.pc /\ p.matching = q.matching /\ p.out = {}
        BY <1>3 DEF Fresh, Fields
      <3>2. Resembles(p, s) /\ s.always = q.always
        BY <2>1 DEF Arrived
      <3> HIDE DEF p, s
      <3>3. /\ s.op = q.op /\ s.id = q.id /\ s.t = q.t /\ s.pc = q.pc /\ s.matching = q.matching /\ s.out = {}
        BY <3>1, <3>2 DEF Resembles
      <3>4. Shown(s, db) = Shown(q, db)
        BY <3>3, ShownAlike
      <3>5. Lists(s) => Complete(s)
        BY <1>3, <3>3 DEF Fresh, Lists, Complete
      <3>6. (Lists(s) => s.always = Shown(s, db)) /\ (~Lists(s) => s.always = {})
        BY <1>3, <3>2, <3>3, <3>4 DEF Fresh, Lists
      <3>7. Following(s, db)
        BY <3>3, <3>5, <3>6 DEF Following
      <3> QED BY <2>1, <2>2, <3>7 DEF s
    <2> QED BY <1>2, <2>1, <2>2
  <1>4. ASSUME NEW c \in Slots, NEW ok \in BOOLEAN, NEW r, Answered(c, ok, r) PROVE Following(slot'[b], db')
    <2> DEFINE q == slot[c]
               f == Tried(q, ok)
    <2>1. /\ IsRequest(q, ops) /\ Running(q) /\ ~IsLoop(q) /\ q.op # "none" /\ Moves(f, ok, r)
          /\ Following(q, db)
      BY <1>4 DEF Answered, TInv, Requests, ListingsOK
    <2>2. IsRequest(r, ops) /\ r.op = q.op /\ DOMAIN r = Fields /\ r.out = q.out
      <3> HIDE DEF q
      <3> QED BY <2>1, MovesRequest
    <2>3. slot' = Watched([slot EXCEPT ![c] = r], db')
      BY <1>4 DEF Answered
    <2>4. /\ Tracks(r, slot'[c], db')
          /\ \A x \in Slots : x # c => Kept(slot[x], slot'[x], db, db')
      BY <1>0, <2>1, <2>2, <2>3, WatchedSlots
    <2>5. /\ IsRequest(f, ops) /\ f.op = q.op /\ f.id = q.id /\ f.t = q.t /\ f.keyword = q.keyword /\ f.pc = q.pc
          /\ f.todo = q.todo /\ f.out = q.out /\ f.matching = q.matching /\ f.there = q.there
          /\ f.always = q.always /\ (ok => f.failed = q.failed) /\ (~ok => f.failed)
      BY <2>1, TriedFields
    <2> HIDE DEF q, f
    <2>6. Same(f, r)
      BY <2>1, <2>5, MovesKeeps DEF Running
    <2>7. r.there = q.there /\ r.always = q.always
      BY <2>5, <2>6 DEF Same
    <2>8. Lists(r) => Complete(r)
      <3> SUFFICES ASSUME Lists(q) PROVE Complete(r)
        BY <2>2 DEF Lists
      <3>1. Complete(f)
        <4>1. Wanted(f) = Wanted(q)
          BY <2>5 DEF Wanted
        <4>2. q.failed => f.failed
          BY <2>5
        <4>3. Complete(q)
          BY <2>1 DEF Following
        <4> QED BY <2>5, <4>1, <4>2, <4>3 DEF Complete
      <3>2. f.always \subseteq Shown(f, db)
        <4>1. Shown(f, db) = Shown(q, db)
          BY <2>5, ShownAlike
        <4> QED BY <2>1, <2>5, <4>1 DEF Following
      <3>3. CASE f.op = "list"
        BY <2>1, <2>5, <3>1, <3>2, <3>3, ListCall DEF Moves, Running
      <3>4. CASE f.op = "permissions"
        BY <1>0, <2>1, <2>5, <3>1, <3>2, <3>4, PermissionsCall DEF Moves
      <3> QED BY <2>5, <3>3, <3>4 DEF Lists
    <2>9. r.out \subseteq r.there /\ (~Lists(r) => r.always = {})
      BY <2>1, <2>2, <2>7 DEF Following, Lists
    <2>10. Following(slot'[c], db')
      BY <2>4, <2>8, <2>9, TracksFollowing
    <2> QED BY <1>2, <2>4, <2>10
  <1>5. ASSUME NEW c \in Slots, Repeat(c) \/ Expire(c) PROVE Following(slot'[b], db')
    <2>1. CASE Repeat(c)
      BY <1>0, <1>2, <2>1, RepeatSlots
    <2>2. CASE Expire(c)
      <3>1. Kept(slot[b], slot'[b], db, db) /\ db' = db
        BY <1>0, <2>2, ExpireSlots
      <3> QED BY <1>2, <3>1
    <2> QED BY <1>5, <2>1, <2>2
  <1>6. ASSUME NEW c \in Slots, NEW t \in Tenants, DelKey(c, t) PROVE Following(slot'[b], db')
    <2> DEFINE q == slot[c]
    <2>0. CASE KeyRepeated(c, t)
      BY <1>0, <1>2, <2>0, KeyRepeatedSlots
    <2> SUFFICES ASSUME \E ok \in BOOLEAN : \E r : KeyDeleted(c, t, ok, r) PROVE Following(slot'[b], db')
      BY <1>0, <1>6, <2>0, DelKeySplit
    <2>1a. PICK ok \in BOOLEAN : \E r : KeyDeleted(c, t, ok, r)
      OBVIOUS
    <2>1. PICK r : KeyDeleted(c, t, ok, r)
      BY <2>1a
    <2> DEFINE f == Tried(q, ok)
    <2>2. /\ IsRequest(q, ops) /\ q.pc = "delKey" /\ DelKeyMoves(f, t, r)
          /\ Following(q, db)
      BY <2>1 DEF KeyDeleted, TInv, Requests, ListingsOK
    <2>3. r.op = q.op /\ r.op = "delete" /\ DOMAIN r = Fields
      <3> HIDE DEF q
      <3> QED BY <2>2, DelKeyRequest
    <2>4. slot' = Watched([slot EXCEPT ![c] = r], db')
      BY <2>1 DEF KeyDeleted
    <2>5. Running(q)
      BY <2>2 DEF Running
    <2>6. /\ Tracks(r, slot'[c], db')
          /\ \A x \in Slots : x # c => Kept(slot[x], slot'[x], db, db')
      BY <1>0, <2>3, <2>4, <2>5, WatchedSlots
    <2>7. f.out = q.out /\ f.there = q.there /\ f.always = q.always
      BY <2>2, TriedFields
    <2> HIDE DEF q, f
    <2>8. r.out = q.out /\ r.there = q.there /\ r.always = q.always
      BY <2>2, <2>7 DEF DelKeyMoves, Same
    <2>9. ~Lists(r) /\ ~Lists(q)
      BY <2>3 DEF Lists
    <2>10. Following(slot'[c], db')
      BY <2>2, <2>6, <2>8, <2>9, TracksFollowing DEF Following
    <2> QED BY <1>2, <2>6, <2>10
  <1>7. ASSUME NEW c \in Slots, NEW i \in Items, Get(c, i) PROVE Following(slot'[b], db')
    <2> DEFINE q == slot[c]
    <2>1a. PICK ok \in BOOLEAN : \E r : Listed(c, i, ok, r)
      BY <1>0, <1>7, GetSplit
    <2>1. PICK r : Listed(c, i, ok, r)
      BY <2>1a
    <2> DEFINE f == Tried(q, ok)
    <2>2. /\ IsRequest(q, ops) /\ q.pc \in {"get", "members"} /\ RoundMoves(f, i, ok, r)
          /\ Following(q, db)
      BY <2>1 DEF Listed, TInv, Requests, ListingsOK
    <2>3. r.op = q.op /\ DOMAIN r = Fields /\ Lists(q)
      <3> HIDE DEF q
      <3> QED BY <1>0, <2>2, RoundRequest
    <2>4. slot' = Watched([slot EXCEPT ![c] = r], db) /\ db' = db
      BY <2>1 DEF Listed
    <2>5. Running(q)
      BY <2>2 DEF Running
    <2>6. /\ Tracks(r, slot'[c], db)
          /\ \A x \in Slots : x # c => Kept(slot[x], slot'[x], db, db)
      BY <1>0, <2>3, <2>4, <2>5, WatchedSlots
    <2>7. /\ IsRequest(f, ops) /\ f.op = q.op /\ f.id = q.id /\ f.t = q.t /\ f.keyword = q.keyword /\ f.pc = q.pc
          /\ f.todo = q.todo /\ f.out = q.out /\ f.matching = q.matching /\ f.there = q.there
          /\ f.always = q.always /\ (ok => f.failed = q.failed) /\ (~ok => f.failed)
      BY <2>2, TriedFields
    <2> HIDE DEF q, f
    <2>8. Complete(f)
      <3>1. Wanted(f) = Wanted(q)
        BY <2>7 DEF Wanted
      <3>2. q.failed => f.failed
        BY <2>7
      <3>3. Complete(q)
        BY <2>2, <2>3 DEF Following
      <3> QED BY <2>7, <3>1, <3>2, <3>3 DEF Complete
    <2>9. f.always \subseteq Shown(f, db)
      <3>1. Shown(f, db) = Shown(q, db)
        BY <2>7, ShownAlike
      <3> QED BY <2>2, <2>3, <2>5, <2>7, <3>1 DEF Following
    <2>10. Complete(r) /\ r.out \subseteq f.out \union Shown(r, db)
      BY <1>0, <2>2, <2>7, <2>8, <2>9, RoundComplete
    <2>11. Same(f, r)
      BY <2>2 DEF RoundMoves
    <2>12. r.there = f.there /\ f.out \subseteq f.there /\ Lists(r)
      BY <2>2, <2>3, <2>7, <2>11 DEF Same, Following, Lists
    <2>13. r.out \subseteq r.there \union Shown(r, db)
      BY <2>10, <2>12
    <2>14. Following(slot'[c], db)
      BY <2>6, <2>10, <2>12, <2>13, TracksFollowing
    <2> QED BY <1>2, <2>4, <2>6, <2>14
  <1>8. CASE UNCHANGED vars
    BY <1>1, <1>8 DEF vars
  <1> QED BY <1>3, <1>4, <1>5, <1>6, <1>7, <1>8 DEF Step

(* Listings are as they should be in every run. *)
LEMMA ListingsHold == Spec => []ListingsOK
  <1>1. Init => ListingsOK
    <2>1. Free.out = {} /\ ~Lists(Free) /\ Free.always = {}
      BY FreeFields DEF Lists
    <2> QED BY <2>1 DEF Init, ListingsOK, Following
  <1> QED BY <1>1, TypesHold, ListingsKept, PTL DEF Spec

(* A listing shows only what was there at some moment of it. *)
THEOREM ListedWasThereHolds == Spec => []ListedWasThere
  <1>1. ListingsOK => ListedWasThere
    BY DEF ListingsOK, Following, ListedWasThere
  <1> QED BY <1>1, ListingsHold, PTL

(* A listing without a failed call that goes through all records, or all   *)
(* permissions of a tenant, shows what was there all the time.             *)
THEOREM ListingCompleteHolds == Spec => []ListingComplete
  <1>1. TInv /\ ListingsOK => ListingComplete
    <2> SUFFICES ASSUME TInv, ListingsOK, NEW c \in Slots, ~Running(slot[c]), ~slot[c].failed, slot[c].matching
                 PROVE  Wanted(slot[c]) \subseteq slot[c].out
      BY DEF ListingComplete, Wanted
    <2>1. Following(slot[c], db)
      BY DEF ListingsOK
    <2>2. CASE Lists(slot[c])
      BY <2>1, <2>2 DEF Following, Complete, Running
    <2>3. CASE ~Lists(slot[c])
      BY <2>1, <2>3 DEF Following, Wanted
    <2> QED BY <2>2, <2>3
  <1> QED BY <1>1, TypesHold, ListingsHold, PTL

----
(* The audit list only grows, by LPUSH, at its head. *)
Grown(l, l2) ==
    /\ Len(l) \in Nat /\ Len(l2) \in Nat /\ Len(l) <= Len(l2)
    /\ DOMAIN l = 1..Len(l) /\ DOMAIN l2 = 1..Len(l2)
    /\ \A k \in 1..Len(l) : l2[k + (Len(l2) - Len(l))] = l[k]

(* A list nobody has written to. *)
LEMMA SameGrown ==
  ASSUME NEW S, NEW l \in Seq(S)
  PROVE  Grown(l, l)
  <1>1. Len(l) \in Nat /\ DOMAIN l = 1..Len(l)
    OBVIOUS
  <1>2. ASSUME NEW k \in 1..Len(l) PROVE l[k + (Len(l) - Len(l))] = l[k]
    <2>1. k + (Len(l) - Len(l)) = k
      BY <1>1
    <2> QED BY <2>1
  <1> QED BY <1>1, <1>2 DEF Grown

(* An LPUSH adds the new entry and keeps the others in order. *)
LEMMA Prepended ==
  ASSUME NEW S, NEW l \in Seq(S), NEW x \in S
  PROVE  Grown(l, <<x>> \o l) /\ Range(<<x>> \o l) = Range(l) \union {x}
  <1> DEFINE l2 == <<x>> \o l
  <1>1. /\ Len(l) \in Nat /\ DOMAIN l = 1..Len(l)
        /\ l2 \in Seq(S) /\ Len(l2) = Len(l) + 1 /\ DOMAIN l2 = 1..Len(l2)
        /\ l2[1] = x /\ \A k \in 1..Len(l) : l2[k + 1] = l[k]
    OBVIOUS
  <1> HIDE DEF l2
  <1>2. ASSUME NEW k \in 1..Len(l)
        PROVE  k + 1 \in 1..Len(l2) /\ l2[k + 1] = l[k] /\ k + (Len(l2) - Len(l)) = k + 1
    BY <1>1
  <1>3. Grown(l, l2)
    BY <1>1, <1>2 DEF Grown
  <1>4. Range(l2) \subseteq Range(l) \union {x}
    <2> SUFFICES ASSUME NEW k \in 1..Len(l2) PROVE l2[k] \in Range(l) \union {x}
      BY <1>1 DEF Range
    <2>1. CASE k = 1
      BY <1>1, <2>1
    <2>2. CASE k # 1
      <3>1. k - 1 \in 1..Len(l) /\ (k - 1) + 1 = k
        BY <1>1, <2>2
      <3>2. l2[k] = l[k - 1]
        BY <1>1, <3>1
      <3> QED BY <1>1, <3>1, <3>2 DEF Range
    <2> QED BY <2>1, <2>2
  <1>5. Range(l) \subseteq Range(l2)
    <2> SUFFICES ASSUME NEW k \in 1..Len(l) PROVE l[k] \in Range(l2)
      BY <1>1 DEF Range
    <2> QED BY <1>1, <1>2 DEF Range
  <1>6. x \in Range(l2)
    <2>1. 1 \in 1..Len(l2)
      BY <1>1
    <2> QED BY <1>1, <2>1 DEF Range
  <1> QED BY <1>3, <1>4, <1>5, <1>6 DEF l2

(* A list that has grown has lost no entry. *)
LEMMA GrownRange ==
  ASSUME NEW l, NEW l2, Grown(l, l2)
  PROVE  Range(l) \subseteq Range(l2)
  <1> SUFFICES ASSUME NEW k \in 1..Len(l) PROVE l[k] \in Range(l2)
    BY DEF Grown, Range
  <1>1. k + (Len(l2) - Len(l)) \in 1..Len(l2)
    BY DEF Grown
  <1>2. l2[k + (Len(l2) - Len(l))] = l[k]
    BY DEF Grown
  <1> QED BY <1>1, <1>2 DEF Grown, Range

(* What a reader was shown of a list it is shown of the list as it grew:   *)
(* only more entries are newer.                                            *)
LEMMA AsOfGrown ==
  ASSUME NEW q, q.total \in Nat, q.limit \in Int, NEW l, NEW l2, AsOf(q, l), Grown(l, l2)
  PROVE  AsOf(q, l2)
  <1>1. PICK newer \in 0..(Len(l) - q.total) : Newest(q, l, newer)
    BY DEF AsOf
  <1> DEFINE newer2 == newer + (Len(l2) - Len(l))
             len == Len(l) - newer
             asked == IF q.limit > 0 THEN q.limit ELSE len + q.limit
  <1>2. Len(l) \in Nat /\ Len(l2) \in Nat /\ Len(l) <= Len(l2)
    BY DEF Grown
  <1>3. newer2 \in 0..(Len(l2) - q.total) /\ Len(l2) - newer2 = len
    BY <1>2
  <1>4. ASSUME NEW k \in 1..len PROVE l2[newer2 + k] = l[newer + k]
    <2>1. newer + k \in 1..Len(l) /\ (newer + k) + (Len(l2) - Len(l)) = newer2 + k
      BY <1>2
    <2> HIDE DEF newer2, len
    <2> QED BY <2>1 DEF Grown
  <1>5. q.logs = [k \in {k \in 1..len : k <= asked /\ l[newer + k] # None} |-> l[newer + k]]
    BY <1>1 DEF Newest
  <1> HIDE DEF newer2, len
  <1>6. {k \in 1..len : k <= asked /\ l[newer + k] # None}
          = {k \in 1..len : k <= asked /\ l2[newer2 + k] # None}
    BY <1>4
  <1>7. q.logs = [k \in {k \in 1..len : k <= asked /\ l2[newer2 + k] # None} |-> l2[newer2 + k]]
    BY <1>4, <1>5, <1>6
  <1>8. Newest(q, l2, newer2)
    BY <1>3, <1>7 DEF Newest
  <1> QED BY <1>3, <1>8 DEF AsOf

(* The audit list tells the truth. *)
LEMMA GrownTruthful ==
  ASSUME NEW q, NEW l, NEW a, NEW u, Truthful(q, l, a, u),
         NEW l2, NEW a2, NEW u2, Grown(l, l2), a \subseteq a2, u \subseteq u2
  PROVE  Truthful(q, l2, a2, u2)
  <1>1. Changes(q) /\ q.pc \in MadePlaces => q.no \in a2
    BY DEF Truthful
  <1>2. Changes(q) /\ q.reply = "200" /\ q.no \notin u2 => q.no \in Range(l2)
    BY GrownRange DEF Truthful
  <1>3. q.op = "audit" => q.limit \in Int /\ (Running(q) => q.reply = "none")
    BY DEF Truthful
  <1>4. q.pc = "lrange" => q.total \in Nat /\ q.total <= Len(l2)
    BY DEF Truthful, Grown
  <1>5. q.op = "audit" /\ q.reply = "200" => q.limit \in Int /\ q.total \in Nat /\ AsOf(q, l2)
    BY AsOfGrown DEF Truthful
  <1> QED BY <1>1, <1>2, <1>3, <1>4, <1>5 DEF Truthful

(* A request that looks alike says as much. *)
LEMMA AlikeTruthful ==
  ASSUME NEW q, NEW s, Resembles(q, s), NEW l, NEW a, NEW u, Truthful(q, l, a, u)
  PROVE  Truthful(s, l, a, u)
  <1>1. /\ s.op = q.op /\ s.no = q.no /\ s.pc = q.pc /\ s.reply = q.reply
        /\ s.limit = q.limit /\ s.total = q.total /\ s.logs = q.logs
    BY DEF Resembles
  <1>2. AsOf(s, l) <=> AsOf(q, l)
    BY <1>1 DEF AsOf, Newest
  <1> QED BY <1>1, <1>2 DEF Truthful, Changes, Running

(* A slot without a request says nothing. *)
LEMMA FreeTruthful ==
  ASSUME NEW l, NEW a, NEW u
  PROVE  Truthful(Free, l, a, u)
  BY FreeFields DEF Truthful, Changes

(* What a request says of the audit list stays true as the list grows. *)
LEMMA KeptTruthful ==
  ASSUME NEW q, NEW s, NEW m, NEW m2, Kept(q, s, m, m2), NEW l, NEW a, NEW u, Truthful(q, l, a, u),
         NEW l2, NEW a2, NEW u2, Grown(l, l2), a \subseteq a2, u \subseteq u2
  PROVE  Truthful(s, l2, a2, u2)
  <1>1. Truthful(q, l2, a2, u2)
    BY GrownTruthful
  <1>2. CASE s = Free
    BY <1>2, FreeTruthful
  <1>3. CASE s = q
    BY <1>1, <1>3
  <1>4. CASE Resembles(q, s)
    BY <1>1, <1>4, AlikeTruthful
  <1> QED BY <1>2, <1>3, <1>4 DEF Kept

(* A change's entry is written, or refused, before it is answered with 200. *)
LEMMA ChangeTruthful ==
  ASSUME NEW f, NEW k, IsRequest(f, k), Running(f), ~IsLoop(f), Changes(f), NEW ok \in BOOLEAN, NEW r, Moves(f, ok, r),
         NEW l, NEW a, NEW u, Truthful(f, l, a, u),
         ok /\ MakesChange(f) => f.no \in a, f.pc = "audit" => f.no \in u \/ f.no \in Range(l)
  PROVE  Truthful(r, l, a, u)
  <1>0. f.op # "none" /\ f.op # "audit"
    BY DEF Changes
  <1>1. Same(f, r) /\ Shape(r)
    BY <1>0, MovesKeeps
  <1>2. r.op = f.op /\ r.no = f.no /\ r.id = f.id
    BY <1>1 DEF Same
  <1>3. /\ r.pc \in MadePlaces => f.pc \in MadePlaces \/ (ok /\ MakesChange(f))
        /\ r.reply = "200" => f.reply = "200" \/ f.pc = "audit"
    <2>1. CASE f.op = "create"
      <3>1. CreateMoves(f, ok, r)
        BY <2>1 DEF Moves
      <3> QED BY <3>1 DEF CreateMoves, Goes, Replies, MadePlaces, MakesChange
    <2>2. CASE f.op = "delete" /\ f.id \in Users
      <3>1. DeleteUserMoves(f, ok, r)
        BY <2>2 DEF Moves
      <3> QED BY <3>1 DEF DeleteUserMoves, Goes, Replies, MadePlaces, MakesChange
    <2>3. CASE f.op = "delete" /\ f.id \in Docs
      <3>1. DeleteDocumentMoves(f, ok, r)
        BY <2>3 DEF Moves
      <3> QED BY <3>1 DEF DeleteDocumentMoves, Goes, Replies, MadePlaces, MakesChange
    <2>4. CASE f.op \in {"grant", "revoke"}
      <3>1. PermissionMoves(f, ok, r)
        BY <2>4 DEF Moves
      <3> QED BY <3>1 DEF PermissionMoves, Goes, Replies, MadePlaces, MakesChange
    <2> QED BY <2>1, <2>2, <2>3, <2>4 DEF IsRequest, Shape, Changes
  <1>4. r.pc \in MadePlaces => r.no \in a
    BY <1>2, <1>3 DEF Truthful
  <1>5. r.reply = "200" /\ r.no \notin u => r.no \in Range(l)
    BY <1>2, <1>3 DEF Truthful
  <1>6. r.pc # "lrange"
    BY <1>1, <1>2 DEF Shape, Changes
  <1> QED BY <1>0, <1>2, <1>4, <1>5, <1>6 DEF Truthful

(* GetAuditLogs reads the length before the entries; the list only grows.  *)
LEMMA AuditTruthful ==
  ASSUME NEW f, f.op = "audit", Running(f), NEW ok \in BOOLEAN, NEW r, AuditMoves(f, ok, r),
         NEW S, db.log \in Seq(S), NEW a, NEW u, Truthful(f, db.log, a, u)
  PROVE  Truthful(r, db.log, a, u)
  <1> DEFINE l == db.log
  <1>1. Same(f, r)
    BY DEF AuditMoves, Replies
  <1>2. r.op = "audit" /\ r.limit = f.limit /\ f.limit \in Int /\ f.reply = "none" /\ ~Changes(r)
    BY <1>1 DEF Same, Truthful, Changes
  <1>3. Len(l) \in Nat
    OBVIOUS
  <1>4. CASE Replies(f, r, "500")
    BY <1>2, <1>4 DEF Replies, Truthful, Running
  <1>5. CASE r.pc = "lrange" /\ r.total = Len(l) /\ r.reply = f.reply
    BY <1>2, <1>3, <1>5 DEF Truthful
  <1>6. CASE f.pc = "lrange" /\ r.pc = "done" /\ r.reply = "200" /\ r.total = f.total
             /\ r.logs = Answer(f)
    <2>1. f.total \in Nat /\ f.total <= Len(l)
      BY <1>6 DEF Truthful
    <2> DEFINE len == Len(l)
               asked == IF r.limit > 0 THEN r.limit ELSE len + r.limit
               n == LRange(len, r.limit - 1)
    <2>2. r.logs = [k \in {k \in 1..n : l[k] # None} |-> l[k]]
      BY <1>2, <1>6 DEF Answer, Readable
    <2>3. ASSUME NEW k \in 1..len PROVE k <= n <=> k <= asked
      BY <1>2, <1>3 DEF LRange
    <2>4. n \in 0..len
      BY <1>2, <1>3 DEF LRange
    <2> HIDE DEF l, n, asked
    <2>5. {k \in 1..n : l[k] # None} = {k \in 1..len : k <= asked /\ l[k] # None}
      <3>1. ASSUME NEW k PROVE k \in 1..n <=> k \in 1..len /\ k <= asked
        <4>1. k \in 1..n <=> k \in 1..len /\ k <= n
          BY <1>3, <2>4 DEF l
        <4> QED BY <2>3, <4>1
      <3> QED BY <3>1
    <2>6. Newest(r, l, 0)
      <3>1. Len(l) - 0 = len /\ \A k \in 1..len : 0 + k = k
        BY <1>3
      <3>2. \A k \in {k \in 1..len : k <= asked /\ l[k] # None} : l[0 + k] = l[k]
        BY <3>1
      <3>3. {k \in 1..len : k <= asked /\ l[0 + k] # None} = {k \in 1..len : k <= asked /\ l[k] # None}
        BY <3>1
      <3>4. r.logs = [k \in {k \in 1..len : k <= asked /\ l[0 + k] # None} |-> l[0 + k]]
        BY <2>2, <2>5, <3>2, <3>3
      <3> QED BY <3>1, <3>4 DEF Newest, asked
    <2>7. AsOf(r, l)
      <3>1. 0 \in 0..(Len(l) - r.total)
        BY <1>3, <1>6, <2>1
      <3> QED BY <2>6, <3>1 DEF AsOf
    <2> QED BY <1>2, <1>6, <2>1, <2>7 DEF Truthful, Running, l
  <1> QED BY <1>4, <1>5, <1>6 DEF AuditMoves

(* Only the call of a change that writes its entry touches the list.       *)
LEMMA EffectLog ==
  ASSUME NEW m, Stores(m), NEW q, NEW k \in 0..MaxOps, IsRequest(q, k), Running(q),
         NEW a, NEW u, Truthful(q, m.log, a, u)
  PROVE  LET n == Effect(m, q) IN
         /\ Grown(m.log, n.log)
         /\ q.pc = "audit" => q.no \in Range(n.log) /\ q.no \in a /\ Changes(q)
         /\ q.pc # "audit" => n.log = m.log
         /\ Range(n.log) \subseteq Range(m.log) \union a
  <1> DEFINE n == Effect(m, q)
  <1> DEFINE S == {None} \union 0..MaxOps
  <1>1. DOMAIN m = Parts /\ m.log \in Seq(S) /\ MaxOps \in Nat
    BY AdminAssumption DEF Stores
  <1>2. n.log = IF q.pc = "audit" THEN <<q.no>> \o m.log ELSE m.log
    BY <1>1, EffectParts DEF PartsAre
  <1>3. q.no \in S
    BY <1>1 DEF IsRequest
  <1> HIDE DEF n, S
  <1>4. CASE q.pc = "audit"
    <2>1. Changes(q)
      BY <1>4 DEF IsRequest, Shape, Changes
    <2>2. q.no \in a
      BY <1>4, <2>1 DEF Truthful, MadePlaces
    <2>3. Grown(m.log, <<q.no>> \o m.log) /\ Range(<<q.no>> \o m.log) = Range(m.log) \union {q.no}
      BY <1>1, <1>3, Prepended
    <2> QED BY <1>2, <1>4, <2>1, <2>2, <2>3 DEF n
  <1>5. CASE q.pc # "audit"
    <2>1. Grown(m.log, m.log)
      BY <1>1, SameGrown
    <2> QED BY <1>2, <1>5, <2>1 DEF n
  <1> QED BY <1>4, <1>5

(* Every step keeps the audit list truthful. *)
LEMMA AuditKept == TInv /\ AuditOK /\ [Next]_vars => AuditOK'
  <1> SUFFICES ASSUME TInv, AuditOK, Step PROVE AuditOK'
    BY NextStep DEF TInv
  <1>0. Requests /\ Stores(db) /\ DOMAIN slot = Slots /\ db.log \in Seq({None} \union 0..MaxOps) /\ ops \in 0..MaxOps
    BY OpsFacts DEF TInv, Requests, Stores
  <1>1. \A b \in Slots : IsRequest(slot[b], ops) /\ Truthful(slot[b], db.log, applied, unlogged)
    BY DEF TInv, Requests, AuditOK
  <1>2. Range(db.log) \subseteq applied \union Range(OldLog)
    BY DEF AuditOK
  <1>3. Grown(db.log, db.log)
    BY <1>0, SameGrown
  <1>4. ASSUME Grown(db.log, db'.log), applied \subseteq applied', unlogged \subseteq unlogged',
               NEW b \in Slots, Kept(slot[b], slot'[b], db, db')
        PROVE  Truthful(slot'[b], db'.log, applied', unlogged')
    BY <1>1, <1>4, KeptTruthful
  <1>5. ASSUME NEW c \in Slots, NEW q, Fresh(q), Begin(c, q) PROVE AuditOK'
    <2>1. /\ Arrived(q, slot'[c])
          /\ \A x \in Slots : x # c => Kept(slot[x], slot'[x], db, db)
          /\ UNCHANGED <<db, applied, unlogged>>
      BY <1>0, <1>5, BeginSlots
    <2>2. Truthful(slot'[c], db.log, applied, unlogged)
      <3> DEFINE p == [q EXCEPT !.no = ops + 1]
                 s == slot'[c]
      <3>1. p.op = q.op /\ p.pc = q.pc /\ p.reply = q.reply /\ p.limit = q.limit
        BY <1>5 DEF Fresh, Fields
      <3>2. Resembles(p, s)
        BY <2>1 DEF Arrived
      <3> HIDE DEF p, s
      <3>3. s.op = q.op /\ s.pc = q.pc /\ s.reply = "none" /\ s.limit = q.limit
        BY <1>5, <3>1, <3>2 DEF Resembles, Fresh
      <3>4. (s.pc \notin MadePlaces \/ s.op \in {"list", "permissions"}) /\ s.pc # "lrange"
        BY <1>5, <3>3 DEF Fresh, MadePlaces, Shape
      <3>5. s.op = "audit" => s.limit \in Int
        BY <1>5, <3>3 DEF Fresh
      <3>6. Truthful(s, db.log, applied, unlogged)
        BY <3>3, <3>4, <3>5 DEF Truthful, Changes
      <3> QED BY <3>6 DEF s
    <2>3. \A b \in Slots : b # c => Truthful(slot'[b], db'.log, applied', unlogged')
      BY <1>3, <1>4, <2>1
    <2> QED BY <1>2, <2>1, <2>2, <2>3 DEF AuditOK
  <1>6. ASSUME NEW c \in Slots, NEW ok \in BOOLEAN, NEW r, Answered(c, ok, r) PROVE AuditOK'
    <2> DEFINE q == slot[c]
               f == Tried(q, ok)
               l == db'.log
    <2>1. /\ IsRequest(q, ops) /\ Running(q) /\ ~IsLoop(q) /\ q.op # "none" /\ Moves(f, ok, r)
          /\ Truthful(q, db.log, applied, unlogged)
      BY <1>1, <1>6 DEF Answered
    <2>2. IsRequest(r, ops) /\ r.op = q.op /\ DOMAIN r = Fields
      <3> HIDE DEF q
      <3> QED BY <2>1, MovesRequest
    <2>3. /\ slot' = Watched([slot EXCEPT ![c] = r], db')
          /\ \/ /\ db' = Effect(db, q)
                /\ applied' = IF MakesChange(q) THEN applied \union {q.no} ELSE applied
             \/ ~ok /\ db' = db /\ applied' = applied
          /\ unlogged' = IF ~ok /\ q.pc = "audit" THEN unlogged \union {q.no} ELSE unlogged
      BY <1>6 DEF Answered
    <2>4. /\ Tracks(r, slot'[c], db')
          /\ \A x \in Slots : x # c => Kept(slot[x], slot'[x], db, db')
      BY <1>0, <2>1, <2>2, <2>3, WatchedSlots
    <2>5. /\ IsRequest(f, ops) /\ f.op = q.op /\ f.no = q.no /\ f.pc = q.pc /\ f.reply = q.reply
          /\ f.limit = q.limit /\ f.total = q.total /\ f.logs = q.logs
      BY <2>1, TriedFields
    <2>6. applied \subseteq applied' /\ unlogged \subseteq unlogged'
      BY <2>3
    <2>7. /\ Grown(db.log, l)
          /\ q.pc = "audit" /\ db' = Effect(db, q) => q.no \in Range(l)
          /\ q.pc = "audit" => Changes(q)
          /\ q.pc # "audit" => l = db.log
          /\ Range(l) \subseteq Range(db.log) \union applied
      <3>1. LET n == Effect(db, q) IN
            /\ Grown(db.log, n.log)
            /\ q.pc = "audit" => q.no \in Range(n.log) /\ q.no \in applied /\ Changes(q)
            /\ q.pc # "audit" => n.log = db.log
            /\ Range(n.log) \subseteq Range(db.log) \union applied
        <4> HIDE DEF q
        <4> QED BY <1>0, <2>1, EffectLog
      <3>2. CASE db' = Effect(db, q)
        BY <3>1, <3>2
      <3>3. CASE db' = db
        BY <1>3, <3>1, <3>3
      <3> QED BY <2>3, <3>2, <3>3
    <2>8. Range(l) \subseteq applied' \union Range(OldLog)
      BY <1>2, <2>6, <2>7
    <2>9. /\ ok /\ MakesChange(q) => q.no \in applied'
          /\ q.pc = "audit" => q.no \in unlogged' \/ q.no \in Range(l)
      BY <2>3, <2>7
    <2>10. \A b \in Slots : b # c => Truthful(slot'[b], db'.log, applied', unlogged')
      BY <1>4, <2>4, <2>6, <2>7
    <2> HIDE DEF q, f, l
    <2>11. Truthful(f, db.log, applied, unlogged)
      BY <2>1, <2>5 DEF Truthful, Changes, Running
    <2>12. Truthful(f, l, applied', unlogged')
      BY <2>6, <2>7, <2>11, GrownTruthful
    <2>13. Running(f) /\ ~IsLoop(f) /\ (Changes(f) <=> Changes(q)) /\ (MakesChange(f) <=> MakesChange(q))
      BY <2>1, <2>5 DEF Running, IsLoop, Changes, MakesChange
    <2>14. Truthful(r, l, applied', unlogged')
      <3>1. CASE Changes(q)
        BY <2>1, <2>5, <2>9, <2>12, <2>13, <3>1, ChangeTruthful
      <3>2. CASE q.op = "audit"
        <4>1. q.pc # "audit"
          BY <2>7, <3>2 DEF Changes
        <4>2. l = db.log
          BY <2>7, <4>1
        <4>3. AuditMoves(f, ok, r)
          BY <2>1, <2>5, <3>2 DEF Moves
        <4>4. Truthful(f, db.log, applied', unlogged')
          BY <2>12, <4>2
        <4>5. Truthful(r, db.log, applied', unlogged')
          BY <1>0, <2>5, <2>13, <3>2, <4>3, <4>4, AuditTruthful
        <4> QED BY <4>2, <4>5
      <3>3. CASE Lists(q)
        <4>1. r.op \in {"list", "permissions"} /\ r.pc # "lrange"
          BY <2>2, <3>3 DEF Lists, IsRequest, Shape
        <4> QED BY <4>1 DEF Truthful, Changes
      <3> QED BY <2>1, <3>1, <3>2, <3>3 DEF IsRequest, Changes, Lists
    <2>15. Truthful(slot'[c], l, applied', unlogged')
      BY <2>4, <2>14, AlikeTruthful DEF Tracks
    <2> QED BY <2>8, <2>10, <2>15 DEF AuditOK, l
  <1>7. ASSUME NEW c \in Slots, Repeat(c) PROVE AuditOK'
    <2> DEFINE q == slot[c]
    <2>1. /\ \A b \in Slots : Kept(slot[b], slot'[b], db, db')
          /\ Running(q) /\ ~IsLoop(q) /\ db' = Effect(db, q)
      BY <1>0, <1>7, RepeatSlots
    <2>2. applied \subseteq applied' /\ unlogged' = unlogged
      BY <1>7 DEF Repeat
    <2>3. Grown(db.log, db'.log) /\ Range(db'.log) \subseteq Range(db.log) \union applied
      <3>1. IsRequest(q, ops) /\ Truthful(q, db.log, applied, unlogged)
        BY <1>1
      <3> HIDE DEF q
      <3> QED BY <1>0, <2>1, <3>1, EffectLog
    <2> QED BY <1>2, <1>4, <2>1, <2>2, <2>3 DEF AuditOK
  <1>8. ASSUME NEW c \in Slots, Expire(c) PROVE AuditOK'
    <2>1. /\ \A b \in Slots : Kept(slot[b], slot'[b], db, db)
          /\ UNCHANGED <<db, applied, unlogged>>
      BY <1>0, <1>8, ExpireSlots
    <2> QED BY <1>2, <1>3, <1>4, <2>1 DEF AuditOK
  <1>9. ASSUME NEW c \in Slots, NEW t \in Tenants, DelKey(c, t) PROVE AuditOK'
    <2> DEFINE q == slot[c]
    <2>0. CASE KeyRepeated(c, t)
      <3>1. /\ \A b \in Slots : Kept(slot[b], slot'[b], db, db')
            /\ db'.log = db.log /\ UNCHANGED <<applied, unlogged>>
        BY <1>0, <2>0, KeyRepeatedSlots
      <3> QED BY <1>2, <1>3, <1>4, <3>1 DEF AuditOK
    <2> SUFFICES ASSUME \E ok \in BOOLEAN : \E r : KeyDeleted(c, t, ok, r) PROVE AuditOK'
      BY <1>0, <1>9, <2>0, DelKeySplit
    <2>1a. PICK ok \in BOOLEAN : \E r : KeyDeleted(c, t, ok, r)
      OBVIOUS
    <2>1. PICK r : KeyDeleted(c, t, ok, r)
      BY <2>1a
    <2> DEFINE f == Tried(q, ok)
    <2>2. /\ IsRequest(q, ops) /\ q.pc = "delKey" /\ DelKeyMoves(f, t, r)
          /\ Truthful(q, db.log, applied, unlogged)
      BY <1>1, <2>1 DEF KeyDeleted
    <2>3. r.op = q.op /\ r.op = "delete" /\ DOMAIN r = Fields
      <3> HIDE DEF q
      <3> QED BY <2>2, DelKeyRequest
    <2>4. /\ slot' = Watched([slot EXCEPT ![c] = r], db')
          /\ db' = Without(db, q.id, t) \/ db' = db
          /\ UNCHANGED <<applied, unlogged>>
      BY <2>1 DEF KeyDeleted
    <2>5. Running(q)
      BY <2>2 DEF Running
    <2>6. /\ Tracks(r, slot'[c], db')
          /\ \A x \in Slots : x # c => Kept(slot[x], slot'[x], db, db')
      BY <1>0, <2>3, <2>4, <2>5, WatchedSlots
    <2>7. db'.log = db.log
      BY <1>0, <2>4, WithoutParts
    <2>8. f.no = q.no /\ f.reply = q.reply
      BY <2>2, TriedFields
    <2> HIDE DEF q, f
    <2>9. r.no = q.no /\ r.reply = q.reply /\ r.pc \in {"audit", "delKey"}
      BY <2>2, <2>8 DEF DelKeyMoves, Same
    <2>10. Truthful(r, db.log, applied, unlogged)
      <3>1. Changes(q) /\ q.pc \in MadePlaces
        BY <2>2, <2>3 DEF Changes, MadePlaces
      <3> QED BY <2>2, <2>3, <2>9, <3>1 DEF Truthful
    <2>11. Truthful(slot'[c], db.log, applied, unlogged)
      BY <2>6, <2>10, AlikeTruthful DEF Tracks
    <2>12. \A b \in Slots : b # c => Truthful(slot'[b], db'.log, applied', unlogged')
      BY <1>3, <1>4, <2>4, <2>6, <2>7
    <2> QED BY <1>2, <2>4, <2>7, <2>11, <2>12 DEF AuditOK
  <1>10. ASSUME NEW c \in Slots, NEW i \in Items, Get(c, i) PROVE AuditOK'
    <2> DEFINE q == slot[c]
    <2>0. db.acl \subseteq Permissions
      BY <1>0 DEF Stores
    <2>1a. PICK ok \in BOOLEAN : \E r : Listed(c, i, ok, r)
      BY <1>0, <1>10, GetSplit
    <2>1. PICK r : Listed(c, i, ok, r)
      BY <2>1a
    <2> DEFINE f == Tried(q, ok)
    <2>2. IsRequest(q, ops) /\ q.pc \in {"get", "members"} /\ RoundMoves(f, i, ok, r)
      BY <1>1, <2>1 DEF Listed
    <2>3. IsRequest(r, ops) /\ r.op = q.op /\ DOMAIN r = Fields /\ Lists(q)
      <3> HIDE DEF q
      <3> QED BY <2>0, <2>2, RoundRequest
    <2>4. slot' = Watched([slot EXCEPT ![c] = r], db) /\ UNCHANGED <<db, applied, unlogged>>
      BY <2>1 DEF Listed
    <2>5. Running(q)
      BY <2>2 DEF Running
    <2>6. /\ Tracks(r, slot'[c], db)
          /\ \A x \in Slots : x # c => Kept(slot[x], slot'[x], db, db)
      BY <1>0, <2>3, <2>4, <2>5, WatchedSlots
    <2> HIDE DEF q, f
    <2>7. Truthful(r, db.log, applied, unlogged)
      <3>1. r.op \in {"list", "permissions"} /\ r.pc # "lrange"
        BY <2>3 DEF Lists, IsRequest, Shape
      <3> QED BY <3>1 DEF Truthful, Changes
    <2>8. Truthful(slot'[c], db.log, applied, unlogged)
      BY <2>6, <2>7, AlikeTruthful DEF Tracks
    <2>9. \A b \in Slots : b # c => Truthful(slot'[b], db'.log, applied', unlogged')
      BY <1>3, <1>4, <2>4, <2>6
    <2> QED BY <1>2, <2>4, <2>8, <2>9 DEF AuditOK
  <1>11. CASE UNCHANGED vars
    BY <1>11 DEF vars, history, AuditOK
  <1> QED BY <1>5, <1>6, <1>7, <1>8, <1>9, <1>10, <1>11 DEF Step

(* The audit list is truthful in every run. *)
LEMMA AuditHolds == Spec => []AuditOK
  <1>1. Init => AuditOK
    <2> SUFFICES ASSUME Init PROVE AuditOK
      OBVIOUS
    <2>1. db.log = OldLog /\ \A c \in Slots : slot[c] = Free
      BY DEF Init
    <2> QED BY <2>1, FreeTruthful DEF AuditOK
  <1> QED BY <1>1, TypesHold, AuditKept, PTL DEF Spec

(* A new entry of the audit list stands for a change that was made, and an *)
(* answer of 200 for an entry that was written or refused.                 *)
THEOREM AuditTellsTheTruthHolds == Spec => []AuditTellsTheTruth
  <1>1. AuditOK => AuditTellsTheTruth
    BY DEF AuditOK, Truthful, AuditTellsTheTruth
  <1> QED BY <1>1, AuditHolds, PTL

(* GetAuditLogs shows the list as it was at a moment since it read the     *)
(* length: the newest entries, as many as its limit says, without those    *)
(* that cannot be read, for every limit and whatever is written meanwhile. *)
THEOREM NewestEntriesShownHolds == Spec => []NewestEntriesShown
  <1>1. AuditOK => NewestEntriesShown
    BY DEF AuditOK, Truthful, AsOf, Newest, NewestEntriesShown
  <1> QED BY <1>1, AuditHolds, PTL

----
(* The stores follow the history.                                          *)
(* Stores m agree with the history w about x.  Below, z are the items and  *)
(* permissions whose last change overlapped another or failed, and e says  *)
(* whether there is a search index.                                        *)
All == Items \union Permissions

Index(m) == m.usersHot \union m.docsHot \union m.docsCold

Good(x, m, w, e) ==
    /\ x \in Items => m.records[x] = w[x] /\ (e => (x \in Index(m) <=> w[x] # None))
    /\ x \in Permissions => (x \in m.acl <=> w[x] # None)

(* What a request that is alone with the things it covers has done so far. *)
Creating(q, m, w, z, e) ==
    /\ q.pc = "exists" /\ q.id \notin z => Good(q.id, m, w, e)
    /\ q.pc \in {"set", "index", "audit"} /\ q.id \notin z => w[q.id] = None
    /\ q.pc \in {"index", "audit"} => m.records[q.id] = q.no
    /\ q.pc = "audit" /\ e => q.id \in Index(m)

Deleting(q, m, e) ==
    /\ q.pc # "del" => m.records[q.id] = None
    /\ e /\ q.pc \in {"keys", "delKey", "audit"} => q.id \notin m.usersHot
    /\ e /\ q.pc \in {"unindexCold", "audit"} => q.id \notin m.docsHot
    /\ e /\ q.pc = "audit" => q.id \notin m.docsCold
    /\ q.pc \in {"delKey", "audit"} =>
         \A p \in m.acl : p[2] = q.id => q.pc = "delKey" /\ p[1] \in q.todo

Progress(q, m, w, z, e) ==
    /\ q.op = "create" => Creating(q, m, w, z, e)
    /\ q.op = "delete" => Deleting(q, m, e)
    /\ q.op = "grant" /\ q.pc = "audit" => <<q.t, q.id, q.d>> \in m.acl
    /\ q.op = "revoke" /\ q.pc = "audit" => <<q.t, q.id, q.d>> \notin m.acl

Alone(q) == Running(q) /\ ~q.overlap /\ ~q.failed

OverlapsKnown(f) ==
    \A a, b \in Slots :
      a # b /\ Running(f[a]) /\ Running(f[b]) /\ Covers(f[a]) \intersect Covers(f[b]) # {} => f[a].overlap

Sound(f, m, w, z, e) ==
    /\ DOMAIN w = All
    /\ OverlapsKnown(f)
    /\ \A c \in Slots : Alone(f[c]) => Progress(f[c], m, w, z, e)
    /\ \A x \in All \ z : (\A c \in Slots : Running(f[c]) => x \notin Covers(f[c])) => Good(x, m, w, e)

SameAt(x, m, w, z, m2, w2, z2) ==
    /\ w2[x] = w[x] /\ (x \in z2 <=> x \in z)
    /\ x \in Items => m2.records[x] = m.records[x]
    /\ x \in m2.usersHot <=> x \in m.usersHot
    /\ x \in m2.docsHot <=> x \in m.docsHot
    /\ x \in m2.docsCold <=> x \in m.docsCold
    /\ x \in m2.acl <=> x \in m.acl

(* What is known of a thing depends on its stores only. *)
LEMMA GoodSame ==
  ASSUME NEW x, NEW m, NEW w, NEW z, NEW m2, NEW w2, NEW z2, SameAt(x, m, w, z, m2, w2, z2),
         NEW e, Good(x, m, w, e)
  PROVE  Good(x, m2, w2, e)
  <1>1. x \in Index(m2) <=> x \in Index(m)
    BY DEF SameAt, Index
  <1> QED BY <1>1 DEF SameAt, Good

(* What a request covers depends on what it asks for. *)
LEMMA CoversAlike ==
  ASSUME NEW q, NEW s, s.op = q.op, s.id = q.id, s.t = q.t, s.d = q.d
  PROVE  Covers(s) = Covers(q)
  BY DEF Covers

(* What a request changes: a record, its permissions, or one permission. *)
LEMMA CoversParts ==
  ASSUME NEW q
  PROVE  /\ q.op = "create" => Covers(q) = {q.id}
         /\ q.op = "delete" => Covers(q) = {q.id} \union {p \in Permissions : p[2] = q.id}
         /\ q.op \in {"grant", "revoke"} => Covers(q) = {<<q.t, q.id, q.d>>}
         /\ ~Changes(q) => Covers(q) = {}
  <1>1. q.op = "create" => Covers(q) = {q.id}
    BY DEF Covers
  <1>2. q.op = "delete" => Covers(q) = {q.id} \union {p \in Permissions : p[2] = q.id}
    BY DEF Covers
  <1>3. q.op \in {"grant", "revoke"} => Covers(q) = {<<q.t, q.id, q.d>>}
    BY DEF Covers
  <1>4. ~Changes(q) => Covers(q) = {}
    BY DEF Covers, Changes
  <1> QED BY <1>1, <1>2, <1>3, <1>4

(* A request covers items and permissions. *)
LEMMA CoversIn ==
  ASSUME NEW q, NEW k, IsRequest(q, k)
  PROVE  Covers(q) \subseteq All
  <1>1. /\ q.op \in {"create", "delete"} => q.id \in Items
        /\ q.op \in {"grant", "revoke"} => <<q.t, q.id, q.d>> \in Permissions
    BY Things DEF IsRequest, Shape
  <1> QED BY <1>1, CoversParts DEF Changes, All

(* How far a change has come depends on its handler's place. *)
LEMMA ProgressAlike ==
  ASSUME NEW q, NEW s, Resembles(q, s), NEW m, NEW w, NEW z, NEW e, Progress(q, m, w, z, e)
  PROVE  Progress(s, m, w, z, e)
  <1>1. /\ s.op = q.op /\ s.id = q.id /\ s.t = q.t /\ s.d = q.d /\ s.no = q.no
        /\ s.pc = q.pc /\ s.todo = q.todo
    BY DEF Resembles
  <1>2. q.op = "create" => Creating(s, m, w, z, e)
    BY <1>1 DEF Progress, Creating
  <1>3. q.op = "delete" => Deleting(s, m, e)
    BY <1>1 DEF Progress, Deleting
  <1> QED BY <1>1, <1>2, <1>3 DEF Progress

(* It survives steps that leave alone what the change covers. *)
LEMMA ProgressSame ==
  ASSUME NEW q, NEW k, IsRequest(q, k), NEW m, NEW w, NEW z, NEW m2, NEW w2, NEW z2, m2.acl \subseteq Permissions,
         \A x \in Covers(q) : SameAt(x, m, w, z, m2, w2, z2),
         NEW e, Progress(q, m, w, z, e)
  PROVE  Progress(q, m2, w2, z2, e)
  <1>1. CASE q.op = "create"
    <2>1. SameAt(q.id, m, w, z, m2, w2, z2) /\ q.id \in Items
      BY <1>1, CoversParts DEF IsRequest, Shape
    <2>2. Good(q.id, m, w, e) => Good(q.id, m2, w2, e)
      BY <2>1, GoodSame
    <2>3. q.id \in Index(m) => q.id \in Index(m2)
      BY <2>1 DEF SameAt, Index
    <2>4. Creating(q, m2, w2, z2, e)
      BY <1>1, <2>1, <2>2, <2>3 DEF Progress, Creating, SameAt
    <2> QED BY <1>1, <2>4 DEF Progress
  <1>2. CASE q.op = "delete"
    <2>0. Covers(q) = {q.id} \union {p \in Permissions : p[2] = q.id}
      BY <1>2, CoversParts
    <2>1. SameAt(q.id, m, w, z, m2, w2, z2) /\ q.id \in Items
      BY <1>2, <2>0, Things DEF IsRequest, Shape
    <2>2. \A p \in m2.acl : p[2] = q.id => p \in m.acl
      BY <2>0 DEF SameAt
    <2>3. Deleting(q, m2, e)
      BY <1>2, <2>1, <2>2 DEF Progress, Deleting, SameAt
    <2> QED BY <1>2, <2>3 DEF Progress
  <1>3. CASE q.op \in {"grant", "revoke"}
    <2>1. SameAt(<<q.t, q.id, q.d>>, m, w, z, m2, w2, z2)
      BY <1>3, CoversParts
    <2> QED BY <1>3, <2>1 DEF Progress, SameAt
  <1> QED BY <1>1, <1>2, <1>3 DEF Progress

(* A request that does not go on is where it was. *)
LEMMA KeptRuns ==
  ASSUME NEW q, NEW s, NEW m, NEW m2, Kept(q, s, m, m2)
  PROVE  /\ Running(s) <=> Running(q)
         /\ Running(q) => /\ Resembles(q, s) /\ Covers(s) = Covers(q)
                          /\ (q.overlap => s.overlap) /\ s.failed = q.failed
  <1>1. CASE s = Free /\ ~Running(q)
    BY <1>1, FreeFields DEF Running
  <1>2. CASE s = q /\ ~Running(q)
    BY <1>2
  <1>3. CASE Running(q) /\ Resembles(q, s) /\ (q.overlap => s.overlap)
    <2>1. Covers(s) = Covers(q)
      BY <1>3, CoversAlike DEF Resembles
    <2> QED BY <1>3, <2>1 DEF Resembles, Running
  <1> QED BY <1>1, <1>2, <1>3 DEF Kept

(* A step of one request, which changes nothing but what it covers.        *)
LEMMA StepSound ==
  ASSUME NEW f, NEW m, NEW w, NEW z, NEW e, Sound(f, m, w, z, e),
         NEW k, \A b \in Slots : IsRequest(f[b], k),
         NEW f2, NEW m2, NEW w2, NEW z2, m2.acl \subseteq Permissions, DOMAIN w2 = All,
         NEW c \in Slots, Running(f[c]),
         \A b \in Slots : b # c => Kept(f[b], f2[b], m, m2),
         Covers(f2[c]) = Covers(f[c]), f[c].overlap => f2[c].overlap,
         \A x \in All : x \notin Covers(f[c]) => SameAt(x, m, w, z, m2, w2, z2),
         Alone(f2[c]) => Progress(f2[c], m2, w2, z2, e),
         ~Running(f2[c]) => \A x \in Covers(f[c]) : x \in z2 \/ Good(x, m2, w2, e)
  PROVE  Sound(f2, m2, w2, z2, e)
  <1>1. \A b \in Slots : b # c =>
          /\ Running(f2[b]) <=> Running(f[b])
          /\ Running(f[b]) => /\ Resembles(f[b], f2[b]) /\ Covers(f2[b]) = Covers(f[b])
                              /\ (f[b].overlap => f2[b].overlap) /\ f2[b].failed = f[b].failed
    <2> SUFFICES ASSUME NEW b \in Slots, b # c
                 PROVE  /\ Running(f2[b]) <=> Running(f[b])
                        /\ Running(f[b]) => /\ Resembles(f[b], f2[b]) /\ Covers(f2[b]) = Covers(f[b])
                                            /\ (f[b].overlap => f2[b].overlap) /\ f2[b].failed = f[b].failed
      OBVIOUS
    <2>1. Kept(f[b], f2[b], m, m2)
      OBVIOUS
    <2> QED BY <2>1, KeptRuns
  <1>2. OverlapsKnown(f2)
    <2> SUFFICES ASSUME NEW a \in Slots, NEW b \in Slots, a # b, Running(f2[a]), Running(f2[b]),
                        Covers(f2[a]) \intersect Covers(f2[b]) # {}
                 PROVE  f2[a].overlap
      BY DEF OverlapsKnown
    <2>1. Running(f[a]) /\ Running(f[b]) /\ Covers(f2[a]) = Covers(f[a]) /\ Covers(f2[b]) = Covers(f[b])
      BY <1>1
    <2>2. f[a].overlap
      BY <2>1 DEF Sound, OverlapsKnown
    <2> QED BY <1>1, <2>1, <2>2
  <1>3. ASSUME NEW b \in Slots, b # c, Alone(f2[b]) PROVE Progress(f2[b], m2, w2, z2, e)
    <2>1. Alone(f[b]) /\ Resembles(f[b], f2[b])
      BY <1>1, <1>3 DEF Alone
    <2>2. Covers(f[b]) \intersect Covers(f[c]) = {}
      BY <1>3, <2>1 DEF Sound, OverlapsKnown, Alone
    <2>3. Covers(f[b]) \subseteq All
      BY CoversIn
    <2>4. \A x \in Covers(f[b]) : SameAt(x, m, w, z, m2, w2, z2)
      BY <2>2, <2>3
    <2>5. Progress(f[b], m, w, z, e)
      BY <2>1 DEF Sound
    <2>6. Progress(f[b], m2, w2, z2, e)
      BY <2>4, <2>5, ProgressSame
    <2> QED BY <2>1, <2>6, ProgressAlike
  <1>4. ASSUME NEW x \in All \ z2, \A b \in Slots : Running(f2[b]) => x \notin Covers(f2[b])
        PROVE  Good(x, m2, w2, e)
    <2>1. CASE x \in Covers(f[c])
      <3>1. ~Running(f2[c])
        BY <1>4, <2>1
      <3> QED BY <2>1, <3>1
    <2>2. CASE x \notin Covers(f[c])
      <3>1. \A b \in Slots : Running(f[b]) => x \notin Covers(f[b])
        BY <1>1, <1>4, <2>2
      <3>2. SameAt(x, m, w, z, m2, w2, z2)
        BY <2>2
      <3>3. x \notin z
        BY <3>2 DEF SameAt
      <3>4. Good(x, m, w, e)
        BY <3>1, <3>3 DEF Sound
      <3> QED BY <3>2, <3>4, GoodSame
    <2> QED BY <2>1, <2>2
  <1> QED BY <1>2, <1>3, <1>4 DEF Sound

(* The call of a request leaves alone what the request does not cover.     *)
LEMMA EffectLocal ==
  ASSUME NEW m, Stores(m), NEW q, NEW k, IsRequest(q, k), NEW x \in All, x \notin Covers(q), NEW w, NEW z
  PROVE  SameAt(x, m, w, z, Effect(m, q), w, z)
  <1> DEFINE n == Effect(m, q)
  <1>1. DOMAIN m = Parts
    BY DEF Stores
  <1>2. PartsAre(m, q, n)
    BY <1>1, EffectParts
  <1> HIDE DEF n
  <1>3. q.pc \in {"set", "index", "del", "unindex", "unindexHot", "unindexCold"} => x # q.id
    <2>1. q.pc \in {"set", "index", "del", "unindex", "unindexHot", "unindexCold"} => q.op \in {"create", "delete"}
      BY DEF IsRequest, Shape
    <2> QED BY <2>1, CoversParts
  <1>4. q.pc \in {"sadd", "srem"} => x # <<q.t, q.id, q.d>>
    <2>1. q.pc \in {"sadd", "srem"} => q.op \in {"grant", "revoke"}
      BY DEF IsRequest, Shape
    <2> QED BY <2>1, CoversParts
  <1>5. x \in Items => n.records[x] = m.records[x]
    BY <1>2, <1>3 DEF PartsAre, Stores
  <1>6. x \in n.acl <=> x \in m.acl
    BY <1>2, <1>4 DEF PartsAre
  <1>7. /\ x \in n.usersHot <=> x \in m.usersHot
        /\ x \in n.docsHot <=> x \in m.docsHot
        /\ x \in n.docsCold <=> x \in m.docsCold
    BY <1>2, <1>3 DEF PartsAre
  <1>8. SameAt(x, m, w, z, n, w, z)
    BY <1>5, <1>6, <1>7 DEF SameAt
  <1> QED BY <1>8 DEF n

(* A call that is made again finds its change made. *)
LEMMA EffectAgain ==
  ASSUME NEW m, Stores(m), NEW q, NEW k \in 0..MaxOps, IsRequest(q, k), Running(q), ~IsLoop(q),
         NEW w, NEW z, NEW e, Progress(q, m, w, z, e)
  PROVE  Progress(q, Effect(m, q), w, z, e)
  <1> DEFINE n == Effect(m, q)
  <1>1. DOMAIN m = Parts /\ m.records \in [Items -> {None} \union 0..MaxOps]
    BY DEF Stores
  <1>2. PartsAre(m, q, n)
    BY <1>1, EffectParts
  <1> HIDE DEF n
  <1>3. CASE q.op = "create"
    <2>1. q.id \in Items /\ q.pc \in {"exists", "set", "index", "audit"}
      BY <1>3 DEF IsRequest, Shape, Running
    <2>2. n.records[q.id] = IF q.pc = "set" THEN q.no ELSE m.records[q.id]
      BY <1>1, <1>2, <2>1 DEF PartsAre
    <2>3. Index(m) \subseteq Index(n)
      BY <1>2, <2>1 DEF PartsAre, Index
    <2>4. q.pc = "exists" => Index(n) = Index(m) /\ n.acl = m.acl
      BY <1>2 DEF PartsAre, Index
    <2>5. q.pc = "exists" /\ Good(q.id, m, w, e) => Good(q.id, n, w, e)
      BY <2>2, <2>4 DEF Good
    <2>6. Creating(q, n, w, z, e)
      BY <1>3, <2>1, <2>2, <2>3, <2>5 DEF Progress, Creating
    <2>7. Progress(q, n, w, z, e)
      BY <1>3, <2>6 DEF Progress
    <2> QED BY <2>7 DEF n
  <1>4. CASE q.op = "delete"
    <2>1. q.id \in Items /\ q.pc \in {"del", "unindex", "unindexHot", "unindexCold", "keys", "audit"}
      BY <1>4, Things DEF IsRequest, Shape, Running, IsLoop
    <2>2. n.records[q.id] = IF q.pc = "del" THEN None ELSE m.records[q.id]
      BY <1>1, <1>2, <2>1 DEF PartsAre
    <2>3. n.usersHot \subseteq m.usersHot /\ n.docsHot \subseteq m.docsHot /\ n.docsCold \subseteq m.docsCold /\ n.acl = m.acl
      BY <1>2, <2>1 DEF PartsAre
    <2>4. Deleting(q, n, e)
      BY <1>4, <2>2, <2>3 DEF Progress, Deleting
    <2>5. Progress(q, n, w, z, e)
      BY <1>4, <2>4 DEF Progress
    <2> QED BY <2>5 DEF n
  <1>5. CASE q.op \in {"grant", "revoke"}
    <2>1. q.pc = "audit" => n.acl = m.acl
      BY <1>2 DEF PartsAre
    <2>2. Progress(q, n, w, z, e)
      BY <1>5, <2>1 DEF Progress
    <2> QED BY <2>2 DEF n
  <1>6. CASE q.op \notin {"create", "delete", "grant", "revoke"}
    BY <1>6 DEF Progress
  <1> QED BY <1>3, <1>4, <1>5, <1>6

(* What the calls of a create achieve, one after the other. *)
LEMMA CreateProgress ==
  ASSUME Stores(db), search \in BOOLEAN, NEW q, NEW k \in 0..MaxOps, IsRequest(q, k), Running(q), q.op = "create",
         Progress(q, db, ideal, dirty, search), NEW r, CreateMoves(q, TRUE, r)
  PROVE  /\ Running(r) => Progress(r, Effect(db, q), ideal, dirty, search)
         /\ r.reply = "200" /\ ~Running(r) =>
              /\ Effect(db, q).records[q.id] = q.no
              /\ search => q.id \in Index(Effect(db, q))
              /\ q.id \notin dirty => ideal[q.id] = None
         /\ r.reply # "200" /\ ~Running(r) => q.id \in dirty \/ Good(q.id, Effect(db, q), ideal, search)
  <1> DEFINE n == Effect(db, q)
  <1>1. DOMAIN db = Parts /\ db.records \in [Items -> {None} \union 0..MaxOps]
    BY DEF Stores
  <1>2. PartsAre(db, q, n)
    BY <1>1, EffectParts
  <1> HIDE DEF n
  <1>3. q.id \in Items /\ Creating(q, db, ideal, dirty, search)
    BY DEF IsRequest, Shape, Progress
  <1>4. n.records[q.id] = IF q.pc = "set" THEN q.no ELSE IF q.pc = "del" THEN None ELSE db.records[q.id]
    BY <1>1, <1>2, <1>3 DEF PartsAre
  <1>5. Goes(q, r, "set") \/ Goes(q, r, "index") \/ Goes(q, r, "audit") => r.op = "create" /\ r.id = q.id /\ r.no = q.no
    BY DEF Goes, Same
  <1>6. CASE q.pc = "exists" /\ Replies(q, r, "400")
    <2>1. Index(n) = Index(db) /\ n.acl = db.acl /\ n.records = db.records
      BY <1>2, <1>6 DEF PartsAre, Index
    <2>2. q.id \in dirty \/ Good(q.id, n, ideal, search)
      BY <1>3, <1>6, <2>1 DEF Creating, Good
    <2> QED BY <1>6, <2>2 DEF Replies, Running, n
  <1>7. CASE q.pc = "exists" /\ db.records[q.id] = None /\ Goes(q, r, "set")
    <2>1. q.id \notin dirty => ideal[q.id] = None
      BY <1>3, <1>7 DEF Creating, Good
    <2>2. r.pc = "set"
      BY <1>7 DEF Goes
    <2>3. Creating(r, n, ideal, dirty, search)
      BY <1>5, <1>7, <2>1, <2>2 DEF Creating
    <2>4. Progress(r, n, ideal, dirty, search)
      BY <1>5, <1>7, <2>3 DEF Progress
    <2> QED BY <2>2, <2>4 DEF n, Running
  <1>8. CASE q.pc = "set" /\ ((search /\ Goes(q, r, "index")) \/ (~search /\ Goes(q, r, "audit")))
    <2>1. r.pc = IF search THEN "index" ELSE "audit"
      BY <1>8 DEF Goes
    <2>2. Creating(r, n, ideal, dirty, search)
      BY <1>3, <1>4, <1>5, <1>8, <2>1 DEF Creating
    <2>3. Progress(r, n, ideal, dirty, search)
      BY <1>5, <1>8, <2>2 DEF Progress
    <2> QED BY <2>1, <2>3 DEF n, Running
  <1>9. CASE q.pc = "index" /\ Goes(q, r, "audit")
    <2>1. r.pc = "audit"
      BY <1>9 DEF Goes
    <2>2. q.id \in Index(n)
      BY <1>2, <1>9 DEF PartsAre, Index
    <2>3. Creating(r, n, ideal, dirty, search)
      BY <1>3, <1>4, <1>5, <1>9, <2>1, <2>2 DEF Creating
    <2>4. Progress(r, n, ideal, dirty, search)
      BY <1>5, <1>9, <2>3 DEF Progress
    <2> QED BY <2>1, <2>4 DEF n, Running
  <1>10. CASE q.pc = "audit" /\ Replies(q, r, "200")
    <2>1. Index(n) = Index(db)
      BY <1>2, <1>10 DEF PartsAre, Index
    <2>2. n.records[q.id] = q.no /\ (search => q.id \in Index(n)) /\ (q.id \notin dirty => ideal[q.id] = None)
      BY <1>3, <1>4, <1>10, <2>1 DEF Creating
    <2> QED BY <1>10, <2>2 DEF Replies, Running, n
  <1>11. \/ q.pc = "exists" /\ Replies(q, r, "400")
         \/ q.pc = "exists" /\ db.records[q.id] = None /\ Goes(q, r, "set")
         \/ q.pc = "set" /\ ((search /\ Goes(q, r, "index")) \/ (~search /\ Goes(q, r, "audit")))
         \/ q.pc = "index" /\ Goes(q, r, "audit")
         \/ q.pc = "audit" /\ Replies(q, r, "200")
    BY DEF CreateMoves
  <1> QED BY <1>6, <1>7, <1>8, <1>9, <1>10, <1>11

(* Nothing is left of what a delete covers. *)
Gone(q, m, e) ==
    /\ m.records[q.id] = None /\ (e => q.id \notin Index(m))
    /\ \A p \in m.acl : p[2] # q.id

(* What the calls of deleteUser achieve before its loop. *)
LEMMA DeleteUserProgress ==
  ASSUME Stores(db), search \in BOOLEAN, NEW q, NEW k \in 0..MaxOps, IsRequest(q, k), Running(q), ~IsLoop(q),
         q.op = "delete", q.id \in Users,
         Progress(q, db, ideal, dirty, search), NEW r, DeleteUserMoves(q, TRUE, r)
  PROVE  /\ Running(r) => Progress(r, Effect(db, q), ideal, dirty, search)
         /\ ~Running(r) => r.reply = "200" /\ Gone(q, Effect(db, q), search)
  <1> DEFINE n == Effect(db, q)
  <1>1. DOMAIN db = Parts /\ db.records \in [Items -> {None} \union 0..MaxOps] /\ db.acl \subseteq Permissions
        /\ db.docsHot \subseteq Docs /\ db.docsCold \subseteq Docs
    BY DEF Stores
  <1>2. PartsAre(db, q, n)
    BY <1>1, EffectParts
  <1> HIDE DEF n
  <1>3. /\ q.id \in Items /\ q.id \notin Docs /\ Deleting(q, db, search)
        /\ q.pc \in {"del", "unindex", "keys", "audit"}
    BY Things DEF IsRequest, Shape, Progress, Running, IsLoop
  <1>4. n.records[q.id] = None
    BY <1>1, <1>2, <1>3 DEF PartsAre, Deleting
  <1>5. n.acl = db.acl /\ n.docsHot = db.docsHot /\ n.docsCold = db.docsCold /\ n.usersHot \subseteq db.usersHot
    BY <1>2, <1>3 DEF PartsAre
  <1>6. search /\ q.pc \in {"unindex", "keys", "audit"} => q.id \notin n.usersHot
    BY <1>2, <1>3 DEF PartsAre, Deleting
  <1>7. Same(q, r) => r.op = "delete" /\ r.id = q.id
    BY DEF Same
  <1>8. CASE q.pc = "audit" /\ Replies(q, r, "200")
    <2>1. \A p \in n.acl : p[2] # q.id
      BY <1>3, <1>5, <1>8 DEF Deleting
    <2>2. search => q.id \notin Index(n)
      BY <1>1, <1>3, <1>5, <1>6, <1>8 DEF Index
    <2>3. Gone(q, n, search)
      BY <1>4, <2>1, <2>2 DEF Gone
    <2> QED BY <1>8, <2>3 DEF Replies, Running, n
  <1>9. ASSUME Same(q, r), Running(r), search /\ r.pc \in {"keys", "delKey", "audit"} => q.pc \in {"unindex", "keys"},
               r.pc \in {"unindex", "keys", "delKey", "audit"},
               r.pc \in {"delKey", "audit"} => \A p \in n.acl : p[2] = q.id => r.pc = "delKey" /\ p[1] \in r.todo
        PROVE  Progress(r, n, ideal, dirty, search)
    <2>1. Deleting(r, n, search)
      BY <1>1, <1>3, <1>4, <1>5, <1>6, <1>7, <1>9 DEF Deleting
    <2> QED BY <1>7, <1>9, <2>1 DEF Progress
  <1>10. \A p \in db.acl : p[2] = q.id => p[1] \in AclKeys(q.id)
    <2> SUFFICES ASSUME NEW p \in db.acl, p[2] = q.id PROVE p[1] \in AclKeys(q.id)
      OBVIOUS
    <2>1. p[1] \in Tenants /\ p[3] \in Docs /\ p = <<p[1], q.id, p[3]>>
      BY <1>1, PermissionParts
    <2> QED BY <2>1 DEF AclKeys
  <1>11. CASE \/ q.pc = "del" /\ search /\ Goes(q, r, "unindex")
              \/ q.pc = "del" /\ ~search /\ Goes(q, r, "keys")
              \/ q.pc = "unindex" /\ Goes(q, r, "keys")
    <2>1. Same(q, r) /\ r.pc \in {"unindex", "keys"} /\ (search /\ r.pc = "keys" => q.pc = "unindex")
      BY <1>11 DEF Goes
    <2>2. Running(r)
      BY <2>1 DEF Running
    <2>3. Progress(r, n, ideal, dirty, search)
      BY <1>9, <2>1, <2>2
    <2> QED BY <2>2, <2>3 DEF n
  <1>12. CASE q.pc = "keys" /\ AclKeys(q.id) = {} /\ Goes(q, r, "audit")
    <2>1. Same(q, r) /\ r.pc = "audit"
      BY <1>12 DEF Goes
    <2>2. \A p \in n.acl : p[2] # q.id
      BY <1>5, <1>10, <1>12
    <2>3. Running(r)
      BY <2>1 DEF Running
    <2>4. Progress(r, n, ideal, dirty, search)
      BY <1>9, <1>12, <2>1, <2>2, <2>3
    <2> QED BY <2>3, <2>4 DEF n
  <1>13. CASE q.pc = "keys" /\ Same(q, r) /\ r.pc = "delKey" /\ r.todo = AclKeys(q.id)
    <2>1. Running(r)
      BY <1>13 DEF Running
    <2>2. Progress(r, n, ideal, dirty, search)
      BY <1>5, <1>9, <1>10, <1>13, <2>1
    <2> QED BY <2>1, <2>2 DEF n
  <1> QED BY <1>8, <1>11, <1>12, <1>13 DEF DeleteUserMoves

(* What the calls of deleteDocument achieve. *)
LEMMA DeleteDocumentProgress ==
  ASSUME Stores(db), search \in BOOLEAN, NEW q, NEW k \in 0..MaxOps, IsRequest(q, k), Running(q),
         q.op = "delete", q.id \in Docs,
         Progress(q, db, ideal, dirty, search), NEW r, DeleteDocumentMoves(q, TRUE, r)
  PROVE  /\ Running(r) => Progress(r, Effect(db, q), ideal, dirty, search)
         /\ ~Running(r) => r.reply = "200" /\ Gone(q, Effect(db, q), search)
  <1> DEFINE n == Effect(db, q)
  <1>1. DOMAIN db = Parts /\ db.records \in [Items -> {None} \union 0..MaxOps] /\ db.acl \subseteq Permissions
        /\ db.usersHot \subseteq Users
    BY DEF Stores
  <1>2. PartsAre(db, q, n)
    BY <1>1, EffectParts
  <1> HIDE DEF n
  <1>3. /\ q.id \in Items /\ q.id \notin Users /\ Deleting(q, db, search)
        /\ q.pc \in {"del", "unindexHot", "unindexCold", "audit"}
    BY Things DEF IsRequest, Shape, Progress, Running
  <1>4. n.records[q.id] = None
    BY <1>1, <1>2, <1>3 DEF PartsAre, Deleting
  <1>5. n.acl = db.acl /\ n.usersHot = db.usersHot /\ n.docsHot \subseteq db.docsHot /\ n.docsCold \subseteq db.docsCold
    BY <1>2, <1>3 DEF PartsAre
  <1>6. /\ search /\ q.pc \in {"unindexHot", "unindexCold", "audit"} => q.id \notin n.docsHot
        /\ search /\ q.pc \in {"unindexCold", "audit"} => q.id \notin n.docsCold
    BY <1>2, <1>3 DEF PartsAre, Deleting
  <1>7. \A p \in n.acl : p[2] # q.id
    BY <1>1, <1>3, <1>5, PermissionParts
  <1>8. q.id \notin n.usersHot
    BY <1>1, <1>3, <1>5
  <1>9. CASE q.pc = "audit" /\ Replies(q, r, "200")
    <2>1. Gone(q, n, search)
      BY <1>4, <1>6, <1>7, <1>8, <1>9 DEF Gone, Index
    <2> QED BY <1>9, <2>1 DEF Replies, Running, n
  <1>10. ASSUME Goes(q, r, r.pc), r.pc \in {"unindexHot", "unindexCold", "audit"},
                r.pc = "unindexCold" => q.pc = "unindexHot", r.pc = "audit" /\ search => q.pc = "unindexCold"
         PROVE  Running(r) /\ Progress(r, n, ideal, dirty, search)
    <2>1. r.op = "delete" /\ r.id = q.id
      BY <1>10 DEF Goes, Same
    <2>2. Deleting(r, n, search)
      BY <1>4, <1>6, <1>7, <1>8, <1>10, <2>1 DEF Deleting
    <2>3. Progress(r, n, ideal, dirty, search)
      BY <2>1, <2>2 DEF Progress
    <2>4. r.pc # "done"
      BY <1>10
    <2> QED BY <2>3, <2>4 DEF Running
  <1>11. CASE \/ q.pc = "del" /\ search /\ Goes(q, r, "unindexHot")
              \/ q.pc = "del" /\ ~search /\ Goes(q, r, "audit")
              \/ q.pc = "unindexHot" /\ Goes(q, r, "unindexCold")
              \/ q.pc = "unindexCold" /\ Goes(q, r, "audit")
    <2>1. /\ Goes(q, r, r.pc) /\ r.pc \in {"unindexHot", "unindexCold", "audit"}
          /\ r.pc = "unindexCold" => q.pc = "unindexHot"
          /\ r.pc = "audit" /\ search => q.pc = "unindexCold"
      BY <1>11 DEF Goes
    <2>2. Running(r) /\ Progress(r, n, ideal, dirty, search)
      BY <1>10, <2>1
    <2> QED BY <2>2 DEF n
  <1> QED BY <1>9, <1>11 DEF DeleteDocumentMoves

(* What the calls of a grant or a revocation achieve. *)
LEMMA PermissionProgress ==
  ASSUME Stores(db), NEW q, NEW k \in 0..MaxOps, IsRequest(q, k), Running(q), q.op \in {"grant", "revoke"},
         Progress(q, db, ideal, dirty, search), NEW r, PermissionMoves(q, TRUE, r)
  PROVE  /\ Running(r) => Progress(r, Effect(db, q), ideal, dirty, search)
         /\ ~Running(r) => /\ r.reply = "200"
                           /\ <<q.t, q.id, q.d>> \in Effect(db, q).acl <=> q.op = "grant"
  <1> DEFINE n == Effect(db, q)
             p == <<q.t, q.id, q.d>>
  <1>1. DOMAIN db = Parts
    BY DEF Stores
  <1>2. PartsAre(db, q, n)
    BY <1>1, EffectParts
  <1> HIDE DEF n
  <1>3. p \in n.acl <=> q.op = "grant"
    <2>1. q.op = "grant" => q.pc \in {"sadd", "audit"}
      BY DEF IsRequest, Shape, Running
    <2>2. q.op = "revoke" => q.pc \in {"srem", "audit"}
      BY DEF IsRequest, Shape, Running
    <2> QED BY <1>2, <2>1, <2>2 DEF PartsAre, Progress
  <1>4. CASE Goes(q, r, "audit")
    <2>1. r.op = q.op /\ r.t = q.t /\ r.id = q.id /\ r.d = q.d /\ r.pc = "audit"
      BY <1>4 DEF Goes, Same
    <2>2. Progress(r, n, ideal, dirty, search)
      BY <1>3, <2>1 DEF Progress
    <2> QED BY <2>1, <2>2 DEF Running, n
  <1>5. CASE Replies(q, r, "200")
    BY <1>3, <1>5 DEF Replies, Running, n
  <1> QED BY <1>4, <1>5 DEF PermissionMoves

(* What a change achieves that is alone with the things it covers and none *)
(* of whose calls failed: its answer is true of all of them.               *)
LEMMA ChangeProgress ==
  ASSUME Stores(db), search \in BOOLEAN, NEW q, NEW k \in 0..MaxOps, IsRequest(q, k), Running(q), ~IsLoop(q), Changes(q),
         Progress(q, db, ideal, dirty, search), NEW r, Moves(q, TRUE, r),
         NEW w2, r.reply = "200" => \A x \in Covers(q) : w2[x] = Settled(r, x),
         r.reply # "200" => \A x \in Covers(q) : w2[x] = ideal[x]
  PROVE  /\ Running(r) => Progress(r, Effect(db, q), ideal, dirty, search)
         /\ ~Running(r) => \A x \in Covers(q) : Good(x, Effect(db, q), w2, search) \/ (r.reply # "200" /\ x \in dirty)
  <1> DEFINE n == Effect(db, q)
  <1>0. q.op # "none" /\ (Running(q) => q.no \in 1..k) /\ k \in Nat
    BY AdminAssumption DEF Changes, IsRequest
  <1>1. Same(q, r)
    BY <1>0, MovesKeeps
  <1>2. r.op = q.op /\ r.no = q.no
    BY <1>1 DEF Same
  <1>3. q.no # None /\ None = None
    BY <1>0, Things
  <1>4. CASE q.op = "create"
    <2>1. CreateMoves(q, TRUE, r)
      BY <1>4 DEF Moves
    <2>2. Covers(q) = {q.id} /\ q.id \in Items /\ q.id \notin Permissions
      BY <1>4, CoversParts, Things DEF IsRequest, Shape
    <2>3. /\ Running(r) => Progress(r, n, ideal, dirty, search)
          /\ r.reply = "200" /\ ~Running(r) =>
               /\ n.records[q.id] = q.no
               /\ search => q.id \in Index(n)
               /\ q.id \notin dirty => ideal[q.id] = None
          /\ r.reply # "200" /\ ~Running(r) => q.id \in dirty \/ Good(q.id, n, ideal, search)
      <3> HIDE DEF n
      <3> QED BY <1>4, <2>1, CreateProgress DEF n
    <2> HIDE DEF n
    <2>4. CASE ~Running(r) /\ r.reply = "200"
      <3>1. Settled(r, q.id) = q.no
        BY <1>2, <1>4, <2>3, <2>4 DEF Settled
      <3>2. w2[q.id] = q.no
        BY <2>2, <2>4, <3>1
      <3>3. Good(q.id, n, w2, search)
        BY <1>3, <2>2, <2>3, <2>4, <3>2 DEF Good
      <3> QED BY <2>2, <2>4, <3>3 DEF n
    <2>5. CASE ~Running(r) /\ r.reply # "200"
      <3>1. w2[q.id] = ideal[q.id]
        BY <2>2, <2>5
      <3>2. Good(q.id, n, ideal, search) => Good(q.id, n, w2, search)
        BY <3>1 DEF Good
      <3> QED BY <2>2, <2>3, <2>5, <3>2 DEF n
    <2> QED BY <2>3, <2>4, <2>5 DEF n
  <1>5. CASE q.op = "delete"
    <2>1. q.id \in Items /\ q.id \notin Permissions
      BY <1>5, Things DEF IsRequest, Shape
    <2>2. Covers(q) = {q.id} \union {p \in Permissions : p[2] = q.id}
      BY <1>5, CoversParts
    <2>3. /\ Running(r) => Progress(r, n, ideal, dirty, search)
          /\ ~Running(r) => r.reply = "200" /\ Gone(q, n, search)
      <3>1. CASE q.id \in Users
        <4>1. DeleteUserMoves(q, TRUE, r)
          BY <1>5, <3>1 DEF Moves
        <4> QED BY <1>5, <3>1, <4>1, DeleteUserProgress
      <3>2. CASE q.id \in Docs
        <4>1. DeleteDocumentMoves(q, TRUE, r)
          BY <1>5, <3>2 DEF Moves
        <4> QED BY <1>5, <3>2, <4>1, DeleteDocumentProgress
      <3> QED BY <2>1, <3>1, <3>2, Things
    <2> HIDE DEF n
    <2>4. ASSUME ~Running(r), NEW x \in Covers(q) PROVE Good(x, n, w2, search)
      <3>1. r.reply = "200" /\ Gone(q, n, search)
        BY <2>3, <2>4
      <3>2. Settled(r, x) = None
        BY <1>2, <1>5 DEF Settled
      <3>3. w2[x] = None
        BY <2>4, <3>1, <3>2
      <3>4. CASE x = q.id
        BY <2>1, <3>1, <3>3, <3>4 DEF Good, Gone
      <3>5. CASE x \in Permissions /\ x[2] = q.id
        <4>1. x \notin Items
          BY <3>5, Things
        <4> QED BY <3>1, <3>3, <3>5, <4>1 DEF Good, Gone
      <3> QED BY <2>2, <2>4, <3>4, <3>5
    <2> QED BY <2>3, <2>4 DEF n
  <1>6. CASE q.op \in {"grant", "revoke"}
    <2> DEFINE p == <<q.t, q.id, q.d>>
    <2>1. PermissionMoves(q, TRUE, r)
      BY <1>6 DEF Moves
    <2>2. Covers(q) = {p} /\ p \in Permissions
      BY <1>6, CoversParts DEF IsRequest, Shape
    <2>3. p \notin Items
      BY <2>2, Things
    <2>4. /\ Running(r) => Progress(r, n, ideal, dirty, search)
          /\ ~Running(r) => r.reply = "200" /\ (p \in n.acl <=> q.op = "grant")
      <3> HIDE DEF n
      <3> QED BY <1>6, <2>1, PermissionProgress DEF n
    <2> HIDE DEF n, p
    <2>5. ASSUME ~Running(r) PROVE Good(p, n, w2, search)
      <3>1. Settled(r, p) = IF q.op = "grant" THEN q.no ELSE None
        BY <1>2, <1>6 DEF Settled
      <3>2. w2[p] = IF q.op = "grant" THEN q.no ELSE None
        BY <2>2, <2>4, <2>5, <3>1
      <3> QED BY <1>3, <2>3, <2>4, <2>5, <3>2 DEF Good
    <2> QED BY <2>2, <2>4, <2>5 DEF n
  <1> QED BY <1>4, <1>5, <1>6 DEF Changes

(* A call of a request, and the handler's step after it, keep Sound. *)
LEMMA AnsweredSound ==
  ASSUME TInv, Sound(slot, db, ideal, dirty, search), TInv', NEW c \in Slots, NEW ok \in BOOLEAN, NEW r, Answered(c, ok, r)
  PROVE  Sound(slot', db', ideal', dirty', search)
  <1> DEFINE q == slot[c]
             f == Tried(q, ok)
             s == slot'[c]
  <1>0. /\ Requests /\ Stores(db) /\ ops \in 0..MaxOps /\ search \in BOOLEAN
        /\ \A b \in Slots : IsRequest(slot[b], ops)
    BY OpsFacts DEF TInv, Requests
  <1>1. /\ IsRequest(q, ops) /\ Running(q) /\ ~IsLoop(q) /\ q.op # "none" /\ Moves(f, ok, r)
        /\ slot' = Watched([slot EXCEPT ![c] = r], db') /\ Record(r)
        /\ db' = Effect(db, q) \/ (~ok /\ db' = db)
    BY <1>0 DEF Answered
  <1>2. db'.acl \subseteq Permissions
    BY DEF TInv, Stores
  <1>3. DOMAIN ideal = All
    BY DEF Sound
  <1>4. IsRequest(r, ops) /\ r.op = q.op /\ DOMAIN r = Fields
    <2> HIDE DEF q
    <2> QED BY <1>1, MovesRequest
  <1>5. /\ Tracks(r, s, db')
        /\ \A b \in Slots : b # c => Kept(slot[b], slot'[b], db, db')
    BY <1>0, <1>1, <1>4, WatchedSlots
  <1>6. /\ IsRequest(f, ops) /\ f.op = q.op /\ f.pc = q.pc /\ f.overlap = q.overlap
        /\ f.id = q.id /\ f.t = q.t /\ f.d = q.d
        /\ (~ok => f.failed) /\ (ok => f = q)
    BY <1>1, TriedFields DEF Tried
  <1>7. \A x \in All : x \notin Covers(q) => SameAt(x, db, ideal, dirty, db', ideal, dirty)
    <2> SUFFICES ASSUME NEW x \in All, x \notin Covers(q) PROVE SameAt(x, db, ideal, dirty, db', ideal, dirty)
      OBVIOUS
    <2>1. CASE db' = Effect(db, q)
      BY <1>0, <1>1, <2>1, EffectLocal
    <2>2. CASE db' = db
      BY <2>2 DEF SameAt
    <2> QED BY <1>1, <2>1, <2>2
  <1> HIDE DEF q, f, s
  <1>8. Same(f, r)
    BY <1>1, <1>6, MovesKeeps DEF Running
  <1>9. r.op = q.op /\ r.id = q.id /\ r.t = q.t /\ r.d = q.d /\ r.overlap = q.overlap /\ r.failed = f.failed
    BY <1>6, <1>8 DEF Same
  <1>10. Covers(r) = Covers(q) /\ (Changes(r) <=> Changes(q)) /\ Covers(q) \subseteq All
    BY <1>1, <1>9, CoversAlike, CoversIn DEF Changes
  <1>11. /\ Resembles(r, s) /\ s.overlap = r.overlap /\ s.failed = r.failed /\ (Running(s) <=> Running(r))
         /\ Covers(s) = Covers(q)
    <2>1. Resembles(r, s) /\ s.overlap = r.overlap
      BY <1>5 DEF Tracks
    <2>2. s.failed = r.failed /\ s.pc = r.pc /\ s.op = r.op /\ s.id = r.id /\ s.t = r.t /\ s.d = r.d
      BY <2>1 DEF Resembles
    <2> QED BY <1>10, <2>1, <2>2, CoversAlike DEF Running
  <1>12. DOMAIN ideal' = All /\ \A x \in All : x \notin Covers(q) => ideal'[x] = ideal[x] /\ (x \in dirty' <=> x \in dirty)
    <2>1. CASE Running(r) \/ ~Changes(r)
      BY <1>1, <1>3, <2>1 DEF Record
    <2>2. CASE ~Running(r) /\ Changes(r)
      BY <1>1, <1>3, <1>10, <2>2 DEF Record
    <2> QED BY <2>1, <2>2
  <1>13. \A x \in All : x \notin Covers(q) => SameAt(x, db, ideal, dirty, db', ideal', dirty')
    BY <1>7, <1>12 DEF SameAt
  <1>14. ASSUME Alone(q), ok, Changes(q)
         PROVE  /\ Running(r) => Progress(r, db', ideal, dirty, search)
                /\ ~Running(r) => \A x \in Covers(q) : Good(x, db', ideal', search) \/ x \in dirty'
    <2>1. Progress(q, db, ideal, dirty, search)
      BY <1>14 DEF Sound, q
    <2>2. db' = Effect(db, q) /\ Moves(q, TRUE, r)
      BY <1>1, <1>6, <1>14
    <2>3. CASE Running(r)
      <3> DEFINE w2 == [x \in All |-> IF r.reply = "200" THEN Settled(r, x) ELSE ideal[x]]
      <3>1. /\ r.reply = "200" => \A x \in Covers(q) : w2[x] = Settled(r, x)
            /\ r.reply # "200" => \A x \in Covers(q) : w2[x] = ideal[x]
        BY <1>10
      <3> HIDE DEF w2
      <3>2. Progress(r, Effect(db, q), ideal, dirty, search)
        BY <1>0, <1>1, <1>14, <2>1, <2>2, <2>3, <3>1, ChangeProgress
      <3> QED BY <2>2, <2>3, <3>2
    <2>4. CASE ~Running(r)
      <3>1. ~r.overlap /\ ~r.failed
        BY <1>6, <1>9, <1>14 DEF Alone
      <3>2. /\ ideal' = [x \in All |-> IF r.reply = "200" /\ x \in Covers(q) THEN Settled(r, x) ELSE ideal[x]]
            /\ dirty' = IF r.reply = "200" THEN dirty \ Covers(q) ELSE dirty
        BY <1>1, <1>3, <1>10, <1>14, <2>4, <3>1 DEF Record
      <3> DEFINE w2 == ideal'
      <3>3. /\ r.reply = "200" => \A x \in Covers(q) : w2[x] = Settled(r, x)
            /\ r.reply # "200" => \A x \in Covers(q) : w2[x] = ideal[x]
        BY <1>10, <3>2
      <3> HIDE DEF w2
      <3>4. \A x \in Covers(q) : Good(x, Effect(db, q), w2, search) \/ (r.reply # "200" /\ x \in dirty)
        BY <1>0, <1>1, <1>14, <2>1, <2>2, <2>4, <3>3, ChangeProgress
      <3> QED BY <2>2, <2>4, <3>2, <3>4 DEF w2
    <2> QED BY <2>3, <2>4
  <1>15. ~Changes(q) => Covers(q) = {} /\ \A m, w, z : Progress(s, m, w, z, search)
    <2>1. s.op = q.op
      BY <1>9, <1>11 DEF Resembles
    <2> QED BY <2>1, CoversParts DEF Changes, Progress
  <1>16. ASSUME Alone(s) PROVE Progress(s, db', ideal', dirty', search)
    <2>1. CASE Changes(q)
      <3>1. Running(r) /\ Alone(q) /\ ok
        BY <1>1, <1>6, <1>9, <1>11, <1>16 DEF Alone, Tried, f
      <3>2. ideal' = ideal /\ dirty' = dirty
        BY <1>1, <3>1 DEF Record
      <3>3. Progress(r, db', ideal', dirty', search)
        BY <1>14, <2>1, <3>1, <3>2
      <3> QED BY <1>11, <3>3, ProgressAlike
    <2> QED BY <1>15, <2>1
  <1>17. ASSUME ~Running(s) PROVE \A x \in Covers(q) : x \in dirty' \/ Good(x, db', ideal', search)
    <2>1. CASE Changes(q)
      <3>1. ~Running(r) /\ Changes(r)
        BY <1>10, <1>11, <1>17, <2>1
      <3>2. CASE ~r.overlap /\ ~r.failed
        <4>1. ok /\ Alone(q)
          BY <1>1, <1>6, <1>9, <3>2 DEF Alone
        <4> QED BY <1>14, <2>1, <3>1, <4>1
      <3>3. CASE r.overlap \/ r.failed
        <4>1. dirty' = dirty \union Covers(q)
          BY <1>1, <1>10, <3>1, <3>3 DEF Record
        <4> QED BY <4>1
      <3> QED BY <3>2, <3>3
    <2> QED BY <1>15, <2>1
  <1>18. q.overlap => s.overlap
    BY <1>9, <1>11
  <1> QED BY <1>0, <1>1, <1>2, <1>5, <1>11, <1>12, <1>13, <1>16, <1>17, <1>18, StepSound DEF q, s

(* A round of the loop over the acl keys of a user. *)
LEMMA KeyDeletedSound ==
  ASSUME TInv, Sound(slot, db, ideal, dirty, search), TInv', NEW c \in Slots, NEW ok \in BOOLEAN, NEW t, NEW r,
         KeyDeleted(c, t, ok, r)
  PROVE  Sound(slot', db', ideal', dirty', search)
  <1> DEFINE q == slot[c]
             f == Tried(q, ok)
             s == slot'[c]
             left == Left(db, q.id, t)
  <1>0. Requests /\ Stores(db) /\ \A b \in Slots : IsRequest(slot[b], ops)
    BY DEF TInv, Requests
  <1>1. /\ IsRequest(q, ops) /\ q.pc = "delKey" /\ t \in q.todo /\ DelKeyMoves(f, t, r)
        /\ slot' = Watched([slot EXCEPT ![c] = r], db')
        /\ db' = Without(db, q.id, t) \/ (~ok /\ db' = db)
        /\ ideal' = ideal /\ dirty' = dirty
    BY <1>0 DEF KeyDeleted
  <1>2. db'.acl \subseteq Permissions /\ db.acl \subseteq Permissions /\ DOMAIN ideal = All
    BY DEF TInv, Stores, Sound
  <1>3. r.op = q.op /\ q.op = "delete" /\ DOMAIN r = Fields
    <2> HIDE DEF q, left
    <2> QED BY <1>1, DelKeyRequest
  <1>4. Running(q)
    BY <1>1 DEF Running
  <1>5. /\ Tracks(r, s, db')
        /\ \A b \in Slots : b # c => Kept(slot[b], slot'[b], db, db')
    BY <1>0, <1>1, <1>3, <1>4, WatchedSlots
  <1>6. /\ f.op = q.op /\ f.overlap = q.overlap /\ f.id = q.id /\ f.t = q.t /\ f.d = q.d /\ f.todo = q.todo
        /\ (~ok => f.failed) /\ (ok => f = q)
    BY <1>1, TriedFields DEF Tried
  <1>7. /\ db'.acl = left \/ (~ok /\ db'.acl = db.acl)
        /\ db'.records = db.records /\ db'.usersHot = db.usersHot /\ db'.docsHot = db.docsHot
        /\ db'.docsCold = db.docsCold
    BY <1>0, <1>1, WithoutParts
  <1>8. Covers(q) = {q.id} \union {p \in Permissions : p[2] = q.id}
    BY <1>3, CoversParts
  <1>9. \A x \in All : x \notin Covers(q) => SameAt(x, db, ideal, dirty, db', ideal', dirty')
    <2> SUFFICES ASSUME NEW x \in All, x \notin Covers(q) PROVE SameAt(x, db, ideal, dirty, db', ideal', dirty')
      OBVIOUS
    <2>1. x \in db'.acl <=> x \in db.acl
      BY <1>2, <1>7, <1>8 DEF Left
    <2> QED BY <1>1, <1>7, <2>1 DEF SameAt
  <1> HIDE DEF q, f, s
  <1>10. /\ r.op = q.op /\ r.id = q.id /\ r.t = q.t /\ r.d = q.d /\ r.overlap = q.overlap /\ r.failed = f.failed
         /\ r.todo = q.todo \ {t} /\ r.pc = IF q.todo = {t} THEN "audit" ELSE "delKey"
    BY <1>1, <1>6 DEF DelKeyMoves, Same
  <1>11. /\ Resembles(r, s) /\ s.overlap = r.overlap /\ s.failed = r.failed /\ Running(s)
         /\ Covers(s) = Covers(q)
    <2>1. Resembles(r, s) /\ s.overlap = r.overlap
      BY <1>5 DEF Tracks
    <2>2. s.failed = r.failed /\ s.pc = r.pc /\ s.op = q.op /\ s.id = q.id /\ s.t = q.t /\ s.d = q.d
      BY <1>10, <2>1 DEF Resembles
    <2>3. s.pc # "done"
      BY <1>10, <2>2
    <2> QED BY <2>1, <2>2, <2>3, CoversAlike DEF Running
  <1>12. ASSUME Alone(s) PROVE Progress(s, db', ideal', dirty', search)
    <2>1. ok /\ Alone(q)
      BY <1>4, <1>6, <1>10, <1>11, <1>12 DEF Alone
    <2>2. Deleting(q, db, search)
      BY <1>3, <2>1 DEF Sound, Progress, q
    <2>3. \A p \in db'.acl : p[2] = q.id => r.pc = "delKey" /\ p[1] \in r.todo
      <3> SUFFICES ASSUME NEW p \in db'.acl, p[2] = q.id PROVE r.pc = "delKey" /\ p[1] \in r.todo
        OBVIOUS
      <3>1. p \in db.acl /\ p[1] # t
        BY <1>7, <2>1 DEF Left
      <3>2. p[1] \in q.todo
        BY <1>1, <2>2, <3>1 DEF Deleting
      <3> QED BY <1>10, <3>1, <3>2
    <2>4. r.pc = "audit" => q.id \notin db.docsHot /\ q.id \notin db.docsCold
      <3>1. q.id \in Users
        BY <1>1, <1>3 DEF IsRequest, Shape
      <3> QED BY <1>0, <3>1, Things DEF Stores
    <2>5. Deleting(r, db', search)
      BY <1>1, <1>7, <1>10, <2>2, <2>3, <2>4 DEF Deleting
    <2>6. Progress(r, db', ideal', dirty', search)
      BY <1>3, <2>5 DEF Progress
    <2> QED BY <1>11, <2>6, ProgressAlike
  <1>13. q.overlap => s.overlap
    BY <1>10, <1>11
  <1> QED BY <1>0, <1>1, <1>2, <1>4, <1>5, <1>9, <1>11, <1>12, <1>13, StepSound DEF q, s

(* A round of a listing changes nothing. *)
LEMMA ListedSound ==
  ASSUME TInv, Sound(slot, db, ideal, dirty, search), NEW c \in Slots, NEW ok \in BOOLEAN, NEW i \in Items, NEW r,
         Listed(c, i, ok, r)
  PROVE  Sound(slot', db', ideal', dirty', search)
  <1> DEFINE q == slot[c]
             f == Tried(q, ok)
             s == slot'[c]
  <1>0. Requests /\ (\A b \in Slots : IsRequest(slot[b], ops)) /\ db.acl \subseteq Permissions /\ DOMAIN ideal = All
    BY DEF TInv, Requests, Stores, Sound
  <1>1. /\ IsRequest(q, ops) /\ q.pc \in {"get", "members"} /\ RoundMoves(f, i, ok, r)
        /\ slot' = Watched([slot EXCEPT ![c] = r], db) /\ db' = db /\ ideal' = ideal /\ dirty' = dirty
    BY <1>0 DEF Listed
  <1>2. r.op = q.op /\ DOMAIN r = Fields /\ Lists(q)
    <2> HIDE DEF q
    <2> QED BY <1>0, <1>1, RoundRequest
  <1>3. Running(q)
    BY <1>1 DEF Running
  <1>4. /\ Tracks(r, s, db)
        /\ \A b \in Slots : b # c => Kept(slot[b], slot'[b], db, db)
    BY <1>0, <1>1, <1>2, <1>3, WatchedSlots
  <1>5. f.overlap = q.overlap
    BY <1>1, TriedFields
  <1> HIDE DEF q, f, s
  <1>6. s.op = q.op /\ s.overlap = q.overlap
    BY <1>1, <1>2, <1>4, <1>5 DEF Tracks, Resembles, RoundMoves, Same
  <1>7. Covers(q) = {} /\ Covers(s) = {}
    BY <1>2, <1>6, CoversParts DEF Changes, Lists
  <1>8. \A x \in All : SameAt(x, db, ideal, dirty, db', ideal', dirty')
    BY <1>1 DEF SameAt
  <1>9. Progress(s, db', ideal', dirty', search)
    BY <1>2, <1>6 DEF Progress, Lists
  <1>10. \A b \in Slots : b # c => Kept(slot[b], slot'[b], db, db')
    BY <1>1, <1>4
  <1> QED BY <1>0, <1>1, <1>3, <1>6, <1>7, <1>8, <1>9, <1>10, StepSound DEF q, s

(* No request goes on. *)
LEMMA SameSound ==
  ASSUME TInv, TInv', Sound(slot, db, ideal, dirty, search), NEW c \in Slots, Running(slot[c]),
         \A b \in Slots : Kept(slot[b], slot'[b], db, db'), ideal' = ideal, dirty' = dirty,
         \A x \in All : x \notin Covers(slot[c]) => SameAt(x, db, ideal, dirty, db', ideal, dirty),
         Progress(slot[c], db, ideal, dirty, search) => Progress(slot[c], db', ideal, dirty, search)
  PROVE  Sound(slot', db', ideal', dirty', search)
  <1> DEFINE q == slot[c]
             s == slot'[c]
  <1>0. (\A b \in Slots : IsRequest(slot[b], ops)) /\ db'.acl \subseteq Permissions /\ DOMAIN ideal = All
    BY DEF TInv, Requests, Stores, Sound
  <1>1. Kept(q, s, db, db') /\ Running(q)
    OBVIOUS
  <1> HIDE DEF q, s
  <1>2. Running(s) /\ Resembles(q, s) /\ Covers(s) = Covers(q) /\ (q.overlap => s.overlap) /\ s.failed = q.failed
    BY <1>1, KeptRuns
  <1>3. ASSUME Alone(s) PROVE Progress(s, db', ideal', dirty', search)
    <2>1. Alone(q)
      BY <1>1, <1>2, <1>3 DEF Alone
    <2>2. Progress(q, db', ideal', dirty', search)
      BY <2>1 DEF Sound, q
    <2> QED BY <1>2, <2>2, ProgressAlike
  <1> QED BY <1>0, <1>1, <1>2, <1>3, StepSound DEF q, s

(* The DEL of an acl key that is made again. *)
LEMMA KeyRepeatedSound ==
  ASSUME TInv, Sound(slot, db, ideal, dirty, search), TInv', NEW c \in Slots, NEW t, KeyRepeated(c, t)
  PROVE  Sound(slot', db', ideal', dirty', search)
  <1> DEFINE q == slot[c]
  <1>1. Requests /\ Stores(db) /\ db.acl \subseteq Permissions
    BY DEF TInv, Stores
  <1>2. /\ \A b \in Slots : Kept(slot[b], slot'[b], db, db')
        /\ Running(q) /\ q.pc = "delKey" /\ q.op = "delete"
        /\ db'.acl = Left(db, q.id, t) /\ db'.records = db.records /\ db'.usersHot = db.usersHot
        /\ db'.docsHot = db.docsHot /\ db'.docsCold = db.docsCold /\ ideal' = ideal /\ dirty' = dirty
    BY <1>1, KeyRepeatedSlots
  <1> HIDE DEF q
  <1>3. Covers(q) = {q.id} \union {p \in Permissions : p[2] = q.id}
    BY <1>2, CoversParts
  <1>4. \A x \in All : x \notin Covers(q) => SameAt(x, db, ideal, dirty, db', ideal, dirty)
    <2> SUFFICES ASSUME NEW x \in All, x \notin Covers(q) PROVE SameAt(x, db, ideal, dirty, db', ideal, dirty)
      OBVIOUS
    <2>1. x \in db'.acl <=> x \in db.acl
      BY <1>1, <1>2, <1>3 DEF Left
    <2> QED BY <1>2, <2>1 DEF SameAt
  <1>5. Progress(q, db, ideal, dirty, search) => Progress(q, db', ideal, dirty, search)
    <2>1. db'.acl \subseteq db.acl
      BY <1>2 DEF Left
    <2>2. Deleting(q, db, search) => Deleting(q, db', search)
      BY <1>2, <2>1 DEF Deleting
    <2> QED BY <1>2, <2>2 DEF Progress
  <1> QED BY <1>2, <1>4, <1>5, SameSound DEF q

(* A request arrives; nobody is changing what it covers if it is alone.    *)
LEMMA BeginSound ==
  ASSUME TInv, Sound(slot, db, ideal, dirty, search), NEW c \in Slots, NEW q, Fresh(q), Begin(c, q)
  PROVE  Sound(slot', db', ideal', dirty', search)
  <1> DEFINE s == slot'[c]
             p == [q EXCEPT !.no = ops + 1]
  <1>0. Requests /\ \A b \in Slots : IsRequest(slot[b], ops)
    BY DEF TInv, Requests
  <1>1. /\ Arrived(q, s)
        /\ \A b \in Slots : b # c => /\ Kept(slot[b], slot'[b], db, db)
                                     /\ b \in Met(q) => slot'[b].overlap
        /\ ~Running(slot[c]) /\ UNCHANGED <<db, ideal, dirty>>
    BY <1>0, BeginSlots
  <1>2. /\ p.op = q.op /\ p.id = q.id /\ p.t = q.t /\ p.d = q.d /\ p.pc = q.pc
    BY DEF Fresh, Fields
  <1>3. Resembles(p, s) /\ s.overlap = (Met(q) # {})
    BY <1>1 DEF Arrived
  <1> HIDE DEF p, s
  <1>4. s.op = q.op /\ s.id = q.id /\ s.t = q.t /\ s.d = q.d /\ s.pc = q.pc
    BY <1>2, <1>3 DEF Resembles
  <1>5. Covers(s) = Covers(q)
    BY <1>4, CoversAlike
  <1>6. \A b \in Slots : b # c =>
          /\ Running(slot'[b]) <=> Running(slot[b])
          /\ Running(slot[b]) => /\ Resembles(slot[b], slot'[b]) /\ Covers(slot'[b]) = Covers(slot[b])
                                 /\ (slot[b].overlap => slot'[b].overlap) /\ slot'[b].failed = slot[b].failed
    BY <1>1, KeptRuns
  <1>7. OverlapsKnown(slot')
    <2> SUFFICES ASSUME NEW a \in Slots, NEW b \in Slots, a # b, Running(slot'[a]), Running(slot'[b]),
                        Covers(slot'[a]) \intersect Covers(slot'[b]) # {}
                 PROVE  slot'[a].overlap
      BY DEF OverlapsKnown
    <2>1. CASE a = c
      <3>1. b \in Met(q)
        BY <1>5, <1>6, <2>1 DEF Met, s
      <3> QED BY <1>3, <2>1, <3>1 DEF s
    <2>2. CASE b = c
      <3>1. a \in Met(q)
        BY <1>5, <1>6, <2>2 DEF Met, s
      <3> QED BY <1>1, <2>2, <3>1
    <2>3. CASE a # c /\ b # c
      <3>1. slot[a].overlap
        BY <1>6, <2>3 DEF Sound, OverlapsKnown
      <3> QED BY <1>6, <2>3, <3>1
    <2> QED BY <2>1, <2>2, <2>3
  <1>8. ASSUME NEW x \in All \ dirty, \A b \in Slots : Running(slot'[b]) => x \notin Covers(slot'[b])
        PROVE  Good(x, db, ideal, search)
    <2>1. \A b \in Slots : Running(slot[b]) => x \notin Covers(slot[b])
      BY <1>1, <1>6, <1>8
    <2> QED BY <2>1 DEF Sound
  <1>9. ASSUME Alone(s) PROVE Progress(s, db, ideal, dirty, search)
    <2>1. Met(q) = {}
      BY <1>3, <1>9 DEF Alone
    <2>2. CASE q.op = "create"
      <3>1. q.id \in Items /\ Covers(q) = {q.id} /\ q.pc = "exists"
        BY <2>2, CoversParts DEF Fresh, Shape
      <3>2. \A b \in Slots : Running(slot[b]) => q.id \notin Covers(slot[b])
        BY <2>1, <3>1 DEF Met
      <3>3. q.id \notin dirty => Good(q.id, db, ideal, search)
        BY <3>1, <3>2 DEF Sound, All
      <3>4. Creating(s, db, ideal, dirty, search)
        BY <1>4, <3>1, <3>3 DEF Creating
      <3> QED BY <1>4, <2>2, <3>4 DEF Progress
    <2>3. CASE q.op = "delete"
      <3>1. q.pc = "del"
        BY <2>3 DEF Fresh
      <3>2. Deleting(s, db, search)
        BY <1>4, <3>1 DEF Deleting
      <3> QED BY <1>4, <2>3, <3>2 DEF Progress
    <2>4. CASE q.op \notin {"create", "delete"}
      <3>1. q.pc # "audit" \/ q.op \notin {"grant", "revoke"}
        BY DEF Fresh
      <3> QED BY <1>4, <2>4, <3>1 DEF Progress
    <2> QED BY <2>2, <2>3, <2>4
  <1>10. ASSUME NEW b \in Slots, b # c, Alone(slot'[b]) PROVE Progress(slot'[b], db, ideal, dirty, search)
    <2>1. Alone(slot[b]) /\ Resembles(slot[b], slot'[b])
      BY <1>6, <1>10 DEF Alone
    <2>2. Progress(slot[b], db, ideal, dirty, search)
      BY <2>1 DEF Sound
    <2> QED BY <2>1, <2>2, ProgressAlike
  <1>11. \A b \in Slots : Alone(slot'[b]) => Progress(slot'[b], db, ideal, dirty, search)
    BY <1>9, <1>10 DEF s
  <1>12. DOMAIN ideal = All
    BY DEF Sound
  <1> QED BY <1>1, <1>7, <1>8, <1>11, <1>12 DEF Sound

StoresOK == Sound(slot, db, ideal, dirty, search)

(* Every step keeps the stores as the history of changes says. *)
LEMMA StoresKept == TInv /\ StoresOK /\ [Next]_vars => StoresOK'
  <1> SUFFICES ASSUME TInv, StoresOK, [Next]_vars PROVE StoresOK'
    OBVIOUS
  <1>0. Requests /\ Stores(db) /\ ops \in 0..MaxOps /\ (\A b \in Slots : IsRequest(slot[b], ops))
    BY OpsFacts DEF TInv, Requests
  <1>1. Step
    BY <1>0, NextStep
  <1>2. TInv'
    BY TypesKept
  <1>3. Sound(slot, db, ideal, dirty, search)
    BY DEF StoresOK
  <1>4. ASSUME Sound(slot', db', ideal', dirty', search), search' = search PROVE StoresOK'
    BY <1>4 DEF StoresOK
  <1>5. ASSUME NEW c \in Slots, NEW q, Fresh(q), Begin(c, q) PROVE StoresOK'
    BY <1>3, <1>4, <1>5, BeginSound DEF Begin
  <1>6. ASSUME NEW c \in Slots, NEW ok \in BOOLEAN, NEW r, Answered(c, ok, r) PROVE StoresOK'
    BY <1>2, <1>3, <1>4, <1>6, AnsweredSound DEF Answered
  <1>7. ASSUME NEW c \in Slots, Repeat(c) PROVE StoresOK'
    <2> DEFINE q == slot[c]
    <2>1. /\ \A b \in Slots : Kept(slot[b], slot'[b], db, db')
          /\ Running(q) /\ ~IsLoop(q) /\ db' = Effect(db, q)
      BY <1>0, <1>7, RepeatSlots
    <2>2. search' = search /\ ideal' = ideal /\ dirty' = dirty
      BY <1>7 DEF Repeat
    <2>3. IsRequest(q, ops)
      BY <1>0
    <2> HIDE DEF q
    <2>4. \A x \in All : x \notin Covers(q) => SameAt(x, db, ideal, dirty, db', ideal, dirty)
      BY <1>0, <2>1, <2>3, EffectLocal
    <2>5. Progress(q, db, ideal, dirty, search) => Progress(q, db', ideal, dirty, search)
      BY <1>0, <2>1, <2>3, EffectAgain
    <2>6. Sound(slot', db', ideal', dirty', search)
      BY <1>2, <1>3, <2>1, <2>2, <2>4, <2>5, SameSound DEF q
    <2> QED BY <1>4, <2>2, <2>6
  <1>8. ASSUME NEW c \in Slots, Expire(c) PROVE StoresOK'
    <2>1. /\ \A b \in Slots : Kept(slot[b], slot'[b], db, db)
          /\ UNCHANGED <<search, db, ideal, dirty>> /\ Running(slot[c])
      BY <1>0, <1>8, ExpireSlots DEF Expire
    <2>2. \A x \in All : SameAt(x, db, ideal, dirty, db', ideal, dirty)
      BY <2>1 DEF SameAt
    <2>3. Sound(slot', db', ideal', dirty', search)
      BY <1>2, <1>3, <2>1, <2>2, SameSound
    <2> QED BY <1>4, <2>1, <2>3
  <1>9. ASSUME NEW c \in Slots, NEW t \in Tenants, DelKey(c, t) PROVE StoresOK'
    <2>0. CASE KeyRepeated(c, t)
      <3>1. Sound(slot', db', ideal', dirty', search)
        BY <1>2, <1>3, <2>0, KeyRepeatedSound
      <3> QED BY <1>4, <2>0, <3>1 DEF KeyRepeated
    <2> SUFFICES ASSUME \E ok \in BOOLEAN : \E r : KeyDeleted(c, t, ok, r) PROVE StoresOK'
      BY <1>0, <1>9, <2>0, DelKeySplit
    <2>1a. PICK ok \in BOOLEAN : \E r : KeyDeleted(c, t, ok, r)
      OBVIOUS
    <2>1. PICK r : KeyDeleted(c, t, ok, r)
      BY <2>1a
    <2>2. Sound(slot', db', ideal', dirty', search)
      BY <1>2, <1>3, <2>1, KeyDeletedSound
    <2> QED BY <1>4, <2>1, <2>2 DEF KeyDeleted
  <1>10. ASSUME NEW c \in Slots, NEW i \in Items, Get(c, i) PROVE StoresOK'
    <2>1a. PICK ok \in BOOLEAN : \E r : Listed(c, i, ok, r)
      BY <1>0, <1>10, GetSplit
    <2>1. PICK r : Listed(c, i, ok, r)
      BY <2>1a
    <2>2. Sound(slot', db', ideal', dirty', search)
      BY <1>3, <2>1, ListedSound
    <2> QED BY <1>4, <2>1, <2>2 DEF Listed
  <1>11. CASE UNCHANGED vars
    BY <1>11 DEF vars, history, StoresOK
  <1> QED BY <1>1, <1>5, <1>6, <1>7, <1>8, <1>9, <1>10, <1>11 DEF Step

(* With no change made there is nothing the stores could miss. *)
LEMMA StoresInit == Init => StoresOK
  <1> SUFFICES ASSUME Init PROVE StoresOK
    OBVIOUS
  <1>1. \A c \in Slots : ~Running(slot[c])
    BY FreeFields DEF Init, Running
  <1>2. DOMAIN ideal = All
    BY DEF Init, All
  <1>3. /\ \A i \in Items : db.records[i] = IF i \in Archived THEN 0 ELSE None
        /\ db.acl = {} /\ db.usersHot = {} /\ db.docsHot = {} /\ db.docsCold = Archived
        /\ \A x \in All : ideal[x] = IF x \in Archived THEN 0 ELSE None
    BY DEF Init, All
  <1>4. 0 # None /\ Archived \subseteq Items /\ \A x \in Permissions : x \notin Archived
    BY Things, AdminAssumption
  <1>5. \A x \in All : Good(x, db, ideal, search)
    BY <1>3, <1>4 DEF Good, Index, All
  <1> QED BY <1>1, <1>2, <1>5 DEF StoresOK, Sound, OverlapsKnown, Alone

(* After a change that ran alone and without a failed call, records, search *)
(* index and permissions are as its answer says, for any number of users,  *)
(* documents, tenants and requests at the same time.                       *)
THEOREM StoresFollowHistoryHolds == Spec => []StoresFollowHistory
  <1>1. StoresOK => StoresFollowHistory
    <2> SUFFICES ASSUME StoresOK, NEW x \in (Items \union Permissions) \ dirty, AtRest(x)
                 PROVE  IF x \in Items
                          THEN /\ db.records[x] = ideal[x]
                               /\ search => (x \in db.usersHot \union db.docsHot \union db.docsCold
                                               <=> ideal[x] # None)
                          ELSE x \in db.acl <=> ideal[x] # None
      BY DEF StoresFollowHistory
    <2>1. Good(x, db, ideal, search)
      BY DEF StoresOK, Sound, AtRest, All
    <2> QED BY <2>1 DEF Good, Index
  <1>2. Spec => []StoresOK
    BY StoresInit, StoresKept, TypesHold, PTL DEF Spec
  <1> QED BY <1>1, <1>2, PTL

====
