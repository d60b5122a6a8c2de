---- MODULE RedisStore ----
(***************************************************************************)
(* The Redis store of redis_store.go, for one tenant (its id is part of    *)
(* every key).  A grant is kept twice, under the document and under the    *)
(* user.  Each operation is a list of Redis commands sent as a pipeline    *)
(* without MULTI: Redis runs one command at a time, and the commands of    *)
(* several callers interleave.  A pipeline may be lost part way; the       *)
(* client library then sends it again from the start or gives up.          *)
(*                                                                         *)
(* The four indexes map a (document, user) pair to Absent, to Forever (a   *)
(* member of a :perm set) or to the score of a member of an :exp sorted    *)
(* set.  Times are ticks, Second of them in one second; scores are whole   *)
(* seconds, as validTo.Unix() makes them.                                  *)
(***************************************************************************)
EXTENDS Integers, Sequences, FiniteSets

CONSTANTS
    Clients,        \* requests the service handles at the same time
    Docs, Users,
    Absent,         \* not in the index
    Forever,        \* a permanent grant, validTo == nil
    Ends,           \* the ends a grant may be given, in ticks
    Second,         \* ticks in one second
    MaxClock,       \* bound on the clock, in ticks
    MaxOps,         \* bound on the operations started
    MaxUnscripted,  \* the same, on a server without the scripts
    MaxLosses       \* bound on lost pipelines

ASSUME RedisAssumption ==
    /\ Second \in Nat \ {0}
    /\ MaxClock \in Nat /\ MaxOps \in Nat /\ MaxUnscripted \in 0..MaxOps /\ MaxLosses \in Nat
    /\ Ends \subseteq 0..(MaxClock + 1)
    /\ Absent # Forever /\ Absent \notin Int /\ Forever \notin Int
    /\ IsFiniteSet(Docs)

Pairs == Docs \X Users
Indexes == {"docPerm", "userPerm", "docExp", "userExp"}

VARIABLES
    clock,       \* time.Now(), in ticks
    db,          \* the four indexes
    scripts,     \* the Lua scripts are in Redis's script cache
    restricted,  \* documents whose :vis key says restricted
    client,      \* what each caller is doing
    ops,         \* operations started so far
    losses,      \* pipelines lost so far
    ideal,       \* history: the last operation on each pair, done alone
    dirty,       \* history: pairs whose last operation failed or overlapped another
    ungranted,   \* history: pairs of a running revocation without a grant in progress since it began
    revoked,     \* history: such pairs of a revocation that succeeded, and no grant begun since
    witness      \* history: documents of a check or listing that were open since it began

vars == <<clock, db, scripts, restricted, client, ops, losses, ideal, dirty, ungranted, revoked, witness>>

OpsBound == IF scripts THEN MaxOps ELSE MaxUnscripted

Unix(t) == t \div Second

Idle == [kind |-> "idle", d |-> Absent, u |-> Absent, to |-> Absent, now |-> 0,
         pipe |-> <<>>, pos |-> 1, tidy |-> FALSE, seen |-> {}, vis |-> "error",
         perm |-> FALSE, exp |-> FALSE, overlap |-> FALSE, noscript |-> FALSE,
         failed |-> FALSE, answer |-> "none"]

Running(c) == client[c].kind # "idle"
Revokes(o) == o.kind \in {"revoke", "revokeAll"}

(* The pairs an operation writes. *)
Covers(o) ==
    CASE o.kind \in {"grant", "revoke"} -> {<<o.d, o.u>>}
      [] o.kind = "revokeAll"           -> {p \in Pairs : p[2] = o.u}
      [] OTHER                          -> {}

----
(* The commands.  "put" stands for SADD, ZADD (x a value) and SREM, ZREM   *)
(* (x Absent); "script" for the EVALSHA of the two scripts, which remove a *)
(* member (Redis drops an empty key by itself); "expire" for               *)
(* ZREMRANGEBYSCORE -inf x.                                                *)
Put(i, p, x) == [do |-> "put", i |-> i, p |-> p, x |-> x]
Script(i, p) == [do |-> "script", i |-> i, p |-> p, x |-> Absent]
Expire(i, p, x) == [do |-> "expire", i |-> i, p |-> p, x |-> x]
Read(what, p) == [do |-> what, i |-> "userPerm", p |-> p, x |-> Absent]

InKey(i, p, q) == IF i = "docExp" THEN q[1] = p[1] ELSE q[2] = p[2]

(* What a command does to the indexes. *)
Apply(m, cmd) ==
    CASE cmd.do = "put" -> [m EXCEPT ![cmd.i][cmd.p] = cmd.x]
      [] cmd.do = "script" -> IF scripts THEN [m EXCEPT ![cmd.i][cmd.p] = Absent] ELSE m
      [] cmd.do = "expire" ->
           [m EXCEPT ![cmd.i] = [q \in Pairs |-> IF InKey(cmd.i, cmd.p, q) /\ @[q] # Absent
                                                    /\ @[q] <= cmd.x
                                                   THEN Absent ELSE @[q]]]
      [] cmd.do = "delUser" ->
           [i \in Indexes |-> IF i \in {"userPerm", "userExp"}
                                THEN [q \in Pairs |-> IF q[2] = cmd.p[2] THEN Absent ELSE m[i][q]]
                                ELSE m[i]]
      [] OTHER -> m

(* Plausible bug: the expiring grant forgets the user's permanent index. *)
GrantPipeForgetful(p, to, now) ==
    IF to = Forever
      THEN << Put("docPerm", p, Forever), Put("userPerm", p, Forever),
              Put("docExp", p, Absent), Put("userExp", p, Absent) >>
      ELSE << Expire("docExp", p, Unix(now)), Expire("userExp", p, Unix(now)),
              Put("docExp", p, Unix(to)), Put("userExp", p, Unix(to)),
              Put("docPerm", p, Absent) >>

(* Plausible bug: the end is rounded up to the next second. *)
GrantPipeRoundedUp(p, to, now) ==
    IF to = Forever
      THEN << Put("docPerm", p, Forever), Put("userPerm", p, Forever),
              Put("docExp", p, Absent), Put("userExp", p, Absent) >>
      ELSE << Expire("docExp", p, Unix(now)), Expire("userExp", p, Unix(now)),
              Put("docExp", p, Unix(to) + 1), Put("userExp", p, Unix(to) + 1),
              Put("docPerm", p, Absent), Put("userPerm", p, Absent) >>

(* Plausible bug: the user's end goes to the key of the permanent grants. *)
GrantPipeWrongKey(p, to, now) ==
    IF to = Forever
      THEN << Put("docPerm", p, Forever), Put("userPerm", p, Forever),
              Put("docExp", p, Absent), Put("userExp", p, Absent) >>
      ELSE << Expire("docExp", p, Unix(now)), Expire("userExp", p, Unix(now)),
              Put("docExp", p, Unix(to)), Put("userPerm", p, Unix(to)),
              Put("docPerm", p, Absent), Put("userPerm", p, Absent) >>

(* The pipeline of Grant and, after it, its cleanup. *)
GrantPipe(p, to, now) ==
    IF to = Forever
      THEN << Put("docPerm", p, Forever), Put("userPerm", p, Forever),
              Put("docExp", p, Absent), Put("userExp", p, Absent) >>
      ELSE << Expire("docExp", p, Unix(now)), Expire("userExp", p, Unix(now)),
              Put("docExp", p, Unix(to)), Put("userExp", p, Unix(to)),
              Put("docPerm", p, Absent), Put("userPerm", p, Absent) >>

CleanupPipe(p, to) ==
    IF to = Forever THEN << Script("docExp", p), Script("userExp", p) >>
                    ELSE << Script("docPerm", p), Script("userPerm", p) >>

(* Plausible bug: the user's side is not revoked. *)
RevokeDocSide(p) == << Script("docPerm", p), Script("docExp", p) >>

RevokePipe(p) ==
    << Script("docPerm", p), Script("docExp", p), Script("userPerm", p), Script("userExp", p) >>

(* RevokeAllUser reads the user's documents, then removes the user from    *)
(* each, in the random order of a Go map, and deletes the user's keys.     *)
Orders(S) == {s \in [1..Cardinality(S) -> S] : \A x \in S : \E i \in DOMAIN s : s[i] = x}

RevokeAllPipe(order, u) ==
    [i \in 1..(2 * Len(order)) |->
        Script(IF i % 2 = 1 THEN "docPerm" ELSE "docExp", <<order[(i + 1) \div 2], u>>)]
    \o << [do |-> "delUser", i |-> "userPerm", p |-> <<Absent, u>>, x |-> Absent] >>

CheckPipe(p) == << Read("vis", p), Read("perm", p), Read("exp", p) >>

----
(* Restricted documents are open to a user with a grant on the user's side *)
(* of the indexes; the document's side is not read.                        *)
Held(m, p, now) ==
    m["userPerm"][p] # Absent \/ (m["userExp"][p] # Absent /\ Unix(now) < m["userExp"][p])

Open(m, r, p, now) == p[1] \notin r \/ Held(m, p, now)

(* Plausible bug: what could not be read is taken for a permanent grant. *)
AnswerTrustingErrors(o) == IF o.vis # "restricted" \/ o.perm \/ ~o.exp THEN "allow" ELSE "deny"

(* visibilityFromCmd and isAllowedRestricted: no answer to the GET of the  *)
(* :vis key, or an error, counts as public.                                *)
Answer(o) == IF o.vis # "restricted" \/ o.perm \/ o.exp THEN "allow" ELSE "deny"

----
Init ==
    /\ clock = 0
    /\ db = [i \in Indexes |-> [p \in Pairs |-> Absent]]
    /\ scripts \in BOOLEAN
    /\ restricted = {}
    /\ client = [c \in Clients |-> Idle]
    /\ ops = 0 /\ losses = 0
    /\ ideal = [p \in Pairs |-> Absent]
    /\ dirty = {} /\ revoked = {}
    /\ ungranted = [c \in Clients |-> {}]
    /\ witness = [c \in Clients |-> {}]

Tick ==
    /\ clock < MaxClock
    /\ clock' = clock + 1
    /\ UNCHANGED <<db, scripts, restricted, client, ops, losses, ideal, dirty, ungranted, revoked>>

(* The pairs a grant is in progress on. *)
BeingGranted == UNION {Covers(client[b]) : b \in {a \in Clients : client[a].kind = "grant"}}

(* An operation begins; it and those it overlaps with on a pair lose their *)
(* claim to be the last.                                                   *)
Begin(c, o) ==
    LET met == {b \in Clients : Covers(client[b]) \intersect Covers(o) # {}} IN
    /\ ~Running(c) /\ ops < OpsBound
    /\ ops' = ops + 1
    /\ client' = [b \in Clients |->
                    IF b = c THEN [o EXCEPT !.overlap = met # {}]
                    ELSE [client[b] EXCEPT !.overlap = @ \/ b \in met]]
    /\ revoked' = IF o.kind = "grant" THEN revoked \ Covers(o) ELSE revoked
    /\ ungranted' = [b \in Clients |->
                       IF b = c THEN IF Revokes(o) THEN Covers(o) \ BeingGranted ELSE {}
                       ELSE IF o.kind = "grant" THEN ungranted[b] \ Covers(o) ELSE ungranted[b]]
    /\ UNCHANGED <<clock, db, scripts, restricted, losses, ideal, dirty>>

(* Checks and listings are given the time; an expiring grant reads it, to  *)
(* remove what has run out, and nothing else does.                         *)
TimeFor(kind) == IF kind \in {"check", "list"} THEN clock ELSE 0

Op(kind, d, u) == [Idle EXCEPT !.kind = kind, !.d = d, !.u = u, !.now = TimeFor(kind)]

(* A grant that ends before it starts is refused and nothing is sent; else *)
(* its start, from, is not used.                                           *)
Grant(c, d, u, from, to) ==
    LET now == IF to = Forever THEN 0 ELSE clock
    IN  /\ to # Forever => to >= from
        /\ Begin(c, [Op("grant", d, u) EXCEPT !.to = to, !.now = now,
                                              !.pipe = GrantPipe(<<d, u>>, to, now)])

Revoke(c, d, u) == Begin(c, [Op("revoke", d, u) EXCEPT !.pipe = RevokePipe(<<d, u>>)])

RevokeAllUser(c, u) ==
    Begin(c, [Op("revokeAll", Absent, u) EXCEPT !.pipe = <<Read("members", <<Absent, u>>)>>])

CheckBatch(c, d, u) == Begin(c, [Op("check", d, u) EXCEPT !.pipe = CheckPipe(<<d, u>>)])

(* ListGrants reads the permanent grants, then those that end after now. *)
ListGrants(c, u) ==
    Begin(c, [Op("list", Absent, u) EXCEPT !.pipe = <<Read("members", <<Absent, u>>)>>])

(* SetVisibility is a single command. *)
SetVisibility(d, v) ==
    /\ restricted' = IF v = "restricted" THEN restricted \union {d} ELSE restricted \ {d}
    /\ ops < OpsBound
    /\ ops' = ops + 1
    /\ UNCHANGED <<clock, db, scripts, client, losses, ideal, dirty, ungranted, revoked>>

----
(* What a command's reply adds to the caller's state. *)
Reply(o, cmd) ==
    CASE cmd.do = "script"  -> [o EXCEPT !.noscript = @ \/ ~scripts]
      [] cmd.do = "members" -> [o EXCEPT !.seen = {d \in Docs : db["userPerm"][<<d, o.u>>] # Absent}]
      [] cmd.do = "range"   -> [o EXCEPT !.seen = @ \union {d \in Docs : db["userExp"][<<d, o.u>>] # Absent}]
      [] cmd.do = "ending"  -> [o EXCEPT !.seen = @ \union
                                  {d \in Docs : /\ db["userExp"][<<d, o.u>>] # Absent
                                               /\ Unix(o.now) < db["userExp"][<<d, o.u>>]}]
      [] cmd.do = "vis"     -> [o EXCEPT !.vis = IF o.d \in restricted THEN "restricted" ELSE "public"]
      [] cmd.do = "perm"    -> [o EXCEPT !.perm = db["userPerm"][<<o.d, o.u>>] # Absent]
      [] cmd.do = "exp"     -> [o EXCEPT !.exp = /\ db["userExp"][<<o.d, o.u>>] # Absent
                                                 /\ Unix(o.now) < db["userExp"][<<o.d, o.u>>]]
      [] OTHER              -> o

(* The operation ends, with or without an error.  ListGrants returns no    *)
(* error, but what it has read so far.                                     *)
End(c, o, ok) ==
    LET alone == ok /\ ~o.overlap IN
        /\ client' = [client EXCEPT ![c] =
                        [Idle EXCEPT !.answer = IF o.kind = "check" THEN Answer(o) ELSE "none",
                                     !.seen = IF o.kind = "list" THEN o.seen ELSE {},
                                     !.failed = ~ok]]
        /\ ideal' = [p \in Pairs |-> IF p \in Covers(o) /\ alone THEN o.to ELSE ideal[p]]
        /\ dirty' = IF ~alone THEN dirty \union Covers(o)
                    ELSE IF o.kind = "revokeAll" THEN dirty ELSE dirty \ Covers(o)
        /\ revoked' = IF ok THEN revoked \union ungranted[c] ELSE revoked
        /\ ungranted' = [ungranted EXCEPT ![c] = {}]

(* Redis runs the next command of the caller's pipeline.  The last one of  *)
(* a pipeline brings the caller to its next pipeline or to its end.  The   *)
(* error of a script that is not cached is an error of the pipeline,       *)
(* except in the cleanup, whose errors are dropped.                        *)
Exec(c) ==
    LET cmd == client[c].pipe[client[c].pos]
        o == Reply(client[c], cmd)
    IN  /\ Running(c)
        /\ db' = Apply(db, cmd)
        /\ \/ /\ o.pos < Len(o.pipe)
              /\ client' = [client EXCEPT ![c] = [o EXCEPT !.pos = @ + 1]]
              /\ UNCHANGED <<ideal, dirty, ungranted, revoked>>
           \/ /\ o.pos = Len(o.pipe) /\ o.kind = "grant" /\ ~o.tidy
              /\ client' = [client EXCEPT ![c] =
                              [o EXCEPT !.tidy = TRUE, !.pos = 1,
                                        !.pipe = CleanupPipe(<<o.d, o.u>>, o.to)]]
              /\ UNCHANGED <<ideal, dirty, ungranted, revoked>>
           \/ /\ cmd.do = "members"
              /\ client' = [client EXCEPT ![c] =
                              [o EXCEPT !.pipe = <<Read(IF o.kind = "list" THEN "ending" ELSE "range",
                                                        cmd.p)>>]]
              /\ UNCHANGED <<ideal, dirty, ungranted, revoked>>
           \/ /\ cmd.do = "range"
              /\ \E order \in Orders(o.seen) :
                   client' = [client EXCEPT ![c] =
                                [o EXCEPT !.pos = 1, !.pipe = RevokeAllPipe(order, o.u)]]
              /\ UNCHANGED <<ideal, dirty, ungranted, revoked>>
           \/ /\ o.pos = Len(o.pipe) /\ cmd.do \notin {"members", "range"} /\ (o.kind = "grant" => o.tidy)
              /\ End(c, o, o.tidy \/ ~o.noscript)
        /\ UNCHANGED <<clock, scripts, restricted, ops, losses>>

(* The connection is lost, before the next command is carried out or with  *)
(* its reply, and so perhaps after all of the pipeline is done.            *)
Lost(c) ==
    /\ Running(c) /\ losses < MaxLosses
    /\ losses' = losses + 1
    /\ db' \in {db, Apply(db, client[c].pipe[client[c].pos])}

(* Then all of the pipeline is sent again, or the operation fails.  A lost *)
(* cleanup is no failure.                                                  *)
Retry(c) ==
    /\ Lost(c)
    /\ client' = [client EXCEPT ![c] = [@ EXCEPT !.pos = 1, !.vis = "error",
                                                  !.perm = FALSE, !.exp = FALSE]]
    /\ UNCHANGED <<clock, scripts, restricted, ops, ideal, dirty, ungranted, revoked>>

GiveUp(c) ==
    /\ Lost(c)
    /\ End(c, client[c], client[c].tidy)
    /\ UNCHANGED <<clock, scripts, restricted, ops>>

Finished ==
    /\ ops = OpsBound /\ \A c \in Clients : ~Running(c)
    /\ UNCHANGED <<clock, db, scripts, restricted, client, ops, losses, ideal, dirty, ungranted, revoked>>

(* Which documents of a running check or listing have been open to its     *)
(* user since it began?                                                    *)
OpenTo(o, d) ==
    CASE o.kind = "check" -> d = o.d /\ Open(db', restricted', <<d, o.u>>, o.now)
      [] o.kind = "list"  -> Held(db', <<d, o.u>>, o.now)
      [] OTHER            -> FALSE

Watch ==
    witness' = [c \in Clients |->
                  LET o == IF Running(c) THEN client[c] ELSE client'[c]
                  IN  (IF Running(c) THEN witness[c] ELSE {}) \union {d \in Docs : OpenTo(o, d)}]

Step ==
    \/ Tick
    \/ \E d \in Docs, v \in {"public", "restricted"} : SetVisibility(d, v)
    \/ \E c \in Clients :
         \/ \E d \in Docs, u \in Users :
              \/ \E from \in Ends \union {0}, to \in Ends \union {Forever} : Grant(c, d, u, from, to)
              \/ Revoke(c, d, u)
              \/ CheckBatch(c, d, u)
         \/ \E u \in Users : RevokeAllUser(c, u) \/ ListGrants(c, u)
         \/ Exec(c)
         \/ Retry(c)
         \/ GiveUp(c)
    \/ Finished

Next == Step /\ Watch

Spec == Init /\ [][Next]_vars

----
TypeOK ==
    /\ clock \in 0..MaxClock
    /\ \A p \in Pairs :
         /\ db["docPerm"][p] \in {Absent, Forever} /\ db["userPerm"][p] \in {Absent, Forever}
         /\ db["docExp"][p] \in {Absent} \union 0..Unix(MaxClock + 1)
         /\ db["userExp"][p] \in {Absent} \union 0..Unix(MaxClock + 1)
    /\ scripts \in BOOLEAN /\ restricted \subseteq Docs
    /\ \A c \in Clients : Running(c) => client[c].pos \in DOMAIN client[c].pipe
    /\ ops \in 0..MaxOps /\ losses \in 0..MaxLosses
    /\ ideal \in [Pairs -> {Absent, Forever} \union 0..(MaxClock + 1)]
    /\ dirty \subseteq Pairs /\ revoked \subseteq Pairs
    /\ ungranted \in [Clients -> SUBSET Pairs]
    /\ witness \in [Clients -> SUBSET Docs]

(* No operation is at work on the pair and the last one was alone and did  *)
(* not fail.                                                               *)
Settled(p) == p \notin dirty /\ \A c \in Clients : p \notin Covers(client[c])

InForce(i, p) ==
    IF db[i][p] # Absent /\ db[i][p] # Forever /\ db[i][p] <= Unix(clock)
      THEN Absent ELSE db[i][p]

(* The index of the document and the index of the user hold the same       *)
(* grants in force for every pair whose last operation went through        *)
(* undisturbed, whatever failed, was repeated or overlapped before it, and *)
(* whatever expiry sweeps and RevokeAllUser of other pairs did since.      *)
IndexesAgree ==
    \A p \in Pairs : Settled(p) =>
      /\ InForce("docPerm", p) = InForce("userPerm", p)
      /\ InForce("docExp", p) = InForce("userExp", p)

(* For such a pair the answer is that of its last operation: a grant that  *)
(* ends counts until the second of its end, so never past its end and at   *)
(* most one second less.                                                   *)
AccessFollowsHistory ==
    \A p \in Pairs : Settled(p) =>
      LET end == ideal[p] IN
      /\ Held(db, p, clock) => end # Absent /\ (end = Forever \/ clock < end)
      /\ end # Absent /\ (end = Forever \/ clock + Second <= end) => Held(db, p, clock)

(* A revocation, of a pair or of all a user has, that reported success     *)
(* lasts until a new grant of the pair is asked for, if no grant of the    *)
(* pair was in progress when it began or was begun before it ended.  That  *)
(* is so also when it overlapped other revocations and the expiry sweeps   *)
(* of grants, was repeated, or came upon a pair that failed or overlapping *)
(* operations had left unsettled.  Commands of a lost pipeline that reach  *)
(* Redis later are not modelled.                                           *)
RevokedStaysRevoked == \A p \in revoked : ~Held(db, p, clock)

(* The three reads of a check are not one snapshot, nor are the two of a   *)
(* listing, and yet a document is allowed or listed only if at some time   *)
(* of the operation it was open to the user.  For a check this asks that   *)
(* no read failed.                                                         *)
AllowedWasOpen ==
    [][\A c \in Clients :
         /\ client[c].kind = "check" /\ client'[c].answer = "allow" /\ ~client'[c].failed
              => client[c].d \in witness'[c]
         /\ client[c].kind = "list" /\ client'[c].kind = "idle"
              => client'[c].seen \subseteq witness'[c]]_vars

(* handler/acl.go says of the same call: fail-closed on error.  Also a     *)
(* check whose reads fail would allow only what was open.                  *)
FailClosed ==
    [][\A c \in Clients :
         client[c].kind = "check" /\ client'[c].answer = "allow"
           => client[c].d \in witness'[c]]_vars

(* The comment on the second pipeline of Grant calls it a best-effort      *)
(* cleanup of empty keys: it takes no access away.                         *)
CleanupOnlyTidies ==
    [][\A c \in Clients, p \in Pairs :
         client[c].tidy /\ client'[c] # client[c] /\ Held(db, p, clock)
           => Held(db', p, clock)]_vars

====
