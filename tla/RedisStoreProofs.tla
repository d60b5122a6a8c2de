---- MODULE RedisStoreProofs ----
(***************************************************************************)
(* Proofs about RedisStore, for all documents, users, callers and lengths  *)
(* of a second, with any number of lost pipelines.  The argument is about  *)
(* one pair at a time: an operation that overlaps no other on the pair has *)
(* done to it what the commands of its pipeline so far say, because what   *)
(* the others do to the pair is gentle: they remove an entry that has run  *)
(* out, and nothing else.                                                  *)
(***************************************************************************)
EXTENDS RedisStore, FiniteSetTheorems, SequenceTheorems, TLAPS

(* The scores of the expiring indexes, and what an index may hold. *)
Cells == {Absent, Forever} \union Int
Perms == {"docPerm", "userPerm"}
Exps == {"docExp", "userExp"}

CellOK(i, x) == IF i \in Perms THEN x \in {Absent, Forever} ELSE x \in {Absent} \union 0..Unix(MaxClock + 1)

DbOK ==
    /\ clock \in 0..MaxClock
    /\ db \in [Indexes -> [Pairs -> Cells]]
    /\ \A i \in Indexes, p \in Pairs : CellOK(i, db[i][p])

(* A score that the clock has reached; an index without a score in force;  *)
(* an index whose score is x until it has run out.                         *)
Past(x, now) == x \in Int /\ x <= Unix(now)
Gone(m, i, p, now) == m[i][p] = Absent \/ Past(m[i][p], now)
Scored(m, i, p, x, now) == m[i][p] = x \/ (m[i][p] = Absent /\ Past(x, now))

(* The two sides agree on the pair, and say that the last grant is to e.   *)
Agree(m, p, now) ==
    /\ m["docPerm"][p] = m["userPerm"][p]
    /\ \/ m["docExp"][p] = m["userExp"][p]
       \/ Gone(m, "docExp", p, now) /\ Gone(m, "userExp", p, now)

Follows(m, p, e, now) ==
    CASE e = Forever -> m["userPerm"][p] = Forever /\ m["userExp"][p] = Absent
      [] e = Absent  -> m["userPerm"][p] = Absent /\ Gone(m, "userExp", p, now)
      [] OTHER       -> m["userPerm"][p] = Absent /\ Scored(m, "userExp", p, Unix(e), now)

(* What an operation that overlaps no other has done to a pair of its own. *)
Granting(o, m, p, now) ==
    IF o.to = Forever
      THEN /\ o.tidy \/ o.pos > 1 => m["docPerm"][p] = Forever
           /\ o.tidy \/ o.pos > 2 => m["userPerm"][p] = Forever
           /\ o.tidy \/ o.pos > 3 => m["docExp"][p] = Absent
           /\ o.tidy => m["userExp"][p] = Absent
      ELSE /\ o.tidy \/ o.pos > 3 => Scored(m, "docExp", p, Unix(o.to), now)
           /\ o.tidy \/ o.pos > 4 => Scored(m, "userExp", p, Unix(o.to), now)
           /\ o.tidy \/ o.pos > 5 => m["docPerm"][p] = Absent
           /\ o.tidy => m["userPerm"][p] = Absent

Revoking(o, m, p) ==
    o.noscript \/ /\ o.pos > 1 => m["docPerm"][p] = Absent
                  /\ o.pos > 2 => m["docExp"][p] = Absent
                  /\ o.pos > 3 => m["userPerm"][p] = Absent

Members(u) == <<Read("members", <<Absent, u>>)>>
Ranged(u) == <<Read("range", <<Absent, u>>)>>

(* RevokeAllUser finds every document of the user that has the user, and   *)
(* has gone through the first of them.                                     *)
RevokingAll(o, m, p, now) ==
    /\ o.pipe = Members(o.u) => Agree(m, p, now)
    /\ o.pipe = Ranged(o.u) => /\ Agree(m, p, now)
                               /\ p[1] \notin o.seen => m["userPerm"][p] = Absent
    /\ \A order \in Orders(o.seen) :
         o.pipe = RevokeAllPipe(order, o.u) =>
           /\ p[1] \notin o.seen => m["docPerm"][p] = Absent /\ Gone(m, "docExp", p, now)
           /\ \A j \in 1..Len(order) :
                order[j] = p[1] =>
                  /\ o.pos > 2 * j - 1 => o.noscript \/ m["docPerm"][p] = Absent
                  /\ o.pos > 2 * j => o.noscript \/ m["docExp"][p] = Absent

Progress(o, m, p, now, dirt) ==
    /\ o.kind = "grant" => Granting(o, m, p, now)
    /\ o.kind = "revoke" => Revoking(o, m, p)
    /\ o.kind = "revokeAll" /\ p \notin dirt => RevokingAll(o, m, p, now)

(* A caller's state: its fields, and which pipelines an operation goes     *)
(* through.                                                                *)
Fields == {"kind", "d", "u", "to", "now", "pipe", "pos", "tidy", "seen", "vis",
           "perm", "exp", "overlap", "noscript", "failed", "answer"}

IsCaller(o) ==
    /\ DOMAIN o = Fields
    /\ o.kind \in {"idle", "grant", "revoke", "revokeAll", "check", "list"}
    /\ o.pos \in Nat /\ o.now \in Nat /\ o.seen \subseteq Docs
    /\ o.overlap \in BOOLEAN /\ o.noscript \in BOOLEAN /\ o.tidy \in BOOLEAN

Shape(o, now) ==
    /\ o.kind # "idle" => o.pos \in 1..Len(o.pipe) /\ o.now <= now
    /\ o.kind # "grant" => ~o.tidy /\ o.to = Absent
    /\ o.kind \in {"grant", "revoke", "check"} => o.d \in Docs /\ o.u \in Users
    /\ o.kind \in {"revokeAll", "list"} => o.u \in Users
    /\ o.kind = "grant" =>
         /\ o.to \in Ends \union {Forever}
         /\ o.pipe = IF o.tidy THEN CleanupPipe(<<o.d, o.u>>, o.to)
                               ELSE GrantPipe(<<o.d, o.u>>, o.to, o.now)
    /\ o.kind = "revoke" => o.pipe = RevokePipe(<<o.d, o.u>>)
    /\ o.kind = "revokeAll" => \/ o.pipe = Members(o.u) \/ o.pipe = Ranged(o.u)
                               \/ \E order \in Orders(o.seen) : o.pipe = RevokeAllPipe(order, o.u)
    /\ o.kind = "check" => o.pipe = CheckPipe(<<o.d, o.u>>)
    /\ o.kind = "list" => o.pipe = Members(o.u) \/ o.pipe = <<Read("ending", <<Absent, o.u>>)>>

CallersOK ==
    /\ DOMAIN client = Clients
    /\ \A c \in Clients : IsCaller(client[c]) /\ Shape(client[c], clock)

(* Operations at work on the same pair know that they overlap. *)
OverlapsKnown ==
    \A a, b \in Clients :
      a # b /\ Covers(client[a]) \intersect Covers(client[b]) # {} => client[a].overlap

AloneDone ==
    \A c \in Clients : ~client[c].overlap =>
      \A p \in Covers(client[c]) : Progress(client[c], db, p, clock, dirty)

SettledOK ==
    /\ ideal \in [Pairs -> {Absent, Forever} \union 0..(MaxClock + 1)]
    /\ dirty \subseteq Pairs
    /\ \A p \in Pairs : Settled(p) => Agree(db, p, clock) /\ Follows(db, p, ideal[p], clock)

IInv == DbOK /\ CallersOK /\ OverlapsKnown /\ AloneDone /\ SettledOK

----
(* Whole seconds: the clock and the ends of grants. *)
LEMMA UnixFacts ==
  ASSUME NEW a \in Nat, NEW b \in Nat
  PROVE  /\ Unix(a) \in Nat
         /\ a <= b => Unix(a) <= Unix(b)
         /\ a + Second <= b => Unix(a) < Unix(b)
  <1>1. Second \in Nat \ {0}
    BY RedisAssumption
  <1>2. a \div Second \in Nat
    BY <1>1
  <1>3. a <= b => a \div Second <= b \div Second
    BY <1>1
  <1>4. a + Second <= b => a \div Second < b \div Second
    BY <1>1
  <1> QED BY <1>2, <1>3, <1>4 DEF Unix

(* What has run out has run out later too. *)
LEMMA PastLater ==
  ASSUME NEW now \in Nat, NEW now2 \in Nat, now <= now2, NEW x, Past(x, now)
  PROVE  Past(x, now2)
  <1>1. Unix(now) \in Nat /\ Unix(now2) \in Nat /\ Unix(now) <= Unix(now2)
    BY UnixFacts
  <1> HIDE DEF Unix
  <1> QED BY <1>1 DEF Past

(* The four indexes, and what a score cannot be. *)
LEMMA IndexFacts ==
  /\ "docPerm" \in Indexes /\ "userPerm" \in Indexes /\ "docExp" \in Indexes /\ "userExp" \in Indexes
  /\ "docPerm" \notin Exps /\ "userPerm" \notin Exps
  /\ \A i \in Indexes : i \in Perms \/ i \in Exps
  /\ Absent # Forever /\ Absent \notin Int /\ Forever \notin Int
  BY RedisAssumption DEF Indexes, Exps, Perms

(* Between m and m2 time may pass, and entries of the pair that have run   *)
(* out may go; nothing else happens to the pair.                           *)
Gentle(m, m2, p, now2) ==
    \A i \in Indexes : \/ m2[i][p] = m[i][p]
                       \/ i \in Exps /\ Past(m[i][p], now2) /\ m2[i][p] = Absent

(* A gentle step on a pair: permanent entries stay, expired ones may go. *)
LEMMA GentleCells ==
  ASSUME NEW m, NEW m2, NEW p, NEW now \in Nat, NEW now2 \in Nat, now <= now2,
         Gentle(m, m2, p, now2)
  PROVE  /\ m2["docPerm"][p] = m["docPerm"][p] /\ m2["userPerm"][p] = m["userPerm"][p]
         /\ \A i \in Exps : /\ m[i][p] = Absent => m2[i][p] = Absent
                            /\ Gone(m, i, p, now) => Gone(m2, i, p, now2)
                            /\ m2[i][p] # m[i][p] => Gone(m2, i, p, now2)
                            /\ \A x : Scored(m, i, p, x, now) => Scored(m2, i, p, x, now2)
  <1>1. /\ m2["docPerm"][p] = m["docPerm"][p] /\ m2["userPerm"][p] = m["userPerm"][p]
    BY IndexFacts DEF Gentle
  <1>2. ASSUME NEW i \in Exps
        PROVE  m2[i][p] = m[i][p] \/ (Past(m[i][p], now2) /\ m2[i][p] = Absent)
    BY <1>2 DEF Gentle, Exps, Indexes
  <1>3. Absent \notin Int
    BY IndexFacts
  <1>4. ASSUME NEW i \in Exps, m[i][p] = Absent PROVE m2[i][p] = Absent
    BY <1>2, <1>3, <1>4 DEF Past
  <1>5. ASSUME NEW i \in Exps, Gone(m, i, p, now) PROVE Gone(m2, i, p, now2)
    BY <1>2, <1>4, <1>5, PastLater DEF Gone
  <1>6. ASSUME NEW i \in Exps, m2[i][p] # m[i][p] PROVE Gone(m2, i, p, now2)
    BY <1>2, <1>6 DEF Gone
  <1>7. ASSUME NEW i \in Exps, NEW x, Scored(m, i, p, x, now) PROVE Scored(m2, i, p, x, now2)
    BY <1>2, <1>4, <1>7, PastLater DEF Scored
  <1> QED BY <1>1, <1>4, <1>5, <1>6, <1>7

(* What has been established about a pair survives a gentle step. *)
LEMMA GentleAgree ==
  ASSUME NEW m, NEW m2, NEW p, NEW now \in Nat, NEW now2 \in Nat, now <= now2,
         Gentle(m, m2, p, now2)
  PROVE  /\ Agree(m, p, now) => Agree(m2, p, now2)
         /\ \A e : Follows(m, p, e, now) => Follows(m2, p, e, now2)
  <1>1. "docExp" \in Exps /\ "userExp" \in Exps
    BY DEF Exps
  <1>2. /\ m2["docPerm"][p] = m["docPerm"][p] /\ m2["userPerm"][p] = m["userPerm"][p]
        /\ \A i \in Exps : /\ m[i][p] = Absent => m2[i][p] = Absent
                           /\ Gone(m, i, p, now) => Gone(m2, i, p, now2)
                           /\ m2[i][p] # m[i][p] => Gone(m2, i, p, now2)
                           /\ \A x : Scored(m, i, p, x, now) => Scored(m2, i, p, x, now2)
    BY GentleCells
  <1>3. ASSUME Agree(m, p, now) PROVE Agree(m2, p, now2)
    <2>1. CASE Gone(m, "docExp", p, now) /\ Gone(m, "userExp", p, now)
      BY <1>1, <1>2, <1>3, <2>1 DEF Agree
    <2>2. CASE m["docExp"][p] = m["userExp"][p]
      <3>1. /\ m2["docExp"][p] = m["docExp"][p] \/ (Past(m["docExp"][p], now2) /\ m2["docExp"][p] = Absent)
            /\ m2["userExp"][p] = m["userExp"][p] \/ (Past(m["userExp"][p], now2) /\ m2["userExp"][p] = Absent)
        BY <1>1 DEF Gentle, Exps, Indexes
      <3> QED BY <1>2, <1>3, <2>2, <3>1 DEF Agree, Gone
    <2> QED BY <1>3, <2>1, <2>2 DEF Agree
  <1>4. ASSUME NEW e, Follows(m, p, e, now) PROVE Follows(m2, p, e, now2)
    BY <1>1, <1>2, <1>4 DEF Follows
  <1> QED BY <1>3, <1>4

(* How far an operation has come survives a gentle step. *)
LEMMA GentleProgress ==
  ASSUME NEW m, NEW m2, NEW p, NEW now \in Nat, NEW now2 \in Nat, now <= now2,
         Gentle(m, m2, p, now2), NEW o, NEW dirt, NEW dirt2, p \in dirt => p \in dirt2,
         Progress(o, m, p, now, dirt)
  PROVE  Progress(o, m2, p, now2, dirt2)
  <1>1. "docExp" \in Exps /\ "userExp" \in Exps
    BY DEF Exps
  <1>2. /\ m2["docPerm"][p] = m["docPerm"][p] /\ m2["userPerm"][p] = m["userPerm"][p]
        /\ \A i \in Exps : /\ m[i][p] = Absent => m2[i][p] = Absent
                           /\ Gone(m, i, p, now) => Gone(m2, i, p, now2)
                           /\ m2[i][p] # m[i][p] => Gone(m2, i, p, now2)
                           /\ \A x : Scored(m, i, p, x, now) => Scored(m2, i, p, x, now2)
    BY GentleCells
  <1>3. Granting(o, m, p, now) => Granting(o, m2, p, now2)
    BY <1>1, <1>2 DEF Granting
  <1>4. Revoking(o, m, p) => Revoking(o, m2, p)
    BY <1>1, <1>2 DEF Revoking
  <1>5. Agree(m, p, now) => Agree(m2, p, now2)
    BY GentleAgree
  <1>6. ASSUME RevokingAll(o, m, p, now) PROVE RevokingAll(o, m2, p, now2)
    <2> HIDE DEF Agree
    <2>1. /\ o.pipe = Members(o.u) => Agree(m2, p, now2)
          /\ o.pipe = Ranged(o.u) => /\ Agree(m2, p, now2)
                                     /\ p[1] \notin o.seen => m2["userPerm"][p] = Absent
      BY <1>2, <1>5, <1>6 DEF RevokingAll
    <2>2. ASSUME NEW order \in Orders(o.seen), o.pipe = RevokeAllPipe(order, o.u)
          PROVE  /\ p[1] \notin o.seen => m2["docPerm"][p] = Absent /\ Gone(m2, "docExp", p, now2)
                 /\ \A j \in 1..Len(order) :
                      order[j] = p[1] =>
                        /\ o.pos > 2 * j - 1 => o.noscript \/ m2["docPerm"][p] = Absent
                        /\ o.pos > 2 * j => o.noscript \/ m2["docExp"][p] = Absent
      <3>1. /\ p[1] \notin o.seen => m["docPerm"][p] = Absent /\ Gone(m, "docExp", p, now)
            /\ \A j \in 1..Len(order) :
                 order[j] = p[1] =>
                   /\ o.pos > 2 * j - 1 => o.noscript \/ m["docPerm"][p] = Absent
                   /\ o.pos > 2 * j => o.noscript \/ m["docExp"][p] = Absent
        BY <1>6, <2>2 DEF RevokingAll
      <3>2. m["docExp"][p] = Absent => m2["docExp"][p] = Absent
        BY <1>1, <1>2
      <3>3. Gone(m, "docExp", p, now) => Gone(m2, "docExp", p, now2)
        BY <1>1, <1>2
      <3> QED BY <1>2, <3>1, <3>2, <3>3
    <2> QED BY <2>1, <2>2 DEF RevokingAll
  <1> QED BY <1>3, <1>4, <1>6 DEF Progress

----
(* What each command does to a map m of the indexes. *)
Maps == [Indexes -> [Pairs -> Cells]]

(* SADD or ZADD writes one entry. *)
LEMMA PutEffect ==
  ASSUME NEW m \in Maps, NEW i \in Indexes, NEW p \in Pairs, NEW x \in Cells
  PROVE  /\ Apply(m, Put(i, p, x)) \in Maps
         /\ Apply(m, Put(i, p, x))[i][p] = x
         /\ \A j \in Indexes, q \in Pairs :
              j # i \/ q # p => Apply(m, Put(i, p, x))[j][q] = m[j][q]
  <1>1. Apply(m, Put(i, p, x)) = [m EXCEPT ![i][p] = x]
    BY DEF Apply, Put
  <1> QED BY <1>1 DEF Maps

(* The script removes one entry, if Redis has it. *)
LEMMA ScriptEffect ==
  ASSUME NEW m \in Maps, NEW i \in Indexes, NEW p \in Pairs
  PROVE  /\ Apply(m, Script(i, p)) \in Maps
         /\ scripts => Apply(m, Script(i, p))[i][p] = Absent
         /\ \A j \in Indexes, q \in Pairs :
              (j # i \/ q # p) \/ ~scripts => Apply(m, Script(i, p))[j][q] = m[j][q]
  <1>1. Apply(m, Script(i, p)) = IF scripts THEN [m EXCEPT ![i][p] = Absent] ELSE m
    BY DEF Apply, Script
  <1>2. Absent \in Cells
    BY DEF Cells
  <1> QED BY <1>1, <1>2 DEF Maps

(* ZREMRANGEBYSCORE removes what has run out from one sorted set. *)
LEMMA ExpireEffect ==
  ASSUME NEW m \in Maps, NEW i \in Exps, NEW p, NEW x \in Int,
         \A q \in Pairs : m[i][q] \in {Absent} \union Int
  PROVE  /\ Apply(m, Expire(i, p, x)) \in Maps
         /\ \A j \in Indexes, q \in Pairs :
              \/ Apply(m, Expire(i, p, x))[j][q] = m[j][q]
              \/ /\ j = i /\ Apply(m, Expire(i, p, x))[j][q] = Absent
                 /\ m[j][q] \in Int /\ m[j][q] <= x
  <1> DEFINE f == [q \in Pairs |-> IF InKey(i, p, q) /\ m[i][q] # Absent /\ m[i][q] <= x
                                     THEN Absent ELSE m[i][q]]
  <1>1. Apply(m, Expire(i, p, x)) = [m EXCEPT ![i] = f]
    BY DEF Apply, Expire
  <1>2. f \in [Pairs -> Cells]
    BY DEF Maps, Cells, Exps, Indexes
  <1>3. \A q \in Pairs : f[q] = m[i][q] \/ (f[q] = Absent /\ m[i][q] \in Int /\ m[i][q] <= x)
    OBVIOUS
  <1>4. i \in Indexes
    BY DEF Exps, Indexes
  <1> HIDE DEF f
  <1> QED BY <1>1, <1>2, <1>3, <1>4 DEF Maps

DelUser(u) == [do |-> "delUser", i |-> "userPerm", p |-> <<Absent, u>>, x |-> Absent]

(* DEL of a user's two keys. *)
LEMMA DelUserEffect ==
  ASSUME NEW m \in Maps, NEW u
  PROVE  /\ Apply(m, DelUser(u)) \in Maps
         /\ \A j \in Indexes, q \in Pairs :
              Apply(m, DelUser(u))[j][q] =
                IF j \in {"userPerm", "userExp"} /\ q[2] = u THEN Absent ELSE m[j][q]
  <1>1. Apply(m, DelUser(u)) = [i \in Indexes |->
            IF i \in {"userPerm", "userExp"}
              THEN [q \in Pairs |-> IF q[2] = u THEN Absent ELSE m[i][q]]
              ELSE m[i]]
    BY DEF Apply, DelUser
  <1>2. Absent \in Cells
    BY DEF Cells
  <1> QED BY <1>1, <1>2 DEF Maps

Reads == {"members", "range", "ending", "vis", "perm", "exp"}

(* A read changes nothing. *)
LEMMA ReadEffect ==
  ASSUME NEW m, NEW cmd, cmd.do \in Reads
  PROVE  Apply(m, cmd) = m
  BY DEF Apply, Reads

(* The pipelines, command by command. *)
LEMMA GrantCommands ==
  ASSUME NEW o, NEW now, Shape(o, now), o.kind = "grant"
  PROVE  /\ <<o.d, o.u>> \in Pairs
         /\ o.tidy => /\ Len(o.pipe) = 2 /\ o.pos \in 1..2
                      /\ o.to = Forever => /\ o.pipe[1] = Script("docExp", <<o.d, o.u>>)
                                           /\ o.pipe[2] = Script("userExp", <<o.d, o.u>>)
                      /\ o.to # Forever => /\ o.pipe[1] = Script("docPerm", <<o.d, o.u>>)
                                           /\ o.pipe[2] = Script("userPerm", <<o.d, o.u>>)
         /\ ~o.tidy /\ o.to = Forever =>
              /\ Len(o.pipe) = 4 /\ o.pos \in 1..4
              /\ o.pipe[1] = Put("docPerm", <<o.d, o.u>>, Forever)
              /\ o.pipe[2] = Put("userPerm", <<o.d, o.u>>, Forever)
              /\ o.pipe[3] = Put("docExp", <<o.d, o.u>>, Absent)
              /\ o.pipe[4] = Put("userExp", <<o.d, o.u>>, Absent)
         /\ ~o.tidy /\ o.to # Forever =>
              /\ Len(o.pipe) = 6 /\ o.pos \in 1..6 /\ o.to \in Ends
              /\ o.pipe[1] = Expire("docExp", <<o.d, o.u>>, Unix(o.now))
              /\ o.pipe[2] = Expire("userExp", <<o.d, o.u>>, Unix(o.now))
              /\ o.pipe[3] = Put("docExp", <<o.d, o.u>>, Unix(o.to))
              /\ o.pipe[4] = Put("userExp", <<o.d, o.u>>, Unix(o.to))
              /\ o.pipe[5] = Put("docPerm", <<o.d, o.u>>, Absent)
              /\ o.pipe[6] = Put("userPerm", <<o.d, o.u>>, Absent)
  <1>1. o.d \in Docs /\ o.u \in Users /\ o.pos \in 1..Len(o.pipe) /\ o.to \in Ends \union {Forever}
    BY DEF Shape
  <1>2. o.pipe = IF o.tidy THEN CleanupPipe(<<o.d, o.u>>, o.to)
                           ELSE GrantPipe(<<o.d, o.u>>, o.to, o.now)
    BY DEF Shape
  <1>3. CASE o.tidy
    BY <1>1, <1>2, <1>3 DEF CleanupPipe, Pairs
  <1>4. CASE ~o.tidy /\ o.to = Forever
    BY <1>1, <1>2, <1>4 DEF GrantPipe, Pairs
  <1>5. CASE ~o.tidy /\ o.to # Forever
    BY <1>1, <1>2, <1>5 DEF GrantPipe, Pairs
  <1> QED BY <1>3, <1>4, <1>5

(* Revoke's pipeline: one script for each index. *)
LEMMA RevokeCommands ==
  ASSUME NEW o, NEW now, Shape(o, now), o.kind = "revoke"
  PROVE  /\ <<o.d, o.u>> \in Pairs
         /\ Len(o.pipe) = 4 /\ o.pos \in 1..4
         /\ o.pipe[1] = Script("docPerm", <<o.d, o.u>>)
         /\ o.pipe[2] = Script("docExp", <<o.d, o.u>>)
         /\ o.pipe[3] = Script("userPerm", <<o.d, o.u>>)
         /\ o.pipe[4] = Script("userExp", <<o.d, o.u>>)
  <1>1. /\ o.d \in Docs /\ o.u \in Users /\ o.pos \in 1..Len(o.pipe)
        /\ o.pipe = RevokePipe(<<o.d, o.u>>)
    BY DEF Shape
  <1> QED BY <1>1 DEF RevokePipe, Pairs

(* RevokeAllUser's pipeline: each listed document's entries, then the user's keys. *)
LEMMA RevokeAllCommands ==
  ASSUME NEW S \in SUBSET Docs, NEW order \in Orders(S), NEW u
  PROVE  /\ Len(order) \in Nat
         /\ \A j \in 1..Len(order) : order[j] \in S
         /\ \A x \in S : \E j \in 1..Len(order) : order[j] = x
         /\ Len(RevokeAllPipe(order, u)) = 2 * Len(order) + 1
         /\ RevokeAllPipe(order, u)[2 * Len(order) + 1] = DelUser(u)
         /\ \A k \in 1..(2 * Len(order)) :
              \E j \in 1..Len(order) :
                \/ k = 2 * j - 1 /\ RevokeAllPipe(order, u)[k] = Script("docPerm", <<order[j], u>>)
                \/ k = 2 * j /\ RevokeAllPipe(order, u)[k] = Script("docExp", <<order[j], u>>)
         /\ DOMAIN RevokeAllPipe(order, u) = 1..Len(RevokeAllPipe(order, u))
  <1>1. IsFiniteSet(S) /\ Cardinality(S) \in Nat
    BY RedisAssumption, FS_Subset, FS_CardinalityType
  <1>2. order \in [1..Cardinality(S) -> S] /\ \A x \in S : \E i \in DOMAIN order : order[i] = x
    BY DEF Orders
  <1>3. Len(order) = Cardinality(S) /\ DOMAIN order = 1..Cardinality(S)
    BY <1>1, <1>2
  <1> DEFINE n == Len(order)
             h == [i \in 1..(2 * n) |->
                     Script(IF i % 2 = 1 THEN "docPerm" ELSE "docExp", <<order[(i + 1) \div 2], u>>)]
             g == << DelUser(u) >>
  <1>4. n \in Nat /\ 2 * n \in Nat
    BY <1>1, <1>3
  <1>5. RevokeAllPipe(order, u) = h \o g
    BY DEF RevokeAllPipe, DelUser
  <1> HIDE DEF n
  <1> DEFINE T == {h[i] : i \in 1..(2 * n)} \union {DelUser(u)}
  <1>6. h \in [1..(2 * n) -> T]
    OBVIOUS
  <1>7. \A k \in 1..(2 * n) : h[k] = Script(IF k % 2 = 1 THEN "docPerm" ELSE "docExp", <<order[(k + 1) \div 2], u>>)
    OBVIOUS
  <1>8. g = << DelUser(u) >> /\ DelUser(u) \in T
    OBVIOUS
  <1> HIDE DEF h, g, T
  <1>9. h \in Seq(T) /\ Len(h) = 2 * n /\ g \in Seq(T) /\ Len(g) = 1 /\ g[1] = DelUser(u)
    <2>1. ASSUME NEW l \in Nat, h \in [1..l -> T] PROVE h \in Seq(T) /\ Len(h) = l
      BY <2>1
    <2>2. g \in Seq(T) /\ Len(g) = 1 /\ g[1] = DelUser(u)
      BY <1>8
    <2> QED BY <1>4, <1>6, <2>1, <2>2
  <1>10. /\ Len(h \o g) = 2 * n + 1
         /\ \A i \in 1..(2 * n + 1) : (h \o g)[i] = IF i <= 2 * n THEN h[i] ELSE g[i - 2 * n]
    <2>1. h \in Seq(T) /\ g \in Seq(T) /\ Len(h) = 2 * n /\ Len(g) = 1
      BY <1>9
    <2> QED BY <2>1, ConcatProperties
  <1>11. (h \o g)[2 * n + 1] = DelUser(u)
    <2>1. 2 * n + 1 \in 1..(2 * n + 1) /\ ~(2 * n + 1 <= 2 * n) /\ 2 * n + 1 - 2 * n = 1
      BY <1>4
    <2> QED BY <1>9, <1>10, <2>1
  <1>12. ASSUME NEW k \in 1..(2 * n)
         PROVE  \E j \in 1..n :
                  \/ k = 2 * j - 1 /\ (h \o g)[k] = Script("docPerm", <<order[j], u>>)
                  \/ k = 2 * j /\ (h \o g)[k] = Script("docExp", <<order[j], u>>)
    <2>1. k \in 1..(2 * n + 1) /\ k <= 2 * n
      BY <1>4
    <2>2. (h \o g)[k] = h[k]
      BY <1>10, <2>1
    <2> DEFINE j == (k + 1) \div 2
    <2>3. j \in 1..n
      BY <1>4
    <2>4. (k % 2 = 1 /\ k = 2 * j - 1) \/ (k % 2 # 1 /\ k = 2 * j)
      BY <1>4
    <2>5. h[k] = Script(IF k % 2 = 1 THEN "docPerm" ELSE "docExp", <<order[j], u>>)
      BY <1>7
    <2> HIDE DEF j
    <2> QED BY <2>2, <2>3, <2>4, <2>5
  <1>13. /\ \A j \in 1..n : order[j] \in S
         /\ \A x \in S : \E j \in 1..n : order[j] = x
    BY <1>2, <1>3 DEF n
  <1> DEFINE r == RevokeAllPipe(order, u)
  <1> HIDE DEF r
  <1>14. r = h \o g
    BY <1>5 DEF r
  <1>15. /\ n \in Nat /\ Len(r) = 2 * n + 1 /\ r[2 * n + 1] = DelUser(u)
         /\ \A k \in 1..(2 * n) :
              \E j \in 1..n :
                \/ k = 2 * j - 1 /\ r[k] = Script("docPerm", <<order[j], u>>)
                \/ k = 2 * j /\ r[k] = Script("docExp", <<order[j], u>>)
    BY <1>4, <1>10, <1>11, <1>12, <1>14
  <1>16. DOMAIN r = 1..Len(r)
    <2>1. h \o g \in Seq(T)
      BY <1>9, ConcatProperties
    <2> QED BY <1>14, <2>1
  <1> QED BY <1>13, <1>15, <1>16 DEF n, r

(* The end of a grant is a score the indexes may hold. *)
LEMMA EndScore ==
  ASSUME NEW e \in Ends
  PROVE  /\ e \in Nat /\ e \in 0..(MaxClock + 1)
         /\ Unix(e) \in 0..Unix(MaxClock + 1) /\ Unix(e) \in Int
         /\ e # Forever /\ e # Absent /\ Unix(e) # Absent /\ Unix(e) # Forever
  <1>1. e \in Nat /\ MaxClock + 1 \in Nat /\ e <= MaxClock + 1 /\ e \in 0..(MaxClock + 1)
    BY RedisAssumption
  <1>2. Unix(e) \in Nat /\ Unix(MaxClock + 1) \in Nat /\ Unix(e) <= Unix(MaxClock + 1)
    BY <1>1, UnixFacts
  <1> HIDE DEF Unix
  <1> QED BY <1>1, <1>2, IndexFacts

(* Every command is a read, or writes a pair of its own operation, or      *)
(* removes what has run out.                                               *)
LEMMA CommandKinds ==
  ASSUME NEW now \in Nat, NEW o, IsCaller(o), Shape(o, now), o.kind # "idle"
  PROVE  LET cmd == o.pipe[o.pos] IN
         \/ \E i \in Indexes, p \in Pairs, x \in Cells :
              cmd = Put(i, p, x) /\ CellOK(i, x) /\ p \in Covers(o)
         \/ \E i \in Indexes, p \in Pairs : cmd = Script(i, p) /\ p \in Covers(o)
         \/ \E i \in Exps, p \in Pairs, x \in Int : cmd = Expire(i, p, x) /\ x <= Unix(now)
         \/ o.kind = "revokeAll" /\ cmd = DelUser(o.u)
         \/ cmd.do \in Reads
  <1> DEFINE cmd == o.pipe[o.pos]
             pr == <<o.d, o.u>>
  <1>0. /\ "docPerm" \in Indexes /\ "userPerm" \in Indexes /\ "docExp" \in Indexes /\ "userExp" \in Indexes
        /\ "docExp" \in Exps /\ "userExp" \in Exps /\ "docPerm" \in Perms /\ "userPerm" \in Perms
        /\ "docExp" \notin Perms /\ "userExp" \notin Perms
        /\ Absent \in Cells /\ Forever \in Cells
    BY DEF Indexes, Exps, Perms, Cells
  <1>1. CASE o.kind = "grant"
    <2>1. pr \in Pairs /\ pr \in Covers(o)
      BY <1>1, GrantCommands DEF Covers
    <2>2. CASE o.tidy
      <3>1. \E i \in Indexes : cmd = Script(i, pr)
        <4>1. o.pos = 1 \/ o.pos = 2
          <5> o.pos \in 1..2
            BY <1>1, <2>2, GrantCommands
          <5> QED OBVIOUS
        <4> QED BY <1>0, <1>1, <2>2, <4>1, GrantCommands
      <3> QED BY <2>1, <3>1
    <2>3. CASE ~o.tidy /\ o.to = Forever
      <3>1. \E i \in Indexes, x \in Cells : cmd = Put(i, pr, x) /\ CellOK(i, x)
        <4>1. o.pos = 1 \/ o.pos = 2 \/ o.pos = 3 \/ o.pos = 4
          <5> o.pos \in 1..4
            BY <1>1, <2>3, GrantCommands
          <5> QED OBVIOUS
        <4>2. CellOK("docPerm", Forever) /\ CellOK("userPerm", Forever)
              /\ CellOK("docExp", Absent) /\ CellOK("userExp", Absent)
          BY <1>0 DEF CellOK
        <4> QED BY <1>0, <1>1, <2>3, <4>1, <4>2, GrantCommands
      <3> QED BY <2>1, <3>1
    <2>4. CASE ~o.tidy /\ o.to # Forever
      <3>0. o.pos = 1 \/ o.pos = 2 \/ o.pos = 3 \/ o.pos = 4 \/ o.pos = 5 \/ o.pos = 6
        <4> o.pos \in 1..6
          BY <1>1, <2>4, GrantCommands
        <4> QED OBVIOUS
      <3>1. CASE o.pos = 1 \/ o.pos = 2
        <4>1. o.now \in Nat /\ o.now <= now
          BY DEF IsCaller, Shape
        <4>2. Unix(o.now) \in Nat /\ Unix(o.now) <= Unix(now)
          BY <4>1, UnixFacts
        <4>3. \E i \in Exps : cmd = Expire(i, pr, Unix(o.now))
          BY <1>0, <1>1, <2>4, <3>1, GrantCommands
        <4> HIDE DEF cmd, pr, Unix
        <4>4. Unix(o.now) \in Int
          BY <4>2
        <4>5. \E i \in Exps, p \in Pairs, x \in Int : cmd = Expire(i, p, x) /\ x <= Unix(now)
          BY <2>1, <4>2, <4>3, <4>4
        <4> QED BY <4>5 DEF cmd
      <3>2. CASE o.pos = 3 \/ o.pos = 4 \/ o.pos = 5 \/ o.pos = 6
        <4>1. o.to \in Ends
          BY <1>1, <2>4, GrantCommands
        <4>2. Unix(o.to) \in 0..Unix(MaxClock + 1) /\ Unix(o.to) \in Cells
          BY <4>1, EndScore DEF Cells
        <4>3. CellOK("docPerm", Absent) /\ CellOK("userPerm", Absent)
              /\ CellOK("docExp", Unix(o.to)) /\ CellOK("userExp", Unix(o.to))
          BY <1>0, <4>2 DEF CellOK
        <4>4. \E i \in Indexes, x \in Cells : cmd = Put(i, pr, x) /\ CellOK(i, x)
          <5> HIDE DEF Unix, CellOK
          <5> QED BY <1>0, <1>1, <2>4, <3>2, <4>2, <4>3, GrantCommands
        <4> QED BY <2>1, <4>4
      <3> QED BY <3>0, <3>1, <3>2
    <2> QED BY <2>2, <2>3, <2>4
  <1>2. CASE o.kind = "revoke"
    <2>1. pr \in Pairs /\ pr \in Covers(o)
      BY <1>2, RevokeCommands DEF Covers
    <2>2. o.pos = 1 \/ o.pos = 2 \/ o.pos = 3 \/ o.pos = 4
      <3> o.pos \in 1..4
        BY <1>2, RevokeCommands
      <3> QED OBVIOUS
    <2>3. \E i \in Indexes : cmd = Script(i, pr)
      BY <1>0, <1>2, <2>2, RevokeCommands
    <2> QED BY <2>1, <2>3
  <1>3. CASE o.kind = "revokeAll"
    <2>0. o.pos \in 1..Len(o.pipe) /\ o.u \in Users
      BY <1>3 DEF Shape
    <2>1. CASE o.pipe = Members(o.u) \/ o.pipe = Ranged(o.u)
      BY <2>0, <2>1 DEF Members, Ranged, Read, Reads
    <2>2. ASSUME NEW order \in Orders(o.seen), o.pipe = RevokeAllPipe(order, o.u)
          PROVE  \/ cmd = DelUser(o.u)
                 \/ \E i \in Indexes, p \in Pairs : cmd = Script(i, p) /\ p \in Covers(o)
      <3>1. o.seen \in SUBSET Docs
        BY DEF IsCaller
      <3> DEFINE n == Len(order)
      <3>2. /\ n \in Nat /\ Len(o.pipe) = 2 * n + 1 /\ o.pipe[2 * n + 1] = DelUser(o.u)
            /\ \A j \in 1..n : order[j] \in o.seen
            /\ \A k \in 1..(2 * n) :
                 \E j \in 1..n :
                   \/ k = 2 * j - 1 /\ o.pipe[k] = Script("docPerm", <<order[j], o.u>>)
                   \/ k = 2 * j /\ o.pipe[k] = Script("docExp", <<order[j], o.u>>)
        BY <2>2, <3>1, RevokeAllCommands
      <3> HIDE DEF n
      <3>3. o.pos = 2 * n + 1 \/ o.pos \in 1..(2 * n)
        BY <2>0, <3>2
      <3>4. CASE o.pos \in 1..(2 * n)
        <4>1. PICK j \in 1..n : \/ cmd = Script("docPerm", <<order[j], o.u>>)
                                \/ cmd = Script("docExp", <<order[j], o.u>>)
          BY <3>2, <3>4
        <4>2. order[j] \in Docs
          BY <3>1, <3>2
        <4>3. <<order[j], o.u>> \in Pairs /\ <<order[j], o.u>> \in Covers(o)
          BY <1>3, <2>0, <4>2 DEF Pairs, Covers
        <4> QED BY <1>0, <4>1, <4>3
      <3> QED BY <3>2, <3>3, <3>4
    <2>3. \/ o.pipe = Members(o.u) \/ o.pipe = Ranged(o.u)
          \/ \E order \in Orders(o.seen) : o.pipe = RevokeAllPipe(order, o.u)
      BY <1>3 DEF Shape
    <2> QED BY <1>3, <2>1, <2>2, <2>3
  <1>4. CASE o.kind = "check"
    <2>1. o.pipe = CheckPipe(<<o.d, o.u>>) /\ o.pos \in 1..Len(o.pipe)
      BY <1>4 DEF Shape
    <2> QED BY <2>1 DEF CheckPipe, Read, Reads
  <1>5. CASE o.kind = "list"
    <2>1. /\ o.pipe = Members(o.u) \/ o.pipe = <<Read("ending", <<Absent, o.u>>)>>
          /\ o.pos \in 1..Len(o.pipe)
      BY <1>5 DEF Shape
    <2> QED BY <2>1 DEF Members, Read, Reads
  <1> QED BY <1>1, <1>2, <1>3, <1>4, <1>5 DEF IsCaller

(* A command keeps the types of the indexes and is gentle to the pairs of  *)
(* other operations.                                                       *)
LEMMA CommandGentle ==
  ASSUME DbOK, NEW o, IsCaller(o), Shape(o, clock), o.kind # "idle", NEW m,
         m = Apply(db, o.pipe[o.pos])
  PROVE  /\ m \in Maps
         /\ \A i \in Indexes, q \in Pairs : CellOK(i, m[i][q])
         /\ \A q \in Pairs : q \notin Covers(o) => Gentle(db, m, q, clock)
  <1> DEFINE cmd == o.pipe[o.pos]
  <1>0. /\ db \in Maps /\ clock \in Nat
        /\ \A i \in Indexes, q \in Pairs : CellOK(i, db[i][q]) /\ CellOK(i, Absent)
    BY RedisAssumption DEF DbOK, Maps, CellOK
  <1>1. \/ \E i \in Indexes, p \in Pairs, x \in Cells :
              cmd = Put(i, p, x) /\ CellOK(i, x) /\ p \in Covers(o)
        \/ \E i \in Indexes, p \in Pairs : cmd = Script(i, p) /\ p \in Covers(o)
        \/ \E i \in Exps, p \in Pairs, x \in Int : cmd = Expire(i, p, x) /\ x <= Unix(clock)
        \/ o.kind = "revokeAll" /\ cmd = DelUser(o.u)
        \/ cmd.do \in Reads
    BY <1>0, CommandKinds
  <1>2. m = Apply(db, cmd)
    OBVIOUS
  <1> HIDE DEF cmd
  <1>3. ASSUME NEW i \in Indexes, NEW p \in Pairs, NEW x \in Cells,
               cmd = Put(i, p, x), CellOK(i, x), p \in Covers(o)
        PROVE  /\ m \in Maps
               /\ \A j \in Indexes, q \in Pairs : CellOK(j, m[j][q])
               /\ \A q \in Pairs : q \notin Covers(o) => Gentle(db, m, q, clock)
    <2>1. /\ m \in Maps /\ m[i][p] = x
          /\ \A j \in Indexes, q \in Pairs : j # i \/ q # p => m[j][q] = db[j][q]
      BY <1>0, <1>2, <1>3, PutEffect
    <2>2. \A j \in Indexes, q \in Pairs : CellOK(j, m[j][q])
      <3> TAKE j \in Indexes, q \in Pairs
      <3>1. CASE j = i /\ q = p
        BY <1>3, <2>1, <3>1
      <3>2. CASE j # i \/ q # p
        BY <1>0, <2>1, <3>2
      <3> QED BY <3>1, <3>2
    <2> QED BY <1>3, <2>1, <2>2 DEF Gentle
  <1>4. ASSUME NEW i \in Indexes, NEW p \in Pairs, cmd = Script(i, p), p \in Covers(o)
        PROVE  /\ m \in Maps
               /\ \A j \in Indexes, q \in Pairs : CellOK(j, m[j][q])
               /\ \A q \in Pairs : q \notin Covers(o) => Gentle(db, m, q, clock)
    <2>1. /\ m \in Maps
          /\ scripts => m[i][p] = Absent
          /\ \A j \in Indexes, q \in Pairs : (j # i \/ q # p) \/ ~scripts => m[j][q] = db[j][q]
      BY <1>0, <1>2, <1>4, ScriptEffect
    <2>2. \A j \in Indexes, q \in Pairs : CellOK(j, m[j][q])
      <3> TAKE j \in Indexes, q \in Pairs
      <3>1. CASE j = i /\ q = p /\ scripts
        BY <1>0, <2>1, <3>1
      <3>2. CASE (j # i \/ q # p) \/ ~scripts
        BY <1>0, <2>1, <3>2
      <3> QED BY <3>1, <3>2
    <2> QED BY <1>4, <2>1, <2>2 DEF Gentle
  <1>5. ASSUME NEW i \in Exps, NEW p \in Pairs, NEW x \in Int,
               cmd = Expire(i, p, x), x <= Unix(clock)
        PROVE  /\ m \in Maps
               /\ \A j \in Indexes, q \in Pairs : CellOK(j, m[j][q])
               /\ \A q \in Pairs : q \notin Covers(o) => Gentle(db, m, q, clock)
    <2>0. \A q \in Pairs : db[i][q] \in {Absent} \union Int
      BY <1>0 DEF CellOK, Exps, Perms, Indexes
    <2>1. /\ m \in Maps
          /\ \A j \in Indexes, q \in Pairs :
               m[j][q] = db[j][q] \/ (j = i /\ m[j][q] = Absent /\ db[j][q] \in Int /\ db[j][q] <= x)
      BY <1>0, <1>2, <1>5, <2>0, ExpireEffect
    <2>2. \A j \in Indexes, q \in Pairs : CellOK(j, m[j][q])
      <3> TAKE j \in Indexes, q \in Pairs
      <3>1. CellOK(j, db[j][q]) /\ CellOK(j, Absent)
        BY <1>0
      <3>2. m[j][q] = db[j][q] \/ m[j][q] = Absent
        BY <2>1
      <3> HIDE DEF CellOK
      <3> QED BY <3>1, <3>2
    <2>3. Unix(clock) \in Nat
      BY <1>0, UnixFacts
    <2>4. \A j \in Indexes, q \in Pairs :
             m[j][q] = db[j][q] \/ (j \in Exps /\ m[j][q] = Absent /\ Past(db[j][q], clock))
      <3> HIDE DEF Unix
      <3> QED BY <1>5, <2>1, <2>3 DEF Past
    <2>5. \A q \in Pairs : Gentle(db, m, q, clock)
      BY <2>4 DEF Gentle
    <2> QED BY <2>1, <2>2, <2>5
  <1>6. ASSUME o.kind = "revokeAll", cmd = DelUser(o.u)
        PROVE  /\ m \in Maps
               /\ \A j \in Indexes, q \in Pairs : CellOK(j, m[j][q])
               /\ \A q \in Pairs : q \notin Covers(o) => Gentle(db, m, q, clock)
    <2>1. /\ m \in Maps
          /\ \A j \in Indexes, q \in Pairs :
               m[j][q] = IF j \in {"userPerm", "userExp"} /\ q[2] = o.u THEN Absent ELSE db[j][q]
      BY <1>0, <1>2, <1>6, DelUserEffect
    <2>2. \A j \in Indexes, q \in Pairs : CellOK(j, m[j][q])
      BY <1>0, <2>1
    <2>3. \A q \in Pairs : q \notin Covers(o) => q[2] # o.u
      BY <1>6 DEF Covers
    <2> QED BY <2>1, <2>2, <2>3 DEF Gentle
  <1>7. ASSUME cmd.do \in Reads
        PROVE  m = db
    BY <1>2, <1>7, ReadEffect
  <1>8. \A q \in Pairs : Gentle(db, db, q, clock)
    BY DEF Gentle
  <1> QED BY <1>0, <1>1, <1>3, <1>4, <1>5, <1>6, <1>7, <1>8

----
(* What a reply adds to the caller's state. *)
LEMMA ReplyFacts ==
  ASSUME NEW o, IsCaller(o), NEW cmd
  PROVE  LET r == Reply(o, cmd) IN
         /\ IsCaller(r)
         /\ r.kind = o.kind /\ r.d = o.d /\ r.u = o.u /\ r.to = o.to /\ r.now = o.now
         /\ r.pipe = o.pipe /\ r.pos = o.pos /\ r.tidy = o.tidy /\ r.overlap = o.overlap
         /\ r.noscript <=> o.noscript \/ (cmd.do = "script" /\ ~scripts)
         /\ cmd.do = "members" => r.seen = {d \in Docs : db["userPerm"][<<d, o.u>>] # Absent}
         /\ cmd.do = "range" => r.seen = o.seen \union {d \in Docs : db["userExp"][<<d, o.u>>] # Absent}
         /\ cmd.do \notin {"members", "range", "ending"} => r.seen = o.seen
  <1>1. CASE cmd.do = "script"
    BY <1>1 DEF Reply, IsCaller, Fields
  <1>2. CASE cmd.do = "members"
    BY <1>2 DEF Reply, IsCaller, Fields
  <1>3. CASE cmd.do = "range"
    BY <1>3 DEF Reply, IsCaller, Fields
  <1>4. CASE cmd.do = "ending"
    BY <1>4 DEF Reply, IsCaller, Fields
  <1>5. CASE cmd.do = "vis"
    BY <1>5 DEF Reply, IsCaller, Fields
  <1>6. CASE cmd.do = "perm"
    BY <1>6 DEF Reply, IsCaller, Fields
  <1>7. CASE cmd.do = "exp"
    BY <1>7 DEF Reply, IsCaller, Fields
  <1>8. CASE cmd.do \notin {"script", "members", "range", "ending", "vis", "perm", "exp"}
    BY <1>8 DEF Reply, IsCaller, Fields
  <1> QED BY <1>1, <1>2, <1>3, <1>4, <1>5, <1>6, <1>7, <1>8

(* The four ways in which an operation goes on after a command. *)
Advances(o, n) ==
    /\ o.pos < Len(o.pipe)
    /\ n = [Reply(o, o.pipe[o.pos]) EXCEPT !.pos = @ + 1]
Tidies(o, n) ==
    /\ o.pos = Len(o.pipe) /\ o.kind = "grant" /\ ~o.tidy
    /\ n = [Reply(o, o.pipe[o.pos]) EXCEPT !.tidy = TRUE, !.pos = 1,
                                           !.pipe = CleanupPipe(<<o.d, o.u>>, o.to)]
ReadsOn(o, n) ==
    /\ o.pipe[o.pos].do = "members"
    /\ n = [Reply(o, o.pipe[o.pos]) EXCEPT
              !.pipe = <<Read(IF o.kind = "list" THEN "ending" ELSE "range", o.pipe[o.pos].p)>>]
Deletes(o, n) ==
    /\ o.pipe[o.pos].do = "range"
    /\ \E order \in Orders(Reply(o, o.pipe[o.pos]).seen) :
         n = [Reply(o, o.pipe[o.pos]) EXCEPT !.pos = 1, !.pipe = RevokeAllPipe(order, o.u)]

Moves(o, n) == Advances(o, n) \/ Tidies(o, n) \/ ReadsOn(o, n) \/ Deletes(o, n)

(* The last command of the last pipeline. *)
LastDone(o) ==
    /\ o.pos = Len(o.pipe) /\ o.pipe[o.pos].do \notin {"members", "range"}
    /\ o.kind = "grant" => o.tidy

(* A command is carried out, and its operation moves on or ends. *)
LEMMA ExecSplit ==
  ASSUME CallersOK, NEW c \in Clients, Exec(c)
  PROVE  LET o == client[c]
             r == Reply(o, o.pipe[o.pos])
         IN  /\ o.kind # "idle" /\ IsCaller(o) /\ Shape(o, clock)
             /\ db' = Apply(db, o.pipe[o.pos])
             /\ UNCHANGED <<clock, scripts, restricted, ops, losses>>
             /\ \/ \E n : /\ Moves(o, n) /\ client' = [client EXCEPT ![c] = n]
                          /\ UNCHANGED <<ideal, dirty, ungranted, revoked>>
                \/ LastDone(o) /\ End(c, r, o.tidy \/ ~r.noscript)
  <1> DEFINE o == client[c]
             cmd == o.pipe[o.pos]
             r == Reply(o, cmd)
  <1>1. IsCaller(o) /\ Shape(o, clock)
    BY DEF CallersOK
  <1>2. /\ r.pos = o.pos /\ r.pipe = o.pipe /\ r.kind = o.kind /\ r.d = o.d /\ r.u = o.u
        /\ r.to = o.to /\ r.tidy = o.tidy
    <2> HIDE DEF o, cmd
    <2> QED BY <1>1, ReplyFacts
  <1>3. /\ o.kind # "idle" /\ db' = Apply(db, cmd)
        /\ UNCHANGED <<clock, scripts, restricted, ops, losses>>
    BY DEF Exec, Running
  <1>4. \/ /\ r.pos < Len(r.pipe)
           /\ client' = [client EXCEPT ![c] = [r EXCEPT !.pos = @ + 1]]
           /\ UNCHANGED <<ideal, dirty, ungranted, revoked>>
        \/ /\ r.pos = Len(r.pipe) /\ r.kind = "grant" /\ ~r.tidy
           /\ client' = [client EXCEPT ![c] =
                           [r EXCEPT !.tidy = TRUE, !.pos = 1,
                                     !.pipe = CleanupPipe(<<r.d, r.u>>, r.to)]]
           /\ UNCHANGED <<ideal, dirty, ungranted, revoked>>
        \/ /\ cmd.do = "members"
           /\ client' = [client EXCEPT ![c] =
                           [r EXCEPT !.pipe = <<Read(IF r.kind = "list" THEN "ending" ELSE "range",
                                                     cmd.p)>>]]
           /\ UNCHANGED <<ideal, dirty, ungranted, revoked>>
        \/ /\ cmd.do = "range"
           /\ \E order \in Orders(r.seen) :
                client' = [client EXCEPT ![c] =
                             [r EXCEPT !.pos = 1, !.pipe = RevokeAllPipe(order, r.u)]]
           /\ UNCHANGED <<ideal, dirty, ungranted, revoked>>
        \/ /\ r.pos = Len(r.pipe) /\ cmd.do \notin {"members", "range"} /\ (r.kind = "grant" => r.tidy)
           /\ End(c, r, r.tidy \/ ~r.noscript)
    BY DEF Exec
  <1> HIDE DEF r
  <1>5. \/ \E n : /\ Moves(o, n) /\ client' = [client EXCEPT ![c] = n]
                  /\ UNCHANGED <<ideal, dirty, ungranted, revoked>>
        \/ LastDone(o) /\ End(c, r, o.tidy \/ ~r.noscript)
    <2>1. CASE /\ r.pos < Len(r.pipe)
               /\ client' = [client EXCEPT ![c] = [r EXCEPT !.pos = @ + 1]]
               /\ UNCHANGED <<ideal, dirty, ungranted, revoked>>
      <3>1. Advances(o, [r EXCEPT !.pos = @ + 1])
        BY <1>2, <2>1 DEF Advances, r
      <3> QED BY <2>1, <3>1 DEF Moves
    <2>2. CASE /\ r.pos = Len(r.pipe) /\ r.kind = "grant" /\ ~r.tidy
               /\ client' = [client EXCEPT ![c] =
                               [r EXCEPT !.tidy = TRUE, !.pos = 1,
                                         !.pipe = CleanupPipe(<<r.d, r.u>>, r.to)]]
               /\ UNCHANGED <<ideal, dirty, ungranted, revoked>>
      <3>1. Tidies(o, [r EXCEPT !.tidy = TRUE, !.pos = 1, !.pipe = CleanupPipe(<<o.d, o.u>>, o.to)])
        BY <1>2, <2>2 DEF Tidies, r
      <3> QED BY <1>2, <2>2, <3>1 DEF Moves
    <2>3. CASE /\ cmd.do = "members"
               /\ client' = [client EXCEPT ![c] =
                               [r EXCEPT !.pipe = <<Read(IF r.kind = "list" THEN "ending" ELSE "range",
                                                         cmd.p)>>]]
               /\ UNCHANGED <<ideal, dirty, ungranted, revoked>>
      <3>1. ReadsOn(o, [r EXCEPT !.pipe = <<Read(IF o.kind = "list" THEN "ending" ELSE "range", cmd.p)>>])
        BY <1>2, <2>3 DEF ReadsOn, r
      <3> QED BY <1>2, <2>3, <3>1 DEF Moves
    <2>4. CASE /\ cmd.do = "range"
               /\ \E order \in Orders(r.seen) :
                    client' = [client EXCEPT ![c] =
                                 [r EXCEPT !.pos = 1, !.pipe = RevokeAllPipe(order, r.u)]]
               /\ UNCHANGED <<ideal, dirty, ungranted, revoked>>
      <3>1. PICK order \in Orders(r.seen) :
              client' = [client EXCEPT ![c] = [r EXCEPT !.pos = 1, !.pipe = RevokeAllPipe(order, r.u)]]
        BY <2>4
      <3>2. Deletes(o, [r EXCEPT !.pos = 1, !.pipe = RevokeAllPipe(order, o.u)])
        BY <1>2, <2>4 DEF Deletes, r
      <3> QED BY <1>2, <2>4, <3>1, <3>2 DEF Moves
    <2>5. CASE /\ r.pos = Len(r.pipe) /\ cmd.do \notin {"members", "range"} /\ (r.kind = "grant" => r.tidy)
               /\ End(c, r, r.tidy \/ ~r.noscript)
      BY <1>2, <2>5 DEF LastDone
    <2> QED BY <1>4, <2>1, <2>2, <2>3, <2>4, <2>5
  <1> QED BY <1>1, <1>3, <1>5 DEF r

(* Commands are told apart by what they do. *)
LEMMA CommandNames ==
  /\ \A i, p, x : Put(i, p, x).do = "put" /\ Expire(i, p, x).do = "expire"
  /\ \A i, p : Script(i, p).do = "script"
  /\ \A what, p : Read(what, p).do = what /\ Read(what, p).p = p
  /\ \A u : DelUser(u).do = "delUser"
  BY DEF Put, Expire, Script, Read, DelUser

(* A pipeline of one read. *)
LEMMA OneRead ==
  ASSUME NEW what, NEW p, NEW pipe, pipe = <<Read(what, p)>>, NEW pos, pos \in 1..Len(pipe)
  PROVE  Len(pipe) = 1 /\ pos = 1 /\ pipe[pos].do = what /\ pipe[pos].p = p
  <1>1. Len(pipe) = 1 /\ pipe[1] = Read(what, p)
    OBVIOUS
  <1>2. pos = 1
    BY <1>1
  <1> QED BY <1>1, <1>2, CommandNames

(* Which command belongs to which stage. *)
LEMMA StageFacts ==
  ASSUME NEW now, NEW o, IsCaller(o), Shape(o, now), o.kind # "idle"
  PROVE  LET cmd == o.pipe[o.pos] IN
         /\ cmd.do = "members" => /\ o.kind \in {"revokeAll", "list"} /\ o.pipe = Members(o.u)
                                  /\ o.pos = 1 /\ Len(o.pipe) = 1 /\ cmd.p = <<Absent, o.u>>
         /\ cmd.do = "range" => /\ o.kind = "revokeAll" /\ o.pipe = Ranged(o.u)
                                /\ o.pos = 1 /\ Len(o.pipe) = 1
         /\ o.kind = "revokeAll" =>
              /\ o.pipe = Members(o.u) => cmd.do = "members"
              /\ o.pipe = Ranged(o.u) => cmd.do = "range"
              /\ \A order \in Orders(o.seen) : o.pipe = RevokeAllPipe(order, o.u) =>
                   IF o.pos = 2 * Len(order) + 1 THEN cmd = DelUser(o.u)
                   ELSE o.pos \in 1..(2 * Len(order)) /\ cmd.do = "script"
         /\ o.kind \in {"grant", "revoke"} => cmd.do \in {"put", "script", "expire"}
         /\ cmd.do = "put" => o.kind = "grant"
  <1> DEFINE cmd == o.pipe[o.pos]
             pr == <<o.d, o.u>>
  <1>1. CASE o.kind = "grant"
    <2>1. cmd.do \in {"put", "script", "expire"}
      <3>1. CASE o.tidy
        <4>1. o.pos \in 1..2
          BY <1>1, <3>1, GrantCommands
        <4>2. o.pos = 1 \/ o.pos = 2
          BY <4>1
        <4>3. \E i : cmd = Script(i, pr)
          BY <1>1, <3>1, <4>2, GrantCommands
        <4> HIDE DEF cmd
        <4> QED BY <4>3, CommandNames
      <3>2. CASE ~o.tidy /\ o.to = Forever
        <4>1. o.pos \in 1..4
          BY <1>1, <3>2, GrantCommands
        <4>2. o.pos = 1 \/ o.pos = 2 \/ o.pos = 3 \/ o.pos = 4
          BY <4>1
        <4>3. \E i, x : cmd = Put(i, pr, x)
          BY <1>1, <3>2, <4>2, GrantCommands
        <4> HIDE DEF cmd
        <4> QED BY <4>3, CommandNames
      <3>3. CASE ~o.tidy /\ o.to # Forever
        <4>1. o.pos \in 1..6
          BY <1>1, <3>3, GrantCommands
        <4>2. o.pos = 1 \/ o.pos = 2 \/ o.pos = 3 \/ o.pos = 4 \/ o.pos = 5 \/ o.pos = 6
          BY <4>1
        <4>3. \E i, x : cmd = Put(i, pr, x) \/ cmd = Expire(i, pr, x)
          <5> HIDE DEF Unix
          <5> QED BY <1>1, <3>3, <4>2, GrantCommands
        <4> HIDE DEF cmd
        <4> QED BY <4>3, CommandNames
      <3> QED BY <3>1, <3>2, <3>3
    <2> HIDE DEF cmd
    <2> QED BY <1>1, <2>1 DEF cmd
  <1>2. CASE o.kind = "revoke"
    <2>1. o.pos \in 1..4
      BY <1>2, RevokeCommands
    <2>2. o.pos = 1 \/ o.pos = 2 \/ o.pos = 3 \/ o.pos = 4
      BY <2>1
    <2>3. cmd.do = "script"
      <3>1. \E i : cmd = Script(i, pr)
        BY <1>2, <2>2, RevokeCommands
      <3> HIDE DEF cmd
      <3> QED BY <3>1, CommandNames
    <2> HIDE DEF cmd
    <2> QED BY <1>2, <2>3 DEF cmd
  <1>3. CASE o.kind = "revokeAll"
    <2>0. o.pos \in 1..Len(o.pipe)
      BY <1>3 DEF Shape
    <2>1. /\ o.pipe = Members(o.u) => /\ cmd.do = "members" /\ o.pos = 1 /\ Len(o.pipe) = 1
                                      /\ cmd.p = <<Absent, o.u>>
          /\ o.pipe = Ranged(o.u) => cmd.do = "range" /\ o.pos = 1 /\ Len(o.pipe) = 1
      <3> HIDE DEF cmd
      <3>1. o.pipe = Members(o.u) => cmd.do = "members" /\ o.pos = 1 /\ Len(o.pipe) = 1
                                    /\ cmd.p = <<Absent, o.u>>
        BY <2>0, OneRead DEF Members, cmd
      <3>2. o.pipe = Ranged(o.u) => cmd.do = "range" /\ o.pos = 1 /\ Len(o.pipe) = 1
        BY <2>0, OneRead DEF Ranged, cmd
      <3> QED BY <3>1, <3>2
    <2>2. ASSUME NEW order \in Orders(o.seen), o.pipe = RevokeAllPipe(order, o.u)
          PROVE  /\ IF o.pos = 2 * Len(order) + 1 THEN cmd = DelUser(o.u)
                    ELSE o.pos \in 1..(2 * Len(order)) /\ cmd.do = "script"
                 /\ cmd.do # "members" /\ cmd.do # "range" /\ cmd.do # "put"
      <3>1. o.seen \in SUBSET Docs
        BY DEF IsCaller
      <3> DEFINE n == Len(order)
      <3>2. /\ n \in Nat /\ Len(o.pipe) = 2 * n + 1 /\ o.pipe[2 * n + 1] = DelUser(o.u)
            /\ \A k \in 1..(2 * n) :
                 \E j \in 1..n :
                   \/ k = 2 * j - 1 /\ o.pipe[k] = Script("docPerm", <<order[j], o.u>>)
                   \/ k = 2 * j /\ o.pipe[k] = Script("docExp", <<order[j], o.u>>)
        <4> HIDE DEF cmd, pr
        <4> DEFINE P == RevokeAllPipe(order, o.u)
        <4>1. /\ Len(order) \in Nat
              /\ Len(P) = 2 * Len(order) + 1
              /\ P[2 * Len(order) + 1] = DelUser(o.u)
              /\ \A k \in 1..(2 * Len(order)) :
                   \E j \in 1..Len(order) :
                     \/ k = 2 * j - 1 /\ P[k] = Script("docPerm", <<order[j], o.u>>)
                     \/ k = 2 * j /\ P[k] = Script("docExp", <<order[j], o.u>>)
          BY <3>1, RevokeAllCommands
        <4>2. o.pipe = P
          BY <2>2
        <4> HIDE DEF P
        <4> QED BY <4>1, <4>2
      <3> HIDE DEF n
      <3>3. o.pos = 2 * n + 1 \/ (o.pos # 2 * n + 1 /\ o.pos \in 1..(2 * n))
        BY <2>0, <3>2
      <3>4. CASE o.pos # 2 * n + 1 /\ o.pos \in 1..(2 * n)
        <4>1. cmd.do = "script"
          <5>1. PICK j \in 1..n : \/ cmd = Script("docPerm", <<order[j], o.u>>)
                                  \/ cmd = Script("docExp", <<order[j], o.u>>)
            BY <3>2, <3>4
          <5> HIDE DEF cmd
          <5> QED BY <5>1, CommandNames
        <4> QED BY <3>4, <4>1 DEF n
      <3>5. CASE o.pos = 2 * n + 1
        <4>1. cmd = DelUser(o.u)
          BY <3>2, <3>5
        <4>2. cmd.do = "delUser"
          <5> HIDE DEF cmd
          <5> QED BY <4>1, CommandNames
        <4> QED BY <3>5, <4>1, <4>2 DEF n
      <3> QED BY <3>3, <3>4, <3>5
    <2>3. \/ o.pipe = Members(o.u) \/ o.pipe = Ranged(o.u)
          \/ \E order \in Orders(o.seen) : o.pipe = RevokeAllPipe(order, o.u)
      BY <1>3 DEF Shape
    <2>4. /\ cmd.do = "members" => o.pipe = Members(o.u)
          /\ cmd.do = "range" => o.pipe = Ranged(o.u)
          /\ cmd.do # "put"
      BY <2>1, <2>2, <2>3
    <2> HIDE DEF cmd
    <2> QED BY <1>3, <2>1, <2>2, <2>4 DEF cmd
  <1>4. CASE o.kind = "check"
    <2>1. o.pipe = CheckPipe(<<o.d, o.u>>) /\ o.pos \in 1..Len(o.pipe)
      BY <1>4 DEF Shape
    <2>2. cmd.do \in {"vis", "perm", "exp"}
      BY <2>1 DEF CheckPipe, Read
    <2> HIDE DEF cmd
    <2> QED BY <1>4, <2>2 DEF cmd
  <1>5. CASE o.kind = "list"
    <2>1. /\ o.pipe = Members(o.u) \/ o.pipe = <<Read("ending", <<Absent, o.u>>)>>
          /\ o.pos \in 1..Len(o.pipe)
      BY <1>5 DEF Shape
    <2>2. /\ o.pipe = Members(o.u) => /\ cmd.do = "members" /\ o.pos = 1 /\ Len(o.pipe) = 1
                                      /\ cmd.p = <<Absent, o.u>>
          /\ o.pipe # Members(o.u) => cmd.do = "ending"
      <3>1. CASE o.pipe = Members(o.u)
        <4>1. /\ cmd.do = "members" /\ o.pos = 1 /\ Len(o.pipe) = 1 /\ cmd.p = <<Absent, o.u>>
          BY <2>1, <3>1, OneRead DEF Members
        <4> HIDE DEF cmd
        <4> QED BY <3>1, <4>1
      <3>2. CASE o.pipe # Members(o.u)
        <4>1. cmd.do = "ending"
          <5>1. o.pipe = <<Read("ending", <<Absent, o.u>>)>>
            BY <2>1, <3>2
          <5>2. o.pos \in 1..Len(o.pipe)
            BY <2>1
          <5> QED BY <5>1, <5>2, OneRead
        <4> HIDE DEF cmd
        <4> QED BY <3>2, <4>1
      <3> QED BY <3>1, <3>2
    <2> HIDE DEF cmd
    <2> QED BY <1>5, <2>2 DEF cmd
  <1> QED BY <1>1, <1>2, <1>3, <1>4, <1>5 DEF IsCaller

(* A listing reads the expiring index last. *)
LEMMA EndingLast ==
  ASSUME NEW now, NEW o, IsCaller(o), Shape(o, now), o.kind # "idle", o.pipe[o.pos].do = "ending"
  PROVE  o.pos = Len(o.pipe) /\ o.kind = "list"
  <1>1. o.kind \notin {"grant", "revoke"}
    BY StageFacts
  <1>2. o.kind # "revokeAll"
    <2> SUFFICES ASSUME o.kind = "revokeAll" PROVE FALSE
      OBVIOUS
    <2>1. o.pipe # Members(o.u) /\ o.pipe # Ranged(o.u)
      BY StageFacts
    <2>2. PICK order \in Orders(o.seen) : o.pipe = RevokeAllPipe(order, o.u)
      BY <2>1 DEF Shape
    <2>3. o.pipe[o.pos].do = "script" \/ o.pipe[o.pos] = DelUser(o.u)
      BY <2>2, StageFacts
    <2> QED BY <2>3, CommandNames
  <1>3. CASE o.kind = "check"
    <2>1. o.pipe = CheckPipe(<<o.d, o.u>>) /\ o.pos \in 1..Len(o.pipe)
      BY <1>3 DEF Shape
    <2>2. o.pipe[o.pos].do \in {"vis", "perm", "exp"}
      BY <2>1 DEF CheckPipe, Read
    <2> QED BY <2>2
  <1>4. CASE o.kind = "list"
    <2>1. /\ o.pipe = <<Read("members", <<Absent, o.u>>)>> \/ o.pipe = <<Read("ending", <<Absent, o.u>>)>>
      BY <1>4 DEF Shape, Members
    <2>2. o.pos \in 1..Len(o.pipe)
      BY <1>4 DEF Shape
    <2> QED BY <1>4, <2>1, <2>2, OneRead
  <1> QED BY <1>1, <1>2, <1>3, <1>4 DEF IsCaller

(* What an operation works on depends on what it was asked. *)
LEMMA SameCovers ==
  ASSUME NEW o, NEW n, n.kind = o.kind, n.d = o.d, n.u = o.u
  PROVE  Covers(n) = Covers(o)
  BY DEF Covers

(* What an operation that goes on looks like. *)
NextCommand(o, n) ==
    /\ o.pos < Len(o.pipe) /\ o.pipe[o.pos].do \notin {"members", "range", "ending"}
    /\ n.pos = o.pos + 1 /\ n.tidy = o.tidy /\ n.pipe = o.pipe /\ n.seen = o.seen
ThenTidies(o, n) ==
    /\ o.kind = "grant" /\ ~o.tidy /\ o.pos = Len(o.pipe)
    /\ n.pos = 1 /\ n.tidy = TRUE /\ n.pipe = CleanupPipe(<<o.d, o.u>>, o.to)
ThenReadsOn(o, n) ==
    /\ o.pipe[o.pos].do = "members"
    /\ n.pos = 1 /\ n.tidy = o.tidy
    /\ n.pipe = <<Read(IF o.kind = "list" THEN "ending" ELSE "range", <<Absent, o.u>>)>>
    /\ n.seen = {d \in Docs : db["userPerm"][<<d, o.u>>] # Absent}
ThenDeletes(o, n) ==
    /\ o.pipe[o.pos].do = "range"
    /\ n.pos = 1 /\ n.tidy = o.tidy
    /\ n.seen = o.seen \union {d \in Docs : db["userExp"][<<d, o.u>>] # Absent}
    /\ \E order \in Orders(n.seen) : n.pipe = RevokeAllPipe(order, o.u)

(* What moving on to the next command or stage changes. *)
LEMMA MovesFields ==
  ASSUME NEW now, NEW o, IsCaller(o), Shape(o, now), o.kind # "idle", NEW n, Moves(o, n)
  PROVE  LET cmd == o.pipe[o.pos] IN
         /\ n.kind = o.kind /\ n.d = o.d /\ n.u = o.u /\ n.to = o.to /\ n.now = o.now
         /\ n.overlap = o.overlap /\ DOMAIN n = Fields /\ n.seen \subseteq Docs
         /\ n.noscript \in BOOLEAN
         /\ n.noscript <=> o.noscript \/ (cmd.do = "script" /\ ~scripts)
         /\ NextCommand(o, n) \/ ThenTidies(o, n) \/ ThenReadsOn(o, n) \/ ThenDeletes(o, n)
  <1> DEFINE cmd == o.pipe[o.pos]
             r == Reply(o, cmd)
  <1>1. /\ IsCaller(r) /\ r.kind = o.kind /\ r.d = o.d /\ r.u = o.u /\ r.to = o.to /\ r.now = o.now
        /\ r.pipe = o.pipe /\ r.pos = o.pos /\ r.tidy = o.tidy /\ r.overlap = o.overlap
        /\ r.noscript <=> o.noscript \/ (cmd.do = "script" /\ ~scripts)
        /\ cmd.do = "members" => r.seen = {d \in Docs : db["userPerm"][<<d, o.u>>] # Absent}
        /\ cmd.do = "range" => r.seen = o.seen \union {d \in Docs : db["userExp"][<<d, o.u>>] # Absent}
        /\ cmd.do \notin {"members", "range", "ending"} => r.seen = o.seen
    BY ReplyFacts
  <1>2. /\ cmd.do = "members" => /\ o.kind \in {"revokeAll", "list"} /\ o.pipe = Members(o.u)
                                 /\ o.pos = 1 /\ Len(o.pipe) = 1 /\ cmd.p = <<Absent, o.u>>
        /\ cmd.do = "range" => /\ o.kind = "revokeAll" /\ o.pipe = Ranged(o.u)
                               /\ o.pos = 1 /\ Len(o.pipe) = 1
    <2> HIDE DEF r
    <2> QED BY StageFacts
  <1>a. o.pos < Len(o.pipe) => cmd.do # "ending"
    <2> SUFFICES ASSUME cmd.do = "ending" PROVE ~(o.pos < Len(o.pipe))
      OBVIOUS
    <2> QED BY EndingLast
  <1>3. \/ Advances(o, n) \/ Tidies(o, n) \/ ReadsOn(o, n) \/ Deletes(o, n)
    BY DEF Moves
  <1>4. DOMAIN r = Fields /\ r.seen \in SUBSET Docs /\ r.noscript \in BOOLEAN
    BY <1>1 DEF IsCaller
  <1> HIDE DEF cmd, r
  <1>5. CASE Advances(o, n)
    <2>1. n = [r EXCEPT !.pos = @ + 1] /\ o.pos < Len(o.pipe)
      BY <1>5 DEF Advances, r, cmd
    <2>3. /\ DOMAIN n = Fields /\ n.pos = o.pos + 1
          /\ n.kind = r.kind /\ n.d = r.d /\ n.u = r.u /\ n.to = r.to /\ n.now = r.now
          /\ n.pipe = r.pipe /\ n.tidy = r.tidy /\ n.overlap = r.overlap /\ n.seen = r.seen
          /\ n.noscript = r.noscript
      BY <1>1, <1>4, <2>1 DEF Fields
    <2>2. o.pos < Len(o.pipe)
      BY <2>1
    <2>6. cmd.do \notin {"members", "range", "ending"}
      <3>1. cmd.do # "members"
        <4>1. ASSUME cmd.do = "members" PROVE 1 < 1
          BY <1>2, <2>2, <4>1
        <4> QED BY <4>1
      <3>2. cmd.do # "range"
        <4>1. ASSUME cmd.do = "range" PROVE 1 < 1
          BY <1>2, <2>2, <4>1
        <4> QED BY <4>1
      <3> QED BY <1>a, <2>1, <3>1, <3>2
    <2> QED BY <1>1, <1>4, <2>1, <2>3, <2>6 DEF cmd, NextCommand
  <1>6. CASE Tidies(o, n)
    <2>1. /\ n = [r EXCEPT !.tidy = TRUE, !.pos = 1, !.pipe = CleanupPipe(<<o.d, o.u>>, o.to)]
          /\ o.kind = "grant" /\ ~o.tidy /\ o.pos = Len(o.pipe)
      BY <1>6 DEF Tidies, r, cmd
    <2>3. /\ DOMAIN n = Fields /\ n.pos = 1 /\ n.tidy = TRUE
          /\ n.kind = r.kind /\ n.d = r.d /\ n.u = r.u /\ n.to = r.to /\ n.now = r.now
          /\ n.pipe = CleanupPipe(<<o.d, o.u>>, o.to) /\ n.overlap = r.overlap /\ n.seen = r.seen
          /\ n.noscript = r.noscript
      BY <1>1, <1>4, <2>1 DEF Fields
    <2> QED BY <1>1, <1>4, <2>1, <2>3 DEF cmd, ThenTidies
  <1>7. CASE ReadsOn(o, n)
    <2>1. /\ n = [r EXCEPT !.pipe = <<Read(IF o.kind = "list" THEN "ending" ELSE "range", cmd.p)>>]
          /\ cmd.do = "members"
      BY <1>7 DEF ReadsOn, r, cmd
    <2>3. /\ DOMAIN n = Fields /\ n.pos = r.pos /\ n.tidy = r.tidy
          /\ n.kind = r.kind /\ n.d = r.d /\ n.u = r.u /\ n.to = r.to /\ n.now = r.now
          /\ n.overlap = r.overlap /\ n.seen = r.seen /\ n.noscript = r.noscript
          /\ n.pipe = <<Read(IF o.kind = "list" THEN "ending" ELSE "range", <<Absent, o.u>>)>>
      BY <1>1, <1>2, <1>4, <2>1 DEF Fields
    <2> QED BY <1>1, <1>2, <1>4, <2>1, <2>3 DEF cmd, ThenReadsOn
  <1>8. CASE Deletes(o, n)
    <2>1. PICK order \in Orders(r.seen) : n = [r EXCEPT !.pos = 1, !.pipe = RevokeAllPipe(order, o.u)]
      BY <1>8 DEF Deletes, r, cmd
    <2>2. cmd.do = "range"
      BY <1>8 DEF Deletes, r, cmd
    <2>3. /\ DOMAIN n = Fields /\ n.pos = 1 /\ n.tidy = r.tidy
          /\ n.kind = r.kind /\ n.d = r.d /\ n.u = r.u /\ n.to = r.to /\ n.now = r.now
          /\ n.overlap = r.overlap /\ n.seen = r.seen /\ n.noscript = r.noscript
          /\ n.pipe = RevokeAllPipe(order, o.u)
      BY <1>4, <2>1 DEF Fields
    <2> QED BY <1>1, <1>4, <2>2, <2>3 DEF cmd, ThenDeletes
  <1> QED BY <1>3, <1>5, <1>6, <1>7, <1>8

(* The next command of an operation is again one of its own. *)
LEMMA MovesCaller ==
  ASSUME NEW now, NEW o, IsCaller(o), Shape(o, now), o.kind # "idle", NEW n, Moves(o, n)
  PROVE  /\ IsCaller(n) /\ Shape(n, now) /\ n.kind = o.kind /\ n.d = o.d /\ n.u = o.u
         /\ n.to = o.to /\ n.overlap = o.overlap /\ Covers(n) = Covers(o)
  <1> DEFINE cmd == o.pipe[o.pos]
  <1>1. /\ n.kind = o.kind /\ n.d = o.d /\ n.u = o.u /\ n.to = o.to /\ n.now = o.now
        /\ n.overlap = o.overlap /\ DOMAIN n = Fields /\ n.seen \subseteq Docs
        /\ n.noscript \in BOOLEAN
    BY MovesFields
  <1>2. /\ cmd.do = "members" => /\ o.kind \in {"revokeAll", "list"} /\ o.pipe = Members(o.u)
        /\ cmd.do = "range" => o.kind = "revokeAll"
        /\ o.kind = "revokeAll" =>
             /\ o.pipe = Members(o.u) => cmd.do = "members"
             /\ o.pipe = Ranged(o.u) => cmd.do = "range"
    BY StageFacts
  <1>3. /\ o.pos \in 1..Len(o.pipe) /\ o.pos \in Nat
    BY DEF Shape, IsCaller
  <1>4. CASE NextCommand(o, n)
    <2>0. /\ o.pos < Len(o.pipe) /\ cmd.do \notin {"members", "range", "ending"}
          /\ n.pos = o.pos + 1 /\ n.tidy = o.tidy /\ n.pipe = o.pipe /\ n.seen = o.seen
      BY <1>4 DEF NextCommand
    <2>1. n.pos \in Nat /\ n.tidy \in BOOLEAN /\ n.pos \in 1..Len(n.pipe)
      BY <1>3, <2>0 DEF IsCaller
    <2>2. IsCaller(n)
      BY <1>1, <2>1 DEF IsCaller
    <2>3. o.kind = "revokeAll" => \E order \in Orders(o.seen) : o.pipe = RevokeAllPipe(order, o.u)
      BY <1>2, <2>0 DEF Shape
    <2>4. o.kind = "revokeAll" => \E order \in Orders(n.seen) : n.pipe = RevokeAllPipe(order, n.u)
      BY <1>1, <2>0, <2>3
    <2>5. Shape(n, now)
      BY <1>1, <2>0, <2>1, <2>4 DEF Shape
    <2> QED BY <1>1, <2>2, <2>5, SameCovers
  <1>5. CASE ThenTidies(o, n)
    <2>0. /\ o.kind = "grant" /\ ~o.tidy /\ o.pos = Len(o.pipe)
          /\ n.pos = 1 /\ n.tidy = TRUE /\ n.pipe = CleanupPipe(<<o.d, o.u>>, o.to)
      BY <1>5 DEF ThenTidies
    <2>1. n.tidy \in BOOLEAN
      BY <2>0, Zenon
    <2>2. n.pos \in Nat
      BY <2>0
    <2>3. Len(n.pipe) = 2
      BY <2>0 DEF CleanupPipe
    <2>4. n.pos \in 1..Len(n.pipe)
      <3>1. n.pos = 1
        BY <2>0
      <3>2. 1 \in 1..2
        OBVIOUS
      <3> QED BY <2>3, <3>1, <3>2
    <2>5. IsCaller(n)
      BY <1>1, <2>1, <2>2 DEF IsCaller
    <2>6. Shape(n, now)
      BY <1>1, <2>0, <2>4 DEF Shape
    <2> QED BY <1>1, <2>5, <2>6, SameCovers
  <1>6. CASE ThenReadsOn(o, n)
    <2>0. /\ cmd.do = "members"
          /\ n.pos = 1 /\ n.tidy = o.tidy
          /\ n.pipe = <<Read(IF o.kind = "list" THEN "ending" ELSE "range", <<Absent, o.u>>)>>
      BY <1>6 DEF ThenReadsOn
    <2>1. n.tidy \in BOOLEAN /\ n.pos \in Nat
      BY <2>0 DEF IsCaller
    <2>2. Len(n.pipe) = 1
      BY <2>0
    <2>3. n.pos \in 1..Len(n.pipe)
      BY <2>0, <2>2
    <2>4. IsCaller(n)
      BY <1>1, <2>1 DEF IsCaller
    <2>5. Shape(n, now)
      BY <1>1, <1>2, <2>0, <2>3 DEF Shape, Ranged
    <2> QED BY <1>1, <2>4, <2>5, SameCovers
  <1>7. CASE ThenDeletes(o, n)
    <2>0. /\ cmd.do = "range"
          /\ n.pos = 1 /\ n.tidy = o.tidy
          /\ \E order \in Orders(n.seen) : n.pipe = RevokeAllPipe(order, o.u)
      BY <1>7 DEF ThenDeletes
    <2>1. n.tidy \in BOOLEAN /\ n.pos \in Nat
      BY <2>0 DEF IsCaller
    <2>2. IsCaller(n)
      BY <1>1, <2>1 DEF IsCaller
    <2>3. n.pos \in 1..Len(n.pipe)
      <3>1. PICK order \in Orders(n.seen) : n.pipe = RevokeAllPipe(order, o.u)
        BY <2>0
      <3>2. Len(order) \in Nat /\ Len(RevokeAllPipe(order, o.u)) = 2 * Len(order) + 1
        BY <1>1, <3>1, RevokeAllCommands
      <3>3. 1 \in 1..(2 * Len(order) + 1)
        BY <3>2
      <3> QED BY <2>0, <3>1, <3>2, <3>3
    <2>4. Shape(n, now)
      BY <1>1, <1>2, <2>0, <2>3 DEF Shape
    <2> QED BY <1>1, <2>2, <2>4, SameCovers
  <1>8. NextCommand(o, n) \/ ThenTidies(o, n) \/ ThenReadsOn(o, n) \/ ThenDeletes(o, n)
    BY MovesFields
  <1> QED BY <1>4, <1>5, <1>6, <1>7, <1>8

(* The cleanup of a grant removes what is no longer there. *)
LEMMA TidyKeeps ==
  ASSUME DbOK, NEW o, IsCaller(o), Shape(o, clock), o.kind = "grant", o.tidy,
         NEW m, m = Apply(db, o.pipe[o.pos]), NEW p, p = <<o.d, o.u>>,
         Granting(o, db, p, clock)
  PROVE  \A n : n.to = o.to /\ n.tidy => Granting(n, m, p, clock)
  <1>0. p \in Pairs /\ db \in Maps
    BY GrantCommands DEF DbOK, Maps
  <1>1. o.pos = 1 \/ o.pos = 2
    <2>1. o.pos \in 1..2
      BY GrantCommands
    <2> QED BY <2>1
  <1>2. CASE o.to = Forever
    <2>1. PICK i \in {"docExp", "userExp"} : m = Apply(db, Script(i, p))
      BY <1>1, <1>2, GrantCommands
    <2>2. /\ scripts => m[i][p] = Absent
          /\ \A j \in Indexes, q \in Pairs : (j # i \/ q # p) \/ ~scripts => m[j][q] = db[j][q]
      <3>1. i \in Indexes
        BY DEF Indexes
      <3> QED BY <1>0, <2>1, <3>1, ScriptEffect
    <2>3. /\ db["docPerm"][p] = Forever /\ db["userPerm"][p] = Forever
          /\ db["docExp"][p] = Absent /\ db["userExp"][p] = Absent
      BY <1>2 DEF Granting
    <2>4. /\ m["docPerm"][p] = Forever /\ m["userPerm"][p] = Forever
          /\ m["docExp"][p] = Absent /\ m["userExp"][p] = Absent
      BY <1>0, <2>2, <2>3 DEF Indexes
    <2> QED BY <1>2, <2>4 DEF Granting
  <1>3. CASE o.to # Forever
    <2>1. PICK i \in {"docPerm", "userPerm"} : m = Apply(db, Script(i, p))
      BY <1>1, <1>3, GrantCommands
    <2>2. /\ scripts => m[i][p] = Absent
          /\ \A j \in Indexes, q \in Pairs : (j # i \/ q # p) \/ ~scripts => m[j][q] = db[j][q]
      <3>1. i \in Indexes
        BY DEF Indexes
      <3> QED BY <1>0, <2>1, <3>1, ScriptEffect
    <2>3. /\ db["docPerm"][p] = Absent /\ db["userPerm"][p] = Absent
          /\ Scored(db, "docExp", p, Unix(o.to), clock) /\ Scored(db, "userExp", p, Unix(o.to), clock)
      BY <1>3 DEF Granting
    <2>4. /\ m["docPerm"][p] = Absent /\ m["userPerm"][p] = Absent
          /\ m["docExp"][p] = db["docExp"][p] /\ m["userExp"][p] = db["userExp"][p]
      BY <1>0, <2>2, <2>3 DEF Indexes
    <2>5. Scored(m, "docExp", p, Unix(o.to), clock) /\ Scored(m, "userExp", p, Unix(o.to), clock)
      BY <2>3, <2>4 DEF Scored
    <2> QED BY <1>3, <2>4, <2>5 DEF Granting
  <1> QED BY <1>2, <1>3

(* A command of a grant, and what the grant has achieved then. *)
LEMMA GrantStep ==
  ASSUME DbOK, NEW o, IsCaller(o), Shape(o, clock), o.kind = "grant", NEW n, Moves(o, n),
         NEW m, m = Apply(db, o.pipe[o.pos]), NEW p, p = <<o.d, o.u>>,
         Granting(o, db, p, clock)
  PROVE  Granting(n, m, p, clock)
  <1>0. p \in Pairs /\ db \in Maps /\ Absent \in Cells /\ Forever \in Cells
    BY GrantCommands DEF DbOK, Maps, Cells
  <1>1. n.to = o.to
    BY MovesFields
  <1>2. \/ n.tidy = o.tidy /\ n.pos = o.pos + 1 /\ o.pos < Len(o.pipe)
        \/ ~o.tidy /\ n.tidy /\ o.pos = Len(o.pipe)
    <2>1. o.pipe[o.pos].do \notin {"members", "range"}
      BY StageFacts
    <2>2. NextCommand(o, n) \/ ThenTidies(o, n) \/ ThenReadsOn(o, n) \/ ThenDeletes(o, n)
      BY MovesFields
    <2> QED BY <2>1, <2>2 DEF NextCommand, ThenTidies, ThenReadsOn, ThenDeletes
  <1>3. o.tidy \in BOOLEAN
    BY DEF IsCaller
  <1>4. CASE o.tidy
    BY <1>1, <1>2, <1>4, TidyKeeps
  <1>5. ASSUME NEW i \in Indexes, NEW x \in Cells, o.pipe[o.pos] = Put(i, p, x)
        PROVE  m[i][p] = x /\ \A j \in Indexes : j # i => m[j][p] = db[j][p]
    BY <1>0, <1>5, PutEffect
  <1>6. CASE ~o.tidy /\ o.to = Forever
    <2>1. /\ Len(o.pipe) = 4 /\ o.pos \in 1..4
          /\ o.pipe[1] = Put("docPerm", p, Forever)
          /\ o.pipe[2] = Put("userPerm", p, Forever)
          /\ o.pipe[3] = Put("docExp", p, Absent)
          /\ o.pipe[4] = Put("userExp", p, Absent)
      BY <1>6, GrantCommands
    <2>2. /\ o.pos > 1 => db["docPerm"][p] = Forever
          /\ o.pos > 2 => db["userPerm"][p] = Forever
          /\ o.pos > 3 => db["docExp"][p] = Absent
      BY <1>6 DEF Granting
    <2>3. CASE o.pos = 1
      <3>1. m["docPerm"][p] = Forever
        BY <1>0, <1>5, <2>1, <2>3 DEF Indexes
      <3>2. ~n.tidy /\ n.pos = 2
        BY <1>2, <1>6, <2>1, <2>3
      <3> QED BY <1>1, <1>6, <3>1, <3>2 DEF Granting
    <2>4. CASE o.pos = 2
      <3>1. m["userPerm"][p] = Forever /\ m["docPerm"][p] = Forever
        BY <1>0, <1>5, <2>1, <2>2, <2>4 DEF Indexes
      <3>2. ~n.tidy /\ n.pos = 3
        BY <1>2, <1>6, <2>1, <2>4
      <3> QED BY <1>1, <1>6, <3>1, <3>2 DEF Granting
    <2>5. CASE o.pos = 3
      <3>1. m["docExp"][p] = Absent /\ m["userPerm"][p] = Forever /\ m["docPerm"][p] = Forever
        BY <1>0, <1>5, <2>1, <2>2, <2>5 DEF Indexes
      <3>2. ~n.tidy /\ n.pos = 4
        BY <1>2, <1>6, <2>1, <2>5
      <3> QED BY <1>1, <1>6, <3>1, <3>2 DEF Granting
    <2>6. CASE o.pos = 4
      <3>1. /\ m["userExp"][p] = Absent /\ m["docExp"][p] = Absent
            /\ m["userPerm"][p] = Forever /\ m["docPerm"][p] = Forever
        BY <1>0, <1>5, <2>1, <2>2, <2>6 DEF Indexes
      <3> QED BY <1>1, <1>6, <3>1 DEF Granting
    <2>7. o.pos = 1 \/ o.pos = 2 \/ o.pos = 3 \/ o.pos = 4
      <3>1. o.pos \in 1..4
        BY <2>1
      <3> QED BY <3>1
    <2> QED BY <2>3, <2>4, <2>5, <2>6, <2>7
  <1>7. CASE ~o.tidy /\ o.to # Forever
    <2> DEFINE x == Unix(o.to)
    <2>1. /\ Len(o.pipe) = 6 /\ o.pos \in 1..6 /\ o.to \in Ends
          /\ o.pipe[3] = Put("docExp", p, x)
          /\ o.pipe[4] = Put("userExp", p, x)
          /\ o.pipe[5] = Put("docPerm", p, Absent)
          /\ o.pipe[6] = Put("userPerm", p, Absent)
      BY <1>7, GrantCommands
    <2>a. x \in Cells
      BY <2>1, EndScore DEF Cells
    <2>2. /\ o.pos > 3 => Scored(db, "docExp", p, x, clock)
          /\ o.pos > 4 => Scored(db, "userExp", p, x, clock)
          /\ o.pos > 5 => db["docPerm"][p] = Absent
      BY <1>7 DEF Granting
    <2>b. /\ n.pos > 3 \/ n.tidy => Scored(m, "docExp", p, x, clock)
          /\ n.pos > 4 \/ n.tidy => Scored(m, "userExp", p, x, clock)
          /\ n.pos > 5 \/ n.tidy => m["docPerm"][p] = Absent
          /\ n.tidy => m["userPerm"][p] = Absent
          => Granting(n, m, p, clock)
      BY <1>1, <1>7 DEF Granting
    <2> HIDE DEF x
    <2>3. CASE o.pos = 1 \/ o.pos = 2
      <3>1. ~n.tidy /\ (n.pos = 2 \/ n.pos = 3)
        BY <1>2, <1>7, <2>1, <2>3
      <3> QED BY <2>b, <3>1
    <2>4. CASE o.pos = 3
      <3>1. m["docExp"][p] = x
        BY <1>5, <2>a, <2>1, <2>4 DEF Indexes
      <3>2. ~n.tidy /\ n.pos = 4
        BY <1>2, <1>7, <2>1, <2>4
      <3>3. Scored(m, "docExp", p, x, clock)
        BY <3>1 DEF Scored
      <3> QED BY <2>b, <3>2, <3>3
    <2>5. CASE o.pos = 4
      <3>1. m["userExp"][p] = x /\ m["docExp"][p] = db["docExp"][p]
        BY <1>5, <2>a, <2>1, <2>5 DEF Indexes
      <3>2. ~n.tidy /\ n.pos = 5
        BY <1>2, <1>7, <2>1, <2>5
      <3>3. Scored(m, "docExp", p, x, clock) /\ Scored(m, "userExp", p, x, clock)
        BY <2>2, <2>5, <3>1 DEF Scored
      <3> QED BY <2>b, <3>2, <3>3
    <2>6. CASE o.pos = 5
      <3>1. /\ m["userExp"][p] = db["userExp"][p] /\ m["docExp"][p] = db["docExp"][p]
            /\ m["docPerm"][p] = Absent
        BY <1>0, <1>5, <2>1, <2>6 DEF Indexes
      <3>2. ~n.tidy /\ n.pos = 6
        BY <1>2, <1>7, <2>1, <2>6
      <3>3. Scored(m, "docExp", p, x, clock) /\ Scored(m, "userExp", p, x, clock)
        BY <2>2, <2>6, <3>1 DEF Scored
      <3> QED BY <2>b, <3>1, <3>2, <3>3
    <2>7. CASE o.pos = 6
      <3>1. /\ m["userExp"][p] = db["userExp"][p] /\ m["docExp"][p] = db["docExp"][p]
            /\ m["docPerm"][p] = db["docPerm"][p] /\ m["userPerm"][p] = Absent
        BY <1>0, <1>5, <2>1, <2>7 DEF Indexes
      <3>3. Scored(m, "docExp", p, x, clock) /\ Scored(m, "userExp", p, x, clock)
        BY <2>2, <2>7, <3>1 DEF Scored
      <3> QED BY <2>b, <2>2, <2>7, <3>1, <3>3
    <2>8. o.pos = 1 \/ o.pos = 2 \/ o.pos = 3 \/ o.pos = 4 \/ o.pos = 5 \/ o.pos = 6
      <3>1. o.pos \in 1..6
        BY <2>1
      <3> QED BY <3>1
    <2> QED BY <2>3, <2>4, <2>5, <2>6, <2>7, <2>8
  <1> QED BY <1>3, <1>4, <1>6, <1>7

(* A grant that has come to its cleanup has done all it promised. *)
LEMMA TidyAgrees ==
  ASSUME NEW o, NEW m, NEW p, NEW now \in Nat, o.tidy, Granting(o, m, p, now),
         o.to \in Ends \union {Forever}
  PROVE  Agree(m, p, now) /\ Follows(m, p, o.to, now)
  <1>1. CASE o.to = Forever
    BY <1>1, RedisAssumption DEF Granting, Agree, Follows
  <1>2. CASE o.to # Forever
    <2>1. o.to # Absent
      BY <1>2, EndScore
    <2>2. /\ m["docPerm"][p] = Absent /\ m["userPerm"][p] = Absent
          /\ Scored(m, "docExp", p, Unix(o.to), now) /\ Scored(m, "userExp", p, Unix(o.to), now)
      BY <1>2 DEF Granting
    <2>3. Agree(m, p, now)
      BY <2>2 DEF Agree, Scored, Gone
    <2> QED BY <1>2, <2>1, <2>2, <2>3 DEF Follows
  <1> QED BY <1>1, <1>2

(* With the scripts in Redis each command of a revocation empties the next *)
(* index.                                                                  *)
LEMMA RevokeWrites ==
  ASSUME DbOK, NEW o, IsCaller(o), Shape(o, clock), o.kind = "revoke",
         NEW m, m = Apply(db, o.pipe[o.pos]), NEW p, p = <<o.d, o.u>>,
         Revoking(o, db, p), ~o.noscript, scripts
  PROVE  /\ m["docPerm"][p] = Absent
         /\ o.pos > 1 => m["docExp"][p] = Absent
         /\ o.pos > 2 => m["userPerm"][p] = Absent
         /\ o.pos > 3 => m["userExp"][p] = Absent
  <1>0. p \in Pairs /\ db \in Maps
    BY RevokeCommands DEF DbOK, Maps
  <1>1. /\ Len(o.pipe) = 4 /\ o.pos \in 1..4
        /\ o.pipe[1] = Script("docPerm", p) /\ o.pipe[2] = Script("docExp", p)
        /\ o.pipe[3] = Script("userPerm", p) /\ o.pipe[4] = Script("userExp", p)
    BY RevokeCommands
  <1>2. ASSUME NEW i \in Indexes, o.pipe[o.pos] = Script(i, p)
        PROVE  m[i][p] = Absent /\ \A j \in Indexes : j # i => m[j][p] = db[j][p]
    BY <1>0, <1>2, ScriptEffect
  <1>3. /\ o.pos > 1 => db["docPerm"][p] = Absent
        /\ o.pos > 2 => db["docExp"][p] = Absent
        /\ o.pos > 3 => db["userPerm"][p] = Absent
    BY DEF Revoking
  <1>4. CASE o.pos = 1
    BY <1>1, <1>2, <1>4 DEF Indexes
  <1>5. CASE o.pos = 2
    <2>1. m["docExp"][p] = Absent /\ m["docPerm"][p] = Absent
      BY <1>1, <1>2, <1>3, <1>5 DEF Indexes
    <2> QED BY <1>5, <2>1
  <1>6. CASE o.pos = 3
    <2>1. m["docExp"][p] = Absent /\ m["docPerm"][p] = Absent /\ m["userPerm"][p] = Absent
      BY <1>1, <1>2, <1>3, <1>6 DEF Indexes
    <2> QED BY <1>6, <2>1
  <1>7. CASE o.pos = 4
    <2>1. /\ m["docExp"][p] = Absent /\ m["docPerm"][p] = Absent /\ m["userPerm"][p] = Absent
          /\ m["userExp"][p] = Absent
      BY <1>1, <1>2, <1>3, <1>7 DEF Indexes
    <2> QED BY <1>7, <2>1
  <1>8. o.pos = 1 \/ o.pos = 2 \/ o.pos = 3 \/ o.pos = 4
    BY <1>1
  <1> QED BY <1>4, <1>5, <1>6, <1>7, <1>8

(* A script of a revocation, and what the revocation has achieved then. *)
LEMMA RevokeStep ==
  ASSUME DbOK, NEW o, IsCaller(o), Shape(o, clock), o.kind = "revoke", NEW n, Moves(o, n),
         NEW m, m = Apply(db, o.pipe[o.pos]), NEW p, p = <<o.d, o.u>>,
         Revoking(o, db, p)
  PROVE  Revoking(n, m, p)
  <1>1. o.pos \in 1..4
    BY RevokeCommands
  <1>2. n.pos = o.pos + 1
    <2>1. o.pipe[o.pos].do \notin {"members", "range"}
      BY StageFacts
    <2>2. NextCommand(o, n) \/ ThenTidies(o, n) \/ ThenReadsOn(o, n) \/ ThenDeletes(o, n)
      BY MovesFields
    <2> QED BY <2>1, <2>2 DEF NextCommand, ThenTidies, ThenReadsOn, ThenDeletes
  <1>3. o.pipe[o.pos].do = "script"
    <2>1. o.pos = 1 \/ o.pos = 2 \/ o.pos = 3 \/ o.pos = 4
      BY <1>1
    <2>2. \E i : o.pipe[o.pos] = Script(i, p)
      BY <2>1, RevokeCommands
    <2> QED BY <2>2, CommandNames
  <1>4. n.noscript <=> o.noscript \/ ~scripts
    BY <1>3, MovesFields
  <1>5. CASE o.noscript \/ ~scripts
    BY <1>4, <1>5 DEF Revoking
  <1>6. CASE ~o.noscript /\ scripts
    <2>1. /\ m["docPerm"][p] = Absent
          /\ o.pos > 1 => m["docExp"][p] = Absent
          /\ o.pos > 2 => m["userPerm"][p] = Absent
      BY <1>6, RevokeWrites
    <2> QED BY <1>1, <1>2, <2>1 DEF Revoking
  <1> QED BY <1>5, <1>6

(* A command of RevokeAllUser, for any pair of the user. *)
LEMMA RevokeAllStep ==
  ASSUME DbOK, NEW o, IsCaller(o), Shape(o, clock), o.kind = "revokeAll", NEW n, Moves(o, n),
         NEW m, m = Apply(db, o.pipe[o.pos]), NEW p \in Covers(o),
         RevokingAll(o, db, p, clock)
  PROVE  RevokingAll(n, m, p, clock)
  <1> DEFINE cmd == o.pipe[o.pos]
  <1>0. /\ db \in Maps /\ p \in Pairs /\ p[2] = o.u /\ p = <<p[1], o.u>> /\ p[1] \in Docs
        /\ o.u \in Users
    <2>1. db \in Maps /\ o.u \in Users
      BY DEF DbOK, Maps, Shape
    <2>2. p \in Pairs /\ p[2] = o.u
      BY DEF Covers
    <2>3. PICK d \in Docs, u \in Users : p = <<d, u>>
      BY <2>2 DEF Pairs
    <2> QED BY <2>1, <2>2, <2>3
  <1>1. /\ n.u = o.u /\ n.kind = o.kind /\ n.seen \subseteq Docs
        /\ n.noscript <=> o.noscript \/ (cmd.do = "script" /\ ~scripts)
        /\ NextCommand(o, n) \/ ThenReadsOn(o, n) \/ ThenDeletes(o, n)
    BY MovesFields DEF ThenTidies
  <1>2. IsCaller(n) /\ Shape(n, clock)
    BY MovesCaller
  <1>3. ASSUME NEW order \in Orders(n.seen), n.pipe = RevokeAllPipe(order, n.u)
        PROVE  n.pipe # Members(n.u) /\ n.pipe # Ranged(n.u)
    <2>1. n.pipe[n.pos].do = "script" \/ n.pipe[n.pos] = DelUser(n.u)
      BY <1>1, <1>2, <1>3, StageFacts
    <2>2. n.pipe[n.pos].do = "script" \/ n.pipe[n.pos].do = "delUser"
      BY <2>1, CommandNames
    <2>3. /\ n.pipe = Members(n.u) => n.pipe[n.pos].do = "members"
          /\ n.pipe = Ranged(n.u) => n.pipe[n.pos].do = "range"
      BY <1>1, <1>2, StageFacts
    <2> QED BY <2>2, <2>3
  <1>4. /\ o.pipe = Members(o.u) => cmd.do = "members"
        /\ o.pipe = Ranged(o.u) => cmd.do = "range"
        /\ cmd.do = "members" => o.pipe = Members(o.u)
        /\ cmd.do = "range" => o.pipe = Ranged(o.u)
    BY StageFacts
  <1>5. CASE ThenReadsOn(o, n)
    <2>1. m = db /\ Agree(db, p, clock)
      BY <1>4, <1>5, ReadEffect DEF ThenReadsOn, Reads, RevokingAll
    <2>2. n.pipe = Ranged(n.u)
      BY <1>1, <1>5 DEF ThenReadsOn, Ranged
    <2>3. p[1] \notin n.seen => m["userPerm"][p] = Absent
      BY <1>0, <1>5, <2>1 DEF ThenReadsOn
    <2> HIDE DEF Agree
    <2> QED BY <1>3, <2>1, <2>2, <2>3 DEF RevokingAll
  <1>6. CASE ThenDeletes(o, n)
    <2>1. m = db /\ Agree(db, p, clock) /\ (p[1] \notin o.seen => db["userPerm"][p] = Absent)
      BY <1>4, <1>6, ReadEffect DEF ThenDeletes, Reads, RevokingAll
    <2>2. n.pos = 1 /\ n.seen = o.seen \union {d \in Docs : db["userExp"][<<d, o.u>>] # Absent}
      BY <1>6 DEF ThenDeletes
    <2>3. p[1] \notin n.seen => db["userPerm"][p] = Absent /\ db["userExp"][p] = Absent
      BY <1>0, <2>1, <2>2
    <2>4. p[1] \notin n.seen => m["docPerm"][p] = Absent /\ Gone(m, "docExp", p, clock)
      BY <2>1, <2>3 DEF Agree, Gone
    <2>5. ASSUME NEW order \in Orders(n.seen), NEW j \in 1..Len(order)
          PROVE  ~(n.pos > 2 * j - 1) /\ ~(n.pos > 2 * j)
      <3>1. Len(order) \in Nat
        BY <1>1, RevokeAllCommands
      <3> QED BY <2>2, <3>1
    <2>6. n.pipe # Members(n.u) /\ n.pipe # Ranged(n.u)
      <3>1. PICK order \in Orders(n.seen) : n.pipe = RevokeAllPipe(order, o.u)
        BY <1>6 DEF ThenDeletes
      <3> QED BY <1>1, <1>3, <3>1
    <2> QED BY <2>4, <2>5, <2>6 DEF RevokingAll
  <1>7. CASE NextCommand(o, n)
    <2>0. /\ o.pos < Len(o.pipe) /\ cmd.do \notin {"members", "range"}
          /\ n.pos = o.pos + 1 /\ n.pipe = o.pipe /\ n.seen = o.seen
      BY <1>7 DEF NextCommand
    <2>1. n.pipe # Members(n.u) /\ n.pipe # Ranged(n.u)
      BY <1>1, <1>4, <2>0
    <2>2. ASSUME NEW order \in Orders(n.seen), n.pipe = RevokeAllPipe(order, n.u)
          PROVE  /\ p[1] \notin n.seen => m["docPerm"][p] = Absent /\ Gone(m, "docExp", p, clock)
                 /\ \A j \in 1..Len(order) :
                      order[j] = p[1] =>
                        /\ n.pos > 2 * j - 1 => n.noscript \/ m["docPerm"][p] = Absent
                        /\ n.pos > 2 * j => n.noscript \/ m["docExp"][p] = Absent
      <3> DEFINE l == Len(order)
      <3>1. order \in Orders(o.seen) /\ o.pipe = RevokeAllPipe(order, o.u) /\ o.seen \in SUBSET Docs
        BY <1>1, <2>0, <2>2
      <3>2. /\ p[1] \notin o.seen => db["docPerm"][p] = Absent /\ Gone(db, "docExp", p, clock)
            /\ \A j \in 1..l :
                 order[j] = p[1] =>
                   /\ o.pos > 2 * j - 1 => o.noscript \/ db["docPerm"][p] = Absent
                   /\ o.pos > 2 * j => o.noscript \/ db["docExp"][p] = Absent
        BY <3>1 DEF RevokingAll
      <3>3. /\ l \in Nat /\ Len(o.pipe) = 2 * l + 1
            /\ \A j \in 1..l : order[j] \in o.seen
            /\ \A k \in 1..(2 * l) :
                 \E j \in 1..l :
                   \/ k = 2 * j - 1 /\ o.pipe[k] = Script("docPerm", <<order[j], o.u>>)
                   \/ k = 2 * j /\ o.pipe[k] = Script("docExp", <<order[j], o.u>>)
        <4>1. o.pipe = RevokeAllPipe(order, o.u) /\ o.seen \in SUBSET Docs /\ order \in Orders(o.seen)
          BY <3>1
        <4> HIDE DEF cmd
        <4> QED BY <4>1, RevokeAllCommands, SMTT(30)
      <3> HIDE DEF l
      <3>4. o.pos \in 1..(2 * l)
        BY <2>0, <3>3 DEF Shape
      <3>5. PICK j0 \in 1..l : \/ o.pos = 2 * j0 - 1 /\ cmd = Script("docPerm", <<order[j0], o.u>>)
                               \/ o.pos = 2 * j0 /\ cmd = Script("docExp", <<order[j0], o.u>>)
        BY <3>3, <3>4
      <3> DEFINE q == <<order[j0], o.u>>
      <3>6. q \in Pairs
        BY <1>0, <3>1, <3>3 DEF Pairs
      <3>7. cmd.do = "script"
        <4>1. \E i, x : cmd = Script(i, x)
          BY <3>5
        <4> HIDE DEF cmd
        <4> QED BY <4>1, CommandNames
      <3>8. n.noscript <=> o.noscript \/ ~scripts
        BY <1>1, <3>7
      <3>9. PICK i \in {"docPerm", "docExp"} :
              /\ m = Apply(db, Script(i, q))
              /\ i = "docPerm" => o.pos = 2 * j0 - 1
              /\ i = "docExp" => o.pos = 2 * j0
        BY <3>5
      <3>10. i \in Indexes
        BY DEF Indexes
      <3> HIDE DEF q, cmd
      <3>11. /\ scripts => m[i][q] = Absent
             /\ \A j \in Indexes, x \in Pairs : (j # i \/ x # q) \/ ~scripts => m[j][x] = db[j][x]
        BY <1>0, <3>6, <3>9, <3>10, ScriptEffect
      <3>12. \A j \in Indexes : m[j][p] = db[j][p] \/ m[j][p] = Absent
        BY <1>0, <3>11
      <3>13. p[1] \notin n.seen => m["docPerm"][p] = Absent /\ Gone(m, "docExp", p, clock)
        BY <2>0, <3>2, <3>12 DEF Gone, Indexes
      <3>14. ASSUME NEW j \in 1..l, order[j] = p[1], n.pos > 2 * j - 1, ~n.noscript
             PROVE  m["docPerm"][p] = Absent
        <4>1. CASE o.pos > 2 * j - 1
          BY <3>2, <3>8, <3>12, <3>14, <4>1 DEF Indexes
        <4>2. CASE ~(o.pos > 2 * j - 1)
          <5>1. o.pos = 2 * j - 1
            <6>1. o.pos \in Int /\ j \in Int
              BY <3>3, <3>4
            <6>2. o.pos + 1 > 2 * j - 1
              BY <2>0, <3>14
            <6> QED BY <4>2, <6>1, <6>2
          <5>2. i = "docPerm" /\ j = j0
            BY <3>3, <3>9, <5>1
          <5>3. q = p
            BY <1>0, <3>14, <5>2 DEF q
          <5> QED BY <3>8, <3>11, <3>14, <5>2, <5>3
        <4> QED BY <4>1, <4>2
      <3>15. ASSUME NEW j \in 1..l, order[j] = p[1], n.pos > 2 * j, ~n.noscript
             PROVE  m["docExp"][p] = Absent
        <4>1. CASE o.pos > 2 * j
          BY <3>2, <3>8, <3>12, <3>15, <4>1 DEF Indexes
        <4>2. CASE ~(o.pos > 2 * j)
          <5>1. o.pos = 2 * j
            <6>1. o.pos \in Int /\ j \in Int
              BY <3>3, <3>4
            <6>2. o.pos + 1 > 2 * j
              BY <2>0, <3>15
            <6> QED BY <4>2, <6>1, <6>2
          <5>2. i = "docExp" /\ j = j0
            BY <3>3, <3>9, <5>1
          <5>3. q = p
            BY <1>0, <3>15, <5>2 DEF q
          <5> QED BY <3>8, <3>11, <3>15, <5>2, <5>3
        <4> QED BY <4>1, <4>2
      <3> QED BY <3>13, <3>14, <3>15 DEF l
    <2> QED BY <2>1, <2>2 DEF RevokingAll
  <1> QED BY <1>1, <1>5, <1>6, <1>7

(* What an operation that overlaps no other has done to a pair of its own  *)
(* is known after each of its commands.                                    *)
LEMMA MovesProgress ==
  ASSUME DbOK, NEW o, IsCaller(o), Shape(o, clock), o.kind # "idle", NEW n, Moves(o, n),
         NEW m, m = Apply(db, o.pipe[o.pos]), NEW p \in Covers(o),
         NEW dirt, Progress(o, db, p, clock, dirt)
  PROVE  Progress(n, m, p, clock, dirt)
  <1>1. n.kind = o.kind
    BY MovesCaller
  <1>2. o.kind \in {"grant", "revoke"} => p = <<o.d, o.u>>
    BY DEF Covers
  <1>3. CASE o.kind = "grant"
    BY <1>1, <1>2, <1>3, GrantStep DEF Progress
  <1>4. CASE o.kind = "revoke"
    BY <1>1, <1>2, <1>4, RevokeStep DEF Progress
  <1>5. CASE o.kind = "revokeAll"
    BY <1>1, <1>5, RevokeAllStep DEF Progress
  <1> QED BY <1>1, <1>3, <1>4, <1>5 DEF Progress

(* An operation that succeeds alone leaves both sides in agreement.        *)
LEMMA EndDone ==
  ASSUME DbOK, NEW o, IsCaller(o), Shape(o, clock), LastDone(o),
         o.kind \in {"grant", "revoke", "revokeAll"},
         NEW m, m = Apply(db, o.pipe[o.pos]), NEW p \in Covers(o),
         NEW dirt, Progress(o, db, p, clock, dirt),
         o.tidy \/ ~Reply(o, o.pipe[o.pos]).noscript
  PROVE  p \notin dirt \/ o.kind # "revokeAll" =>
           Agree(m, p, clock) /\ Follows(m, p, o.to, clock)
  <1> DEFINE cmd == o.pipe[o.pos]
  <1>0. clock \in Nat
    BY RedisAssumption DEF DbOK
  <1>1. Reply(o, cmd).noscript <=> o.noscript \/ (cmd.do = "script" /\ ~scripts)
    BY ReplyFacts
  <1>2. o.kind # "grant" => ~o.tidy /\ o.to = Absent
    BY DEF Shape
  <1>3. ASSUME m["docPerm"][p] = Absent, Gone(m, "docExp", p, clock),
               m["userPerm"][p] = Absent, m["userExp"][p] = Absent
        PROVE  Agree(m, p, clock) /\ Follows(m, p, Absent, clock)
    BY <1>3, RedisAssumption DEF Agree, Follows, Gone
  <1>4. CASE o.kind = "grant"
    <2>1. o.tidy /\ p = <<o.d, o.u>> /\ Granting(o, db, p, clock) /\ o.to \in Ends \union {Forever}
      BY <1>4 DEF LastDone, Covers, Progress, Shape
    <2>2. Granting(o, m, p, clock)
      BY <1>4, <2>1, TidyKeeps
    <2> QED BY <1>0, <1>4, <2>1, <2>2, TidyAgrees
  <1>5. CASE o.kind = "revoke"
    <2>1. p = <<o.d, o.u>> /\ Revoking(o, db, p)
      BY <1>5 DEF Covers, Progress
    <2>2. o.pos = 4 /\ cmd = Script("userExp", p)
      BY <1>5, <2>1, RevokeCommands DEF LastDone
    <2>3. cmd.do = "script"
      BY <2>2, CommandNames
    <2>4. ~o.noscript /\ scripts
      BY <1>1, <1>2, <1>5, <2>3
    <2>5. /\ m["docPerm"][p] = Absent /\ m["docExp"][p] = Absent
          /\ m["userPerm"][p] = Absent /\ m["userExp"][p] = Absent
      BY <1>5, <2>1, <2>2, <2>4, RevokeWrites
    <2> QED BY <1>2, <1>3, <1>5, <2>5 DEF Gone
  <1>6. CASE o.kind = "revokeAll"
    <2>1. /\ db \in Maps /\ p \in Pairs /\ p[2] = o.u /\ p[1] \in Docs /\ o.u \in Users
      BY <1>6 DEF DbOK, Maps, Covers, Pairs, Shape
    <2>2. p \notin dirt => RevokingAll(o, db, p, clock)
      BY <1>6 DEF Progress
    <2>3. o.pipe # Members(o.u) /\ o.pipe # Ranged(o.u)
      BY <1>6, StageFacts DEF LastDone
    <2>4. PICK order \in Orders(o.seen) : o.pipe = RevokeAllPipe(order, o.u)
      BY <1>6, <2>3 DEF Shape
    <2> DEFINE l == Len(order)
    <2>5. /\ l \in Nat /\ Len(o.pipe) = 2 * l + 1 /\ o.pipe[2 * l + 1] = DelUser(o.u)
          /\ \A x \in o.seen : \E j \in 1..l : order[j] = x
      <3>1. o.seen \in SUBSET Docs
        BY DEF IsCaller
      <3> QED BY <2>4, <3>1, RevokeAllCommands
    <2>6. p \notin dirt =>
          /\ p[1] \notin o.seen => db["docPerm"][p] = Absent /\ Gone(db, "docExp", p, clock)
          /\ \A j \in 1..l :
               order[j] = p[1] =>
                 /\ o.pos > 2 * j - 1 => o.noscript \/ db["docPerm"][p] = Absent
                 /\ o.pos > 2 * j => o.noscript \/ db["docExp"][p] = Absent
      BY <2>2, <2>4 DEF RevokingAll
    <2> HIDE DEF l
    <2>7. o.pos = 2 * l + 1 /\ cmd = DelUser(o.u)
      BY <2>5 DEF LastDone
    <2>8. ~o.noscript
      BY <1>1, <1>2, <1>6
    <2>9. ASSUME p \notin dirt PROVE db["docPerm"][p] = Absent /\ Gone(db, "docExp", p, clock)
      <3>1. CASE p[1] \notin o.seen
        BY <2>6, <2>9, <3>1
      <3>2. CASE p[1] \in o.seen
        <4>1. PICK j \in 1..l : order[j] = p[1]
          BY <2>5, <3>2
        <4>2. o.pos > 2 * j - 1 /\ o.pos > 2 * j
          BY <2>5, <2>7
        <4> QED BY <2>6, <2>8, <2>9, <4>1, <4>2 DEF Gone
      <3> QED BY <3>1, <3>2
    <2>10. \A j \in Indexes, q \in Pairs :
             m[j][q] = IF j \in {"userPerm", "userExp"} /\ q[2] = o.u THEN Absent ELSE db[j][q]
      BY <2>1, <2>7, DelUserEffect
    <2>11. /\ p \notin dirt => m["docPerm"][p] = Absent /\ Gone(m, "docExp", p, clock)
           /\ m["userPerm"][p] = Absent /\ m["userExp"][p] = Absent
      BY <2>1, <2>9, <2>10 DEF Gone, Indexes
    <2> QED BY <1>2, <1>3, <1>6, <2>11
  <1> QED BY <1>4, <1>5, <1>6

(* The parts of the state the invariant is about. *)
LEMMA Unmoved ==
  ASSUME IInv, UNCHANGED <<clock, db, client, ideal, dirty>>
  PROVE  IInv'
  <1>1. DbOK'
    BY DEF IInv, DbOK
  <1>2. CallersOK'
    BY DEF IInv, CallersOK
  <1>3. OverlapsKnown'
    BY DEF IInv, OverlapsKnown
  <1>4. AloneDone'
    BY DEF IInv, AloneDone
  <1>5. SettledOK'
    BY DEF IInv, SettledOK, Settled
  <1> QED BY <1>1, <1>2, <1>3, <1>4, <1>5 DEF IInv

(* Only operations that write cover pairs. *)
LEMMA CoversPairs ==
  ASSUME NEW now, NEW o, IsCaller(o), Shape(o, now)
  PROVE  /\ Covers(o) \subseteq Pairs
         /\ o.kind \in {"idle", "check", "list"} => Covers(o) = {}
         /\ Covers(o) # {} => o.kind \in {"grant", "revoke", "revokeAll"}
  BY DEF Covers, Shape, IsCaller, Pairs

(* A caller without an operation has nothing to keep. *)
LEMMA IdleCaller ==
  ASSUME NEW now, NEW o, DOMAIN o = Fields, o.kind = "idle", o.pos \in Nat, o.now \in Nat,
         o.seen \subseteq Docs, o.overlap \in BOOLEAN, o.noscript \in BOOLEAN,
         ~o.tidy, o.tidy \in BOOLEAN, o.to = Absent
  PROVE  IsCaller(o) /\ Shape(o, now) /\ Covers(o) = {} /\ \A m, p, dirt : Progress(o, m, p, now, dirt)
  BY DEF IsCaller, Shape, Covers, Progress

(* A caller before its next operation. *)
LEMMA IdleFacts ==
  /\ DOMAIN Idle = Fields /\ Idle.kind = "idle" /\ Idle.pos = 1 /\ Idle.now = 0
  /\ Idle.seen = {} /\ Idle.overlap = FALSE /\ Idle.noscript = FALSE /\ Idle.tidy = FALSE
  /\ Idle.to = Absent /\ Idle.pipe = << >>
  BY DEF Idle, Fields

(* The empty store satisfies the invariant. *)
LEMMA InitInv ==
  ASSUME Init
  PROVE  IInv
  <1>1. \A c \in Clients : client[c] = Idle
    BY DEF Init
  <1>2. \A c \in Clients : IsCaller(client[c]) /\ Shape(client[c], clock) /\ Covers(client[c]) = {}
    <2>1. /\ Idle.pos \in Nat /\ Idle.now \in Nat /\ Idle.seen \subseteq Docs
          /\ Idle.overlap \in BOOLEAN /\ Idle.noscript \in BOOLEAN
          /\ ~Idle.tidy /\ Idle.tidy \in BOOLEAN
      <3>1. Idle.pos \in Nat /\ Idle.now \in Nat /\ Idle.seen \subseteq Docs
        BY IdleFacts
      <3>2. Idle.overlap \in BOOLEAN /\ Idle.noscript \in BOOLEAN /\ ~Idle.tidy /\ Idle.tidy \in BOOLEAN
        BY IdleFacts, Zenon
      <3> QED BY <3>1, <3>2
    <2>2. IsCaller(Idle) /\ Shape(Idle, clock) /\ Covers(Idle) = {}
      BY <2>1, IdleFacts, IdleCaller
    <2> QED BY <1>1, <2>2
  <1>3. \A i \in Indexes, p \in Pairs : db[i][p] = Absent
    BY DEF Init
  <1>4. DbOK
    <2>1. clock = 0 /\ db \in [Indexes -> [Pairs -> Cells]]
      BY DEF Init, Cells
    <2>2. 0 \in 0..MaxClock
      BY RedisAssumption
    <2> QED BY <1>3, <2>1, <2>2 DEF DbOK, CellOK
  <1>5. CallersOK
    BY <1>2 DEF CallersOK, Init
  <1>6. OverlapsKnown /\ AloneDone
    BY <1>2 DEF OverlapsKnown, AloneDone
  <1>7. SettledOK
    <2>1. /\ ideal \in [Pairs -> {Absent, Forever} \union 0..(MaxClock + 1)]
          /\ dirty \subseteq Pairs /\ \A p \in Pairs : ideal[p] = Absent
      BY DEF Init
    <2>2. \A p \in Pairs : Agree(db, p, clock) /\ Follows(db, p, Absent, clock)
      BY <1>3, RedisAssumption DEF Agree, Follows, Gone, Indexes
    <2> QED BY <2>1, <2>2 DEF SettledOK
  <1> QED BY <1>4, <1>5, <1>6, <1>7 DEF IInv

(* An operation that took its time from the clock has it later too. *)
LEMMA ShapeLater ==
  ASSUME NEW now \in Nat, NEW now2 \in Nat, now <= now2, NEW o, IsCaller(o), Shape(o, now)
  PROVE  Shape(o, now2)
  <1>1. o.now \in Nat
    BY DEF IsCaller
  <1>2. o.kind # "idle" => o.pos \in 1..Len(o.pipe) /\ o.now <= now2
    BY <1>1 DEF Shape
  <1> QED BY <1>2 DEF Shape

(* Time passes: what the operations have done holds a tick later. *)
LEMMA TickInv ==
  ASSUME IInv, Tick
  PROVE  IInv'
  <1>1. /\ clock \in Nat /\ clock' \in Nat /\ clock <= clock' /\ clock' \in 0..MaxClock
        /\ UNCHANGED <<db, client, ideal, dirty, ungranted, revoked>>
    BY RedisAssumption DEF Tick, IInv, DbOK
  <1>2. DbOK'
    BY <1>1 DEF IInv, DbOK
  <1>3. CallersOK'
    BY <1>1, ShapeLater DEF IInv, CallersOK
  <1>4. OverlapsKnown'
    BY <1>1 DEF IInv, OverlapsKnown
  <1>5. \A p : Gentle(db, db', p, clock')
    BY <1>1 DEF Gentle
  <1>6. AloneDone'
    <2> SUFFICES ASSUME NEW c \in Clients, ~client'[c].overlap, NEW p \in Covers(client'[c])
                 PROVE  Progress(client'[c], db', p, clock', dirty')
      BY DEF AloneDone
    <2>1. Progress(client[c], db, p, clock, dirty)
      BY <1>1 DEF IInv, AloneDone
    <2>2. Progress(client[c], db', p, clock', dirty')
      BY <1>1, <1>5, <2>1, GentleProgress
    <2> QED BY <1>1, <2>2
  <1>7. SettledOK'
    <2>1. ASSUME NEW p \in Pairs, Settled(p)'
          PROVE  Agree(db', p, clock') /\ Follows(db', p, ideal'[p], clock')
      <3>1. Agree(db, p, clock) /\ Follows(db, p, ideal[p], clock)
        BY <1>1, <2>1 DEF IInv, SettledOK, Settled
      <3> QED BY <1>1, <1>5, <3>1, GentleAgree
    <2> QED BY <1>1, <2>1 DEF IInv, SettledOK
  <1> QED BY <1>2, <1>3, <1>4, <1>6, <1>7 DEF IInv

(* An operation begins. *)
LEMMA OverlapOnly ==
  ASSUME NEW now, NEW o, IsCaller(o), Shape(o, now), NEW v \in BOOLEAN
  PROVE  LET n == [o EXCEPT !.overlap = v] IN
         /\ IsCaller(n) /\ Shape(n, now) /\ Covers(n) = Covers(o) /\ n.kind = o.kind
         /\ n.overlap = v
         /\ \A m, p, t, dirt : Progress(o, m, p, t, dirt) => Progress(n, m, p, t, dirt)
  <1> DEFINE n == [o EXCEPT !.overlap = v]
  <1>1. DOMAIN o = Fields
    BY DEF IsCaller
  <1>2. /\ DOMAIN n = Fields /\ n.kind = o.kind /\ n.d = o.d /\ n.u = o.u /\ n.to = o.to
        /\ n.now = o.now /\ n.pipe = o.pipe /\ n.pos = o.pos /\ n.tidy = o.tidy
        /\ n.seen = o.seen /\ n.overlap = v /\ n.noscript = o.noscript
    BY <1>1 DEF Fields
  <1> HIDE DEF n
  <1>3. IsCaller(n)
    BY <1>2 DEF IsCaller
  <1>4. Shape(n, now)
    BY <1>2 DEF Shape
  <1>5. Covers(n) = Covers(o)
    BY <1>2, SameCovers
  <1>6. ASSUME NEW m, NEW p, NEW t, NEW dirt, Progress(o, m, p, t, dirt)
        PROVE  Progress(n, m, p, t, dirt)
    <2>1. Granting(o, m, p, t) => Granting(n, m, p, t)
      BY <1>2 DEF Granting
    <2>2. Revoking(o, m, p) => Revoking(n, m, p)
      BY <1>2 DEF Revoking
    <2>3. RevokingAll(o, m, p, t) => RevokingAll(n, m, p, t)
      BY <1>2 DEF RevokingAll
    <2> QED BY <1>2, <1>6, <2>1, <2>2, <2>3 DEF Progress
  <1> QED BY <1>2, <1>3, <1>4, <1>5, <1>6 DEF n

(* Any operation that begins, its pipeline still unsent. *)
LEMMA BeginInv ==
  ASSUME IInv, NEW c \in Clients, NEW o, IsCaller(o), Shape(o, clock), o.pos = 1, ~o.tidy,
         o.kind # "idle", o.kind = "revokeAll" => o.pipe = Members(o.u), Begin(c, o)
  PROVE  IInv'
  <1> DEFINE met == {b \in Clients : Covers(client[b]) \intersect Covers(o) # {}}
  <1>0. clock \in Nat
    BY RedisAssumption DEF IInv, DbOK
  <1>1. /\ client[c].kind = "idle"
        /\ client' = [b \in Clients |-> IF b = c THEN [o EXCEPT !.overlap = met # {}]
                                        ELSE [client[b] EXCEPT !.overlap = @ \/ b \in met]]
        /\ UNCHANGED <<clock, db, ideal, dirty>>
    BY DEF Begin, Running
  <1>2. \A b \in Clients : IsCaller(client[b]) /\ Shape(client[b], clock)
    BY DEF IInv, CallersOK
  <1>3. Covers(client[c]) = {}
    BY <1>1, <1>2, CoversPairs
  <1> DEFINE v(b) == IF b = c THEN met # {} ELSE client[b].overlap \/ b \in met
             old(b) == IF b = c THEN o ELSE client[b]
  <1>4. ASSUME NEW b \in Clients
        PROVE  /\ IsCaller(client'[b]) /\ Shape(client'[b], clock)
               /\ Covers(client'[b]) = Covers(old(b)) /\ client'[b].kind = old(b).kind
               /\ client'[b].overlap <=> v(b)
               /\ \A m, p, t, dirt : Progress(old(b), m, p, t, dirt) => Progress(client'[b], m, p, t, dirt)
    <2>1. IsCaller(old(b)) /\ Shape(old(b), clock)
      BY <1>2
    <2>2. v(b) \in BOOLEAN
      OBVIOUS
    <2>3. client'[b] = [old(b) EXCEPT !.overlap = v(b)]
      BY <1>1
    <2> HIDE DEF old, v
    <2> QED BY <2>1, <2>2, <2>3, OverlapOnly
  <1>5. DbOK'
    BY <1>1 DEF IInv, DbOK
  <1>6. CallersOK'
    BY <1>1, <1>4 DEF CallersOK
  <1>7. OverlapsKnown'
    <2> SUFFICES ASSUME NEW a \in Clients, NEW b \in Clients, a # b,
                        Covers(client'[a]) \intersect Covers(client'[b]) # {}
                 PROVE  client'[a].overlap
      BY DEF OverlapsKnown
    <2>1. Covers(old(a)) \intersect Covers(old(b)) # {}
      BY <1>4
    <2>2. CASE a = c
      <3>1. b \in met
        BY <2>1, <2>2
      <3>2. v(a)
        BY <2>2, <3>1
      <3> QED BY <1>4, <3>2
    <2>3. CASE b = c
      <3>1. a \in met
        BY <2>1, <2>3
      <3>2. v(a)
        BY <2>3, <3>1
      <3> QED BY <1>4, <3>2
    <2>4. CASE a # c /\ b # c
      <3>1. client[a].overlap
        BY <2>1, <2>4 DEF IInv, OverlapsKnown
      <3>2. v(a)
        BY <2>4, <3>1
      <3> QED BY <1>4, <3>2
    <2> QED BY <2>2, <2>3, <2>4
  <1>8. \A p : Settled(p) => \A b \in Clients : p \notin Covers(client[b])
    BY DEF Settled
  <1>9. AloneDone'
    <2> SUFFICES ASSUME NEW b \in Clients, ~client'[b].overlap, NEW p \in Covers(client'[b])
                 PROVE  Progress(client'[b], db', p, clock', dirty')
      BY DEF AloneDone
    <2>1. ~v(b) /\ p \in Covers(old(b))
      BY <1>4
    <2>2. CASE b # c
      <3>1. Progress(client[b], db, p, clock, dirty)
        BY <2>1, <2>2 DEF IInv, AloneDone
      <3> QED BY <1>1, <1>4, <2>2, <3>1
    <2>3. CASE b = c
      <3>1. met = {}
        BY <2>1, <2>3
      <3>2. \A a \in Clients : p \notin Covers(client[a])
        BY <2>1, <2>3, <3>1
      <3>3. p \in Pairs
        BY <1>0, <2>1, <2>3, CoversPairs
      <3>4. p \notin dirty => Agree(db, p, clock)
        BY <3>2, <3>3 DEF IInv, SettledOK, Settled
      <3>5. Progress(o, db, p, clock, dirty)
        <4>1. Granting(o, db, p, clock)
          BY DEF Granting
        <4>2. Revoking(o, db, p)
          BY DEF Revoking
        <4>3. ASSUME o.kind = "revokeAll", p \notin dirty PROVE RevokingAll(o, db, p, clock)
          <5>1. o.pipe = Members(o.u) /\ o.pipe[o.pos].do = "members"
            BY <4>3, StageFacts
          <5>2. o.pipe # Ranged(o.u)
            BY <4>3, <5>1, StageFacts
          <5>3. ASSUME NEW order \in Orders(o.seen), o.pipe = RevokeAllPipe(order, o.u) PROVE FALSE
            <6>1. o.pipe[o.pos].do = "script" \/ o.pipe[o.pos] = DelUser(o.u)
              BY <4>3, <5>3, StageFacts
            <6> QED BY <5>1, <6>1, CommandNames
          <5> HIDE DEF Agree
          <5> QED BY <3>4, <4>3, <5>2, <5>3 DEF RevokingAll
        <4> QED BY <4>1, <4>2, <4>3 DEF Progress
      <3> QED BY <1>1, <1>4, <2>3, <3>5
    <2> QED BY <2>2, <2>3
  <1>10. SettledOK'
    <2>1. ASSUME NEW p \in Pairs, Settled(p)'
          PROVE  Settled(p)
      <3>1. p \notin dirty /\ \A b \in Clients : p \notin Covers(client'[b])
        BY <1>1, <2>1 DEF Settled
      <3>2. \A b \in Clients : p \notin Covers(client[b])
        BY <1>3, <1>4, <3>1
      <3> QED BY <3>1, <3>2 DEF Settled
    <2> QED BY <1>1, <2>1 DEF IInv, SettledOK
  <1> QED BY <1>5, <1>6, <1>7, <1>9, <1>10 DEF IInv

(* What an operation looks like when it is asked for. *)
Starts(o, kind, d, u) ==
    /\ DOMAIN o = Fields /\ o.kind = kind /\ o.d = d /\ o.u = u
    /\ o.now \in {0, clock} /\ (kind # "grant" => o.now = TimeFor(kind))
    /\ o.pos = 1 /\ o.tidy = FALSE /\ o.seen = {} /\ o.overlap = FALSE /\ o.noscript = FALSE
    /\ o.vis = "error" /\ o.perm = FALSE /\ o.exp = FALSE /\ o.answer = "none"
    /\ o.kind # "grant" => o.to = Absent

Piped(o, pipe) == [o EXCEPT !.pipe = pipe]
Ending(o, to) == [o EXCEPT !.to = to]
Timed(o, now) == [o EXCEPT !.now = now]

(* How the operations are put together at their start. *)
LEMMA WithPipe ==
  ASSUME NEW o, NEW kind, NEW d, NEW u, NEW pipe, Starts(o, kind, d, u)
  PROVE  /\ Starts(Piped(o, pipe), kind, d, u)
         /\ Piped(o, pipe).pipe = pipe /\ Piped(o, pipe).to = o.to
  BY DEF Starts, Fields, Piped

(* A grant gets the end of its validity. *)
LEMMA WithEnd ==
  ASSUME NEW o, NEW d, NEW u, NEW to, Starts(o, "grant", d, u)
  PROVE  Starts(Ending(o, to), "grant", d, u) /\ Ending(o, to).to = to
  BY DEF Starts, Fields, Ending

(* It gets the time, or none. *)
LEMMA WithTime ==
  ASSUME NEW o, NEW d, NEW u, NEW now \in {0, clock}, Starts(o, "grant", d, u)
  PROVE  /\ Starts(Timed(o, now), "grant", d, u)
         /\ Timed(o, now).now = now /\ Timed(o, now).to = o.to
  BY DEF Starts, Fields, Timed

(* A pipeline leaves the time. *)
LEMMA WithPipeTime ==
  ASSUME NEW o, DOMAIN o = Fields, NEW pipe
  PROVE  Piped(o, pipe).now = o.now
  BY DEF Fields, Piped

(* An operation at its start. *)
LEMMA OpStarts ==
  ASSUME NEW kind, NEW d, NEW u
  PROVE  Starts(Op(kind, d, u), kind, d, u) /\ Op(kind, d, u).to = Absent
  BY DEF Op, Idle, Fields, Starts, TimeFor

(* It is well-formed. *)
LEMMA StartsCaller ==
  ASSUME NEW o, NEW kind \in {"grant", "revoke", "revokeAll", "check", "list"}, NEW d, NEW u,
         Starts(o, kind, d, u), clock \in Nat
  PROVE  IsCaller(o) /\ o.pos = 1 /\ ~o.tidy /\ o.kind # "idle" /\ o.now <= clock
  <1>1. o.pos = 1 /\ o.seen = {} /\ o.now \in {0, clock} /\ DOMAIN o = Fields /\ o.kind = kind
    BY DEF Starts, TimeFor
  <1>2. o.pos \in Nat /\ o.seen \subseteq Docs /\ o.now \in Nat /\ o.now <= clock
    BY <1>1
  <1>3. o.overlap \in BOOLEAN /\ o.noscript \in BOOLEAN /\ o.tidy \in BOOLEAN /\ ~o.tidy
    BY Zenon DEF Starts
  <1> QED BY <1>1, <1>2, <1>3 DEF IsCaller

(* Its first command is one of its pipeline. *)
LEMMA FirstOf ==
  ASSUME NEW o, o.pos = 1, NEW l \in Nat \ {0}, Len(o.pipe) = l
  PROVE  o.pos \in 1..Len(o.pipe)
  <1>1. 1 \in 1..l
    OBVIOUS
  <1> QED BY <1>1

(* Grant begins. *)
LEMMA GrantInv ==
  ASSUME IInv, NEW c \in Clients, NEW d \in Docs, NEW u \in Users,
         NEW from, NEW to \in Ends \union {Forever}, Grant(c, d, u, from, to)
  PROVE  IInv' /\ \E o : Starts(o, "grant", d, u) /\ Begin(c, o)
  <1> DEFINE now == IF to = Forever THEN 0 ELSE clock
             o == [Op("grant", d, u) EXCEPT !.to = to, !.now = now,
                                            !.pipe = GrantPipe(<<d, u>>, to, now)]
  <1>0. clock \in Nat /\ Begin(c, o)
    BY RedisAssumption DEF IInv, DbOK, Grant
  <1>1. Starts(o, "grant", d, u) /\ o.to = to /\ o.now = now /\ o.pipe = GrantPipe(<<d, u>>, to, now)
    <2> DEFINE x == Timed(Ending(Op("grant", d, u), to), now)
    <2>1. o = Piped(x, GrantPipe(<<d, u>>, to, now))
      BY DEF Piped, Ending, Timed
    <2>2. now \in {0, clock}
      OBVIOUS
    <2> HIDE DEF now
    <2>3. Starts(x, "grant", d, u) /\ x.now = now /\ x.to = to
      BY <2>2, OpStarts, WithEnd, WithTime
    <2> HIDE DEF o, x
    <2>4. DOMAIN x = Fields
      BY <2>3 DEF Starts
    <2> QED BY <2>1, <2>3, <2>4, WithPipe, WithPipeTime
  <1> HIDE DEF o, now
  <1>2. IsCaller(o) /\ o.pos = 1 /\ ~o.tidy /\ o.kind # "idle" /\ o.now <= clock
    BY <1>0, <1>1, StartsCaller
  <1>3. Len(o.pipe) = 4 \/ Len(o.pipe) = 6
    BY <1>1 DEF GrantPipe
  <1>4. o.pos \in 1..Len(o.pipe)
    <2>1. ASSUME NEW l \in {4, 6}, Len(o.pipe) = l PROVE o.pos \in 1..Len(o.pipe)
      <3>1. l \in Nat \ {0}
        OBVIOUS
      <3> QED BY <1>2, <2>1, <3>1, FirstOf
    <2> QED BY <1>3, <2>1
  <1>5. Shape(o, clock)
    BY <1>1, <1>2, <1>4 DEF Shape, Starts
  <1>6. IInv'
    BY <1>0, <1>1, <1>2, <1>5, BeginInv DEF Starts
  <1> QED BY <1>0, <1>1, <1>6

(* Revoke begins. *)
LEMMA RevokeInv ==
  ASSUME IInv, NEW c \in Clients, NEW d \in Docs, NEW u \in Users, Revoke(c, d, u)
  PROVE  IInv' /\ \E o : Starts(o, "revoke", d, u) /\ Begin(c, o)
  <1> DEFINE o == [Op("revoke", d, u) EXCEPT !.pipe = RevokePipe(<<d, u>>)]
  <1>0. clock \in Nat /\ Begin(c, o)
    BY RedisAssumption DEF IInv, DbOK, Revoke
  <1>1. Starts(o, "revoke", d, u) /\ o.pipe = RevokePipe(<<d, u>>)
    <2>1. o = Piped(Op("revoke", d, u), RevokePipe(<<d, u>>))
      BY DEF Piped
    <2> HIDE DEF o
    <2> QED BY <2>1, OpStarts, WithPipe
  <1> HIDE DEF o
  <1>2. IsCaller(o) /\ o.pos = 1 /\ ~o.tidy /\ o.kind # "idle" /\ o.now <= clock
    BY <1>0, <1>1, StartsCaller
  <1>3. Len(o.pipe) = 4
    BY <1>1 DEF RevokePipe
  <1>4. o.pos \in 1..Len(o.pipe)
    BY <1>2, <1>3, FirstOf
  <1>5. Shape(o, clock)
    BY <1>1, <1>2, <1>4 DEF Shape, Starts
  <1>6. IInv'
    BY <1>0, <1>1, <1>2, <1>5, BeginInv DEF Starts
  <1> QED BY <1>0, <1>1, <1>6

(* RevokeAllUser reads the user's documents and begins. *)
LEMMA RevokeAllInv ==
  ASSUME IInv, NEW c \in Clients, NEW u \in Users, RevokeAllUser(c, u)
  PROVE  IInv' /\ \E o : Starts(o, "revokeAll", Absent, u) /\ Begin(c, o)
  <1> DEFINE o == [Op("revokeAll", Absent, u) EXCEPT !.pipe = <<Read("members", <<Absent, u>>)>>]
  <1>0. clock \in Nat /\ Begin(c, o)
    BY RedisAssumption DEF IInv, DbOK, RevokeAllUser
  <1>1. Starts(o, "revokeAll", Absent, u) /\ o.pipe = Members(u)
    <2>1. o = Piped(Op("revokeAll", Absent, u), Members(u))
      BY DEF Piped, Members
    <2> HIDE DEF o
    <2> QED BY <2>1, OpStarts, WithPipe
  <1> HIDE DEF o
  <1>2. IsCaller(o) /\ o.pos = 1 /\ ~o.tidy /\ o.kind # "idle" /\ o.now <= clock
    BY <1>0, <1>1, StartsCaller
  <1>3. Len(o.pipe) = 1
    BY <1>1 DEF Members
  <1>4. o.pos \in 1..Len(o.pipe)
    BY <1>2, <1>3, FirstOf
  <1>5. Shape(o, clock)
    BY <1>1, <1>2, <1>4 DEF Shape, Starts
  <1>6. IInv'
    BY <1>0, <1>1, <1>2, <1>5, BeginInv DEF Starts
  <1> QED BY <1>0, <1>1, <1>6

(* CheckBatch begins. *)
LEMMA CheckInv ==
  ASSUME IInv, NEW c \in Clients, NEW d \in Docs, NEW u \in Users, CheckBatch(c, d, u)
  PROVE  IInv' /\ \E o : Starts(o, "check", d, u) /\ Begin(c, o)
  <1> DEFINE o == [Op("check", d, u) EXCEPT !.pipe = CheckPipe(<<d, u>>)]
  <1>0. clock \in Nat /\ Begin(c, o)
    BY RedisAssumption DEF IInv, DbOK, CheckBatch
  <1>1. Starts(o, "check", d, u) /\ o.pipe = CheckPipe(<<d, u>>)
    <2>1. o = Piped(Op("check", d, u), CheckPipe(<<d, u>>))
      BY DEF Piped
    <2> HIDE DEF o
    <2> QED BY <2>1, OpStarts, WithPipe
  <1> HIDE DEF o
  <1>2. IsCaller(o) /\ o.pos = 1 /\ ~o.tidy /\ o.kind # "idle" /\ o.now <= clock
    BY <1>0, <1>1, StartsCaller
  <1>3. Len(o.pipe) = 3
    BY <1>1 DEF CheckPipe
  <1>4. o.pos \in 1..Len(o.pipe)
    BY <1>2, <1>3, FirstOf
  <1>5. Shape(o, clock)
    BY <1>1, <1>2, <1>4 DEF Shape, Starts
  <1>6. IInv'
    BY <1>0, <1>1, <1>2, <1>5, BeginInv DEF Starts
  <1> QED BY <1>0, <1>1, <1>6

(* ListUserGrants begins. *)
LEMMA ListInv ==
  ASSUME IInv, NEW c \in Clients, NEW u \in Users, ListGrants(c, u)
  PROVE  IInv' /\ \E o : Starts(o, "list", Absent, u) /\ Begin(c, o)
  <1> DEFINE o == [Op("list", Absent, u) EXCEPT !.pipe = <<Read("members", <<Absent, u>>)>>]
  <1>0. clock \in Nat /\ Begin(c, o)
    BY RedisAssumption DEF IInv, DbOK, ListGrants
  <1>1. Starts(o, "list", Absent, u) /\ o.pipe = Members(u)
    <2>1. o = Piped(Op("list", Absent, u), Members(u))
      BY DEF Piped, Members
    <2> HIDE DEF o
    <2> QED BY <2>1, OpStarts, WithPipe
  <1> HIDE DEF o
  <1>2. IsCaller(o) /\ o.pos = 1 /\ ~o.tidy /\ o.kind # "idle" /\ o.now <= clock
    BY <1>0, <1>1, StartsCaller
  <1>3. Len(o.pipe) = 1
    BY <1>1 DEF Members
  <1>4. o.pos \in 1..Len(o.pipe)
    BY <1>2, <1>3, FirstOf
  <1>5. Shape(o, clock)
    BY <1>1, <1>2, <1>4 DEF Shape, Starts
  <1>6. IInv'
    BY <1>0, <1>1, <1>2, <1>5, BeginInv DEF Starts
  <1> QED BY <1>0, <1>1, <1>6

(* Only a grant brings an entry back. *)
LEMMA OnlyRemoves ==
  ASSUME DbOK, NEW o, IsCaller(o), Shape(o, clock), o.kind \notin {"idle", "grant"},
         NEW m, m = Apply(db, o.pipe[o.pos])
  PROVE  \A i \in Indexes, p \in Pairs : m[i][p] = db[i][p] \/ m[i][p] = Absent
  <1> DEFINE cmd == o.pipe[o.pos]
  <1>0. db \in Maps /\ clock \in Nat
    BY RedisAssumption DEF DbOK, Maps
  <1>1. \/ \E i \in Indexes, p \in Pairs, x \in Cells :
              cmd = Put(i, p, x) /\ CellOK(i, x) /\ p \in Covers(o)
        \/ \E i \in Indexes, p \in Pairs : cmd = Script(i, p) /\ p \in Covers(o)
        \/ \E i \in Exps, p \in Pairs, x \in Int : cmd = Expire(i, p, x) /\ x <= Unix(clock)
        \/ o.kind = "revokeAll" /\ cmd = DelUser(o.u)
        \/ cmd.do \in Reads
    BY <1>0, CommandKinds
  <1>2. m = Apply(db, cmd) /\ cmd.do # "put"
    BY StageFacts
  <1> HIDE DEF cmd
  <1>3. ASSUME NEW i \in Indexes, NEW p \in Pairs, NEW x \in Cells, cmd = Put(i, p, x)
        PROVE  FALSE
    BY <1>2, <1>3, CommandNames
  <1>4. ASSUME NEW i \in Indexes, NEW p \in Pairs, cmd = Script(i, p)
        PROVE  \A j \in Indexes, q \in Pairs : m[j][q] = db[j][q] \/ m[j][q] = Absent
    BY <1>0, <1>2, <1>4, ScriptEffect
  <1>5. ASSUME NEW i \in Exps, NEW p \in Pairs, NEW x \in Int, cmd = Expire(i, p, x)
        PROVE  \A j \in Indexes, q \in Pairs : m[j][q] = db[j][q] \/ m[j][q] = Absent
    <2>1. \A q \in Pairs : db[i][q] \in {Absent} \union Int
      BY DEF DbOK, CellOK, Exps, Perms, Indexes
    <2> QED BY <1>0, <1>2, <1>5, <2>1, ExpireEffect
  <1>6. ASSUME cmd = DelUser(o.u)
        PROVE  \A j \in Indexes, q \in Pairs : m[j][q] = db[j][q] \/ m[j][q] = Absent
    BY <1>0, <1>2, <1>6, DelUserEffect
  <1>7. ASSUME cmd.do \in Reads
        PROVE  m = db
    BY <1>2, <1>7, ReadEffect
  <1> QED BY <1>1, <1>3, <1>4, <1>5, <1>6, <1>7

(* A command leaves what is known of the others' pairs. *)
LEMMA OthersKept ==
  ASSUME IInv, NEW c \in Clients, client[c].kind # "idle",
         NEW m, m = Apply(db, client[c].pipe[client[c].pos])
  PROVE  /\ m \in Maps /\ \A i \in Indexes, q \in Pairs : CellOK(i, m[i][q])
         /\ \A q \in Pairs : q \notin Covers(client[c]) =>
              /\ Gentle(db, m, q, clock)
              /\ \A e : Follows(db, q, e, clock) => Follows(m, q, e, clock)
              /\ Agree(db, q, clock) => Agree(m, q, clock)
  <1> DEFINE o == client[c]
  <1>0. clock \in Nat /\ clock <= clock /\ DbOK /\ IsCaller(o) /\ Shape(o, clock)
    BY RedisAssumption DEF IInv, DbOK, CallersOK
  <1>1. /\ m \in Maps /\ \A i \in Indexes, q \in Pairs : CellOK(i, m[i][q])
        /\ \A q \in Pairs : q \notin Covers(o) => Gentle(db, m, q, clock)
    <2> HIDE DEF o
    <2>1. m = Apply(db, o.pipe[o.pos]) /\ o.kind # "idle"
      BY DEF o
    <2> QED BY <1>0, <2>1, CommandGentle
  <1>2. \A q \in Pairs : q \notin Covers(o) =>
              /\ \A e : Follows(db, q, e, clock) => Follows(m, q, e, clock)
              /\ Agree(db, q, clock) => Agree(m, q, clock)
    BY <1>0, <1>1, GentleAgree
  <1> QED BY <1>1, <1>2

(* The operation of c moves on. *)
LEMMA MoveInv ==
  ASSUME IInv, NEW c \in Clients, NEW n, client[c].kind # "idle", Moves(client[c], n),
         db' = Apply(db, client[c].pipe[client[c].pos]),
         client' = [client EXCEPT ![c] = n], UNCHANGED <<clock, ideal, dirty>>
  PROVE  IInv'
  <1> DEFINE o == client[c]
             m == db'
  <1>0. clock \in Nat /\ clock <= clock /\ DbOK /\ IsCaller(o) /\ Shape(o, clock)
    BY RedisAssumption DEF IInv, DbOK, CallersOK
  <1>1. /\ IsCaller(n) /\ Shape(n, clock) /\ n.kind = o.kind /\ n.overlap = o.overlap
        /\ Covers(n) = Covers(o)
    <2> HIDE DEF o
    <2>1. o.kind # "idle" /\ Moves(o, n)
      BY DEF o
    <2> QED BY <1>0, <2>1, MovesCaller
  <1>2. /\ m \in Maps /\ \A i \in Indexes, q \in Pairs : CellOK(i, m[i][q])
        /\ \A q \in Pairs : q \notin Covers(o) =>
              /\ Gentle(db, m, q, clock)
              /\ \A e : Follows(db, q, e, clock) => Follows(m, q, e, clock)
              /\ Agree(db, q, clock) => Agree(m, q, clock)
    BY OthersKept
  <1>3. /\ DOMAIN client' = Clients /\ client'[c] = n
        /\ \A b \in Clients : b # c => client'[b] = client[b]
        /\ \A b \in Clients : /\ Covers(client'[b]) = Covers(client[b])
                              /\ client'[b].kind = client[b].kind
                              /\ client'[b].overlap = client[b].overlap
    BY <1>1 DEF IInv, CallersOK
  <1>4. DbOK'
    BY <1>2 DEF DbOK, IInv, Maps
  <1>5. CallersOK'
    BY <1>0, <1>1, <1>3 DEF CallersOK, IInv
  <1>6. OverlapsKnown'
    BY <1>3 DEF OverlapsKnown, IInv
  <1>7. AloneDone'
    <2> SUFFICES ASSUME NEW b \in Clients, ~client'[b].overlap, NEW p \in Covers(client'[b])
                 PROVE  Progress(client'[b], db', p, clock', dirty')
      BY DEF AloneDone
    <2>1. ~client[b].overlap /\ p \in Covers(client[b]) /\ Progress(client[b], db, p, clock, dirty)
      BY <1>3 DEF IInv, AloneDone
    <2>2. CASE b = c
      <3>1. Progress(n, m, p, clock, dirty)
        <4>1. o.kind # "idle" /\ Moves(o, n) /\ m = Apply(db, o.pipe[o.pos]) /\ p \in Covers(o)
              /\ Progress(o, db, p, clock, dirty)
          BY <2>1, <2>2
        <4> HIDE DEF o, m
        <4> QED BY <1>0, <4>1, MovesProgress
      <3> QED BY <1>3, <2>2, <3>1
    <2>3. CASE b # c
      <3>1. p \notin Covers(o)
        BY <2>1, <2>3 DEF IInv, OverlapsKnown
      <3>2. p \in Pairs
        BY <1>0, <2>1, CoversPairs DEF IInv, CallersOK
      <3>3. Gentle(db, m, p, clock)
        BY <1>2, <3>1, <3>2
      <3>4. Progress(client[b], m, p, clock, dirty)
        BY <1>0, <2>1, <3>3, GentleProgress
      <3> QED BY <1>3, <2>3, <3>4
    <2> QED BY <2>2, <2>3
  <1>8. SettledOK'
    <2>1. ASSUME NEW p \in Pairs, Settled(p)'
          PROVE  Agree(db', p, clock') /\ Follows(db', p, ideal'[p], clock')
      <3>1. p \notin Covers(o) /\ Settled(p)
        BY <1>3, <2>1 DEF Settled
      <3>2. Agree(db, p, clock) /\ Follows(db, p, ideal[p], clock)
        BY <3>1 DEF IInv, SettledOK
      <3> QED BY <1>2, <3>1, <3>2
    <2> QED BY <2>1 DEF IInv, SettledOK
  <1> QED BY <1>4, <1>5, <1>6, <1>7, <1>8 DEF IInv

(* The operation of c ends; m is what its last command left. *)
LEMMA EndInv ==
  ASSUME IInv, NEW c \in Clients, NEW r, NEW ok \in BOOLEAN, client[c].kind # "idle",
         r.kind = client[c].kind, r.d = client[c].d, r.u = client[c].u, r.to = client[c].to,
         r.overlap = client[c].overlap, r.seen \subseteq Docs, End(c, r, ok), clock' = clock,
         db' \in Maps, \A i \in Indexes, q \in Pairs : CellOK(i, db'[i][q]),
         \A q \in Pairs : q \notin Covers(client[c]) => Gentle(db, db', q, clock),
         ok /\ ~client[c].overlap => \A p \in Covers(client[c]) :
            p \notin dirty \/ client[c].kind # "revokeAll" =>
                 Agree(db', p, clock) /\ Follows(db', p, client[c].to, clock)
  PROVE  IInv'
  <1> DEFINE o == client[c]
             alone == ok /\ ~o.overlap
             idle == [Idle EXCEPT !.answer = IF r.kind = "check" THEN Answer(r) ELSE "none",
                                  !.seen = IF r.kind = "list" THEN r.seen ELSE {},
                                  !.failed = ~ok]
  <1>0. clock \in Nat /\ clock <= clock /\ DbOK /\ IsCaller(o) /\ Shape(o, clock)
    BY RedisAssumption DEF IInv, DbOK, CallersOK
  <1>1. Covers(r) = Covers(o) /\ Covers(o) \subseteq Pairs
    BY <1>0, SameCovers, CoversPairs
  <1>2. /\ client' = [client EXCEPT ![c] = idle]
        /\ ideal' = [p \in Pairs |-> IF p \in Covers(o) /\ alone THEN o.to ELSE ideal[p]]
        /\ dirty' = IF ~alone THEN dirty \union Covers(o)
                    ELSE IF o.kind = "revokeAll" THEN dirty ELSE dirty \ Covers(o)
    BY <1>1 DEF End
  <1>3. /\ IsCaller(idle) /\ Shape(idle, clock) /\ Covers(idle) = {} /\ idle.kind = "idle"
    <2>1. /\ DOMAIN idle = Fields /\ idle.kind = Idle.kind /\ idle.pos = Idle.pos
          /\ idle.now = Idle.now /\ idle.overlap = Idle.overlap /\ idle.noscript = Idle.noscript
          /\ idle.tidy = Idle.tidy /\ idle.to = Idle.to
          /\ idle.seen = IF r.kind = "list" THEN r.seen ELSE {}
      BY DEF Idle, Fields
    <2> HIDE DEF idle
    <2>2. idle.pos \in Nat /\ idle.now \in Nat /\ idle.seen \subseteq Docs /\ idle.kind = "idle"
      BY <2>1, IdleFacts
    <2>3. /\ idle.overlap \in BOOLEAN /\ idle.noscript \in BOOLEAN /\ ~idle.tidy
          /\ idle.tidy \in BOOLEAN
      BY <2>1, IdleFacts, Zenon
    <2> QED BY <2>1, <2>2, <2>3, IdleFacts, IdleCaller
  <1> HIDE DEF idle
  <1>4. /\ DOMAIN client' = Clients /\ client'[c] = idle
        /\ \A b \in Clients : b # c => client'[b] = client[b]
    BY <1>2 DEF IInv, CallersOK
  <1>5. DbOK'
    BY <1>0 DEF DbOK, Maps
  <1>6. CallersOK'
    BY <1>0, <1>3, <1>4 DEF CallersOK, IInv
  <1>7. OverlapsKnown'
    <2> SUFFICES ASSUME NEW a \in Clients, NEW b \in Clients, a # b,
                        Covers(client'[a]) \intersect Covers(client'[b]) # {}
                 PROVE  client'[a].overlap
      BY DEF OverlapsKnown
    <2>1. a # c /\ b # c
      BY <1>3, <1>4
    <2> QED BY <1>4, <2>1 DEF OverlapsKnown, IInv
  <1>8. AloneDone'
    <2> SUFFICES ASSUME NEW b \in Clients, ~client'[b].overlap, NEW p \in Covers(client'[b])
                 PROVE  Progress(client'[b], db', p, clock', dirty')
      BY DEF AloneDone
    <2>1. b # c /\ client'[b] = client[b]
      BY <1>3, <1>4
    <2>2. Progress(client[b], db, p, clock, dirty)
      BY <2>1 DEF IInv, AloneDone
    <2>3. p \notin Covers(o)
      BY <2>1 DEF IInv, OverlapsKnown
    <2>4. p \in Pairs
      BY <1>0, <2>1, CoversPairs DEF IInv, CallersOK
    <2>5. p \in dirty => p \in dirty'
      BY <1>2, <2>3
    <2>6. Gentle(db, db', p, clock)
      BY <2>3, <2>4
    <2>7. Progress(client[b], db', p, clock, dirty')
      BY <1>0, <2>2, <2>5, <2>6, GentleProgress
    <2> QED BY <2>1, <2>7
  <1>9. SettledOK'
    <2>1. o.to \in {Absent, Forever} \union 0..(MaxClock + 1)
      BY <1>0, EndScore DEF Shape
    <2>2. ideal' \in [Pairs -> {Absent, Forever} \union 0..(MaxClock + 1)] /\ dirty' \subseteq Pairs
      <3>1. ideal \in [Pairs -> {Absent, Forever} \union 0..(MaxClock + 1)] /\ dirty \subseteq Pairs
        BY DEF IInv, SettledOK
      <3> DEFINE T == {Absent, Forever} \union 0..(MaxClock + 1)
      <3> HIDE DEF T
      <3>2. ideal' \in [Pairs -> T]
        BY <1>2, <2>1, <3>1 DEF T
      <3>3. dirty' \subseteq Pairs
        BY <1>1, <1>2, <3>1
      <3> QED BY <3>2, <3>3 DEF T
    <2>3. ASSUME NEW p \in Pairs, Settled(p)'
          PROVE  Agree(db', p, clock') /\ Follows(db', p, ideal'[p], clock')
      <3>1. p \notin dirty' /\ \A b \in Clients : b # c => p \notin Covers(client[b])
        BY <1>4, <2>3 DEF Settled
      <3>2. CASE p \in Covers(o)
        <4>1. alone /\ (p \notin dirty \/ o.kind # "revokeAll")
          BY <1>2, <3>1, <3>2
        <4>2. Agree(db', p, clock) /\ Follows(db', p, o.to, clock)
          BY <3>2, <4>1
        <4>3. ideal'[p] = o.to
          BY <1>2, <3>2, <4>1
        <4> QED BY <4>2, <4>3
      <3>3. CASE p \notin Covers(o)
        <4>1. p \notin dirty
          BY <1>2, <3>1, <3>3
        <4>2. Settled(p)
          BY <3>1, <3>3, <4>1 DEF Settled
        <4>3. Agree(db, p, clock) /\ Follows(db, p, ideal[p], clock)
          BY <4>2 DEF IInv, SettledOK
        <4>4. ideal'[p] = ideal[p]
          BY <1>2, <3>3
        <4>5. Gentle(db, db', p, clock)
          BY <3>3
        <4>6. Agree(db', p, clock) /\ Follows(db', p, ideal[p], clock)
          BY <1>0, <4>3, <4>5, GentleAgree
        <4> QED BY <4>4, <4>6
      <3> QED BY <3>2, <3>3
    <2> QED BY <2>2, <2>3 DEF SettledOK
  <1> QED BY <1>5, <1>6, <1>7, <1>8, <1>9 DEF IInv

(* Every command keeps the invariant. *)
LEMMA ExecInv ==
  ASSUME IInv, NEW c \in Clients, Exec(c)
  PROVE  IInv'
  <1> DEFINE o == client[c]
             r == Reply(o, o.pipe[o.pos])
             ok == o.tidy \/ ~r.noscript
  <1>1. /\ o.kind # "idle" /\ IsCaller(o) /\ Shape(o, clock)
        /\ db' = Apply(db, o.pipe[o.pos])
        /\ UNCHANGED <<clock, scripts, restricted, ops, losses>>
        /\ \/ \E n : /\ Moves(o, n) /\ client' = [client EXCEPT ![c] = n]
                     /\ UNCHANGED <<ideal, dirty, ungranted, revoked>>
           \/ LastDone(o) /\ End(c, r, ok)
    BY ExecSplit DEF IInv
  <1>2. ASSUME NEW n, Moves(o, n), client' = [client EXCEPT ![c] = n],
               UNCHANGED <<ideal, dirty, ungranted, revoked>>
        PROVE  IInv'
    BY <1>1, <1>2, MoveInv
  <1>3. CASE LastDone(o) /\ End(c, r, ok)
    <2>1. /\ db' \in Maps /\ \A i \in Indexes, q \in Pairs : CellOK(i, db'[i][q])
          /\ \A q \in Pairs : q \notin Covers(o) => Gentle(db, db', q, clock)
      BY <1>1, OthersKept
    <2>2. /\ r.kind = o.kind /\ r.d = o.d /\ r.u = o.u /\ r.to = o.to /\ r.overlap = o.overlap
          /\ IsCaller(r)
      <3> HIDE DEF o
      <3> QED BY <1>1, ReplyFacts
    <2>3. r.seen \subseteq Docs
      BY <2>2 DEF IsCaller
    <2>4. ASSUME ok, ~o.overlap, NEW p \in Covers(o)
          PROVE  p \notin dirty \/ o.kind # "revokeAll" =>
                   Agree(db', p, clock) /\ Follows(db', p, o.to, clock)
      <3>1. Progress(o, db, p, clock, dirty) /\ DbOK
        BY <2>4 DEF IInv, AloneDone
      <3>2. o.kind \in {"grant", "revoke", "revokeAll"}
        BY <1>1, CoversPairs
      <3>3. o.tidy \/ ~Reply(o, o.pipe[o.pos]).noscript
        BY <2>4
      <3> HIDE DEF o, r, ok
      <3> QED BY <1>1, <1>3, <2>4, <3>1, <3>2, <3>3, EndDone
    <2>5. ok \in BOOLEAN
      OBVIOUS
    <2> HIDE DEF r, ok
    <2> QED BY <1>1, <1>3, <2>1, <2>2, <2>3, <2>4, <2>5, EndInv
  <1> QED BY <1>1, <1>2, <1>3

(* A pipeline is sent again: what was known of its beginning holds still,  *)
(* also when the command whose reply was lost has been carried out.        *)
LEMMA AgainProgress ==
  ASSUME DbOK, NEW o, IsCaller(o), Shape(o, clock), o.kind # "idle",
         NEW m, m = db \/ m = Apply(db, o.pipe[o.pos]),
         NEW n, IsCaller(n), n.kind = o.kind, n.d = o.d, n.u = o.u, n.to = o.to,
         n.pipe = o.pipe, n.tidy = o.tidy, n.seen = o.seen, n.noscript = o.noscript, n.pos = 1,
         NEW p \in Covers(o), NEW dirt, Progress(o, db, p, clock, dirt)
  PROVE  Progress(n, m, p, clock, dirt)
  <1>1. ASSUME o.kind = "grant" PROVE Granting(n, m, p, clock)
    <2>1. Granting(o, db, p, clock) /\ p = <<o.d, o.u>>
      BY <1>1 DEF Progress, Covers
    <2>2. CASE ~o.tidy
      BY <2>2 DEF Granting
    <2>3. CASE o.tidy /\ m = db
      BY <2>1, <2>3 DEF Granting
    <2>4. CASE o.tidy /\ m = Apply(db, o.pipe[o.pos])
      BY <1>1, <2>1, <2>4, TidyKeeps
    <2> QED BY <2>2, <2>3, <2>4
  <1>2. Revoking(n, m, p)
    BY DEF Revoking
  <1>3. ASSUME o.kind = "revokeAll", p \notin dirt PROVE RevokingAll(n, m, p, clock)
    <2>0. RevokingAll(o, db, p, clock) /\ p \in Pairs
      BY <1>3 DEF Progress, Covers
    <2>1. ASSUME o.pipe = Members(o.u) \/ o.pipe = Ranged(o.u) PROVE m = db
      <3>1. o.pipe[o.pos].do \in {"members", "range"}
        BY <1>3, <2>1, StageFacts
      <3>2. o.pipe[o.pos].do \in Reads
        BY <3>1 DEF Reads
      <3> QED BY <3>2, ReadEffect
    <2>2. \A i \in Indexes : m[i][p] = db[i][p] \/ m[i][p] = Absent
      BY <1>3, <2>0, OnlyRemoves
    <2>3. /\ db["docPerm"][p] = Absent => m["docPerm"][p] = Absent
          /\ Gone(db, "docExp", p, clock) => Gone(m, "docExp", p, clock)
      BY <2>2 DEF Indexes, Gone
    <2>4. ASSUME NEW order \in Orders(n.seen), NEW j \in 1..Len(order)
          PROVE  ~(n.pos > 2 * j - 1) /\ ~(n.pos > 2 * j)
      <3>1. Len(order) \in Nat
        <4>1. n.seen \in SUBSET Docs
          BY DEF IsCaller
        <4> QED BY <4>1, RevokeAllCommands
      <3> QED BY <3>1
    <2>5. n.pipe = Members(n.u) => Agree(m, p, clock)
      <3> HIDE DEF Agree
      <3> QED BY <2>0, <2>1 DEF RevokingAll
    <2>6. n.pipe = Ranged(n.u) => /\ Agree(m, p, clock)
                                  /\ p[1] \notin n.seen => m["userPerm"][p] = Absent
      <3> HIDE DEF Agree
      <3> QED BY <2>0, <2>1 DEF RevokingAll
    <2>7. ASSUME NEW order \in Orders(n.seen), n.pipe = RevokeAllPipe(order, n.u), p[1] \notin n.seen
          PROVE  m["docPerm"][p] = Absent /\ Gone(m, "docExp", p, clock)
      <3>1. db["docPerm"][p] = Absent /\ Gone(db, "docExp", p, clock)
        BY <2>0, <2>7 DEF RevokingAll
      <3> QED BY <2>3, <3>1
    <2> HIDE DEF Agree
    <2> QED BY <2>4, <2>5, <2>6, <2>7 DEF RevokingAll
  <1> QED BY <1>1, <1>2, <1>3 DEF Progress

(* What a lost connection leaves in the indexes. *)
LEMMA LostEffect ==
  ASSUME IInv, NEW c \in Clients, Lost(c)
  PROVE  LET o == client[c] IN
         /\ o.kind # "idle" /\ (db' = db \/ db' = Apply(db, o.pipe[o.pos]))
         /\ db' \in Maps /\ \A i \in Indexes, q \in Pairs : CellOK(i, db'[i][q])
         /\ \A q \in Pairs : q \notin Covers(o) => Gentle(db, db', q, clock)
  <1> DEFINE o == client[c]
  <1>1. o.kind # "idle" /\ (db' = db \/ db' = Apply(db, o.pipe[o.pos]))
    BY DEF Lost, Running
  <1>2. CASE db' = db
    BY <1>1, <1>2 DEF IInv, DbOK, Maps, Gentle
  <1>3. CASE db' = Apply(db, o.pipe[o.pos])
    BY <1>1, <1>3, OthersKept
  <1> QED BY <1>1, <1>2, <1>3

(* The caller sends its pipeline again. *)
Again(o) == [o EXCEPT !.pos = 1, !.vis = "error", !.perm = FALSE, !.exp = FALSE]

LEMMA AgainCaller ==
  ASSUME NEW now, NEW o, IsCaller(o), Shape(o, now), o.kind # "idle"
  PROVE  LET n == Again(o) IN
         /\ DOMAIN n = Fields /\ n.pos = 1
         /\ n.kind = o.kind /\ n.d = o.d /\ n.u = o.u /\ n.to = o.to /\ n.now = o.now
         /\ n.pipe = o.pipe /\ n.tidy = o.tidy /\ n.overlap = o.overlap /\ n.seen = o.seen
         /\ n.noscript = o.noscript
         /\ IsCaller(n) /\ Shape(n, now) /\ Covers(n) = Covers(o)
  <1> DEFINE n == Again(o)
  <1>1. /\ DOMAIN n = Fields /\ n.pos = 1
        /\ n.kind = o.kind /\ n.d = o.d /\ n.u = o.u /\ n.to = o.to /\ n.now = o.now
        /\ n.pipe = o.pipe /\ n.tidy = o.tidy /\ n.overlap = o.overlap /\ n.seen = o.seen
        /\ n.noscript = o.noscript
    BY DEF IsCaller, Fields, Again
  <1> HIDE DEF n
  <1>2. IsCaller(n)
    <2>1. n.pos \in Nat
      BY <1>1
    <2> QED BY <1>1, <2>1 DEF IsCaller
  <1>3. Shape(n, now)
    <2>1. n.pos \in 1..Len(n.pipe)
      <3>1. o.pos \in 1..Len(o.pipe)
        BY DEF Shape
      <3>2. 1 \in 1..Len(o.pipe)
        BY <3>1
      <3> QED BY <1>1, <3>2
    <2> QED BY <1>1, <2>1 DEF Shape
  <1>4. Covers(n) = Covers(o)
    BY <1>1, SameCovers
  <1> QED BY <1>1, <1>2, <1>3, <1>4 DEF n

(* Sending it again keeps the invariant. *)
LEMMA RetryInv ==
  ASSUME IInv, NEW c \in Clients, Retry(c)
  PROVE  IInv'
  <1> DEFINE o == client[c]
             n == Again(o)
  <1>1. /\ client' = [client EXCEPT ![c] = n]
        /\ UNCHANGED <<clock, ideal, dirty>>
    BY DEF Retry, Again
  <1>2. IsCaller(o) /\ Shape(o, clock) /\ DbOK /\ clock \in Nat /\ clock <= clock
    BY RedisAssumption DEF IInv, CallersOK, DbOK
  <1>3. /\ o.kind # "idle" /\ (db' = db \/ db' = Apply(db, o.pipe[o.pos]))
        /\ db' \in Maps /\ \A i \in Indexes, q \in Pairs : CellOK(i, db'[i][q])
        /\ \A q \in Pairs : q \notin Covers(o) => Gentle(db, db', q, clock)
    BY LostEffect DEF Retry
  <1>4. /\ n.pos = 1 /\ n.kind = o.kind /\ n.d = o.d /\ n.u = o.u /\ n.to = o.to
        /\ n.pipe = o.pipe /\ n.tidy = o.tidy /\ n.overlap = o.overlap /\ n.seen = o.seen
        /\ n.noscript = o.noscript
        /\ IsCaller(n) /\ Shape(n, clock) /\ Covers(n) = Covers(o)
    <2> HIDE DEF o
    <2> QED BY <1>2, <1>3, AgainCaller
  <1> HIDE DEF n
  <1>8. /\ DOMAIN client' = Clients /\ client'[c] = n
        /\ \A b \in Clients : b # c => client'[b] = client[b]
        /\ \A b \in Clients : /\ Covers(client'[b]) = Covers(client[b])
                              /\ client'[b].kind = client[b].kind
                              /\ client'[b].overlap = client[b].overlap
    BY <1>1, <1>4 DEF IInv, CallersOK
  <1>9. DbOK'
    BY <1>1, <1>2, <1>3 DEF DbOK, Maps
  <1>10. CallersOK'
    BY <1>1, <1>4, <1>8 DEF CallersOK, IInv
  <1>11. OverlapsKnown'
    BY <1>8 DEF OverlapsKnown, IInv
  <1>12. AloneDone'
    <2> SUFFICES ASSUME NEW b \in Clients, ~client'[b].overlap, NEW p \in Covers(client'[b])
                 PROVE  Progress(client'[b], db', p, clock', dirty')
      BY DEF AloneDone
    <2>1. /\ Progress(client[b], db, p, clock, dirty)
          /\ ~client[b].overlap /\ p \in Covers(client[b])
      BY <1>8 DEF IInv, AloneDone
    <2>2. CASE b = c
      <3>1. Progress(o, db, p, clock, dirty) /\ p \in Covers(o)
        BY <2>1, <2>2
      <3> DEFINE m == db'
      <3>2. m = db \/ m = Apply(db, o.pipe[o.pos])
        BY <1>3
      <3> HIDE DEF o, m
      <3>3. Progress(n, m, p, clock, dirty)
        BY <1>2, <1>3, <1>4, <3>1, <3>2, AgainProgress
      <3> QED BY <1>1, <1>8, <2>2, <3>3 DEF m
    <2>3. CASE b # c
      <3>1. p \notin Covers(o)
        BY <2>1, <2>3 DEF IInv, OverlapsKnown
      <3>2. p \in Pairs
        BY <2>1, CoversPairs DEF IInv, CallersOK
      <3>3. Gentle(db, db', p, clock)
        BY <1>3, <3>1, <3>2
      <3>4. Progress(client[b], db', p, clock, dirty)
        BY <1>2, <2>1, <3>3, GentleProgress
      <3> QED BY <1>1, <1>8, <2>3, <3>4
    <2> QED BY <2>2, <2>3
  <1>13. SettledOK'
    <2>1. ASSUME NEW p \in Pairs, Settled(p)'
          PROVE  Agree(db', p, clock') /\ Follows(db', p, ideal'[p], clock')
      <3>1. p \notin Covers(o) /\ Settled(p)
        BY <1>1, <1>8, <2>1 DEF Settled
      <3>2. Agree(db, p, clock) /\ Follows(db, p, ideal[p], clock)
        BY <3>1 DEF IInv, SettledOK
      <3>3. Gentle(db, db', p, clock)
        BY <1>3, <3>1
      <3> QED BY <1>1, <1>2, <3>2, <3>3, GentleAgree
    <2> QED BY <1>1, <2>1 DEF IInv, SettledOK
  <1> QED BY <1>9, <1>10, <1>11, <1>12, <1>13 DEF IInv

(* A pipeline that is lost for good leaves its pairs unsettled. *)
LEMMA GiveUpInv ==
  ASSUME IInv, NEW c \in Clients, GiveUp(c)
  PROVE  IInv'
  <1> DEFINE o == client[c]
  <1>1. End(c, o, o.tidy) /\ clock' = clock
    BY DEF GiveUp
  <1>2. IsCaller(o) /\ Shape(o, clock) /\ clock \in Nat /\ DbOK
    BY RedisAssumption DEF IInv, CallersOK, DbOK
  <1>3. /\ o.kind # "idle" /\ (db' = db \/ db' = Apply(db, o.pipe[o.pos]))
        /\ db' \in Maps /\ \A i \in Indexes, q \in Pairs : CellOK(i, db'[i][q])
        /\ \A q \in Pairs : q \notin Covers(o) => Gentle(db, db', q, clock)
    BY LostEffect DEF GiveUp
  <1>4. ASSUME o.tidy, ~o.overlap, NEW p \in Covers(o)
        PROVE  Agree(db', p, clock) /\ Follows(db', p, o.to, clock)
    <2>1. o.kind = "grant" /\ o.to \in Ends \union {Forever}
      BY <1>2, <1>4 DEF Shape
    <2>2. Granting(o, db, p, clock) /\ p = <<o.d, o.u>>
      BY <1>4, <2>1 DEF IInv, AloneDone, Progress, Covers
    <2> DEFINE m == db'
    <2>3. m = db \/ m = Apply(db, o.pipe[o.pos])
      BY <1>3
    <2> HIDE DEF m, o
    <2>4. Granting(o, m, p, clock)
      BY <1>2, <1>4, <2>1, <2>2, <2>3, TidyKeeps
    <2>5. Agree(m, p, clock) /\ Follows(m, p, o.to, clock)
      BY <1>2, <1>4, <2>1, <2>4, TidyAgrees
    <2> QED BY <2>5 DEF m
  <1>5. o.tidy \in BOOLEAN /\ o.seen \subseteq Docs
    BY <1>2 DEF IsCaller
  <1> QED BY <1>1, <1>3, <1>4, <1>5, EndInv

(* Every step keeps the invariant. *)
LEMMA StepInv ==
  ASSUME IInv, [Next]_vars
  PROVE  IInv'
  <1>1. CASE Tick
    BY <1>1, TickInv
  <1>2. ASSUME NEW d \in Docs, NEW v \in {"public", "restricted"}, SetVisibility(d, v)
        PROVE  IInv'
    BY <1>2, Unmoved DEF SetVisibility
  <1>3. ASSUME NEW c \in Clients, NEW d \in Docs, NEW u \in Users,
               NEW from, NEW to \in Ends \union {Forever}, Grant(c, d, u, from, to)
        PROVE  IInv'
    BY <1>3, GrantInv
  <1>4. ASSUME NEW c \in Clients, NEW d \in Docs, NEW u \in Users, Revoke(c, d, u)
        PROVE  IInv'
    BY <1>4, RevokeInv
  <1>5. ASSUME NEW c \in Clients, NEW d \in Docs, NEW u \in Users, CheckBatch(c, d, u)
        PROVE  IInv'
    BY <1>5, CheckInv
  <1>6. ASSUME NEW c \in Clients, NEW u \in Users, RevokeAllUser(c, u)
        PROVE  IInv'
    BY <1>6, RevokeAllInv
  <1>7. ASSUME NEW c \in Clients, NEW u \in Users, ListGrants(c, u)
        PROVE  IInv'
    BY <1>7, ListInv
  <1>8. ASSUME NEW c \in Clients, Exec(c)
        PROVE  IInv'
    BY <1>8, ExecInv
  <1>9. ASSUME NEW c \in Clients, Retry(c)
        PROVE  IInv'
    BY <1>9, RetryInv
  <1>10. ASSUME NEW c \in Clients, GiveUp(c)
         PROVE  IInv'
    BY <1>10, GiveUpInv
  <1>11. CASE Finished
    BY <1>11, Unmoved DEF Finished
  <1>12. CASE UNCHANGED vars
    BY <1>12, Unmoved DEF vars
  <1> QED BY <1>1, <1>2, <1>3, <1>4, <1>5, <1>6, <1>7, <1>8, <1>9, <1>10, <1>11, <1>12 DEF Next, Step

(* The invariant of redis_store.go's operations holds in every run: each   *)
(* pair of a document and a user is at every moment what the commands its  *)
(* last operation has got through say, unless operations overlapped on it. *)
THEOREM Invariant == Spec => []IInv
  <1>1. Init => IInv
    BY InitInv
  <1>2. IInv /\ [Next]_vars => IInv'
    BY StepInv
  <1> QED BY <1>1, <1>2, PTL DEF Spec

(* What IndexesAgree and Held say, from the two sides' agreement. *)
LEMMA InForceFacts ==
  ASSUME DbOK, NEW p \in Pairs
  PROVE  /\ Agree(db, p, clock) => /\ InForce("docPerm", p) = InForce("userPerm", p)
                                   /\ InForce("docExp", p) = InForce("userExp", p)
         /\ \A e \in {Absent, Forever} \union Nat : Follows(db, p, e, clock) =>
              /\ Held(db, p, clock) => e # Absent /\ (e = Forever \/ clock < e)
              /\ e # Absent /\ (e = Forever \/ clock + Second <= e) => Held(db, p, clock)
  <1>0. /\ clock \in Nat /\ Unix(clock) \in Nat /\ Unix(MaxClock + 1) \in Nat
        /\ Absent # Forever /\ Absent \notin Int /\ Forever \notin Int
    BY RedisAssumption, UnixFacts DEF DbOK
  <1>1. /\ CellOK("docPerm", db["docPerm"][p]) /\ CellOK("userPerm", db["userPerm"][p])
        /\ CellOK("docExp", db["docExp"][p]) /\ CellOK("userExp", db["userExp"][p])
    BY DEF DbOK, Indexes
  <1>2. /\ db["docPerm"][p] \in {Absent, Forever} /\ db["userPerm"][p] \in {Absent, Forever}
        /\ db["docExp"][p] \in {Absent} \union Nat /\ db["userExp"][p] \in {Absent} \union Nat
    <2>1. \A x : CellOK("docPerm", x) \/ CellOK("userPerm", x) => x \in {Absent, Forever}
      BY DEF CellOK, Perms
    <2>2. \A x : CellOK("docExp", x) \/ CellOK("userExp", x) => x \in {Absent} \union 0..Unix(MaxClock + 1)
      BY DEF CellOK, Perms
    <2> HIDE DEF CellOK
    <2>3. \A x : x \in {Absent} \union 0..Unix(MaxClock + 1) => x \in {Absent} \union Nat
      BY <1>0
    <2> QED BY <1>1, <2>1, <2>2, <2>3
  <1> DEFINE x == db["userExp"][p]
             y == db["docExp"][p]
  <1>3. Held(db, p, clock) <=> db["userPerm"][p] # Absent \/ (x # Absent /\ Unix(clock) < x)
    BY DEF Held
  <1>4. /\ InForce("docPerm", p) = db["docPerm"][p] /\ InForce("userPerm", p) = db["userPerm"][p]
        /\ InForce("docExp", p) = IF y # Absent /\ y <= Unix(clock) THEN Absent ELSE y
        /\ InForce("userExp", p) = IF x # Absent /\ x <= Unix(clock) THEN Absent ELSE x
    BY <1>0, <1>2 DEF InForce
  <1>5. ASSUME Agree(db, p, clock)
        PROVE  /\ InForce("docPerm", p) = InForce("userPerm", p)
               /\ InForce("docExp", p) = InForce("userExp", p)
    BY <1>0, <1>2, <1>4, <1>5 DEF Agree, Gone, Past
  <1>6. ASSUME NEW e \in {Absent, Forever} \union Nat, Follows(db, p, e, clock)
        PROVE  /\ Held(db, p, clock) => e # Absent /\ (e = Forever \/ clock < e)
               /\ e # Absent /\ (e = Forever \/ clock + Second <= e) => Held(db, p, clock)
    <2>1. CASE e = Forever
      <3>1. db["userPerm"][p] = Forever
        BY <1>6, <2>1 DEF Follows
      <3> QED BY <1>0, <1>3, <2>1, <3>1
    <2>2. CASE e = Absent
      <3>1. db["userPerm"][p] = Absent /\ (x = Absent \/ (x \in Int /\ x <= Unix(clock)))
        BY <1>0, <1>6, <2>2 DEF Follows, Gone, Past
      <3>2. ~Held(db, p, clock)
        <4> HIDE DEF Unix, x
        <4> QED BY <1>0, <1>3, <3>1
      <3> QED BY <2>2, <3>2
    <2>3. CASE e \in Nat
      <3>1. /\ db["userPerm"][p] = Absent
            /\ x = Unix(e) \/ (x = Absent /\ Unix(e) <= Unix(clock))
        BY <1>0, <1>6, <2>3 DEF Follows, Scored, Past
      <3>2. /\ Unix(e) \in Nat /\ e <= clock => Unix(e) <= Unix(clock)
        BY <1>0, <2>3, UnixFacts
      <3>3. clock + Second <= e => Unix(clock) < Unix(e)
        BY <1>0, <2>3, UnixFacts
      <3>4. Held(db, p, clock) => clock < e
        <4>1. Held(db, p, clock) => Unix(clock) < Unix(e)
          <5> HIDE DEF Unix, x
          <5> QED BY <1>0, <1>3, <3>1
        <4>2. Unix(e) \in Nat
          BY <2>3, UnixFacts
        <4>3. e <= clock => Unix(e) <= Unix(clock)
          BY <1>0, <2>3, UnixFacts
        <4> HIDE DEF Unix
        <4> QED BY <1>0, <2>3, <4>1, <4>2, <4>3
      <3>5. clock + Second <= e => Held(db, p, clock)
        <4>1. Unix(e) \in Nat
          BY <2>3, UnixFacts
        <4> HIDE DEF Unix, x
        <4> QED BY <1>0, <1>3, <3>1, <3>3, <4>1
      <3> QED BY <1>0, <2>3, <3>4, <3>5
    <2> QED BY <1>6, <2>1, <2>2, <2>3
  <1> QED BY <1>5, <1>6

(* A pair that no operation works on and whose last one went through alone *)
(* has the same grants in force on both sides.                             *)
THEOREM IndexesAgreeHolds == Spec => []IndexesAgree
  <1>1. IInv => IndexesAgree
    <2> SUFFICES ASSUME IInv, NEW p \in Pairs, Settled(p)
                 PROVE  /\ InForce("docPerm", p) = InForce("userPerm", p)
                        /\ InForce("docExp", p) = InForce("userExp", p)
      BY DEF IndexesAgree
    <2>1. Agree(db, p, clock)
      BY DEF IInv, SettledOK
    <2> HIDE DEF Agree
    <2> QED BY <2>1, InForceFacts DEF IInv
  <1> QED BY <1>1, Invariant, PTL

(* For such a pair the answer is that of its last operation, to the second. *)
THEOREM AccessFollowsHistoryHolds == Spec => []AccessFollowsHistory
  <1>1. IInv => AccessFollowsHistory
    <2> SUFFICES ASSUME IInv, NEW p \in Pairs, Settled(p)
                 PROVE  LET end == ideal[p] IN
                        /\ Held(db, p, clock) => end # Absent /\ (end = Forever \/ clock < end)
                        /\ end # Absent /\ (end = Forever \/ clock + Second <= end) => Held(db, p, clock)
      BY DEF AccessFollowsHistory
    <2>1. Follows(db, p, ideal[p], clock) /\ ideal[p] \in {Absent, Forever} \union Nat
      BY RedisAssumption DEF IInv, SettledOK
    <2> HIDE DEF Follows
    <2> QED BY <2>1, InForceFacts DEF IInv
  <1> QED BY <1>1, Invariant, PTL

----
(* Revocations.  A pair that is revoked has nothing on the user's side and *)
(* no grant at work on it; of a revocation at work without a grant of the  *)
(* pair since it began, it is known how far it has come.                   *)
NotGranted(p) == \A b \in Clients : client[b].kind = "grant" => p \notin Covers(client[b])

PermGone(o, m, p) == o.kind = "revoke" => o.noscript \/ (o.pos > 3 => m["userPerm"][p] = Absent)

RevokedOK ==
    /\ revoked \subseteq Pairs
    /\ \A p \in revoked :
         db["userPerm"][p] = Absent /\ db["userExp"][p] = Absent /\ NotGranted(p)

UngrantedOK ==
    /\ ungranted \in [Clients -> SUBSET Pairs]
    /\ \A c \in Clients : \A p \in ungranted[c] :
         /\ Revokes(client[c]) /\ p \in Covers(client[c])
         /\ NotGranted(p) /\ PermGone(client[c], db, p)

RInv == RevokedOK /\ UngrantedOK

(* Without a grant at work on a pair nothing comes back on the user's side, *)
(* whether or not the reply of the command arrives.                         *)
LEMMA StaysGone ==
  ASSUME IInv, NEW c \in Clients, client[c].kind # "idle",
         NEW m, m = db \/ m = Apply(db, client[c].pipe[client[c].pos]),
         NEW p \in Pairs, NotGranted(p)
  PROVE  /\ db["userPerm"][p] = Absent => m["userPerm"][p] = Absent
         /\ db["userExp"][p] = Absent => m["userExp"][p] = Absent
  <1> DEFINE o == client[c]
  <1>1. IsCaller(o) /\ Shape(o, clock) /\ DbOK
    BY DEF IInv, CallersOK
  <1>2. o.kind = "grant" => p \notin Covers(o)
    BY DEF NotGranted
  <1>3. CASE m = db
    BY <1>3
  <1>4. CASE m = Apply(db, o.pipe[o.pos]) /\ o.kind = "grant"
    <2>1. Gentle(db, m, p, clock)
      BY <1>2, <1>4, OthersKept
    <2>2. m["userPerm"][p] = db["userPerm"][p]
      BY <2>1, IndexFacts DEF Gentle
    <2>3. db["userExp"][p] = Absent => m["userExp"][p] = Absent
      BY <2>1, IndexFacts DEF Gentle
    <2> QED BY <2>2, <2>3
  <1>5. CASE m = Apply(db, o.pipe[o.pos]) /\ o.kind # "grant"
    <2>1. \A i \in Indexes : m[i][p] = db[i][p] \/ m[i][p] = Absent
      <3> HIDE DEF o
      <3>1. o.kind \notin {"idle", "grant"}
        BY <1>5 DEF o
      <3> QED BY <1>1, <1>5, <3>1, OnlyRemoves
    <2> QED BY <2>1 DEF Indexes
  <1> QED BY <1>3, <1>4, <1>5

(* The script of a revocation that removes the user's permanent entry. *)
LEMMA PermGoneStep ==
  ASSUME DbOK, NEW o, IsCaller(o), Shape(o, clock), o.kind = "revoke", NEW n, Moves(o, n),
         NEW m, m = Apply(db, o.pipe[o.pos]), NEW p, p = <<o.d, o.u>>, PermGone(o, db, p)
  PROVE  PermGone(n, m, p)
  <1>0. p \in Pairs /\ db \in Maps
    BY RevokeCommands DEF DbOK, Maps
  <1>1. o.pos \in 1..4 /\ Len(o.pipe) = 4 /\ o.pipe[3] = Script("userPerm", p)
    BY RevokeCommands
  <1>2. n.pos = o.pos + 1 /\ o.pos < Len(o.pipe)
    <2>1. o.pipe[o.pos].do \notin {"members", "range"}
      BY StageFacts
    <2>2. NextCommand(o, n) \/ ThenTidies(o, n) \/ ThenReadsOn(o, n) \/ ThenDeletes(o, n)
      BY MovesFields
    <2> QED BY <2>1, <2>2 DEF NextCommand, ThenTidies, ThenReadsOn, ThenDeletes
  <1>3. n.pos > 3 => o.pos = 3
    BY <1>1, <1>2
  <1>4. CASE o.pos = 3
    <2>1. o.pipe[o.pos] = Script("userPerm", p) /\ o.pipe[o.pos].do = "script"
      BY <1>1, <1>4, CommandNames
    <2>2. n.noscript <=> o.noscript \/ ~scripts
      BY <2>1, MovesFields
    <2>3. scripts => m["userPerm"][p] = Absent
      <3>1. "userPerm" \in Indexes
        BY DEF Indexes
      <3> QED BY <1>0, <2>1, <3>1, ScriptEffect
    <2> QED BY <2>2, <2>3 DEF PermGone
  <1>5. CASE o.pos # 3
    BY <1>3, <1>5 DEF PermGone
  <1> QED BY <1>4, <1>5

(* A revocation that comes to its end without an error. *)
LEMMA LastRevokes ==
  ASSUME DbOK, NEW o, IsCaller(o), Shape(o, clock), Revokes(o), LastDone(o),
         ~Reply(o, o.pipe[o.pos]).noscript,
         NEW m, m = Apply(db, o.pipe[o.pos]), NEW p \in Covers(o), PermGone(o, db, p)
  PROVE  m["userPerm"][p] = Absent /\ m["userExp"][p] = Absent
  <1> DEFINE cmd == o.pipe[o.pos]
  <1>1. Reply(o, cmd).noscript <=> o.noscript \/ (cmd.do = "script" /\ ~scripts)
    BY ReplyFacts
  <1>2. CASE o.kind = "revoke"
    <2>1. p = <<o.d, o.u>>
      BY <1>2 DEF Covers
    <2>2. o.pos = 4 /\ cmd = Script("userExp", p) /\ p \in Pairs /\ db \in Maps
      BY <1>2, <2>1, RevokeCommands DEF LastDone, DbOK, Maps
    <2>3. cmd.do = "script"
      BY <2>2, CommandNames
    <2>4. ~o.noscript /\ scripts
      BY <1>1, <2>3
    <2>5. db["userPerm"][p] = Absent
      BY <1>2, <2>2, <2>4 DEF PermGone
    <2>6. m["userExp"][p] = Absent /\ m["userPerm"][p] = db["userPerm"][p]
      <3>1. "userExp" \in Indexes /\ "userPerm" \in Indexes
        BY DEF Indexes
      <3> QED BY <2>2, <2>4, <3>1, ScriptEffect
    <2> QED BY <2>5, <2>6
  <1>3. CASE o.kind = "revokeAll"
    <2>1. /\ db \in Maps /\ p \in Pairs /\ p[2] = o.u
      BY <1>3 DEF DbOK, Maps, Covers
    <2>2. o.pipe # Members(o.u) /\ o.pipe # Ranged(o.u)
      BY <1>3, StageFacts DEF LastDone
    <2>3. PICK order \in Orders(o.seen) : o.pipe = RevokeAllPipe(order, o.u)
      BY <1>3, <2>2 DEF Shape
    <2>4. Len(order) \in Nat /\ Len(o.pipe) = 2 * Len(order) + 1
      <3>1. o.seen \in SUBSET Docs
        BY DEF IsCaller
      <3> QED BY <2>3, <3>1, RevokeAllCommands
    <2>5. cmd = DelUser(o.u)
      BY <1>3, <2>3, <2>4, StageFacts DEF LastDone
    <2>6. \A j \in Indexes, q \in Pairs :
            m[j][q] = IF j \in {"userPerm", "userExp"} /\ q[2] = o.u THEN Absent ELSE db[j][q]
      BY <2>1, <2>5, DelUserEffect
    <2> QED BY <2>1, <2>6 DEF Indexes
  <1> QED BY <1>2, <1>3 DEF Revokes

(* A step that does not touch callers, indexes or revocations. *)
LEMMA UnmovedR ==
  ASSUME RInv, UNCHANGED <<db, client, ungranted, revoked>>
  PROVE  RInv'
  BY DEF RInv, RevokedOK, UngrantedOK, NotGranted, PermGone

(* Marking an overlap leaves what an operation is and how far it has come. *)
LEMMA OverlapKeeps ==
  ASSUME NEW o, DOMAIN o = Fields, NEW v
  PROVE  LET n == [o EXCEPT !.overlap = v] IN
         /\ n.kind = o.kind /\ n.d = o.d /\ n.u = o.u /\ n.pos = o.pos /\ n.noscript = o.noscript
         /\ Covers(n) = Covers(o)
  <1> DEFINE n == [o EXCEPT !.overlap = v]
  <1>1. n.kind = o.kind /\ n.d = o.d /\ n.u = o.u /\ n.pos = o.pos /\ n.noscript = o.noscript
    BY DEF Fields
  <1> HIDE DEF n
  <1>2. Covers(n) = Covers(o)
    BY <1>1, SameCovers
  <1> QED BY <1>1, <1>2 DEF n

(* A revocation that begins counts on the pairs no grant is at work on; a  *)
(* grant that begins takes its pair from all of them.                      *)
LEMMA BeginR ==
  ASSUME IInv, IInv', RInv, NEW c \in Clients, NEW o, NEW kind, NEW d, NEW u,
         Starts(o, kind, d, u), Begin(c, o)
  PROVE  RInv'
  <1> DEFINE met == {b \in Clients : Covers(client[b]) \intersect Covers(o) # {}}
             old(b) == IF b = c THEN o ELSE client[b]
  <1>1. /\ client[c].kind = "idle" /\ db' = db
        /\ client' = [b \in Clients |-> IF b = c THEN [o EXCEPT !.overlap = met # {}]
                                        ELSE [client[b] EXCEPT !.overlap = @ \/ b \in met]]
        /\ revoked' = IF o.kind = "grant" THEN revoked \ Covers(o) ELSE revoked
        /\ ungranted' = [b \in Clients |->
                           IF b = c THEN IF Revokes(o) THEN Covers(o) \ BeingGranted ELSE {}
                           ELSE IF o.kind = "grant" THEN ungranted[b] \ Covers(o) ELSE ungranted[b]]
    BY DEF Begin, Running
  <1> HIDE DEF met
  <1>2. DOMAIN o = Fields /\ o.pos = 1
    BY DEF Starts
  <1>3. ASSUME NEW b \in Clients
        PROVE  /\ client'[b].kind = old(b).kind /\ client'[b].pos = old(b).pos
               /\ client'[b].noscript = old(b).noscript /\ Covers(client'[b]) = Covers(old(b))
    <2>1. DOMAIN old(b) = Fields
      BY <1>2 DEF IInv, CallersOK, IsCaller
    <2>2. \E v : client'[b] = [old(b) EXCEPT !.overlap = v]
      BY <1>1
    <2> HIDE DEF old
    <2> QED BY <2>1, <2>2, OverlapKeeps
  <1>4. Covers(o) \subseteq Pairs
    <2>1. Covers(client'[c]) \subseteq Pairs
      BY CoversPairs DEF IInv, CallersOK
    <2> QED BY <1>3, <2>1
  <1>5. ASSUME NEW p, NotGranted(p), o.kind = "grant" => p \notin Covers(o)
        PROVE  NotGranted(p)'
    BY <1>3, <1>5 DEF NotGranted
  <1>6. RevokedOK'
    <2>1. revoked' \subseteq revoked
      BY <1>1
    <2>2. ASSUME NEW p \in revoked' PROVE NotGranted(p)'
      BY <1>1, <1>5, <2>1, <2>2 DEF RInv, RevokedOK
    <2> QED BY <1>1, <2>1, <2>2 DEF RInv, RevokedOK
  <1>7. UngrantedOK'
    <2>1. ungranted \in [Clients -> SUBSET Pairs]
      BY DEF RInv, UngrantedOK
    <2>2. ungranted' \in [Clients -> SUBSET Pairs]
      BY <1>1, <1>4, <2>1
    <2>3. ASSUME NEW b \in Clients, NEW p \in ungranted'[b], b # c
          PROVE  /\ Revokes(client'[b]) /\ p \in Covers(client'[b])
                 /\ NotGranted(p)' /\ PermGone(client'[b], db', p)
      <3>1. p \in ungranted[b] /\ (o.kind = "grant" => p \notin Covers(o))
        BY <1>1, <2>3
      <3>2. /\ Revokes(client[b]) /\ p \in Covers(client[b])
            /\ NotGranted(p) /\ PermGone(client[b], db, p)
        BY <3>1 DEF RInv, UngrantedOK
      <3>3. NotGranted(p)'
        BY <1>5, <3>1, <3>2
      <3> QED BY <1>1, <1>3, <2>3, <3>2, <3>3 DEF Revokes, PermGone
    <2>4. ASSUME NEW p \in ungranted'[c]
          PROVE  /\ Revokes(client'[c]) /\ p \in Covers(client'[c])
                 /\ NotGranted(p)' /\ PermGone(client'[c], db', p)
      <3>1. Revokes(o) /\ p \in Covers(o) /\ p \notin BeingGranted
        BY <1>1, <2>4
      <3>2. NotGranted(p)
        BY <3>1 DEF NotGranted, BeingGranted
      <3>3. NotGranted(p)'
        BY <1>5, <3>1, <3>2 DEF Revokes
      <3>4. Revokes(client'[c]) /\ p \in Covers(client'[c])
        BY <1>3, <3>1 DEF Revokes
      <3>5. ~(client'[c].pos > 3)
        BY <1>2, <1>3
      <3> QED BY <3>3, <3>4, <3>5 DEF PermGone
    <2> QED BY <2>2, <2>3, <2>4 DEF UngrantedOK
  <1> QED BY <1>6, <1>7 DEF RInv

(* An operation goes on, its command carried out or its reply lost. *)
LEMMA MoveR ==
  ASSUME IInv, RInv, NEW c \in Clients, client[c].kind # "idle",
         db' = db \/ db' = Apply(db, client[c].pipe[client[c].pos]),
         NEW n, client' = [client EXCEPT ![c] = n], n.kind = client[c].kind,
         Covers(n) = Covers(client[c]), UNCHANGED <<ungranted, revoked>>,
         \A p \in ungranted[c] : PermGone(n, db', p)
  PROVE  RInv'
  <1>1. /\ client'[c] = n /\ \A b \in Clients : b # c => client'[b] = client[b]
    BY DEF IInv, CallersOK
  <1>2. ASSUME NEW p, NotGranted(p)
        PROVE  NotGranted(p)'
    BY <1>1, <1>2 DEF NotGranted
  <1>3. ASSUME NEW p \in Pairs, NotGranted(p)
        PROVE  /\ db["userPerm"][p] = Absent => db'["userPerm"][p] = Absent
               /\ db["userExp"][p] = Absent => db'["userExp"][p] = Absent
    BY <1>3, StaysGone
  <1>4. RevokedOK'
    <2>1. ASSUME NEW p \in revoked
          PROVE  db'["userPerm"][p] = Absent /\ db'["userExp"][p] = Absent /\ NotGranted(p)'
      <3>1. p \in Pairs /\ db["userPerm"][p] = Absent /\ db["userExp"][p] = Absent /\ NotGranted(p)
        BY DEF RInv, RevokedOK
      <3> QED BY <1>2, <1>3, <3>1
    <2> QED BY <2>1 DEF RInv, RevokedOK
  <1>5. UngrantedOK'
    <2>1. ungranted' = ungranted /\ ungranted \in [Clients -> SUBSET Pairs]
      BY DEF RInv, UngrantedOK
    <2>2. ASSUME NEW b \in Clients, NEW p \in ungranted[b]
          PROVE  /\ Revokes(client'[b]) /\ p \in Covers(client'[b])
                 /\ NotGranted(p)' /\ PermGone(client'[b], db', p)
      <3>1. /\ Revokes(client[b]) /\ p \in Covers(client[b])
            /\ NotGranted(p) /\ PermGone(client[b], db, p) /\ p \in Pairs
        BY <2>1 DEF RInv, UngrantedOK
      <3>2. NotGranted(p)'
        BY <1>2, <3>1
      <3>3. CASE b = c
        BY <1>1, <2>2, <3>1, <3>2, <3>3 DEF Revokes
      <3>4. CASE b # c
        <4>1. PermGone(client[b], db', p)
          BY <1>3, <3>1 DEF PermGone
        <4> QED BY <1>1, <3>1, <3>2, <3>4, <4>1
      <3> QED BY <3>3, <3>4
    <2> QED BY <2>1, <2>2 DEF UngrantedOK
  <1> QED BY <1>4, <1>5 DEF RInv

(* An operation ends; if it is a revocation that succeeds, the pairs it    *)
(* counted on have nothing left on the user's side.                        *)
LEMMA EndR ==
  ASSUME IInv, RInv, NEW c \in Clients, client[c].kind # "idle",
         db' = db \/ db' = Apply(db, client[c].pipe[client[c].pos]),
         NEW o, NEW ok, End(c, o, ok),
         ok => \A p \in ungranted[c] : db'["userPerm"][p] = Absent /\ db'["userExp"][p] = Absent
  PROVE  RInv'
  <1>1. \E n : client' = [client EXCEPT ![c] = n] /\ n.kind = "idle"
    <2> DEFINE n == [Idle EXCEPT !.answer = IF o.kind = "check" THEN Answer(o) ELSE "none",
                                 !.seen = IF o.kind = "list" THEN o.seen ELSE {},
                                 !.failed = ~ok]
    <2>1. client' = [client EXCEPT ![c] = n]
      BY DEF End
    <2>2. n.kind = "idle"
      BY DEF Idle
    <2> HIDE DEF n
    <2> QED BY <2>1, <2>2
  <1>2. /\ client'[c].kind = "idle"
        /\ \A b \in Clients : b # c => client'[b] = client[b]
    BY <1>1 DEF IInv, CallersOK
  <1>3. /\ revoked' = IF ok THEN revoked \union ungranted[c] ELSE revoked
        /\ ungranted' = [ungranted EXCEPT ![c] = {}]
    BY DEF End
  <1>4. ASSUME NEW p, NotGranted(p)
        PROVE  NotGranted(p)'
    BY <1>2, <1>4 DEF NotGranted
  <1>5. ASSUME NEW p \in Pairs, NotGranted(p)
        PROVE  /\ db["userPerm"][p] = Absent => db'["userPerm"][p] = Absent
               /\ db["userExp"][p] = Absent => db'["userExp"][p] = Absent
    BY <1>5, StaysGone
  <1>6. /\ ungranted \in [Clients -> SUBSET Pairs]
        /\ \A b \in Clients : \A p \in ungranted[b] :
              /\ Revokes(client[b]) /\ p \in Covers(client[b])
              /\ NotGranted(p) /\ PermGone(client[b], db, p) /\ p \in Pairs
    BY DEF RInv, UngrantedOK
  <1>7. RevokedOK'
    <2>1. revoked' \subseteq Pairs
      BY <1>3, <1>6 DEF RInv, RevokedOK
    <2>2. ASSUME NEW p \in revoked
          PROVE  db'["userPerm"][p] = Absent /\ db'["userExp"][p] = Absent /\ NotGranted(p)'
      <3>1. p \in Pairs /\ db["userPerm"][p] = Absent /\ db["userExp"][p] = Absent /\ NotGranted(p)
        BY DEF RInv, RevokedOK
      <3> QED BY <1>4, <1>5, <3>1
    <2>3. ASSUME NEW p \in ungranted[c], ok
          PROVE  db'["userPerm"][p] = Absent /\ db'["userExp"][p] = Absent /\ NotGranted(p)'
      BY <1>4, <1>6, <2>3
    <2> QED BY <1>3, <2>1, <2>2, <2>3 DEF RevokedOK
  <1>8. UngrantedOK'
    <2>1. ungranted' \in [Clients -> SUBSET Pairs] /\ ungranted'[c] = {}
      BY <1>3, <1>6
    <2>2. ASSUME NEW b \in Clients, NEW p \in ungranted'[b]
          PROVE  /\ Revokes(client'[b]) /\ p \in Covers(client'[b])
                 /\ NotGranted(p)' /\ PermGone(client'[b], db', p)
      <3>1. b # c
        BY <2>1, <2>2
      <3>2. p \in ungranted[b]
        BY <1>3, <1>6, <2>2, <3>1
      <3>3. /\ Revokes(client[b]) /\ p \in Covers(client[b])
            /\ NotGranted(p) /\ PermGone(client[b], db, p) /\ p \in Pairs
        BY <1>6, <3>2
      <3>4. PermGone(client[b], db', p)
        BY <1>5, <3>3 DEF PermGone
      <3>5. NotGranted(p)'
        BY <1>4, <3>3
      <3> QED BY <1>2, <3>1, <3>3, <3>4, <3>5
    <2> QED BY <2>1, <2>2 DEF UngrantedOK
  <1> QED BY <1>7, <1>8 DEF RInv

(* A command of c. *)
LEMMA ExecR ==
  ASSUME IInv, RInv, NEW c \in Clients, Exec(c)
  PROVE  RInv'
  <1> DEFINE o == client[c]
             r == Reply(o, o.pipe[o.pos])
             ok == o.tidy \/ ~r.noscript
  <1>1. /\ o.kind # "idle" /\ IsCaller(o) /\ Shape(o, clock)
        /\ db' = Apply(db, o.pipe[o.pos])
        /\ \/ \E n : /\ Moves(o, n) /\ client' = [client EXCEPT ![c] = n]
                     /\ UNCHANGED <<ideal, dirty, ungranted, revoked>>
           \/ LastDone(o) /\ End(c, r, ok)
    BY ExecSplit DEF IInv
  <1>2. \A p \in ungranted[c] : Revokes(o) /\ p \in Covers(o) /\ PermGone(o, db, p)
    BY DEF RInv, UngrantedOK
  <1>3. ASSUME NEW n, Moves(o, n), client' = [client EXCEPT ![c] = n], UNCHANGED <<ungranted, revoked>>
        PROVE  RInv'
    <2>1. n.kind = o.kind /\ Covers(n) = Covers(o)
      <3> HIDE DEF o
      <3> QED BY <1>1, <1>3, MovesCaller
    <2>2. ASSUME NEW p \in ungranted[c] PROVE PermGone(n, db', p)
      <3>1. CASE o.kind = "revoke"
        <4> DEFINE m == db'
        <4>1. p = <<o.d, o.u>> /\ PermGone(o, db, p) /\ m = Apply(db, o.pipe[o.pos])
          BY <1>1, <1>2, <2>2, <3>1 DEF Covers
        <4>2. DbOK
          BY DEF IInv
        <4> HIDE DEF o, m
        <4>3. PermGone(n, m, p)
          BY <1>1, <1>3, <3>1, <4>1, <4>2, PermGoneStep
        <4> QED BY <4>3 DEF m
      <3>2. CASE o.kind # "revoke"
        BY <2>1, <3>2 DEF PermGone
      <3> QED BY <3>1, <3>2
    <2> QED BY <1>1, <1>3, <2>1, <2>2, MoveR
  <1>4. CASE LastDone(o) /\ End(c, r, ok)
    <2>1. ASSUME ok, NEW p \in ungranted[c]
          PROVE  db'["userPerm"][p] = Absent /\ db'["userExp"][p] = Absent
      <3> DEFINE m == db'
      <3>1. ~o.tidy /\ Revokes(o) /\ p \in Covers(o) /\ PermGone(o, db, p)
        BY <1>1, <1>2, <2>1 DEF Shape, Revokes
      <3>2. DbOK /\ m = Apply(db, o.pipe[o.pos]) /\ ~Reply(o, o.pipe[o.pos]).noscript
        BY <1>1, <2>1, <3>1 DEF IInv
      <3> HIDE DEF o, m, r, ok
      <3>3. m["userPerm"][p] = Absent /\ m["userExp"][p] = Absent
        BY <1>1, <1>4, <3>1, <3>2, LastRevokes
      <3> QED BY <3>3 DEF m
    <2> HIDE DEF r, ok
    <2> QED BY <1>1, <1>4, <2>1, EndR
  <1> QED BY <1>1, <1>3, <1>4

(* Its connection is lost. *)
LEMMA LostR ==
  ASSUME IInv, RInv, NEW c \in Clients, Retry(c) \/ GiveUp(c)
  PROVE  RInv'
  <1> DEFINE o == client[c]
             n == Again(o)
  <1>1. o.kind # "idle" /\ (db' = db \/ db' = Apply(db, o.pipe[o.pos]))
    BY LostEffect DEF Retry, GiveUp
  <1>2. IsCaller(o) /\ Shape(o, clock)
    BY DEF IInv, CallersOK
  <1>3. CASE Retry(c)
    <2>1. client' = [client EXCEPT ![c] = n] /\ UNCHANGED <<ungranted, revoked>>
      BY <1>3 DEF Retry, Again
    <2>2. n.kind = o.kind /\ Covers(n) = Covers(o) /\ n.pos = 1
      <3> HIDE DEF o
      <3> QED BY <1>1, <1>2, AgainCaller
    <2> HIDE DEF n
    <2>3. \A p : PermGone(n, db', p)
      BY <2>2 DEF PermGone
    <2> QED BY <1>1, <2>1, <2>2, <2>3, MoveR
  <1>4. CASE GiveUp(c)
    <2>1. End(c, o, o.tidy)
      BY <1>4 DEF GiveUp
    <2>2. \A p \in ungranted[c] : Revokes(o)
      BY DEF RInv, UngrantedOK
    <2>3. Revokes(o) => ~o.tidy
      BY <1>2 DEF Shape, Revokes
    <2> QED BY <1>1, <2>1, <2>2, <2>3, EndR
  <1> QED BY <1>3, <1>4

(* What is known of revocations holds in every run. *)
LEMMA RevocationsHold == Spec => []RInv
  <1>1. Init => RInv
    <2> SUFFICES ASSUME Init PROVE RInv
      OBVIOUS
    <2>1. revoked = {} /\ ungranted = [c \in Clients |-> {}]
      BY DEF Init
    <2> QED BY <2>1 DEF RInv, RevokedOK, UngrantedOK
  <1>2. IInv /\ IInv' /\ RInv /\ [Next]_vars => RInv'
    <2> SUFFICES ASSUME IInv, IInv', RInv, [Next]_vars PROVE RInv'
      OBVIOUS
    <2>1. CASE Tick \/ Finished \/ UNCHANGED vars
      BY <2>1, UnmovedR DEF Tick, Finished, vars
    <2>2. ASSUME NEW d \in Docs, NEW v \in {"public", "restricted"}, SetVisibility(d, v)
          PROVE  RInv'
      BY <2>2, UnmovedR DEF SetVisibility
    <2>3. ASSUME NEW c \in Clients,
                 \/ \E d \in Docs, u \in Users :
                      \/ \E from \in Ends \union {0}, to \in Ends \union {Forever} : Grant(c, d, u, from, to)
                      \/ Revoke(c, d, u)
                      \/ CheckBatch(c, d, u)
                 \/ \E u \in Users : RevokeAllUser(c, u) \/ ListGrants(c, u)
          PROVE  RInv'
      <3>1. \E o, kind, d, u : Starts(o, kind, d, u) /\ Begin(c, o)
        BY <2>3, GrantInv, RevokeInv, CheckInv, RevokeAllInv, ListInv
      <3> QED BY <3>1, BeginR
    <2>4. ASSUME NEW c \in Clients, Exec(c)
          PROVE  RInv'
      BY <2>4, ExecR
    <2>5. ASSUME NEW c \in Clients, Retry(c) \/ GiveUp(c)
          PROVE  RInv'
      BY <2>5, LostR
    <2>6. CASE Step
      BY <2>1, <2>2, <2>3, <2>4, <2>5, <2>6 DEF Step
    <2> QED BY <2>1, <2>6 DEF Next
  <1> QED BY <1>1, <1>2, Invariant, PTL DEF Spec

(* A revocation that reported success lasts until a new grant of the pair  *)
(* is asked for, unless a grant of it was in progress when it began or was *)
(* begun before it ended.                                                  *)
THEOREM RevokedStaysRevokedHolds == Spec => []RevokedStaysRevoked
  <1>1. RInv => RevokedStaysRevoked
    BY DEF RInv, RevokedOK, RevokedStaysRevoked, Held
  <1> QED BY <1>1, RevocationsHold, PTL

(* The counters, the reads that were seen to be so, and the shape of every *)
(* caller's state.                                                         *)
Counted ==
    /\ ops \in 0..MaxOps /\ losses \in 0..MaxLosses /\ scripts \in BOOLEAN
    /\ restricted \subseteq Docs /\ witness \in [Clients -> SUBSET Docs]

(* Operations and lost pipelines are counted up to their bounds. *)
LEMMA CountedHolds == Spec => []Counted
  <1>1. Init => Counted
    BY RedisAssumption DEF Init, Counted
  <1>2. Counted /\ [Next]_vars => Counted'
    <2> SUFFICES ASSUME Counted, [Next]_vars PROVE Counted'
      OBVIOUS
    <2>0. /\ OpsBound \in 0..MaxOps /\ MaxOps \in Nat /\ MaxLosses \in Nat
      BY RedisAssumption DEF OpsBound
    <2>1. CASE UNCHANGED vars
      BY <2>1 DEF Counted, vars
    <2>2. CASE Next
      <3>1. witness' \in [Clients -> SUBSET Docs]
        <4>1. \A c \in Clients : witness[c] \subseteq Docs
          BY DEF Counted
        <4> QED BY <2>2, <4>1 DEF Next, Watch
      <3>2. ASSUME NEW c \in Clients, NEW o, Begin(c, o)
            PROVE  ops' \in 0..MaxOps /\ UNCHANGED <<scripts, restricted, losses>>
        <4>1. ops < OpsBound /\ ops' = ops + 1 /\ UNCHANGED <<scripts, restricted, losses>>
          BY <3>2 DEF Begin
        <4>2. ops \in 0..MaxOps
          BY DEF Counted
        <4> HIDE DEF OpsBound
        <4> QED BY <2>0, <4>1, <4>2
      <3>3. /\ ops' \in 0..MaxOps /\ losses' \in 0..MaxLosses /\ scripts' = scripts
            /\ restricted' \subseteq Docs
        <4>1. ops \in 0..MaxOps /\ losses \in 0..MaxLosses /\ restricted \subseteq Docs
          BY DEF Counted
        <4>2. CASE Tick \/ Finished
          BY <4>1, <4>2 DEF Tick, Finished
        <4>3. ASSUME NEW d \in Docs, NEW v, SetVisibility(d, v)
              PROVE  /\ ops' \in 0..MaxOps /\ losses' = losses /\ scripts' = scripts
                     /\ restricted' \subseteq Docs
          <5>1. ops < OpsBound /\ ops' = ops + 1 /\ losses' = losses /\ scripts' = scripts
            BY <4>3 DEF SetVisibility
          <5>2. restricted' \subseteq Docs
            BY <4>1, <4>3 DEF SetVisibility
          <5> HIDE DEF OpsBound
          <5> QED BY <2>0, <4>1, <5>1, <5>2
        <4>4. ASSUME NEW c \in Clients,
                     \/ \E d \in Docs, u \in Users :
                          \/ \E from \in Ends \union {0}, to \in Ends \union {Forever} : Grant(c, d, u, from, to)
                          \/ Revoke(c, d, u)
                          \/ CheckBatch(c, d, u)
                     \/ \E u \in Users : RevokeAllUser(c, u) \/ ListGrants(c, u)
              PROVE  ops' \in 0..MaxOps /\ UNCHANGED <<scripts, restricted, losses>>
          BY <3>2, <4>4 DEF Grant, Revoke, CheckBatch, RevokeAllUser, ListGrants
        <4>5. ASSUME NEW c \in Clients, Exec(c)
              PROVE  UNCHANGED <<ops, losses, scripts, restricted>>
          BY <4>5 DEF Exec
        <4>6. ASSUME NEW c \in Clients, Retry(c) \/ GiveUp(c)
              PROVE  losses' \in 0..MaxLosses /\ UNCHANGED <<ops, scripts, restricted>>
          <5>1. losses < MaxLosses /\ losses' = losses + 1 /\ UNCHANGED <<ops, scripts, restricted>>
            BY <4>6 DEF Retry, GiveUp, Lost
          <5> QED BY <2>0, <4>1, <5>1
        <4>7. Step
          BY <2>2 DEF Next
        <4> QED BY <4>1, <4>2, <4>3, <4>4, <4>5, <4>6, <4>7 DEF Step
      <3> QED BY <3>1, <3>3 DEF Counted
    <2> QED BY <2>1, <2>2
  <1> QED BY <1>1, <1>2, PTL DEF Spec

(* A pipeline is a sequence. *)
LEMMA PipeDomain ==
  ASSUME NEW now, NEW o, IsCaller(o), Shape(o, now), o.kind # "idle"
  PROVE  DOMAIN o.pipe = 1..Len(o.pipe)
  <1>1. CASE o.kind = "grant"
    BY <1>1 DEF Shape, CleanupPipe, GrantPipe
  <1>2. CASE o.kind = "revoke"
    BY <1>2 DEF Shape, RevokePipe
  <1>3. CASE o.kind = "revokeAll"
    <2>1. CASE o.pipe = Members(o.u) \/ o.pipe = Ranged(o.u)
      BY <2>1 DEF Members, Ranged
    <2>2. ASSUME NEW order \in Orders(o.seen), o.pipe = RevokeAllPipe(order, o.u)
          PROVE  DOMAIN o.pipe = 1..Len(o.pipe)
      <3>1. o.seen \in SUBSET Docs
        BY DEF IsCaller
      <3>2. DOMAIN RevokeAllPipe(order, o.u) = 1..Len(RevokeAllPipe(order, o.u))
        BY <3>1, RevokeAllCommands
      <3> QED BY <2>2, <3>2
    <2> QED BY <1>3, <2>1, <2>2 DEF Shape
  <1>4. CASE o.kind = "check"
    BY <1>4 DEF Shape, CheckPipe
  <1>5. CASE o.kind = "list"
    BY <1>5 DEF Shape, Members
  <1> QED BY <1>1, <1>2, <1>3, <1>4, <1>5 DEF IsCaller

(* Types. *)
THEOREM TypeOKHolds == Spec => []TypeOK
  <1>1. IInv /\ RInv /\ Counted => TypeOK
    <2> SUFFICES ASSUME IInv, RInv, Counted PROVE TypeOK
      OBVIOUS
    <2>1. \A p \in Pairs :
            /\ db["docPerm"][p] \in {Absent, Forever} /\ db["userPerm"][p] \in {Absent, Forever}
            /\ db["docExp"][p] \in {Absent} \union 0..Unix(MaxClock + 1)
            /\ db["userExp"][p] \in {Absent} \union 0..Unix(MaxClock + 1)
      BY DEF IInv, DbOK, CellOK, Indexes, Perms
    <2>2. ASSUME NEW c \in Clients, Running(c) PROVE client[c].pos \in DOMAIN client[c].pipe
      <3> DEFINE o == client[c]
      <3>1. IsCaller(o) /\ Shape(o, clock) /\ o.kind # "idle"
        BY <2>2 DEF IInv, CallersOK, Running
      <3>2. o.pos \in 1..Len(o.pipe)
        BY <3>1 DEF Shape
      <3>3. DOMAIN o.pipe = 1..Len(o.pipe)
        <4> HIDE DEF o
        <4> QED BY <3>1, PipeDomain
      <3> QED BY <3>2, <3>3
    <2> QED BY <2>1, <2>2 DEF TypeOK, Counted, IInv, DbOK, SettledOK,
                                RInv, RevokedOK, UngrantedOK
  <1> QED BY <1>1, Invariant, RevocationsHold, CountedHolds, PTL

(* What a running check or listing has found open is among the documents  *)
(* witnessed.                                                              *)
WitnessOK(o, w) ==
    /\ o.kind = "check" =>
         /\ o.vis \in {"error", "public", "restricted"} /\ o.perm \in BOOLEAN /\ o.exp \in BOOLEAN
         /\ o.answer = "none"
         /\ o.vis = "public" \/ o.perm \/ o.exp => o.d \in w
         /\ o.pos > 1 => o.vis # "error"
    /\ o.kind = "list" => o.seen \subseteq w

Witnessed == \A c \in Clients : WitnessOK(client[c], witness[c])

AllowedStep(c) ==
    /\ client[c].kind = "check" /\ client'[c].answer = "allow" /\ ~client'[c].failed
         => client[c].d \in witness'[c]
    /\ client[c].kind = "list" /\ client'[c].kind = "idle"
         => client'[c].seen \subseteq witness'[c]

(* A read of a check: what it finds open is open in the state it reads.    *)
LEMMA CheckReads ==
  ASSUME NEW o, IsCaller(o), Shape(o, clock), o.kind = "check", NEW w, NEW w2, WitnessOK(o, w),
         w \subseteq w2, Open(db, restricted, <<o.d, o.u>>, o.now) => o.d \in w2
  PROVE  LET r == Reply(o, o.pipe[o.pos]) IN
         /\ r.vis \in {"public", "restricted"} /\ r.perm \in BOOLEAN /\ r.exp \in BOOLEAN
         /\ r.answer = "none" /\ (r.vis = "public" \/ r.perm \/ r.exp => o.d \in w2)
  <1> DEFINE cmd == o.pipe[o.pos]
             r == Reply(o, cmd)
  <1>1. o.pipe = CheckPipe(<<o.d, o.u>>) /\ o.pos \in 1..Len(o.pipe) /\ DOMAIN o = Fields
    BY DEF Shape, IsCaller
  <1>2. /\ Len(o.pipe) = 3 /\ o.pipe[1] = Read("vis", <<o.d, o.u>>)
        /\ o.pipe[2] = Read("perm", <<o.d, o.u>>) /\ o.pipe[3] = Read("exp", <<o.d, o.u>>)
    BY <1>1 DEF CheckPipe
  <1>3. o.pos = 1 \/ o.pos = 2 \/ o.pos = 3
    <2>1. o.pos \in 1..3
      BY <1>1, <1>2
    <2> QED BY <2>1
  <1>4. /\ o.vis \in {"error", "public", "restricted"} /\ o.perm \in BOOLEAN /\ o.exp \in BOOLEAN
        /\ o.answer = "none"
        /\ o.vis = "public" \/ o.perm \/ o.exp => o.d \in w2
        /\ o.pos > 1 => o.vis # "error"
    BY DEF WitnessOK
  <1>5. CASE o.pos = 1
    <2>1. cmd.do = "vis"
      BY <1>2, <1>5, CommandNames
    <2>2. r = [o EXCEPT !.vis = IF o.d \in restricted THEN "restricted" ELSE "public"]
      BY <2>1 DEF Reply
    <2> HIDE DEF r, cmd
    <2>3. /\ r.vis = IF o.d \in restricted THEN "restricted" ELSE "public"
          /\ r.perm = o.perm /\ r.exp = o.exp /\ r.answer = o.answer
      BY <1>1, <2>2 DEF Fields
    <2>4. o.d \notin restricted => o.d \in w2
      BY DEF Open
    <2>5. r.perm \in BOOLEAN /\ r.exp \in BOOLEAN
      BY <1>4, <2>3
    <2>6. /\ r.vis \in {"public", "restricted"} /\ r.answer = "none"
          /\ r.vis = "public" \/ r.perm \/ r.exp => o.d \in w2
      BY <1>4, <2>3, <2>4
    <2> QED BY <2>5, <2>6 DEF r, cmd
  <1>6. CASE o.pos = 2
    <2>1. cmd.do = "perm"
      BY <1>2, <1>6, CommandNames
    <2>2. r = [o EXCEPT !.perm = db["userPerm"][<<o.d, o.u>>] # Absent]
      BY <2>1 DEF Reply
    <2> HIDE DEF r, cmd
    <2>3. /\ r.perm = (db["userPerm"][<<o.d, o.u>>] # Absent)
          /\ r.vis = o.vis /\ r.exp = o.exp /\ r.answer = o.answer
      BY <1>1, <2>2 DEF Fields
    <2>4. db["userPerm"][<<o.d, o.u>>] # Absent => o.d \in w2
      BY DEF Open, Held
    <2>5. r.perm \in BOOLEAN /\ r.exp \in BOOLEAN
      BY <1>4, <2>3
    <2>6. /\ r.vis \in {"public", "restricted"} /\ r.answer = "none"
          /\ r.vis = "public" \/ r.perm \/ r.exp => o.d \in w2
      BY <1>4, <1>6, <2>3, <2>4
    <2> QED BY <2>5, <2>6 DEF r, cmd
  <1>7. CASE o.pos = 3
    <2> DEFINE ex == db["userExp"][<<o.d, o.u>>] # Absent /\ Unix(o.now) < db["userExp"][<<o.d, o.u>>]
    <2>1. cmd.do = "exp"
      BY <1>2, <1>7, CommandNames
    <2>2. r = [o EXCEPT !.exp = ex]
      BY <2>1 DEF Reply
    <2>4. ex => o.d \in w2
      BY DEF Open, Held
    <2>7. ex \in BOOLEAN
      OBVIOUS
    <2> HIDE DEF r, cmd, ex
    <2>3. /\ r.exp = ex
          /\ r.vis = o.vis /\ r.perm = o.perm /\ r.answer = o.answer
      BY <1>1, <2>2 DEF Fields
    <2>5. r.perm \in BOOLEAN /\ r.exp \in BOOLEAN
      BY <1>4, <2>3, <2>7
    <2>6. /\ r.vis \in {"public", "restricted"} /\ r.answer = "none"
          /\ r.vis = "public" \/ r.perm \/ r.exp => o.d \in w2
      BY <1>4, <1>7, <2>3, <2>4
    <2> QED BY <2>5, <2>6 DEF r, cmd
  <1> QED BY <1>3, <1>5, <1>6, <1>7

(* A read of a listing. *)
LEMMA ListReads ==
  ASSUME NEW o, IsCaller(o), Shape(o, clock), o.kind = "list", NEW w, NEW w2, WitnessOK(o, w),
         w \subseteq w2, \A d \in Docs : Held(db, <<d, o.u>>, o.now) => d \in w2
  PROVE  Reply(o, o.pipe[o.pos]).seen \subseteq w2
  <1> DEFINE cmd == o.pipe[o.pos]
             r == Reply(o, cmd)
  <1>1. /\ o.pipe = <<Read("members", <<Absent, o.u>>)>> \/ o.pipe = <<Read("ending", <<Absent, o.u>>)>>
        /\ o.pos \in 1..Len(o.pipe) /\ DOMAIN o = Fields
    BY DEF Shape, IsCaller, Members
  <1>2. cmd.do = "members" \/ cmd.do = "ending"
    <2>1. o.pos \in 1..Len(o.pipe)
      BY <1>1
    <2>2. o.pipe = <<Read("members", <<Absent, o.u>>)>> => cmd.do = "members"
      BY <2>1, OneRead
    <2>3. o.pipe = <<Read("ending", <<Absent, o.u>>)>> => cmd.do = "ending"
      BY <2>1, OneRead
    <2> HIDE DEF cmd
    <2> QED BY <1>1, <2>2, <2>3
  <1>3. o.seen \subseteq w2
    BY DEF WitnessOK
  <1>4. CASE cmd.do = "members"
    <2>1. r = [o EXCEPT !.seen = {d \in Docs : db["userPerm"][<<d, o.u>>] # Absent}]
      BY <1>4 DEF Reply
    <2> HIDE DEF r, cmd
    <2>2. r.seen = {d \in Docs : db["userPerm"][<<d, o.u>>] # Absent}
      BY <1>1, <2>1 DEF Fields
    <2>3. r.seen \subseteq w2
      BY <2>2 DEF Held
    <2> QED BY <2>3 DEF r, cmd
  <1>5. CASE cmd.do = "ending"
    <2>1. r = [o EXCEPT !.seen = @ \union {d \in Docs : /\ db["userExp"][<<d, o.u>>] # Absent
                                                        /\ Unix(o.now) < db["userExp"][<<d, o.u>>]}]
      BY <1>5 DEF Reply
    <2> HIDE DEF r, cmd
    <2>2. r.seen = o.seen \union {d \in Docs : /\ db["userExp"][<<d, o.u>>] # Absent
                                               /\ Unix(o.now) < db["userExp"][<<d, o.u>>]}
      BY <1>1, <2>1 DEF Fields
    <2>3. r.seen \subseteq w2
      BY <1>3, <2>2 DEF Held
    <2> QED BY <2>3 DEF r, cmd
  <1> QED BY <1>2, <1>4, <1>5

(* What a step of c leaves as it was, or only marks as overlapping. *)
LEMMA SameWitness ==
  ASSUME NEW o, NEW n, NEW w, NEW w2, WitnessOK(o, w), w \subseteq w2 \/ o.kind \notin {"check", "list"},
         n.kind = o.kind, n.d = o.d, n.seen = o.seen, n.vis = o.vis, n.perm = o.perm,
         n.exp = o.exp, n.pos = o.pos, n.answer = o.answer
  PROVE  WitnessOK(n, w2)
  BY DEF WitnessOK

(* Marking an overlap changes nothing else. *)
LEMMA OverlapFields ==
  ASSUME NEW o, DOMAIN o = Fields, NEW v
  PROVE  LET n == [o EXCEPT !.overlap = v] IN
         /\ n.kind = o.kind /\ n.d = o.d /\ n.seen = o.seen /\ n.vis = o.vis /\ n.perm = o.perm
         /\ n.exp = o.exp /\ n.pos = o.pos /\ n.answer = o.answer
  BY DEF Fields

(* What Watch adds for a check or a listing that is running. *)
LEMMA WatchFacts ==
  ASSUME IInv, Watch, NEW c \in Clients, client[c].kind \in {"check", "list"}
  PROVE  LET o == client[c] IN
         /\ witness[c] \subseteq witness'[c]
         /\ o.kind = "check" /\ Open(db', restricted', <<o.d, o.u>>, o.now) => o.d \in witness'[c]
         /\ o.kind = "list" => \A d \in Docs : Held(db', <<d, o.u>>, o.now) => d \in witness'[c]
  <1> DEFINE o == client[c]
  <1>1. IsCaller(o) /\ Shape(o, clock)
    BY DEF IInv, CallersOK
  <1>2. o.kind = "check" => o.d \in Docs
    BY <1>1 DEF Shape
  <1>3. witness'[c] = witness[c] \union {d \in Docs : OpenTo(o, d)}
    BY DEF Watch, Running
  <1>4. o.kind = "check" => \A d \in Docs : OpenTo(o, d) <=> d = o.d /\ Open(db', restricted', <<d, o.u>>, o.now)
    BY DEF OpenTo
  <1>5. o.kind = "list" => \A d \in Docs : OpenTo(o, d) <=> Held(db', <<d, o.u>>, o.now)
    BY DEF OpenTo
  <1> HIDE DEF o
  <1>6. /\ witness[c] \subseteq witness'[c]
        /\ o.kind = "check" /\ Open(db', restricted', <<o.d, o.u>>, o.now) => o.d \in witness'[c]
        /\ o.kind = "list" => \A d \in Docs : Held(db', <<d, o.u>>, o.now) => d \in witness'[c]
    BY <1>2, <1>3, <1>4, <1>5
  <1> QED BY <1>6 DEF o

(* A caller whose operation does not move on. *)
LEMMA KeptWitness ==
  ASSUME IInv, Witnessed, Watch, NEW b \in Clients,
         client'[b].kind = client[b].kind, client'[b].d = client[b].d,
         client'[b].seen = client[b].seen, client'[b].vis = client[b].vis,
         client'[b].perm = client[b].perm, client'[b].exp = client[b].exp,
         client'[b].pos = client[b].pos, client'[b].answer = client[b].answer
  PROVE  WitnessOK(client'[b], witness'[b]) /\ AllowedStep(b)
  <1>1. WitnessOK(client[b], witness[b])
    BY DEF Witnessed
  <1>2. client[b].kind \in {"check", "list"} => witness[b] \subseteq witness'[b]
    BY WatchFacts
  <1>3. WitnessOK(client'[b], witness'[b])
    BY <1>1, <1>2, SameWitness
  <1>4. AllowedStep(b)
    BY <1>1 DEF AllowedStep, WitnessOK
  <1> QED BY <1>3, <1>4

(* The client of another operation, or of none, may only be marked.        *)
LEMMA BeginWitness ==
  ASSUME IInv, Witnessed, Watch, NEW c \in Clients, NEW o, NEW kind, NEW d, NEW u,
         Starts(o, kind, d, u), Begin(c, o), NEW b \in Clients
  PROVE  WitnessOK(client'[b], witness'[b]) /\ AllowedStep(b)
  <1> DEFINE met == {a \in Clients : Covers(client[a]) \intersect Covers(o) # {}}
  <1>1. /\ client[c].kind = "idle"
        /\ client' = [a \in Clients |-> IF a = c THEN [o EXCEPT !.overlap = met # {}]
                                        ELSE [client[a] EXCEPT !.overlap = @ \/ a \in met]]
    BY DEF Begin, Running
  <1> HIDE DEF met
  <1>2. CASE b = c
    <2>1. DOMAIN o = Fields
      BY DEF Starts
    <2>2. client'[b] = [o EXCEPT !.overlap = met # {}]
      BY <1>1, <1>2
    <2>3. /\ client'[b].seen = o.seen /\ client'[b].vis = o.vis /\ client'[b].perm = o.perm
          /\ client'[b].exp = o.exp /\ client'[b].pos = o.pos /\ client'[b].answer = o.answer
      BY <2>1, <2>2, OverlapFields
    <2>4. /\ o.seen = {} /\ o.vis = "error" /\ o.pos = 1 /\ o.answer = "none"
          /\ o.perm = FALSE /\ o.exp = FALSE
      BY DEF Starts
    <2>5. client'[b].perm \in BOOLEAN /\ client'[b].exp \in BOOLEAN
      BY <2>3, <2>4, Zenon
    <2>6. WitnessOK(client'[b], witness'[b])
      BY <2>3, <2>4, <2>5 DEF WitnessOK
    <2> QED BY <1>1, <1>2, <2>6 DEF AllowedStep
  <1>3. CASE b # c
    <2>1. DOMAIN client[b] = Fields
      BY DEF IInv, CallersOK, IsCaller
    <2>2. client'[b] = [client[b] EXCEPT !.overlap = @ \/ b \in met]
      BY <1>1, <1>3
    <2>3. /\ client'[b].kind = client[b].kind /\ client'[b].d = client[b].d
          /\ client'[b].seen = client[b].seen /\ client'[b].vis = client[b].vis
          /\ client'[b].perm = client[b].perm /\ client'[b].exp = client[b].exp
          /\ client'[b].pos = client[b].pos /\ client'[b].answer = client[b].answer
      BY <2>1, <2>2, OverlapFields
    <2> QED BY <1>3, <2>3, KeptWitness
  <1> QED BY <1>2, <1>3

(* Checks and listings only read. *)
LEMMA CheckListReads ==
  ASSUME NEW now, NEW o, IsCaller(o), Shape(o, now), o.kind \in {"check", "list"}
  PROVE  o.pipe[o.pos].do \in Reads
  <1>1. CASE o.kind = "check"
    <2>1. o.pipe = CheckPipe(<<o.d, o.u>>) /\ o.pos \in 1..Len(o.pipe)
      BY <1>1 DEF Shape
    <2> QED BY <2>1 DEF CheckPipe, Read, Reads
  <1>2. CASE o.kind = "list"
    <2>1. /\ o.pipe = Members(o.u) \/ o.pipe = <<Read("ending", <<Absent, o.u>>)>>
          /\ o.pos \in 1..Len(o.pipe)
      BY <1>2 DEF Shape
    <2> QED BY <2>1 DEF Members, Read, Reads
  <1> QED BY <1>1, <1>2

(* A check or a listing ends with what it has witnessed. *)
LEMMA EndWitness ==
  ASSUME IInv, Witnessed, Watch, NEW c \in Clients, client[c].kind # "idle", NEW r, NEW ok,
         r.kind = client[c].kind, End(c, r, ok),
         r.kind = "check" /\ ok /\ Answer(r) = "allow" => client[c].d \in witness'[c],
         r.kind = "list" => r.seen \subseteq witness'[c]
  PROVE  WitnessOK(client'[c], witness'[c]) /\ AllowedStep(c)
  <1> DEFINE a == IF r.kind = "check" THEN Answer(r) ELSE "none"
             s == IF r.kind = "list" THEN r.seen ELSE {}
             n == [Idle EXCEPT !.answer = a, !.seen = s, !.failed = ~ok]
  <1>1. client'[c] = n
    BY DEF End, IInv, CallersOK
  <1> HIDE DEF a, s
  <1>2. n.kind = "idle" /\ n.answer = a /\ n.seen = s /\ n.failed = ~ok
    BY DEF Idle
  <1> HIDE DEF n
  <1>3. WitnessOK(client'[c], witness'[c])
    BY <1>1, <1>2 DEF WitnessOK
  <1>4. ASSUME client[c].kind = "check", client'[c].answer = "allow", ~client'[c].failed
        PROVE  client[c].d \in witness'[c]
    <2>1. ok
      BY <1>1, <1>2, <1>4
    <2>2. Answer(r) = "allow"
      BY <1>1, <1>2, <1>4 DEF a
    <2> QED BY <1>4, <2>1, <2>2
  <1>5. client[c].kind = "list" => client'[c].seen \subseteq witness'[c]
    BY <1>1, <1>2 DEF s
  <1> QED BY <1>3, <1>4, <1>5 DEF AllowedStep

(* The step of c itself. *)
LEMMA ExecWitness ==
  ASSUME IInv, Witnessed, Watch, NEW c \in Clients, Exec(c)
  PROVE  WitnessOK(client'[c], witness'[c]) /\ AllowedStep(c)
  <1> DEFINE o == client[c]
             cmd == o.pipe[o.pos]
             r == Reply(o, cmd)
             ok == o.tidy \/ ~r.noscript
             w == witness'[c]
  <1>1. /\ o.kind # "idle" /\ IsCaller(o) /\ Shape(o, clock)
        /\ db' = Apply(db, cmd) /\ restricted' = restricted
        /\ \/ \E n : Moves(o, n) /\ client' = [client EXCEPT ![c] = n]
           \/ LastDone(o) /\ End(c, r, ok)
    BY ExecSplit DEF IInv
  <1>2. WitnessOK(o, witness[c]) /\ DOMAIN client = Clients
    BY DEF Witnessed, IInv, CallersOK
  <1>3. o.kind \in {"check", "list"} => db' = db
    <2> SUFFICES ASSUME o.kind \in {"check", "list"} PROVE cmd.do \in Reads
      BY <1>1, ReadEffect
    <2>1. Covers(o) = {}
      BY <1>1, CoversPairs
    <2>2. clock \in Nat
      BY RedisAssumption DEF IInv, DbOK
    <2> HIDE DEF o
    <2> QED BY <1>1, CheckListReads
  <1>4. /\ o.kind = "check" => /\ witness[c] \subseteq w
                               /\ Open(db, restricted, <<o.d, o.u>>, o.now) => o.d \in w
        /\ o.kind = "list" => /\ witness[c] \subseteq w
                              /\ \A d \in Docs : Held(db, <<d, o.u>>, o.now) => d \in w
    BY <1>1, <1>3, WatchFacts
  <1>5. r.kind = o.kind /\ DOMAIN r = Fields /\ r.d = o.d
    <2> HIDE DEF o, cmd
    <2> QED BY <1>1, ReplyFacts DEF IsCaller
  <1>6. o.kind = "check" =>
         /\ r.vis \in {"public", "restricted"} /\ r.perm \in BOOLEAN /\ r.exp \in BOOLEAN
         /\ r.answer = "none" /\ (r.vis = "public" \/ r.perm \/ r.exp => o.d \in w)
    <2> SUFFICES ASSUME o.kind = "check"
                 PROVE  /\ r.vis \in {"public", "restricted"} /\ r.perm \in BOOLEAN
                        /\ r.exp \in BOOLEAN /\ r.answer = "none"
                        /\ r.vis = "public" \/ r.perm \/ r.exp => o.d \in w
      OBVIOUS
    <2> DEFINE v == witness[c]
    <2>1. IsCaller(o) /\ Shape(o, clock) /\ WitnessOK(o, v)
      BY <1>1, <1>2
    <2>2. Open(db, restricted, <<o.d, o.u>>, o.now) => o.d \in w
      BY <1>4
    <2>3. v \subseteq w
      BY <1>4
    <2> HIDE DEF o, w, v
    <2> QED BY <2>1, <2>2, <2>3, CheckReads
  <1>7. o.kind = "list" => r.seen \subseteq w
    <2> HIDE DEF o, w
    <2> QED BY <1>1, <1>2, <1>4, ListReads
  <1> HIDE DEF r, w, ok
  <1>8. ASSUME NEW n, Moves(o, n), client' = [client EXCEPT ![c] = n]
        PROVE  WitnessOK(client'[c], w) /\ AllowedStep(c)
    <2>1. client'[c] = n
      BY <1>2, <1>8
    <2>2. n.kind = o.kind /\ n.d = o.d
      <3> HIDE DEF o
      <3> QED BY <1>1, <1>8, MovesCaller
    <2>3. ASSUME o.kind = "check" PROVE WitnessOK(n, w) /\ n.answer = "none"
      <3>1. n = [r EXCEPT !.pos = @ + 1]
        <4>1. cmd.do # "members" /\ cmd.do # "range"
          <5> HIDE DEF o
          <5> QED BY <1>1, <2>3, StageFacts
        <4> QED BY <1>8, <2>3, <4>1 DEF Moves, Advances, Tidies, ReadsOn, Deletes, r
      <3>2. n.vis = r.vis /\ n.perm = r.perm /\ n.exp = r.exp /\ n.answer = r.answer
        BY <1>5, <3>1 DEF Fields
      <3> HIDE DEF o
      <3>3. n.perm \in BOOLEAN /\ n.exp \in BOOLEAN
        BY <1>6, <2>3, <3>2
      <3> QED BY <1>6, <2>2, <2>3, <3>2, <3>3 DEF WitnessOK
    <2>4. ASSUME o.kind = "list" PROVE WitnessOK(n, w)
      <3>1. n.seen = r.seen
        BY <1>5, <1>8, <2>4 DEF Moves, Advances, Tidies, ReadsOn, Deletes, r, Fields
      <3> QED BY <1>7, <2>2, <2>4, <3>1 DEF WitnessOK
    <2>5. WitnessOK(n, w)
      BY <2>2, <2>3, <2>4 DEF WitnessOK
    <2> QED BY <1>1, <2>1, <2>2, <2>3, <2>5 DEF AllowedStep
  <1>9. CASE LastDone(o) /\ End(c, r, ok)
    <2>1. r.kind = "check" /\ Answer(r) = "allow" => o.d \in w
      BY <1>5, <1>6 DEF Answer
    <2> QED BY <1>1, <1>5, <1>7, <1>9, <2>1, EndWitness DEF w
  <1> QED BY <1>1, <1>8, <1>9 DEF w

(* Every step keeps what checks and listings have seen among what was open. *)
LEMMA WitnessStep ==
  ASSUME IInv, Witnessed, Next
  PROVE  Witnessed' /\ \A c \in Clients : AllowedStep(c)
  <1> SUFFICES ASSUME NEW b \in Clients
               PROVE  WitnessOK(client'[b], witness'[b]) /\ AllowedStep(b)
    BY DEF Witnessed
  <1>0. Step /\ Watch /\ DOMAIN client = Clients
    BY DEF Next, IInv, CallersOK
  <1>1. ASSUME client'[b] = client[b]
        PROVE  WitnessOK(client'[b], witness'[b]) /\ AllowedStep(b)
    BY <1>0, <1>1, KeptWitness
  <1>2. CASE Tick \/ Finished
    BY <1>1, <1>2 DEF Tick, Finished
  <1>3. ASSUME NEW d \in Docs, NEW v \in {"public", "restricted"}, SetVisibility(d, v)
        PROVE  WitnessOK(client'[b], witness'[b]) /\ AllowedStep(b)
    BY <1>1, <1>3 DEF SetVisibility
  <1>4. ASSUME NEW c \in Clients, NEW o, NEW kind, NEW d, NEW u, Starts(o, kind, d, u), Begin(c, o)
        PROVE  WitnessOK(client'[b], witness'[b]) /\ AllowedStep(b)
    BY <1>0, <1>4, BeginWitness
  <1>5. ASSUME NEW c \in Clients,
               \/ \E d \in Docs, u \in Users :
                    \/ \E from \in Ends \union {0}, to \in Ends \union {Forever} : Grant(c, d, u, from, to)
                    \/ Revoke(c, d, u)
                    \/ CheckBatch(c, d, u)
               \/ \E u \in Users : RevokeAllUser(c, u) \/ ListGrants(c, u)
        PROVE  WitnessOK(client'[b], witness'[b]) /\ AllowedStep(b)
    <2>1. \E o, kind, d, u : Starts(o, kind, d, u) /\ Begin(c, o)
      BY <1>5, GrantInv, RevokeInv, CheckInv, RevokeAllInv, ListInv
    <2> QED BY <1>4, <2>1
  <1>6. ASSUME NEW c \in Clients, Exec(c)
        PROVE  WitnessOK(client'[b], witness'[b]) /\ AllowedStep(b)
    <2>1. CASE b = c
      BY <1>0, <1>6, <2>1, ExecWitness
    <2>2. CASE b # c
      <3>1. \E n : client' = [client EXCEPT ![c] = n]
        BY <1>6, ExecSplit DEF IInv, End
      <3> QED BY <1>0, <1>1, <2>2, <3>1
    <2> QED BY <2>1, <2>2
  <1>7. ASSUME NEW c \in Clients, Retry(c)
        PROVE  WitnessOK(client'[b], witness'[b]) /\ AllowedStep(b)
    <2> DEFINE o == client[c]
               n == [o EXCEPT !.pos = 1, !.vis = "error", !.perm = FALSE, !.exp = FALSE]
    <2>1. client' = [client EXCEPT ![c] = n] /\ o.kind # "idle"
      BY <1>7 DEF Retry, Lost, Running
    <2>2. CASE b # c
      BY <1>0, <1>1, <2>1, <2>2
    <2>3. CASE b = c
      <3>1. DOMAIN o = Fields
        BY DEF IInv, CallersOK, IsCaller
      <3>2. client'[b] = n
        BY <1>0, <2>1, <2>3
      <3>3. /\ n.kind = o.kind /\ n.d = o.d /\ n.seen = o.seen /\ n.answer = o.answer
            /\ n.pos = 1 /\ n.vis = "error" /\ n.perm = FALSE /\ n.exp = FALSE
        <4> HIDE DEF o
        <4> QED BY <3>1 DEF Fields
      <3> HIDE DEF n
      <3>4. n.perm \in BOOLEAN /\ n.exp \in BOOLEAN
        BY <3>3, Zenon
      <3>5. WitnessOK(o, witness[b])
        BY <2>3 DEF Witnessed
      <3>6. o.kind = "list" => witness[b] \subseteq witness'[b]
        BY <1>0, <2>3, WatchFacts
      <3>7. WitnessOK(n, witness'[b])
        BY <3>3, <3>4, <3>5, <3>6 DEF WitnessOK
      <3>8. AllowedStep(b)
        BY <2>1, <2>3, <3>2, <3>3, <3>5 DEF AllowedStep, WitnessOK
      <3> QED BY <3>2, <3>7, <3>8
    <2> QED BY <2>2, <2>3
  <1>8. ASSUME NEW c \in Clients, GiveUp(c)
        PROVE  WitnessOK(client'[b], witness'[b]) /\ AllowedStep(b)
    <2>1. End(c, client[c], client[c].tidy) /\ client[c].kind # "idle"
      BY <1>8 DEF GiveUp, Lost, Running
    <2>2. CASE b # c
      BY <1>0, <1>1, <2>1, <2>2 DEF End
    <2>3. CASE b = c
      <3>1. client[c].kind = "check" => ~client[c].tidy
        BY DEF IInv, CallersOK, Shape
      <3>2. client[c].kind = "list" => client[c].seen \subseteq witness'[c]
        BY <1>0, WatchFacts DEF Witnessed, WitnessOK
      <3> QED BY <1>0, <2>1, <2>3, <3>1, <3>2, EndWitness
    <2> QED BY <2>2, <2>3
  <1> QED BY <1>0, <1>2, <1>3, <1>5, <1>6, <1>7, <1>8 DEF Step

(* A check that read everything, and a listing, give only documents that   *)
(* were open at some time since they began, although what they read is not *)
(* one snapshot.                                                           *)
THEOREM AllowedWasOpenHolds == Spec => AllowedWasOpen
  <1>1. Init => Witnessed
    <2> SUFFICES ASSUME Init, NEW c \in Clients PROVE WitnessOK(client[c], witness[c])
      BY DEF Witnessed
    <2>1. client[c].kind = "idle"
      BY IdleFacts DEF Init
    <2> QED BY <2>1 DEF WitnessOK
  <1>2. IInv /\ Witnessed /\ [Next]_vars => Witnessed'
    <2>1. ASSUME Witnessed, UNCHANGED vars PROVE Witnessed'
      BY <2>1 DEF Witnessed, vars
    <2> QED BY <2>1, WitnessStep
  <1>3. IInv /\ Witnessed /\ [Next]_vars =>
          [\A c \in Clients :
             /\ client[c].kind = "check" /\ client'[c].answer = "allow" /\ ~client'[c].failed
                  => client[c].d \in witness'[c]
             /\ client[c].kind = "list" /\ client'[c].kind = "idle"
                  => client'[c].seen \subseteq witness'[c]]_vars
    BY WitnessStep DEF AllowedStep
  <1> QED BY <1>1, <1>2, <1>3, Invariant, PTL DEF Spec, AllowedWasOpen

====
