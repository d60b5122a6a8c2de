---- MODULE AclServiceProofs ----
(***************************************************************************)
(* Proofs about AclService, for any number of requests in progress and all *)
(* tenants, documents, users and times: the handlers use the store as it   *)
(* is meant to be used, a revocation lasts until the pair is granted       *)
(* again, and an answer at the service's own time is never out of the past.*)
(***************************************************************************)
EXTENDS AclService, InMemoryStoreProofs

LEMMA ArgFacts ==
  ASSUME ServiceTypeOK, NEW r \in Reqs, pc[r] \in Reading \union Granting \union Revoking
  PROVE  /\ arg[r] \in Requests
         /\ T(r) \in Tenants /\ D(r) \in Docs /\ U(r) \in Users
         /\ arg[r].key = <<T(r), D(r), U(r)>>
  BY DEF ServiceTypeOK, Requests, Keys, T, D, U

(* Every step of a handler is a step of the store, or none. *)
LEMMA StoreStep == ServiceTypeOK /\ [ServiceNext]_svars => [Next]_vars
  <1> SUFFICES ASSUME ServiceTypeOK, [ServiceNext]_svars PROVE [Next]_vars
    OBVIOUS
  <1>1. CASE UNCHANGED svars
    BY <1>1 DEF svars, vars
  <1>2. CASE Tick
    BY <1>2 DEF Next
  <1>3. ASSUME NEW r \in Reqs, BadRequest(r) \/ Parse(r) \/ Done(r) \/ Read(r)
        PROVE  UNCHANGED vars
    BY <1>3 DEF BadRequest, Parse, Arrive, Done, Read, store, vars
  <1>4. ASSUME NEW r \in Reqs, Restrict(r) PROVE Next
    <2>1. pc[r] \in Granting
      BY <1>4 DEF Restrict, Granting
    <2>2. T(r) \in Tenants /\ D(r) \in Docs
      BY <2>1, ArgFacts
    <2>3. SetVisibility(T(r), D(r), "restricted")
      BY <1>4 DEF Restrict
    <2> QED BY <2>2, <2>3 DEF Next
  <1>5. ASSUME NEW r \in Reqs, MakeGrant(r) PROVE [Next]_vars
    <2>1. pc[r] \in Granting
      BY <1>5 DEF MakeGrant, Granting
    <2>2. /\ T(r) \in Tenants /\ D(r) \in Docs /\ U(r) \in Users
          /\ arg[r].at \in Times /\ arg[r].to \in Times \union {Forever}
      BY <2>1, ArgFacts DEF Requests
    <2>3. Grant(T(r), D(r), U(r), arg[r].at, arg[r].to) \/ UNCHANGED vars
      BY <1>5 DEF MakeGrant, store, vars
    <2> QED BY <2>2, <2>3 DEF Next
  <1>6. ASSUME NEW r \in Reqs, Remove(r) PROVE Next
    <2>1. pc[r] \in Revoking
      BY <1>6 DEF Remove
    <2>2. T(r) \in Tenants /\ D(r) \in Docs /\ U(r) \in Users
      BY <2>1, ArgFacts
    <2>3. Revoke(T(r), D(r), U(r)) \/ RevokeAllUser(T(r), U(r))
      BY <1>6 DEF Remove
    <2> QED BY <2>2, <2>3 DEF Next
  <1> QED BY <1>1, <1>2, <1>3, <1>4, <1>5, <1>6 DEF ServiceNext

----
LEMMA InitServiceTypeOK == ServiceInit => ServiceTypeOK
  BY InitIInv DEF ServiceInit, ServiceTypeOK, IInv, Reading, Granting, Revoking

LEMMA NamedType ==
  ASSUME ServiceTypeOK, NEW r \in Reqs, pc[r] \in Reading, NEW now
  PROVE  Named(r, now) \subseteq Docs
  BY ArgFacts DEF Named, CheckBatch, ListGrants, Requests

(* The places of the requests, their arguments and answers. *)
LEMMA RequestTypes ==
  ASSUME ServiceTypeOK, ServiceNext
  PROVE  /\ pc' \in [Reqs -> {"idle", "ok", "refused"} \union Reading \union Granting \union Revoking]
         /\ arg' \in [Reqs -> Requests \union {None}]
         /\ \A r \in Reqs : pc'[r] \in Reading \union Granting \union Revoking => arg'[r] \in Requests
         /\ answer' \in [Reqs -> SUBSET Docs]
  <1> DEFINE RT == /\ pc' \in [Reqs -> {"idle", "ok", "refused"} \union Reading \union Granting \union Revoking]
                   /\ arg' \in [Reqs -> Requests \union {None}]
                   /\ \A r \in Reqs : pc'[r] \in Reading \union Granting \union Revoking => arg'[r] \in Requests
                   /\ answer' \in [Reqs -> SUBSET Docs]
  <1> USE DEF ServiceTypeOK, Reading, Granting, Revoking
  <1>1. CASE UNCHANGED <<pc, arg, answer>>
    BY <1>1
  <1>2. ASSUME NEW r \in Reqs, BadRequest(r) \/ Done(r) PROVE RT
    BY <1>2 DEF BadRequest, Done
  <1>3. ASSUME NEW r \in Reqs, Parse(r) PROVE RT
    <2>1. PICK k \in Keys, op \in Reading \union Granting \union Revoking, docs \in SUBSET Docs,
               at \in Times, own \in BOOLEAN, to \in Times \union {Forever} :
                 Arrive(r, op, k, docs, at, own, to)
      <3>2. clock \in Times
        BY StoreAssumption DEF TypeOK, Times
      <3>1. ASSUME NEW p \in RequestTime PROVE p[1] \in Times /\ p[2] \in BOOLEAN
        <4>1. p = <<clock, TRUE>> \/ \E t \in GivenTimes : p = <<t, FALSE>>
          BY <3>1 DEF RequestTime
        <4>2. GivenTimes \subseteq Times
          BY ServiceAssumption
        <4>3. CASE p = <<clock, TRUE>>
          BY <4>3, <3>2
        <4>4. ASSUME NEW t \in GivenTimes, p = <<t, FALSE>> PROVE p[1] \in Times /\ p[2] \in BOOLEAN
          BY <4>4, <4>2
        <4> QED BY <4>1, <4>3, <4>4
      <3>3. PICK k \in Keys :
              \/ \E op \in Reading, docs \in SUBSET Docs, at \in RequestTime :
                   Arrive(r, op, k, IF op = "list" THEN Docs ELSE docs, at[1], at[2], Forever)
              \/ \E op \in Granting, at \in RequestTime, to \in Times \union {Forever} :
                   Arrive(r, op, k, {}, at[1], at[2], to)
              \/ \E op \in Revoking : Arrive(r, op, k, {}, clock, TRUE, Forever)
        BY <1>3 DEF Parse
      <3>4. CASE \E op \in Reading, docs \in SUBSET Docs, at \in RequestTime :
                   Arrive(r, op, k, IF op = "list" THEN Docs ELSE docs, at[1], at[2], Forever)
        <4>1. PICK op \in Reading, docs \in SUBSET Docs, at \in RequestTime :
                Arrive(r, op, k, IF op = "list" THEN Docs ELSE docs, at[1], at[2], Forever)
          BY <3>4
        <4>2. (IF op = "list" THEN Docs ELSE docs) \in SUBSET Docs
          OBVIOUS
        <4> QED BY <4>1, <4>2, <3>1
      <3>5. CASE \E op \in Granting, at \in RequestTime, to \in Times \union {Forever} :
                   Arrive(r, op, k, {}, at[1], at[2], to)
        BY <3>5, <3>1
      <3>6. CASE \E op \in Revoking : Arrive(r, op, k, {}, clock, TRUE, Forever)
        BY <3>6, <3>2
      <3> QED BY <3>3, <3>4, <3>5, <3>6
    <2>2. [key |-> k, docs |-> docs, at |-> at, own |-> own, to |-> to] \in Requests
      BY DEF Requests
    <2> QED BY <2>1, <2>2 DEF Arrive
  <1>4. ASSUME NEW r \in Reqs, Read(r) PROVE RT
    <2>1. Named(r, arg[r].at) \subseteq Docs
      BY <1>4, NamedType DEF Read
    <2> QED BY <1>4, <2>1 DEF Read, Goto
  <1>5. ASSUME NEW r \in Reqs, Restrict(r) PROVE RT
    BY <1>5 DEF Restrict, Goto
  <1>6. ASSUME NEW r \in Reqs, MakeGrant(r) PROVE RT
    BY <1>6 DEF MakeGrant, Goto
  <1>7. ASSUME NEW r \in Reqs, Remove(r) PROVE RT
    BY <1>7 DEF Remove, Goto
  <1> QED BY <1>1, <1>2, <1>3, <1>4, <1>5, <1>6, <1>7 DEF ServiceNext

LEMMA NextServiceTypeOK ==
  ServiceTypeOK /\ Exclusive /\ [ServiceNext]_svars => ServiceTypeOK' /\ Exclusive'
  <1> SUFFICES ASSUME ServiceTypeOK, Exclusive, [ServiceNext]_svars
               PROVE  ServiceTypeOK' /\ Exclusive'
    OBVIOUS
  <1>1. TypeOK' /\ Exclusive'
    BY StoreStep, NextIInv DEF ServiceTypeOK, IInv
  <1>2. CASE UNCHANGED svars
    BY <1>1, <1>2 DEF svars, ServiceTypeOK
  <1>3. CASE ServiceNext
    <2>1. \A r \in Reqs : pc'[r] \in Reading => Exact(r)' \subseteq Docs
      BY <1>3, RequestTypes DEF Exact, Named, CheckBatch, ListGrants, Requests, Reading
    <2>2. \A r \in Reqs : pc'[r] \in Reading => (arg'[r].docs \ Exact(r)') \subseteq Docs
      BY <1>3, RequestTypes DEF Requests
    <2>3. \A r \in Reqs : RanOut(r) \subseteq Docs
      BY DEF RanOut
    <2>4. /\ shown' \in [Reqs -> SUBSET Docs]
          /\ hidden' \in [Reqs -> SUBSET Docs]
          /\ ranOut' \in [Reqs -> SUBSET Docs]
          /\ quiet' \subseteq Keys
      BY <1>3, <2>1, <2>2, <2>3 DEF ServiceNext, Record, Watched, ServiceTypeOK
    <2> QED BY <1>1, <1>3, <2>4, RequestTypes DEF ServiceTypeOK
  <1> QED BY <1>2, <1>3

(* Requests, arguments and answers keep their types. *)
THEOREM ServiceTypeCorrect == ServiceSpec => []ServiceTypeOK
  <1>1. ServiceInit => ServiceTypeOK /\ Exclusive
    BY InitServiceTypeOK, InitIInv DEF ServiceInit, IInv
  <1> QED BY <1>1, NextServiceTypeOK, PTL DEF ServiceSpec

----
(* What a step can do to the store: it restricts, never opens; and unless  *)
(* it is the second call of a grant request, it adds no record.            *)
NoNewRecord == permanent' \subseteq permanent /\ \A k \in Keys : expiring'[k] \in {expiring[k], Absent}

LEMMA StoreEffect ==
  ASSUME ServiceTypeOK, ServiceNext
  PROVE  /\ \A td \in Tenants \X Docs : visibility'[td] \in {visibility[td], "restricted"}
         /\ clock' \in {clock, clock + 1}
         /\ \/ NoNewRecord
            \/ \E q \in Reqs : /\ pc[q] = "grant" /\ pc'[q] = "ok"
                               /\ Grant(T(q), D(q), U(q), arg[q].at, arg[q].to)
  <1> DEFINE P == /\ \A td \in Tenants \X Docs : visibility'[td] \in {visibility[td], "restricted"}
                  /\ clock' \in {clock, clock + 1}
             G(q) == /\ pc[q] = "grant" /\ pc'[q] = "ok"
                     /\ Grant(T(q), D(q), U(q), arg[q].at, arg[q].to)
  <1>1. ASSUME UNCHANGED <<visibility, permanent, expiring>>, clock' \in {clock, clock + 1}
        PROVE  P /\ NoNewRecord
    BY <1>1 DEF NoNewRecord
  <1>2. CASE Tick
    BY <1>2, <1>1 DEF Tick
  <1>3. ASSUME NEW r \in Reqs, BadRequest(r) \/ Parse(r) \/ Done(r) \/ Read(r) PROVE P /\ NoNewRecord
    BY <1>3, <1>1 DEF BadRequest, Parse, Arrive, Done, Read, store
  <1>4. ASSUME NEW r \in Reqs, Restrict(r) PROVE P /\ NoNewRecord
    BY <1>4 DEF Restrict, SetVisibility, ServiceTypeOK, TypeOK, NoNewRecord
  <1>5. ASSUME NEW r \in Reqs, MakeGrant(r) PROVE P /\ (NoNewRecord \/ G(r))
    <2>1. CASE UNCHANGED store
      BY <2>1, <1>1 DEF store
    <2>2. CASE Grant(T(r), D(r), U(r), arg[r].at, arg[r].to) /\ Goto(r, "ok")
      BY <1>5, <2>2 DEF MakeGrant, Goto, Grant, ServiceTypeOK
    <2> QED BY <1>5, <2>1, <2>2 DEF MakeGrant
  <1>6. ASSUME NEW r \in Reqs, Remove(r) PROVE P /\ NoNewRecord
    BY <1>6 DEF Remove, Revoke, RevokeAllUser, ServiceTypeOK, TypeOK, NoNewRecord
  <1> QED BY <1>2, <1>3, <1>4, <1>5, <1>6 DEF ServiceNext

(* The second call of a grant request writes one record, its own. *)
LEMMA GrantEffect ==
  ASSUME ServiceTypeOK, NEW q \in Reqs, pc[q] = "grant",
         Grant(T(q), D(q), U(q), arg[q].at, arg[q].to), NEW k \in Keys
  PROVE  /\ clock' = clock /\ visibility' = visibility
         /\ k # arg[q].key => /\ k \in permanent' => k \in permanent
                              /\ expiring'[k] \in {expiring[k], Absent}
         /\ k = arg[q].key => /\ k \in permanent' => arg[q].to = Forever \/ k \in permanent
                              /\ arg[q].to = Forever => expiring'[k] = Absent
                              /\ arg[q].to # Forever => expiring'[k] = arg[q].to
  <1>1. /\ T(q) \in Tenants /\ D(q) \in Docs /\ U(q) \in Users
        /\ arg[q].key = <<T(q), D(q), U(q)>> /\ arg[q].key \in Keys
        /\ arg[q].at \in Times /\ arg[q].to \in Times \union {Forever}
    BY ArgFacts DEF Granting, Requests
  <1>2. TypeOK
    BY DEF ServiceTypeOK
  <1>3. /\ Cleaned(T(q), D(q)) \in [Keys -> Times \union {Absent}]
        /\ Cleaned(T(q), D(q))[k] \in {expiring[k], Absent}
    BY <1>1, <1>2, CleanedFacts
  <1>4. /\ clock' = clock /\ visibility' = visibility
        /\ arg[q].to = Forever => /\ permanent' = permanent \union {arg[q].key}
                                  /\ expiring' = [Cleaned(T(q), D(q)) EXCEPT ![arg[q].key] = Absent]
        /\ arg[q].to # Forever => /\ permanent' = permanent \ {arg[q].key}
                                  /\ expiring' = [Cleaned(T(q), D(q)) EXCEPT ![arg[q].key] = arg[q].to]
    BY <1>1, GrantCases
  <1> QED BY <1>1, <1>3, <1>4

----
(* Revocations.                                                            *)
QuietAlone == \A k \in quiet : ~ GrantInProgress(k)

RInv == RevokedUntilGranted /\ QuietAlone

LEMMA RevokedGone ==
  ASSUME ServiceTypeOK, ServiceNext, NEW q \in Reqs, NEW k \in Keys, RevokedBy(q, k)
  PROVE  k \notin permanent' /\ expiring'[k] = Absent
  <1>1. pc[q] \in Revoking /\ pc'[q] = "ok" /\ pc[q] # pc'[q]
    BY DEF RevokedBy, Revoking
  <1>2. PICK r \in Reqs : \/ BadRequest(r) \/ Parse(r) \/ Done(r)
                          \/ Read(r) \/ Restrict(r) \/ MakeGrant(r) \/ Remove(r)
    BY <1>1 DEF ServiceNext
  <1>3. pc \in [Reqs -> {"idle", "ok", "refused"} \union Reading \union Granting \union Revoking]
    BY DEF ServiceTypeOK
  <1>4. r = q
    BY <1>1, <1>2, <1>3 DEF BadRequest, Parse, Arrive, Done, Read, Restrict, MakeGrant, Remove, Goto
  <1>5. Remove(q)
    BY <1>1, <1>2, <1>4
      DEF BadRequest, Parse, Arrive, Done, Read, Restrict, MakeGrant, Reading, Revoking
  <1>6. arg[q].key \in Keys
    BY <1>1, ArgFacts DEF Requests
  <1>7. CASE pc[q] = "revoke"
    <2>1. k = arg[q].key /\ Revoke(T(q), D(q), U(q)) /\ k = <<T(q), D(q), U(q)>>
      BY <1>1, <1>5, <1>7, ArgFacts DEF Remove, RevokedBy, Revoking
    <2> QED BY <2>1 DEF Revoke, ServiceTypeOK, TypeOK
  <1>8. CASE pc[q] = "revokeAll"
    <2>1. k[1] = T(q) /\ k[3] = U(q) /\ RevokeAllUser(T(q), U(q))
      BY <1>5, <1>8 DEF Remove, RevokedBy
    <2> QED BY <2>1 DEF RevokeAllUser
  <1> QED BY <1>1, <1>7, <1>8 DEF Revoking

LEMMA NextRInv == ServiceTypeOK /\ RInv /\ [ServiceNext]_svars => RInv'
  <1> SUFFICES ASSUME ServiceTypeOK, RInv, [ServiceNext]_svars PROVE RInv'
    OBVIOUS
  <1>1. CASE UNCHANGED svars
    BY <1>1 DEF svars, RInv, RevokedUntilGranted, QuietAlone, GrantInProgress
  <1>2. CASE ServiceNext
    <2>1. quiet' = {k \in Keys : /\ k \in quiet \/ \E q \in Reqs : RevokedBy(q, k)
                                 /\ ~ GrantInProgress(k)'}
      BY <1>2 DEF ServiceNext, Record
    <2>2. ASSUME NEW k \in quiet' PROVE k \notin permanent' /\ expiring'[k] = Absent
      <3>1. k \in Keys
        BY <2>1
      <3>2. CASE \E q \in Reqs : RevokedBy(q, k)
        BY <1>2, <3>1, <3>2, RevokedGone
      <3>3. CASE k \in quiet
        <4>1. k \notin permanent /\ expiring[k] = Absent /\ ~ GrantInProgress(k)
          BY <3>3 DEF RInv, RevokedUntilGranted, QuietAlone
        <4>2. CASE NoNewRecord
          BY <3>1, <4>1, <4>2 DEF NoNewRecord
        <4>3. ASSUME NEW q \in Reqs, pc[q] = "grant", Grant(T(q), D(q), U(q), arg[q].at, arg[q].to)
              PROVE  k \notin permanent' /\ expiring'[k] = Absent
          <5>1. k # arg[q].key
            BY <4>1, <4>3 DEF GrantInProgress, Granting
          <5> QED BY <3>1, <4>1, <4>3, <5>1, GrantEffect
        <4> QED BY <1>2, <4>2, <4>3, StoreEffect
      <3> QED BY <2>1, <2>2, <3>2, <3>3
    <2>3. QuietAlone'
      BY <2>1 DEF QuietAlone
    <2> QED BY <2>2, <2>3 DEF RInv, RevokedUntilGranted
  <1> QED BY <1>1, <1>2

(* A revocation made with no grant request of the pair in progress lasts   *)
(* until such a request arrives.                                           *)
THEOREM RevocationsLast == ServiceSpec => []RevokedUntilGranted
  <1>1. ServiceInit => ServiceTypeOK /\ Exclusive /\ RInv
    BY InitServiceTypeOK, InitIInv
      DEF ServiceInit, IInv, RInv, RevokedUntilGranted, QuietAlone
  <1>2. RInv => RevokedUntilGranted
    BY DEF RInv
  <1> QED BY <1>1, <1>2, NextServiceTypeOK, NextRInv, PTL DEF ServiceSpec

----
(* Answers.  While a request reads, what an exact answer names has been    *)
(* shown and what it leaves out hidden; and what the store would answer at *)
(* the request's own, older time is no more than has been shown, but for   *)
(* grants recorded after their end.                                        *)
ReadingInv(r) ==
    pc[r] \in Reading =>
      /\ Exact(r) \subseteq shown[r]
      /\ (arg[r].docs \ Exact(r)) \subseteq hidden[r]
      /\ arg[r].own => /\ arg[r].at <= clock
                       /\ Named(r, arg[r].at) \subseteq shown[r] \union ranOut[r]

AnsweredInv(r) ==
    /\ pc[r] = "ok" /\ arg[r].own => /\ answer[r] \subseteq shown[r] \union ranOut[r]
                                     /\ (arg[r].docs \ answer[r]) \subseteq hidden[r]
    /\ pc[r] # "ok" => answer[r] = {}
    /\ pc[r] \in Granting \union Revoking => arg[r].docs = {}

WInv == \A r \in Reqs : ReadingInv(r) /\ AnsweredInv(r)

(* A grant seen at an earlier time is seen there too: the earlier answer   *)
(* names no less.                                                          *)
LEMMA EarlierNamesMore ==
  ASSUME ServiceTypeOK, NEW r \in Reqs, pc[r] \in Reading, arg[r].at <= clock
  PROVE  Exact(r) \subseteq Named(r, arg[r].at)
  <1>1. /\ arg[r].at \in Int /\ clock \in Int
        /\ T(r) \in Tenants /\ U(r) \in Users
    BY ArgFacts, StoreAssumption DEF ServiceTypeOK, TypeOK, Requests, Times
  <1>2. \A d \in Docs : hasExpiringGrantLocked(T(r), d, U(r), clock)
                          => hasExpiringGrantLocked(T(r), d, U(r), arg[r].at)
    <2> SUFFICES ASSUME NEW d \in Docs, hasExpiringGrantLocked(T(r), d, U(r), clock)
                 PROVE  hasExpiringGrantLocked(T(r), d, U(r), arg[r].at)
      OBVIOUS
    <2>1. expiring[<<T(r), d, U(r)>>] \in Times
      BY <1>1, KeyFacts DEF hasExpiringGrantLocked, ServiceTypeOK, TypeOK
    <2> QED BY <1>1, <2>1, StoreAssumption DEF hasExpiringGrantLocked, Times
  <1>3. arg[r].docs \subseteq Docs
    BY ArgFacts DEF Requests
  <1> QED BY <1>2, <1>3 DEF Exact, Named, CheckBatch, ListGrants

(* What the answer at the request's time gains in a step was shown by that *)
(* step or is a grant already over.                                        *)
LEMMA NamedGains ==
  ASSUME ServiceTypeOK, ServiceTypeOK', ServiceNext, NEW r \in Reqs, pc[r] \in Reading, pc'[r] = pc[r],
         arg'[r] = arg[r], NEW d \in Named(r, arg[r].at)', d \notin Named(r, arg[r].at)
  PROVE  d \in Exact(r)' \/ d \in RanOut(r)
  <1>1. /\ T(r) \in Tenants /\ U(r) \in Users /\ arg[r].docs \subseteq Docs /\ arg[r].at \in Times
        /\ T(r)' = T(r) /\ U(r)' = U(r)
    BY ArgFacts DEF Requests, T, U
  <1>2. d \in Docs
    BY <1>1, NamedType DEF Named, CheckBatch, ListGrants, Reading
  <1> DEFINE k == <<T(r), d, U(r)>>
  <1>3. k \in Keys /\ <<T(r), d>> \in Tenants \X Docs
    BY <1>1, <1>2, KeyFacts
  <1>4. visibility[<<T(r), d>>] = visibility'[<<T(r), d>>]
          \/ visibility'[<<T(r), d>>] = "restricted"
    BY <1>3, StoreEffect
  <1>5. ~ NoNewRecord
    <2> SUFFICES ASSUME NoNewRecord PROVE FALSE
      OBVIOUS
    <2>1. (k \in permanent' => k \in permanent) /\ expiring'[k] \in {expiring[k], Absent}
      BY <1>3 DEF NoNewRecord
    <2>2. visibilityOfLocked(T(r), d)' = "public" => visibilityOfLocked(T(r), d) = "public"
      BY <1>1, <1>4, StoreAssumption DEF visibilityOfLocked
    <2> QED BY <1>1, <2>1, <2>2
          DEF Named, CheckBatch, ListGrants, hasExpiringGrantLocked, Reading
  <1>6. PICK q \in Reqs : /\ pc[q] = "grant" /\ pc'[q] = "ok"
                          /\ Grant(T(q), D(q), U(q), arg[q].at, arg[q].to)
    BY <1>5, StoreEffect
  <1>7. clock' = clock /\ visibility' = visibility
    BY <1>3, <1>6, GrantEffect
  <1>8. k = arg[q].key
    <2> SUFFICES ASSUME k # arg[q].key PROVE FALSE
      OBVIOUS
    <2>1. (k \in permanent' => k \in permanent) /\ expiring'[k] \in {expiring[k], Absent}
      BY <1>3, <1>6, GrantEffect
    <2> QED BY <1>1, <1>7, <2>1
          DEF Named, CheckBatch, ListGrants, hasExpiringGrantLocked, visibilityOfLocked, Reading
  <1>9. arg[q].to \in Times \union {Forever}
    BY <1>6, ArgFacts DEF Granting, Requests
  <1>10. CASE arg[q].to # Forever /\ arg[q].to <= clock
    BY <1>2, <1>6, <1>8, <1>10 DEF RanOut
  <1>11. CASE ~(arg[q].to # Forever /\ arg[q].to <= clock)
    <2>1. d \in Named(r, arg[r].at)' => \/ pc[r] = "check" /\ d \in arg[r].docs
                                        \/ pc[r] = "list"
      BY <1>1 DEF Named, CheckBatch, Reading
    <2>2. (k \in permanent') \/ (k \notin permanent' /\ arg[q].to # Forever /\ expiring'[k] = arg[q].to)
            \/ (arg[q].to = Forever)
      BY <1>3, <1>6, <1>8, GrantEffect
    <2>3. arg[q].to = Forever => k \in permanent'
      BY <1>6, <1>8, ArgFacts DEF Grant, grantPermanentLocked, Granting
    <2>4. arg[q].to # Forever => /\ arg[q].to \in Int /\ clock \in Int /\ clock < arg[q].to
                                 /\ arg[q].to # Absent
      BY <1>9, <1>11, StoreAssumption DEF ServiceTypeOK, TypeOK, Times
    <2>5. k \in permanent' \/ hasExpiringGrantLocked(T(r), d, U(r), clock)'
      BY <1>1, <1>7, <2>2, <2>3, <2>4 DEF hasExpiringGrantLocked
    <2> QED BY <1>1, <1>2, <2>1, <2>5 DEF Exact, Named, CheckBatch, ListGrants, Reading
  <1> QED BY <1>10, <1>11

(* A step is a request's own or leaves it where it is. *)
LEMMA Moves ==
  ASSUME ServiceTypeOK, ServiceNext, NEW r \in Reqs
  PROVE  \/ pc'[r] = pc[r] /\ arg'[r] = arg[r] /\ answer'[r] = answer[r]
         \/ BadRequest(r) \/ Parse(r) \/ Done(r) \/ Read(r) \/ Restrict(r) \/ MakeGrant(r) \/ Remove(r)
  <1> DEFINE Own(q) == \/ BadRequest(q) \/ Parse(q) \/ Done(q)
                       \/ Read(q) \/ Restrict(q) \/ MakeGrant(q) \/ Remove(q)
             Still == pc'[r] = pc[r] /\ arg'[r] = arg[r] /\ answer'[r] = answer[r]
  <1>1. CASE UNCHANGED <<pc, arg, answer>>
    BY <1>1
  <1>2. ASSUME NEW q \in Reqs, Own(q), q # r PROVE Still
    BY <1>2 DEF ServiceTypeOK, BadRequest, Parse, Arrive, Done, Read, Restrict, MakeGrant, Remove, Goto
  <1> QED BY <1>1, <1>2 DEF ServiceNext

(* A request that begins to read does so with the clock of that moment, or *)
(* with a time of the client's; nothing but a reading names documents.     *)
LEMMA ParsedTime ==
  ASSUME ServiceTypeOK, NEW r \in Reqs, Parse(r)
  PROVE  /\ pc'[r] \in Reading \union Granting \union Revoking
         /\ pc'[r] \in Reading /\ arg'[r].own => arg'[r].at = clock
         /\ pc'[r] \in Granting \union Revoking => arg'[r].docs = {}
         /\ answer' = answer /\ UNCHANGED store /\ pc[r] = "idle"
  <1> USE DEF ServiceTypeOK, Reading, Granting, Revoking
  <1>1. \A p \in RequestTime : p[2] => p[1] = clock
    <2> SUFFICES ASSUME NEW p \in RequestTime, p[2] PROVE p[1] = clock
      OBVIOUS
    <2>1. p = <<clock, TRUE>> \/ \E t \in GivenTimes : p = <<t, FALSE>>
      BY DEF RequestTime
    <2>2. ASSUME NEW t \in GivenTimes, p = <<t, FALSE>> PROVE FALSE
      BY <2>2
    <2>3. CASE p = <<clock, TRUE>>
      BY <2>3
    <2> QED BY <2>1, <2>2, <2>3
  <1>2. PICK k \in Keys :
          \/ \E op \in Reading, docs \in SUBSET Docs, at \in RequestTime :
               Arrive(r, op, k, IF op = "list" THEN Docs ELSE docs, at[1], at[2], Forever)
          \/ \E op \in Granting, at \in RequestTime, to \in Times \union {Forever} :
               Arrive(r, op, k, {}, at[1], at[2], to)
          \/ \E op \in Revoking : Arrive(r, op, k, {}, clock, TRUE, Forever)
    BY DEF Parse
  <1>3. CASE \E op \in Reading, docs \in SUBSET Docs, at \in RequestTime :
               Arrive(r, op, k, IF op = "list" THEN Docs ELSE docs, at[1], at[2], Forever)
    <2>1. PICK op \in Reading, docs \in SUBSET Docs, at \in RequestTime :
            Arrive(r, op, k, IF op = "list" THEN Docs ELSE docs, at[1], at[2], Forever)
      BY <1>3
    <2>2. pc'[r] = op /\ arg'[r].own = at[2] /\ arg'[r].at = at[1]
      BY <2>1 DEF Arrive
    <2> QED BY <1>1, <2>1, <2>2 DEF Arrive
  <1>4. CASE \E op \in Granting, at \in RequestTime, to \in Times \union {Forever} :
               Arrive(r, op, k, {}, at[1], at[2], to)
    BY <1>4 DEF Arrive
  <1>5. CASE \E op \in Revoking : Arrive(r, op, k, {}, clock, TRUE, Forever)
    BY <1>5 DEF Arrive
  <1> QED BY <1>2, <1>3, <1>4, <1>5

(* What is kept of a request that goes on reading, begins to, or answers.  *)
LEMMA WatchedFacts ==
  ASSUME NEW r \in Reqs, NEW past, NEW seen
  PROVE  /\ pc'[r] \in Reading /\ pc'[r] = pc[r] => Watched(r, past, seen) = past \union seen
         /\ pc'[r] \in Reading /\ pc'[r] # pc[r] => Watched(r, past, seen) = seen
         /\ pc'[r] = "ok" => Watched(r, past, seen) = past
  BY DEF Watched, Reading

LEMMA NextReading ==
  ASSUME ServiceTypeOK, ServiceTypeOK', ServiceNext, NEW r \in Reqs, ReadingInv(r), AnsweredInv(r)
  PROVE  ReadingInv(r)'
  <1> SUFFICES ASSUME pc'[r] \in Reading
               PROVE  /\ Exact(r)' \subseteq shown'[r]
                      /\ (arg'[r].docs \ Exact(r)') \subseteq hidden'[r]
                      /\ arg'[r].own => /\ arg'[r].at <= clock'
                                        /\ Named(r, arg[r].at)' \subseteq shown'[r] \union ranOut'[r]
    BY DEF ReadingInv
  <1>1. /\ shown'[r] = Watched(r, shown[r], Exact(r)')
        /\ hidden'[r] = Watched(r, hidden[r], arg'[r].docs \ Exact(r)')
        /\ ranOut'[r] = IF pc[r] \in Reading THEN Watched(r, ranOut[r], RanOut(r))
                                             ELSE Watched(r, ranOut[r], {})
    BY DEF ServiceNext, Record
  <1>2. Exact(r)' \subseteq shown'[r] /\ (arg'[r].docs \ Exact(r)') \subseteq hidden'[r]
    <2>1. CASE pc'[r] = pc[r]
      BY <1>1, <2>1, WatchedFacts
    <2>2. CASE pc'[r] # pc[r]
      BY <1>1, <2>2, WatchedFacts
    <2> QED BY <2>1, <2>2
  <1>3. CASE pc'[r] = pc[r]
    <2>1. arg'[r] = arg[r]
      BY <1>3, Moves DEF Reading, BadRequest, Parse, Arrive, Done, Read, Restrict, MakeGrant, Remove,
                         Goto, ServiceTypeOK, Revoking
    <2>2. SUFFICES ASSUME arg[r].own
                   PROVE  arg[r].at <= clock' /\ Named(r, arg[r].at)' \subseteq shown'[r] \union ranOut'[r]
      BY <1>2, <2>1
    <2>3. /\ arg[r].at <= clock /\ Named(r, arg[r].at) \subseteq shown[r] \union ranOut[r]
          /\ arg[r].at \in Int /\ clock \in Int
      BY <1>3, <2>2, ArgFacts, StoreAssumption DEF ReadingInv, Requests, Times, ServiceTypeOK, TypeOK
    <2>4. arg[r].at <= clock'
      <3>1. clock' = clock \/ clock' = clock + 1
        BY StoreEffect
      <3> QED BY <2>3, <3>1
    <2>5. /\ shown'[r] = shown[r] \union Exact(r)'
          /\ ranOut'[r] = ranOut[r] \union RanOut(r)
      BY <1>1, <1>3, WatchedFacts
    <2>6. ASSUME NEW d \in Named(r, arg[r].at)', d \notin Named(r, arg[r].at)
          PROVE  d \in Exact(r)' \/ d \in RanOut(r)
      BY <1>3, <2>1, <2>6, NamedGains
    <2> QED BY <2>3, <2>4, <2>5, <2>6
  <1>4. CASE pc'[r] # pc[r]
    <2>1. Parse(r)
      BY <1>4, Moves DEF Reading, BadRequest, Done, Read, Restrict, MakeGrant, Remove,
                         Goto, ServiceTypeOK
    <2>2. (arg'[r].own => arg'[r].at = clock) /\ clock' = clock
      BY <2>1, ParsedTime DEF store
    <2>3. arg'[r].own => Named(r, arg[r].at)' = Exact(r)'
      BY <2>2 DEF Exact
    <2>4. clock \in Int
      BY StoreAssumption DEF ServiceTypeOK, TypeOK
    <2> QED BY <1>2, <2>2, <2>3, <2>4
  <1> QED BY <1>3, <1>4

LEMMA NextAnswered ==
  ASSUME ServiceTypeOK, ServiceTypeOK', ServiceNext, NEW r \in Reqs, ReadingInv(r), AnsweredInv(r)
  PROVE  AnsweredInv(r)'
  <1>1. /\ shown'[r] = Watched(r, shown[r], Exact(r)')
        /\ hidden'[r] = Watched(r, hidden[r], arg'[r].docs \ Exact(r)')
        /\ ranOut'[r] = IF pc[r] \in Reading THEN Watched(r, ranOut[r], RanOut(r))
                                             ELSE Watched(r, ranOut[r], {})
    BY DEF ServiceNext, Record
  <1>2. pc'[r] = "ok" => shown'[r] = shown[r] /\ hidden'[r] = hidden[r] /\ ranOut'[r] = ranOut[r]
    BY <1>1, WatchedFacts
  <1> USE DEF AnsweredInv, Reading, Granting, Revoking
  <1>3. CASE pc'[r] = pc[r] /\ arg'[r] = arg[r] /\ answer'[r] = answer[r]
    BY <1>2, <1>3
  <1>4. CASE BadRequest(r) \/ Done(r)
    BY <1>4 DEF BadRequest, Done, ServiceTypeOK
  <1>5. CASE Parse(r)
    BY <1>5, ParsedTime
  <1>6. CASE Read(r)
    <2>1. pc'[r] = "ok" /\ arg' = arg /\ answer'[r] = Named(r, arg[r].at) /\ pc[r] \in Reading
      BY <1>6 DEF Read, Goto, ServiceTypeOK
    <2>2. arg[r].own => (arg[r].docs \ Named(r, arg[r].at)) \subseteq hidden[r]
      BY <2>1, EarlierNamesMore DEF ReadingInv
    <2> QED BY <1>2, <2>1, <2>2 DEF ReadingInv
  <1>7. CASE Restrict(r) \/ MakeGrant(r) \/ Remove(r)
    <2>1. /\ pc[r] \in Granting \union Revoking /\ arg' = arg /\ answer' = answer
          /\ pc'[r] \in {"ok", "refused", "grant"}
      BY <1>7 DEF Restrict, MakeGrant, Remove, Goto, ServiceTypeOK
    <2> QED BY <2>1
  <1> QED BY <1>3, <1>4, <1>5, <1>6, <1>7, Moves

(* A check or a listing at the service's own time names nothing that was   *)
(* not open, or granted, at some moment of the request, but for grants     *)
(* recorded after their end, and leaves out nothing that was throughout.   *)
THEOREM AnswersNotPast == ServiceSpec => []AnsweredWithinRequest
  <1>1. ServiceInit => ServiceTypeOK /\ Exclusive /\ WInv
    BY InitServiceTypeOK, InitIInv
      DEF ServiceInit, IInv, WInv, ReadingInv, AnsweredInv, Reading, Granting, Revoking
  <1>2. ServiceTypeOK /\ ServiceTypeOK' /\ WInv /\ [ServiceNext]_svars => WInv'
    <2> SUFFICES ASSUME ServiceTypeOK, ServiceTypeOK', WInv, [ServiceNext]_svars PROVE WInv'
      OBVIOUS
    <2>1. CASE UNCHANGED svars
      BY <2>1 DEF svars, WInv, ReadingInv, AnsweredInv, Exact, Named, CheckBatch, ListGrants, T, U,
                  visibilityOfLocked, hasExpiringGrantLocked
    <2>2. CASE ServiceNext
      BY <2>2, NextReading, NextAnswered DEF WInv
    <2> QED BY <2>1, <2>2
  <1>3. WInv => AnsweredWithinRequest
    BY DEF WInv, AnsweredInv, AnsweredWithinRequest
  <1> QED BY <1>1, <1>2, <1>3, NextServiceTypeOK, PTL DEF ServiceSpec

(* Requests never reopen a restricted document, and a grant that is        *)
(* answered 400 leaves all grant records alone.                            *)
THEOREM ClosesOnly == ServiceSpec => OnlyCloses
  <1>1. ServiceInit => ServiceTypeOK /\ Exclusive
    BY InitServiceTypeOK, InitIInv DEF ServiceInit, IInv
  <1>2. ASSUME ServiceTypeOK, ServiceNext
        PROVE  /\ \A td \in Tenants \X Docs : visibility[td] = "restricted" => visibility'[td] = "restricted"
               /\ \A r \in Reqs : pc[r] \in Granting /\ pc'[r] = "refused"
                    => UNCHANGED <<permanent, expiring>>
    <2>1. \A td \in Tenants \X Docs : visibility[td] = "restricted" => visibility'[td] = "restricted"
      BY <1>2, StoreEffect
    <2>2. ASSUME NEW r \in Reqs, pc[r] \in Granting, pc'[r] = "refused"
          PROVE  UNCHANGED <<permanent, expiring>>
      <3>1. MakeGrant(r)
        BY <1>2, <2>2, Moves DEF Granting, Reading, Revoking, ServiceTypeOK, BadRequest, Parse, Arrive,
                                 Done, Read, Restrict, Remove, Goto
      <3> QED BY <1>2, <2>2, <3>1 DEF MakeGrant, Goto, store, ServiceTypeOK
    <2> QED BY <2>1, <2>2
  <1>3. ServiceTypeOK /\ [ServiceNext]_svars =>
          [/\ \A td \in Tenants \X Docs : visibility[td] = "restricted" => visibility'[td] = "restricted"
           /\ \A r \in Reqs : pc[r] \in Granting /\ pc'[r] = "refused"
                => UNCHANGED <<permanent, expiring>>]_svars
    BY <1>2
  <1> QED BY <1>1, <1>3, NextServiceTypeOK, PTL DEF ServiceSpec, OnlyCloses

====
