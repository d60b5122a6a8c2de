---- MODULE InMemoryStoreProofs ----
(***************************************************************************)
(* Proofs about InMemoryStore, for all tenants, documents, users and every *)
(* length of time: its maps are exclusive, and it implements AclStore.     *)
(***************************************************************************)
EXTENDS InMemoryStore, TLAPS

IInv == TypeOK /\ Exclusive

LEMMA KeyFacts ==
  ASSUME NEW t \in Tenants, NEW d \in Docs, NEW u \in Users
  PROVE  /\ <<t, d, u>> \in Keys
         /\ <<t, d>> \in Tenants \X Docs
  BY DEF Keys

(* The cleanup keeps the shape of the map and touches only records of the  *)
(* document that have run out.                                             *)
LEMMA CleanedFacts ==
  ASSUME TypeOK, NEW t \in Tenants, NEW d \in Docs
  PROVE  /\ Cleaned(t, d) \in [Keys -> Times \union {Absent}]
         /\ \A k \in Keys : \/ Cleaned(t, d)[k] = expiring[k]
                            \/ /\ Cleaned(t, d)[k] = Absent
                               /\ expiring[k] # Absent
                               /\ expiring[k] < clock
  BY DEF TypeOK, Cleaned, Expired

(* Grant, case by case. *)
LEMMA GrantCases ==
  ASSUME NEW t \in Tenants, NEW d \in Docs, NEW u \in Users,
         NEW from \in Times, NEW to \in Times \union {Forever},
         Grant(t, d, u, from, to)
  PROVE  /\ clock' = clock /\ visibility' = visibility
         /\ to = Forever => /\ permanent' = permanent \union {<<t, d, u>>}
                            /\ expiring' = [Cleaned(t, d) EXCEPT ![<<t, d, u>>] = Absent]
         /\ to # Forever => /\ to \in Times
                            /\ permanent' = permanent \ {<<t, d, u>>}
                            /\ expiring' = [Cleaned(t, d) EXCEPT ![<<t, d, u>>] = to]
  BY DEF Grant, grantPermanentLocked, grantExpiringLocked

LEMMA InitIInv == Init => IInv
  BY StoreAssumption DEF Init, IInv, TypeOK, Exclusive

LEMMA NextIInv == IInv /\ [Next]_vars => IInv'
  <1> SUFFICES ASSUME IInv, [Next]_vars PROVE IInv'
    OBVIOUS
  <1> USE DEF IInv
  <1>1. CASE Tick
    BY <1>1, StoreAssumption DEF Tick, TypeOK, Exclusive
  <1>2. ASSUME NEW t \in Tenants, NEW d \in Docs, NEW v \in {"public", "restricted"},
               SetVisibility(t, d, v)
        PROVE  IInv'
    BY <1>2, KeyFacts DEF SetVisibility, TypeOK, Exclusive
  <1>3. ASSUME NEW t \in Tenants, NEW d \in Docs, NEW u \in Users,
               NEW from \in Times, NEW to \in Times \union {Forever},
               Grant(t, d, u, from, to)
        PROVE  IInv'
    <2> DEFINE k0 == <<t, d, u>>
    <2>1. k0 \in Keys
      BY KeyFacts
    <2>2. /\ Cleaned(t, d) \in [Keys -> Times \union {Absent}]
          /\ \A k \in Keys : Cleaned(t, d)[k] = expiring[k] \/ Cleaned(t, d)[k] = Absent
      BY CleanedFacts
    <2>3. PICK e \in Times \union {Absent} :
            /\ expiring' = [Cleaned(t, d) EXCEPT ![k0] = e]
            /\ \/ e = Absent /\ permanent' = permanent \union {k0}
               \/ permanent' = permanent \ {k0}
            /\ clock' = clock /\ visibility' = visibility
      BY <1>3, GrantCases
    <2> HIDE DEF k0
    <2>4. TypeOK'
      BY <2>1, <2>2, <2>3 DEF TypeOK
    <2>5. Exclusive'
      BY <2>1, <2>2, <2>3 DEF TypeOK, Exclusive
    <2> QED BY <2>4, <2>5
  <1>4. ASSUME NEW t \in Tenants, NEW d \in Docs, NEW u \in Users, Revoke(t, d, u)
        PROVE  IInv'
    BY <1>4, KeyFacts DEF Revoke, TypeOK, Exclusive
  <1>5. ASSUME NEW t \in Tenants, NEW u \in Users, RevokeAllUser(t, u)
        PROVE  IInv'
    BY <1>5 DEF RevokeAllUser, TypeOK, Exclusive
  <1>6. CASE UNCHANGED vars
    BY <1>6 DEF vars, TypeOK, Exclusive
  <1> QED BY <1>1, <1>2, <1>3, <1>4, <1>5, <1>6 DEF Next

LEMMA SpecIInv == Spec => []IInv
  BY InitIInv, NextIInv, PTL DEF Spec

(* The maps of the store keep their types through every operation. *)
THEOREM TypeCorrect == Spec => []TypeOK
  BY SpecIInv, PTL DEF IInv

(* No user ever has a permanent and an expiring record for one document. *)
THEOREM ExclusiveHolds == Spec => []Exclusive
  BY SpecIInv, PTL DEF IInv

----
(* What the mapping reads off a state. *)
LEMMA LiveFacts ==
  ASSUME TypeOK, NEW k \in Keys
  PROVE  /\ k \in permanent => liveBar[k] = Forever
         /\ k \notin permanent /\ expiring[k] # Absent /\ clock < expiring[k]
              => liveBar[k] = expiring[k]
         /\ k \notin permanent /\ ~(expiring[k] # Absent /\ clock < expiring[k])
              => liveBar[k] = NoGrant
         /\ liveBar[k] # NoGrant <=>
              k \in permanent \/ (expiring[k] # Absent /\ clock < expiring[k])
  BY StoreAssumption DEF liveBar, TypeOK, Times

(* CheckBatch and ListGrants answer exactly what the promise says, for     *)
(* every set of tenants, users and documents.                              *)
THEOREM AnswersExact == Spec => []AnswersAreExact
  <1>1. IInv => AnswersAreExact
    <2> SUFFICES ASSUME IInv, NEW t \in Tenants, NEW u \in Users
                 PROVE  /\ CheckBatch(t, u, Docs, clock) = {d \in Docs : A!Allowed(t, u, d)}
                        /\ ListGrants(t, u, clock) = {d \in Docs : liveBar[<<t, d, u>>] # NoGrant}
      BY DEF AnswersAreExact
    <2>1. \A d \in Docs : liveBar[<<t, d, u>>] # NoGrant <=>
            <<t, d, u>> \in permanent \/ hasExpiringGrantLocked(t, d, u, clock)
      BY KeyFacts, LiveFacts DEF IInv, hasExpiringGrantLocked
    <2>2. \A d \in Docs : visibilityOfLocked(t, d) = "public" <=> <<t, d>> \notin restrictedBar
      BY KeyFacts, StoreAssumption DEF IInv, TypeOK, visibilityOfLocked, restrictedBar
    <2> QED BY <2>1, <2>2 DEF CheckBatch, ListGrants, A!Allowed
  <1> QED BY <1>1, SpecIInv, PTL

(* The initial state maps to the initial state of the promise. *)
LEMMA InitRefines == Init => A!Init
  <1> SUFFICES ASSUME Init PROVE A!Init
    OBVIOUS
  <1>1. restrictedBar = {}
    BY StoreAssumption DEF Init, restrictedBar
  <1>2. liveBar = [k \in Keys |-> NoGrant]
    BY DEF Init, liveBar
  <1> QED BY <1>1, <1>2 DEF Init, A!Init, A!Keys, Keys

(* The parts of a step that leave visibilities or grants alone. *)
LEMMA SameRestricted == visibility' = visibility => restrictedBar' = restrictedBar
  BY DEF restrictedBar

LEMMA SameLive ==
  clock' = clock /\ permanent' = permanent /\ expiring' = expiring => liveBar' = liveBar
  BY DEF liveBar

(* A grant, with the cleanup it does, changes the grant in force of its    *)
(* own key and of no other.                                                *)
LEMMA GrantRefines ==
  ASSUME IInv, IInv', NEW t \in Tenants, NEW d \in Docs, NEW u \in Users,
         NEW from \in Times, NEW to \in Times \union {Forever},
         Grant(t, d, u, from, to)
  PROVE  A!Grant(t, d, u, to)
  <1> DEFINE k0 == <<t, d, u>>
  <1>1. k0 \in Keys
    BY KeyFacts
  <1>2. /\ Cleaned(t, d) \in [Keys -> Times \union {Absent}]
        /\ \A k \in Keys : \/ Cleaned(t, d)[k] = expiring[k]
                           \/ /\ Cleaned(t, d)[k] = Absent
                              /\ expiring[k] # Absent
                              /\ expiring[k] < clock
    BY CleanedFacts DEF IInv
  <1>3. /\ clock' = clock /\ visibility' = visibility
        /\ to = Forever => /\ permanent' = permanent \union {k0}
                           /\ expiring' = [Cleaned(t, d) EXCEPT ![k0] = Absent]
        /\ to # Forever => /\ to \in Times
                           /\ permanent' = permanent \ {k0}
                           /\ expiring' = [Cleaned(t, d) EXCEPT ![k0] = to]
    BY GrantCases
  <1> HIDE DEF k0
  <1>4. ASSUME NEW k \in Keys, k # k0 PROVE liveBar'[k] = liveBar[k]
    <2>1. /\ k \in permanent' <=> k \in permanent
          /\ expiring'[k] = Cleaned(t, d)[k]
      BY <1>1, <1>2, <1>3, <1>4
    <2>2. CASE Cleaned(t, d)[k] = expiring[k]
      BY <1>3, <2>1, <2>2 DEF liveBar
    <2>3. CASE Cleaned(t, d)[k] # expiring[k]
      <3>1. expiring'[k] = Absent /\ expiring[k] # Absent /\ ~(clock < expiring[k])
        BY <1>2, <2>1, <2>3, StoreAssumption DEF IInv, TypeOK, Times
      <3> QED BY <1>3, <2>1, <3>1 DEF liveBar
    <2> QED BY <2>2, <2>3
  <1>5. liveBar'[k0] = A!InForce(to, clock)
    <2>1. CASE to = Forever
      BY <1>1, <1>2, <1>3, <2>1 DEF liveBar, A!InForce
    <2>2. CASE to # Forever
      <3>1. k0 \notin permanent' /\ expiring'[k0] = to /\ to # Absent /\ to \in Int /\ to # NoGrant
        BY <1>1, <1>2, <1>3, <2>2, StoreAssumption DEF Times
      <3>2. clock \in Int
        BY StoreAssumption DEF IInv, TypeOK
      <3>3. liveBar'[k0] = IF clock < to THEN to ELSE NoGrant
        BY <1>1, <1>3, <3>1 DEF liveBar
      <3> QED BY <2>2, <3>1, <3>2, <3>3 DEF A!InForce
    <2> QED BY <2>1, <2>2
  <1>6. liveBar' = [liveBar EXCEPT ![k0] = A!InForce(to, clock)]
    <2>1. liveBar = [k \in Keys |-> liveBar[k]] /\ liveBar' = [k \in Keys |-> liveBar'[k]]
      BY DEF liveBar
    <2> QED BY <1>1, <1>4, <1>5, <2>1
  <1> QED BY <1>3, <1>6, SameRestricted DEF A!Grant, k0

LEMMA TickRefines ==
  ASSUME IInv, Tick
  PROVE  A!Tick
  <1>1. clock \in Int /\ clock' = clock + 1 /\ permanent' = permanent /\ expiring' = expiring
    BY StoreAssumption DEF Tick, IInv, TypeOK
  <1>2. ASSUME NEW k \in Keys PROVE liveBar'[k] = A!InForce(liveBar[k], clock + 1)
    <2>1. CASE k \in permanent
      BY <1>1, <2>1 DEF liveBar, A!InForce
    <2>2. CASE k \notin permanent /\ expiring[k] = Absent
      BY <1>1, <2>2 DEF liveBar, A!InForce
    <2>3. CASE k \notin permanent /\ expiring[k] # Absent
      <3>1. expiring[k] \in Int /\ expiring[k] # Forever /\ expiring[k] # NoGrant
        BY <2>3, StoreAssumption DEF IInv, TypeOK, Times
      <3> QED BY <1>1, <2>3, <3>1 DEF liveBar, A!InForce
    <2> QED BY <2>1, <2>2, <2>3
  <1>3. liveBar' = [k \in Keys |-> A!InForce(liveBar[k], clock + 1)]
    <2>1. liveBar' = [k \in Keys |-> liveBar'[k]]
      BY DEF liveBar
    <2> QED BY <1>2, <2>1
  <1> QED BY <1>3, SameRestricted DEF Tick, A!Tick, A!Keys, Keys

LEMMA RevokeRefines ==
  ASSUME IInv, NEW t \in Tenants, NEW d \in Docs, NEW u \in Users, Revoke(t, d, u)
  PROVE  A!Revoke(t, d, u)
  <1> DEFINE k0 == <<t, d, u>>
  <1>1. k0 \in Keys
    BY KeyFacts
  <1>2. /\ clock' = clock /\ visibility' = visibility
        /\ permanent' = permanent \ {k0}
        /\ expiring' = [expiring EXCEPT ![k0] = Absent]
        /\ expiring \in [Keys -> Times \union {Absent}]
    BY DEF Revoke, IInv, TypeOK
  <1> HIDE DEF k0
  <1>3. liveBar' = [liveBar EXCEPT ![k0] = NoGrant]
    BY <1>1, <1>2 DEF liveBar
  <1> QED BY <1>2, <1>3, SameRestricted DEF A!Revoke, k0

LEMMA RevokeAllRefines ==
  ASSUME IInv, NEW t \in Tenants, NEW u \in Users, RevokeAllUser(t, u)
  PROVE  A!RevokeAllUser(t, u)
  <1>1. liveBar' = [k \in Keys |-> IF k[1] = t /\ k[3] = u THEN NoGrant ELSE liveBar[k]]
    BY DEF RevokeAllUser, liveBar, IInv, TypeOK
  <1> QED BY <1>1, SameRestricted DEF RevokeAllUser, A!RevokeAllUser, A!Keys, Keys

LEMMA VisibilityRefines ==
  ASSUME IInv, NEW t \in Tenants, NEW d \in Docs, NEW v \in {"public", "restricted"},
         SetVisibility(t, d, v)
  PROVE  A!SetVisibility(t, d, v)
  <1>1. /\ visibility \in [Tenants \X Docs -> {Absent, "public", "restricted"}]
        /\ visibility' = [visibility EXCEPT ![<<t, d>>] = v]
        /\ <<t, d>> \in Tenants \X Docs
    BY KeyFacts DEF SetVisibility, IInv, TypeOK
  <1>2. restrictedBar' = IF v = "restricted" THEN restrictedBar \union {<<t, d>>}
                                             ELSE restrictedBar \ {<<t, d>>}
    <2> DEFINE td0 == <<t, d>>
    <2> HIDE DEF td0
    <2>1. /\ visibility' = [visibility EXCEPT ![td0] = v] /\ td0 \in Tenants \X Docs
      BY <1>1 DEF td0
    <2>2. restrictedBar' = IF v = "restricted" THEN restrictedBar \union {td0}
                                               ELSE restrictedBar \ {td0}
      BY <1>1, <2>1 DEF restrictedBar
    <2> QED BY <2>2 DEF td0
  <1> QED BY <1>2, SameLive DEF SetVisibility, A!SetVisibility

(* The in-memory store implements the promise of the Store interface: each *)
(* of its steps, cleanups included, is a step of AclStore or changes       *)
(* nothing a caller can see.                                               *)
THEOREM Implementation == Spec => ImplementsAclStore
  <1>1. IInv /\ IInv' /\ [Next]_vars => [A!Next]_(A!vars)
    <2> SUFFICES ASSUME IInv, IInv', [Next]_vars PROVE [A!Next]_(A!vars)
      OBVIOUS
    <2>1. CASE Tick
      BY <2>1, TickRefines DEF A!Next
    <2>2. ASSUME NEW t \in Tenants, NEW d \in Docs, NEW v \in {"public", "restricted"},
                 SetVisibility(t, d, v)
          PROVE  A!Next
      BY <2>2, VisibilityRefines DEF A!Next
    <2>3. ASSUME NEW t \in Tenants, NEW d \in Docs, NEW u \in Users,
                 NEW from \in Times, NEW to \in Times \union {Forever},
                 Grant(t, d, u, from, to)
          PROVE  A!Next
      BY <2>3, GrantRefines DEF A!Next, A!Times, Times
    <2>4. ASSUME NEW t \in Tenants, NEW d \in Docs, NEW u \in Users, Revoke(t, d, u)
          PROVE  A!Next
      BY <2>4, RevokeRefines DEF A!Next
    <2>5. ASSUME NEW t \in Tenants, NEW u \in Users, RevokeAllUser(t, u)
          PROVE  A!Next
      BY <2>5, RevokeAllRefines DEF A!Next
    <2>6. CASE UNCHANGED vars
      BY <2>6, SameRestricted, SameLive DEF vars, A!vars
    <2> QED BY <2>1, <2>2, <2>3, <2>4, <2>5, <2>6 DEF Next
  <1> QED BY <1>1, InitRefines, SpecIInv, PTL DEF Spec, ImplementsAclStore, A!Spec

====
