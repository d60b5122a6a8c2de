---- MODULE InMemoryStore ----
(***************************************************************************)
(* The in-memory store of inmemory_store.go.  Its nested maps are one      *)
(* level deep here: permanent is the set of (tenant, doc, user) with an    *)
(* entry, expiring maps each of them to its validTo or Absent, and the     *)
(* pruning of inner maps that become empty is layout.  Every operation     *)
(* holds the mutex from end to end and is one step.                        *)
(***************************************************************************)
EXTENDS Integers

CONSTANTS
    Tenants, Docs, Users,
    NoGrant, Forever,
    Absent,    \* no entry in a map
    MaxTime    \* bound on the clock

ASSUME StoreAssumption ==
    /\ MaxTime \in Nat
    /\ NoGrant \notin Int
    /\ Forever \notin Int
    /\ Absent \notin Int \union {"public", "restricted"}
    /\ NoGrant # Forever

Keys == Tenants \X Docs \X Users
Times == 0..(MaxTime + 1)

VARIABLES clock, visibility, permanent, expiring

vars == <<clock, visibility, permanent, expiring>>

Init ==
    /\ clock = 0
    /\ visibility = [td \in Tenants \X Docs |-> Absent]
    /\ permanent = {}
    /\ expiring = [k \in Keys |-> Absent]

Tick ==
    /\ clock < MaxTime
    /\ clock' = clock + 1
    /\ UNCHANGED <<visibility, permanent, expiring>>

SetVisibility(t, d, v) ==
    /\ visibility' = [visibility EXCEPT ![<<t, d>>] = v]
    /\ UNCHANGED <<clock, permanent, expiring>>

----
(* The entries of one document that the cleanup at the head of Grant       *)
(* deletes: expireTime.Before(now).                                        *)
Expired(k, t, d) ==
    k[1] = t /\ k[2] = d /\ expiring[k] # Absent /\ expiring[k] < clock

(* Plausible bugs in the cleanup. *)
CleanedOfEndingGrants(t, d) ==
    [k \in Keys |-> IF k[1] = t /\ k[2] = d /\ expiring[k] # Absent /\ expiring[k] <= clock + 1
                      THEN Absent ELSE expiring[k]]

Cleaned(t, d) == [k \in Keys |-> IF Expired(k, t, d) THEN Absent ELSE expiring[k]]

(* Plausible bug: the expiring record stays. *)
GrantPermanentOnly(t, d, u) ==
    /\ permanent' = permanent \union {<<t, d, u>>}
    /\ expiring' = Cleaned(t, d)

grantPermanentLocked(t, d, u) ==
    /\ permanent' = permanent \union {<<t, d, u>>}
    /\ expiring' = [Cleaned(t, d) EXCEPT ![<<t, d, u>>] = Absent]

grantExpiringLocked(t, d, u, validTo) ==
    /\ expiring' = [Cleaned(t, d) EXCEPT ![<<t, d, u>>] = validTo]
    /\ permanent' = permanent \ {<<t, d, u>>}

(* Plausible bug: no test for a nil validTo. *)
GrantIgnoringNil(t, d, u, validFrom, validTo) ==
    /\ validTo # Forever => validTo >= validFrom
    /\ grantExpiringLocked(t, d, u, validTo)
    /\ UNCHANGED <<clock, visibility>>

(* Grant.  validFrom is only compared with validTo; it delays nothing.     *)
Grant(t, d, u, validFrom, validTo) ==
    /\ validTo # Forever => validTo >= validFrom
    /\ IF validTo = Forever
         THEN grantPermanentLocked(t, d, u)
         ELSE grantExpiringLocked(t, d, u, validTo)
    /\ UNCHANGED <<clock, visibility>>

Revoke(t, d, u) ==
    /\ permanent' = permanent \ {<<t, d, u>>}
    /\ expiring' = [expiring EXCEPT ![<<t, d, u>>] = Absent]
    /\ UNCHANGED <<clock, visibility>>

RevokeAllUser(t, u) ==
    /\ permanent' = {k \in permanent : ~(k[1] = t /\ k[3] = u)}
    /\ expiring' = [k \in Keys |-> IF k[1] = t /\ k[3] = u THEN Absent ELSE expiring[k]]
    /\ UNCHANGED <<clock, visibility>>

Next ==
    \/ Tick
    \/ \E t \in Tenants, d \in Docs :
         \/ \E v \in {"public", "restricted"} : SetVisibility(t, d, v)
         \/ \E u \in Users :
              \/ \E from \in Times, to \in Times \union {Forever} : Grant(t, d, u, from, to)
              \/ Revoke(t, d, u)
    \/ \E t \in Tenants, u \in Users : RevokeAllUser(t, u)

Spec == Init /\ [][Next]_vars

----
(* The reading operations, at time now. *)

visibilityOfLocked(t, d) ==
    IF visibility[<<t, d>>] # Absent THEN visibility[<<t, d>>] ELSE "public"

(* Plausible bug: a grant still counts at its last instant. *)
HasExpiringInclusive(t, d, u, now) ==
    expiring[<<t, d, u>>] # Absent /\ now <= expiring[<<t, d, u>>]

hasExpiringGrantLocked(t, d, u, now) ==
    expiring[<<t, d, u>>] # Absent /\ now < expiring[<<t, d, u>>]

ListGrants(t, u, now) ==
    {d \in Docs : <<t, d, u>> \in permanent \/ hasExpiringGrantLocked(t, d, u, now)}

CheckBatch(t, u, docIDs, now) ==
    {d \in docIDs : \/ visibilityOfLocked(t, d) = "public"
                    \/ <<t, d, u>> \in permanent
                    \/ hasExpiringGrantLocked(t, d, u, now)}

----
(* The promise of the Store interface, with the grants in force read off   *)
(* the two maps.                                                           *)
restrictedBar == {td \in Tenants \X Docs : visibility[td] = "restricted"}

liveBar ==
    [k \in Keys |-> IF k \in permanent THEN Forever
                    ELSE IF expiring[k] # Absent /\ clock < expiring[k] THEN expiring[k]
                    ELSE NoGrant]

A == INSTANCE AclStore WITH restricted <- restrictedBar, live <- liveBar

TypeOK ==
    /\ clock \in 0..MaxTime
    /\ visibility \in [Tenants \X Docs -> {Absent, "public", "restricted"}]
    /\ permanent \in SUBSET Keys
    /\ expiring \in [Keys -> Times \union {Absent}]

(* A user never has a permanent and an expiring record for one document:   *)
(* whichever grant came last is the one that counts, so a grant with an    *)
(* end is not shadowed by an earlier permanent one.  Holds through every   *)
(* order of grants, revocations and cleanups.                              *)
Exclusive == \A k \in permanent : expiring[k] = Absent

(* Every operation, cleanup of expired records and passage of time is, for *)
(* the grants in force, exactly what the interface promises.               *)
ImplementsAclStore == A!Spec

(* The answers of CheckBatch and ListGrants are those of the promise: a    *)
(* batch is its documents one by one, and the list is the documents with a *)
(* grant in force, public or not.                                          *)
AnswersAreExact ==
    \A t \in Tenants, u \in Users :
      /\ CheckBatch(t, u, Docs, clock) = {d \in Docs : A!Allowed(t, u, d)}
      /\ ListGrants(t, u, clock) = {d \in Docs : liveBar[<<t, d, u>>] # NoGrant}

====
