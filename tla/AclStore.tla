---- MODULE AclStore ----
(***************************************************************************)
(* What a Store of the ACL service promises (store_interface.go): every    *)
(* operation takes effect at once, and at every moment a user sees a       *)
(* document when it is not restricted or when the last grant or revocation *)
(* of the pair was a grant that has not run out.  Only grants in force are *)
(* part of the state; a grant leaves it when the clock reaches its end.    *)
(***************************************************************************)
EXTENDS Integers

CONSTANTS
    Tenants, Docs, Users,
    NoGrant,   \* no grant in force
    Forever,   \* a permanent grant
    MaxTime    \* bound on the clock

Keys == Tenants \X Docs \X Users
Times == 0..(MaxTime + 1)

VARIABLES
    clock,       \* time.Now()
    restricted,  \* the documents, with their tenant, that are not public
    live         \* for each tenant, document and user the grant in force

vars == <<clock, restricted, live>>

(* A grant that ends at time e, seen at time now. *)
InForce(e, now) == IF e # Forever /\ e # NoGrant /\ e <= now THEN NoGrant ELSE e

Allowed(t, u, d) == <<t, d>> \notin restricted \/ live[<<t, d, u>>] # NoGrant

Init ==
    /\ clock = 0
    /\ restricted = {}
    /\ live = [k \in Keys |-> NoGrant]

Tick ==
    /\ clock < MaxTime
    /\ clock' = clock + 1
    /\ live' = [k \in Keys |-> InForce(live[k], clock + 1)]
    /\ UNCHANGED restricted

SetVisibility(t, d, v) ==
    /\ restricted' = IF v = "restricted" THEN restricted \union {<<t, d>>}
                                         ELSE restricted \ {<<t, d>>}
    /\ UNCHANGED <<clock, live>>

Grant(t, d, u, e) ==
    /\ live' = [live EXCEPT ![<<t, d, u>>] = InForce(e, clock)]
    /\ UNCHANGED <<clock, restricted>>

Revoke(t, d, u) ==
    /\ live' = [live EXCEPT ![<<t, d, u>>] = NoGrant]
    /\ UNCHANGED <<clock, restricted>>

RevokeAllUser(t, u) ==
    /\ live' = [k \in Keys |-> IF k[1] = t /\ k[3] = u THEN NoGrant ELSE live[k]]
    /\ UNCHANGED <<clock, restricted>>

Next ==
    \/ Tick
    \/ \E t \in Tenants, d \in Docs :
         \/ \E v \in {"public", "restricted"} : SetVisibility(t, d, v)
         \/ \E u \in Users :
              \/ \E e \in Times \union {Forever} : Grant(t, d, u, e)
              \/ Revoke(t, d, u)
    \/ \E t \in Tenants, u \in Users : RevokeAllUser(t, u)

Spec == Init /\ [][Next]_vars

====
