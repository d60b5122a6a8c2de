---- MODULE AclService ----
(***************************************************************************)
(* The HTTP handlers of the ACL service (biz/handler/acl.go) over the      *)
(* in-memory store, which is the store of a service started without a      *)
(* Redis address.  Requests are served at the same time, each by its own   *)
(* goroutine: parsing and the reading of the clock come first, then one or *)
(* two calls of the store, each atomic, then the answer.  The in-memory    *)
(* store returns no error except for a grant that ends before it starts,   *)
(* so the other error answers of the handlers cannot be reached here; what *)
(* the Redis store makes of them is in RedisStore.                         *)
(***************************************************************************)
EXTENDS InMemoryStore

CONSTANTS
    Reqs,        \* the requests that can be in progress at a time
    GivenTimes,  \* the times clients send
    None         \* the argument of no request

(* A parsed request: the pair it is about (for a whole user, any of the    *)
(* user's), the documents it asks for, the time it asks at and whether     *)
(* that is the service's own, and the end of the grant it makes.           *)
Requests ==
    [key : Keys, docs : SUBSET Docs, at : Times, own : BOOLEAN, to : Times \union {Forever}]

ASSUME ServiceAssumption == GivenTimes \subseteq Times /\ None \notin Requests

VARIABLES
    pc,      \* where each request is; the operations name the store call that is next
    arg,     \* what parsing made of each request
    answer,  \* the documents each answered check or listing named
    (* History. *)
    shown,   \* the documents an exact answer named at some moment of a reading request
    hidden,  \* those it left out at some moment
    ranOut,  \* those for which a grant already over was made during a reading request
    quiet    \* the pairs revoked with no grant request in progress then or since

store == <<clock, visibility, permanent, expiring>>
svars == <<clock, visibility, permanent, expiring, pc, arg, answer, shown, hidden, ranOut, quiet>>

Reading == {"check", "list"}
Granting == {"restrict", "grant"}
Revoking == {"revoke", "revokeAll"}

T(r) == arg[r].key[1]
D(r) == arg[r].key[2]
U(r) == arg[r].key[3]

ServiceInit ==
    /\ Init
    /\ pc = [r \in Reqs |-> "idle"]
    /\ arg = [r \in Reqs |-> None]
    /\ answer = [r \in Reqs |-> {}]
    /\ shown = [r \in Reqs |-> {}]
    /\ hidden = [r \in Reqs |-> {}]
    /\ ranOut = [r \in Reqs |-> {}]
    /\ quiet = {}

----
(* Parsing: a request that Bind, the uuid tests or time.Parse refuse gets  *)
(* its 400 before any call of the store; another has its time, given by    *)
(* the client or, by default, the clock at that moment.                    *)
Arrive(r, op, k, docs, at, own, to) ==
    /\ pc[r] = "idle"
    /\ pc' = [pc EXCEPT ![r] = op]
    /\ arg' = [arg EXCEPT ![r] = [key |-> k, docs |-> docs, at |-> at, own |-> own, to |-> to]]
    /\ UNCHANGED <<store, answer>>

BadRequest(r) ==
    /\ pc[r] = "idle"
    /\ pc' = [pc EXCEPT ![r] = "refused"]
    /\ UNCHANGED <<store, arg, answer>>

(* Plausible bug: the default time is the zero time. *)
ZeroTime == {<<0, TRUE>>} \union {<<t, FALSE>> : t \in GivenTimes}

RequestTime == {<<clock, TRUE>>} \union {<<t, FALSE>> : t \in GivenTimes}

Parse(r) ==
    \E k \in Keys :
      \/ \E op \in Reading, docs \in SUBSET Docs, at \in RequestTime :
           Arrive(r, op, k, IF op = "list" THEN Docs ELSE docs, at[1], at[2], Forever)
      \/ \E op \in Granting, at \in RequestTime, to \in Times \union {Forever} :
           Arrive(r, op, k, {}, at[1], at[2], to)
      \/ \E op \in Revoking : Arrive(r, op, k, {}, clock, TRUE, Forever)

----
Goto(r, to) == pc' = [pc EXCEPT ![r] = to] /\ arg' = arg

(* What the store answers a reading request, at time now. *)
Named(r, now) ==
    IF pc[r] = "check" THEN CheckBatch(T(r), U(r), arg[r].docs, now)
                       ELSE ListGrants(T(r), U(r), now)

(* ACLCheckBatch and ACLListGrants. *)
Read(r) ==
    /\ pc[r] \in Reading
    /\ answer' = [answer EXCEPT ![r] = Named(r, arg[r].at)]
    /\ Goto(r, "ok")
    /\ UNCHANGED store

(* Plausible bug: the option sets the visibility whatever its value. *)
RestrictToggles(r) ==
    /\ pc[r] = "restrict"
    /\ \E v \in {"public", "restricted"} : SetVisibility(T(r), D(r), v)
    /\ Goto(r, "grant")
    /\ UNCHANGED answer

(* The first call of ACLGrant, when the request says restricted.           *)
Restrict(r) ==
    /\ pc[r] = "restrict"
    /\ SetVisibility(T(r), D(r), "restricted")
    /\ Goto(r, "grant")
    /\ UNCHANGED answer

(* Plausible bug: the refusal comes after the record was written. *)
MakeGrantFirst(r) ==
    /\ pc[r] = "grant"
    /\ Grant(T(r), D(r), U(r), 0, arg[r].to)
    /\ Goto(r, IF arg[r].to # Forever /\ arg[r].to < arg[r].at THEN "refused" ELSE "ok")
    /\ UNCHANGED answer

(* The second: a grant that ends before it starts is a 400, after the      *)
(* document has been restricted.                                           *)
MakeGrant(r) ==
    /\ pc[r] = "grant"
    /\ \/ /\ Grant(T(r), D(r), U(r), arg[r].at, arg[r].to)
          /\ Goto(r, "ok")
       \/ /\ arg[r].to # Forever /\ arg[r].to < arg[r].at
          /\ Goto(r, "refused")
          /\ UNCHANGED store
    /\ UNCHANGED answer

(* Plausible bug: a revocation clears the permanent record only. *)
RemovePermanent(r) ==
    /\ pc[r] \in Revoking
    /\ permanent' = permanent \ {arg[r].key}
    /\ Goto(r, "ok")
    /\ UNCHANGED <<clock, visibility, expiring, answer>>

(* ACLRevoke and ACLRevokeAllUser. *)
Remove(r) ==
    /\ pc[r] \in Revoking
    /\ IF pc[r] = "revoke" THEN Revoke(T(r), D(r), U(r)) ELSE RevokeAllUser(T(r), U(r))
    /\ Goto(r, "ok")
    /\ UNCHANGED answer

(* The answer has left; the request's place is free. *)
Done(r) ==
    /\ pc[r] \in {"ok", "refused"}
    /\ pc' = [pc EXCEPT ![r] = "idle"]
    /\ arg' = [arg EXCEPT ![r] = None]
    /\ answer' = [answer EXCEPT ![r] = {}]
    /\ UNCHANGED store

----
(* The answer a reading request would get at this moment, at the service's *)
(* own clock.                                                              *)
Exact(r) == Named(r, clock)

RanOut(r) ==
    {d \in Docs : \E q \in Reqs :
        /\ pc[q] = "grant" /\ pc'[q] = "ok"
        /\ arg[q].key = <<T(r), d, U(r)>>
        /\ arg[q].to # Forever /\ arg[q].to <= clock}

RevokedBy(q, k) ==
    /\ pc'[q] = "ok"
    /\ \/ pc[q] = "revoke" /\ k = arg[q].key
       \/ pc[q] = "revokeAll" /\ k[1] = T(q) /\ k[3] = U(q)

GrantInProgress(k) == \E q \in Reqs : pc[q] \in Granting /\ arg[q].key = k

(* What a request has been going on for: at first what it meets, then what *)
(* every later step adds, and nothing when it is over.                     *)
Watched(r, past, seen) ==
    CASE pc'[r] \in Reading /\ pc[r] = pc'[r] -> past \union seen
      [] pc'[r] \in Reading /\ pc[r] # pc'[r] -> seen
      [] pc'[r] = "idle" -> {}
      [] OTHER -> past

Record ==
    /\ shown' = [r \in Reqs |-> Watched(r, shown[r], Exact(r)')]
    /\ hidden' = [r \in Reqs |-> Watched(r, hidden[r], arg'[r].docs \ Exact(r)')]
    /\ ranOut' = [r \in Reqs |->
                    IF pc[r] \in Reading THEN Watched(r, ranOut[r], RanOut(r))
                                         ELSE Watched(r, ranOut[r], {})]
    /\ quiet' = {k \in Keys : /\ k \in quiet \/ \E q \in Reqs : RevokedBy(q, k)
                              /\ ~ GrantInProgress(k)'}

ServiceNext ==
    /\ \/ Tick /\ UNCHANGED <<pc, arg, answer>>
       \/ \E r \in Reqs : \/ BadRequest(r) \/ Parse(r) \/ Done(r)
                          \/ Read(r) \/ Restrict(r) \/ MakeGrant(r) \/ Remove(r)
    /\ Record

ServiceSpec == ServiceInit /\ [][ServiceNext]_svars

----
ServiceTypeOK ==
    /\ TypeOK
    /\ pc \in [Reqs -> {"idle", "ok", "refused"} \union Reading \union Granting \union Revoking]
    /\ arg \in [Reqs -> Requests \union {None}]
    /\ \A r \in Reqs : pc[r] \in Reading \union Granting \union Revoking => arg[r] \in Requests
    /\ answer \in [Reqs -> SUBSET Docs]
    /\ shown \in [Reqs -> SUBSET Docs]
    /\ hidden \in [Reqs -> SUBSET Docs]
    /\ ranOut \in [Reqs -> SUBSET Docs]
    /\ quiet \subseteq Keys

(* A check or a listing reads the clock before it calls the store.  Still, *)
(* what it answers for the service's own time is not out of the past: a    *)
(* document it names was open, or granted, at some moment of the request,  *)
(* unless someone recorded a grant that was already over meanwhile, and    *)
(* one it leaves out was not at some moment of the request.                *)
AnsweredWithinRequest ==
    \A r \in Reqs : pc[r] = "ok" /\ arg[r].own =>
        /\ answer[r] \subseteq shown[r] \union ranOut[r]
        /\ (arg[r].docs \ answer[r]) \subseteq hidden[r]

(* Once a revocation has been made with no grant request of the pair in    *)
(* progress, the pair has no record until a new grant request arrives:     *)
(* the calls and cleanups of all other requests bring nothing back.        *)
RevokedUntilGranted == \A k \in quiet : k \notin permanent /\ expiring[k] = Absent

(* ACLGrant restricts first and grants second, in two calls.  Whatever     *)
(* comes of the second, requests never reopen a restricted document, and a *)
(* grant that will be answered 400 leaves every grant record as it was.    *)
OnlyCloses ==
    [][/\ \A td \in Tenants \X Docs : visibility[td] = "restricted" => visibility'[td] = "restricted"
       /\ \A r \in Reqs : pc[r] \in Granting /\ pc'[r] = "refused"
            => UNCHANGED <<permanent, expiring>>]_svars

====
