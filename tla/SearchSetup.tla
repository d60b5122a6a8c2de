---- MODULE SearchSetup ----
(***************************************************************************)
(* The start of the admin service: NewService pings Redis and sets up the  *)
(* search index, NewSearchService builds the three Milvus collections that *)
(* are missing, call by call.  Every call may fail, before its effect or   *)
(* after it, and an instance may be killed between two calls; instances    *)
(* may start at the same time, as when one replaces another.               *)
(***************************************************************************)
EXTENDS Integers, Sequences

CONSTANT Instances

(* In the order of initCollections. *)
Collections == <<"users_hot", "docs_hot", "docs_cold">>
Names == {Collections[n] : n \in 1..Len(Collections)}

(* How far a collection is built, in the order of createHotCollection and  *)
(* createColdCollection.                                                   *)
Absent == 0
Created == 1
Indexed == 2
Loaded == 3
MilvusCalls == {"connect", "has", "create", "index", "load"}

VARIABLES
    made,     \* Milvus: how far each collection is built
    at,       \* each instance: the call it is in, and for which collection
    search,   \* instances whose Service.search is not nil
    (* History. *)
    broken    \* collections that an instance gave up half way

setupVars == <<made, at, search, broken>>

SetupInit ==
    /\ made = [c \in Names |-> Absent]
    /\ at = [i \in Instances |-> [pc |-> "down", n |-> 1]]
    /\ search = {}
    /\ broken = {}

Current(i) == Collections[at[i].n]
Goto(i, pc) == at' = [at EXCEPT ![i].pc = pc]

Begin(i) ==
    /\ at[i].pc = "down"
    /\ at' = [at EXCEPT ![i] = [pc |-> "ping", n |-> 1]]
    /\ UNCHANGED <<made, search, broken>>

(* NewService: without Redis the service does not start; with an address   *)
(* of Milvus it sets up the search, else it serves without.                *)
Ping(i) ==
    /\ at[i].pc = "ping"
    /\ \E next \in {"down", "connect", "serving"} : Goto(i, next)
    /\ UNCHANGED <<made, search, broken>>

(* What the call of an instance does to Milvus.  Nothing built is undone;  *)
(* whether Milvus refuses to create a collection that exists is left open. *)
Reached(i) == CASE at[i].pc = "create" -> Created
                [] at[i].pc = "index"  -> Indexed
                [] at[i].pc = "load"   -> Loaded
                [] OTHER               -> Absent

Effect(i) ==
    [made EXCEPT ![Current(i)] = IF @ < Reached(i) THEN Reached(i) ELSE @]

(* The next collection, or the search service is complete. *)
OnToNext(i) ==
    IF at[i].n < Len(Collections)
      THEN at' = [at EXCEPT ![i] = [pc |-> "has", n |-> at[i].n + 1]] /\ UNCHANGED search
      ELSE Goto(i, "serving") /\ search' = search \union {i}

(* Plausible bug: an indexed collection is not loaded. *)
AfterWithoutLoad(i) ==
    CASE at[i].pc = "connect" -> Goto(i, "has") /\ UNCHANGED search
      [] at[i].pc = "has"     -> IF made[Current(i)] # Absent THEN OnToNext(i)
                                 ELSE Goto(i, "create") /\ UNCHANGED search
      [] at[i].pc = "create"  -> Goto(i, "index") /\ UNCHANGED search
      [] at[i].pc = "index"   -> OnToNext(i)

(* createHotCollection, createColdCollection: whatever exists is taken as  *)
(* it is.                                                                  *)
After(i) ==
    CASE at[i].pc = "connect" -> Goto(i, "has") /\ UNCHANGED search
      [] at[i].pc = "has"     -> IF made[Current(i)] # Absent THEN OnToNext(i)
                                 ELSE Goto(i, "create") /\ UNCHANGED search
      [] at[i].pc = "create"  -> Goto(i, "index") /\ UNCHANGED search
      [] at[i].pc = "index"   -> Goto(i, "load") /\ UNCHANGED search
      [] at[i].pc = "load"    -> OnToNext(i)

Answered(i) ==
    /\ at[i].pc \in MilvusCalls
    /\ made' = Effect(i)
    /\ After(i)
    /\ UNCHANGED broken

(* The instance is building the collection. *)
Building(i, c) == at[i].pc \in {"index", "load"} /\ Current(i) = c

(* What is left half built when the instance goes no further. *)
GivenUp(i, m, begun) ==
    {c \in Names : (begun \/ Building(i, c)) /\ c = Current(i) /\ m[c] \in {Created, Indexed}}

(* Plausible bug: the error of one collection does not end the setup. *)
SkipFailed(i) ==
    IF at[i].pc = "connect" THEN Goto(i, "serving") /\ UNCHANGED search ELSE OnToNext(i)

(* NewService: an error of the search setup is printed, and the service    *)
(* serves without search.                                                  *)
FallBack(i) == Goto(i, "serving") /\ UNCHANGED search

Failed(i) ==
    /\ at[i].pc \in MilvusCalls
    /\ \E done \in BOOLEAN :
         /\ made' = IF done THEN Effect(i) ELSE made
         /\ broken' = broken \union GivenUp(i, made', done /\ at[i].pc = "create")
    /\ FallBack(i)

(* The process is killed, also between two calls, or is stopped. *)
Kill(i) ==
    /\ at[i].pc # "down"
    /\ Goto(i, "down")
    /\ search' = search \ {i}
    /\ broken' = broken \union GivenUp(i, made, FALSE)
    /\ UNCHANGED made

SetupNext == \E i \in Instances : Begin(i) \/ Ping(i) \/ Answered(i) \/ Failed(i) \/ Kill(i)

(* No fairness: the calls of Milvus have no deadline, and one of them may  *)
(* stay without an answer for ever.                                        *)
SetupSpec == SetupInit /\ [][SetupNext]_setupVars

----
SetupTypeOK ==
    /\ made \in [Names -> {Absent, Created, Indexed, Loaded}]
    /\ at \in [Instances -> [pc : {"down", "ping", "serving"} \union MilvusCalls,
                             n : 1..Len(Collections)]]
    /\ search \subseteq Instances
    /\ broken \subseteq Names

(* A collection without index or not loaded is one an instance is still at *)
(* work on, or has given up: no order in which instances start, fail and   *)
(* are killed leaves one half built otherwise.                             *)
HalfBuiltExplained ==
    \A c \in Names :
      made[c] \in {Created, Indexed} => c \in broken \/ \E i \in Instances : Building(i, c)

(* An instance that searches finds each collection it searches: an error   *)
(* for any of them turns the search off for the whole instance.            *)
SearchHasCollections == search # {} => \A c \in Names : made[c] # Absent

====
