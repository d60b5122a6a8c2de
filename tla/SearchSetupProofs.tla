---- MODULE SearchSetupProofs ----
(***************************************************************************)
(* Proofs about SearchSetup, for any number of instances.                  *)
(***************************************************************************)
EXTENDS SearchSetup, TLAPS

(* What an instance knows of the collections: those before its current one *)
(* exist, and its current one is as far as its next call needs.            *)
Known(i) ==
    /\ at[i].pc \in {"ping", "connect"} => at[i].n = 1
    /\ at[i].pc \in {"has", "create", "index", "load"} =>
         \A n \in 1..3 : n < at[i].n => made[Collections[n]] # Absent
    /\ at[i].pc = "index" => made[Current(i)] # Absent
    /\ at[i].pc = "load" => made[Current(i)] \in {Indexed, Loaded}
    /\ i \in search => \A n \in 1..3 : made[Collections[n]] # Absent

SInv ==
    /\ SetupTypeOK
    /\ \A i \in Instances : Known(i)
    /\ HalfBuiltExplained

LEMMA ThreeCollections ==
    /\ Len(Collections) = 3
    /\ Names = {Collections[1], Collections[2], Collections[3]}
    /\ \A n \in 1..3 : Collections[n] \in Names
    /\ \A m, n \in 1..3 : Collections[m] = Collections[n] => m = n
  <1>1. Len(Collections) = 3
    BY DEF Collections
  <1>2. Collections[1] = "users_hot" /\ Collections[2] = "docs_hot" /\ Collections[3] = "docs_cold"
    BY DEF Collections
  <1>3. 1..3 = {1, 2, 3}
    OBVIOUS
  <1> QED BY <1>1, <1>2, <1>3 DEF Names

LEMMA InitSInv == SetupInit => SInv
  BY ThreeCollections
  DEF SetupInit, SInv, SetupTypeOK, Known, HalfBuiltExplained, Absent, Created, Indexed, Loaded, MilvusCalls

(* A call builds on, never back, and only its own collection.              *)
Grown ==
    /\ made' \in [Names -> {Absent, Created, Indexed, Loaded}]
    /\ \A c \in Names : made[c] <= made'[c]

LEMMA CurrentIsName ==
  ASSUME SetupTypeOK, NEW i \in Instances
  PROVE  /\ at[i].n \in 1..3 /\ Current(i) \in Names
         /\ made[Current(i)] \in {Absent, Created, Indexed, Loaded}
  BY ThreeCollections DEF SetupTypeOK, Current

LEMMA ReachedAt ==
  ASSUME NEW i \in Instances
  PROVE  /\ at[i].pc = "create" => Reached(i) = Created
         /\ at[i].pc = "index" => Reached(i) = Indexed
         /\ at[i].pc = "load" => Reached(i) = Loaded
         /\ at[i].pc \in {"connect", "has"} => Reached(i) = Absent
  BY DEF Reached

LEMMA EffectGrows ==
  ASSUME SetupTypeOK, NEW i \in Instances, made' = Effect(i)
  PROVE  /\ Grown
         /\ Reached(i) <= made'[Current(i)]
         /\ \A c \in Names : made'[c] = made[c] \/ (c = Current(i) /\ made'[c] = Reached(i))
  <1>1. Reached(i) \in {Absent, Created, Indexed, Loaded}
    BY DEF Reached
  <1>2. Current(i) \in Names /\ made \in [Names -> {Absent, Created, Indexed, Loaded}]
    BY CurrentIsName DEF SetupTypeOK
  <1> DEFINE c0 == Current(i)
             r == Reached(i)
  <1>3. made' = [made EXCEPT ![c0] = IF made[c0] < r THEN r ELSE made[c0]]
    BY DEF Effect
  <1> HIDE DEF c0, r
  <1>4. c0 \in Names /\ r \in {Absent, Created, Indexed, Loaded}
    BY <1>1, <1>2 DEF c0, r
  <1>5. /\ made' \in [Names -> {Absent, Created, Indexed, Loaded}]
        /\ \A c \in Names : made[c] <= made'[c]
        /\ r <= made'[c0]
        /\ \A c \in Names : made'[c] = made[c] \/ (c = c0 /\ made'[c] = r)
    BY <1>2, <1>3, <1>4 DEF Absent, Created, Indexed, Loaded
  <1> QED BY <1>5 DEF Grown, c0, r

(* What an instance that does not move knows stays true.                   *)
LEMMA OthersKnow ==
  ASSUME SetupTypeOK, Grown, NEW j \in Instances, Known(j),
         at'[j] = at[j], j \in search' => j \in search
  PROVE  Known(j)'
  <1>1. Current(j)' = Current(j) /\ Current(j) \in Names
    BY CurrentIsName DEF Current
  <1>2. \A c \in Names : /\ made[c] # Absent => made'[c] # Absent
                         /\ made[c] \in {Indexed, Loaded} => made'[c] \in {Indexed, Loaded}
    BY DEF Grown, SetupTypeOK, Absent, Created, Indexed, Loaded
  <1>3. \A n \in 1..3 : made[Collections[n]] # Absent => made'[Collections[n]] # Absent
    BY <1>2, ThreeCollections
  <1> QED BY <1>1, <1>2, <1>3 DEF Known

(* The collections that become or stay half built keep their explanation,  *)
(* if the instance that moves still builds its own or has given it up.     *)
LEMMA StillExplained ==
  ASSUME HalfBuiltExplained, NEW i \in Instances,
         \A j \in Instances : j # i => at'[j] = at[j],
         broken \subseteq broken',
         \A c \in Names : made'[c] = made[c] \/ c = Current(i),
         \A c \in Names : c = Current(i) /\ made'[c] \in {Created, Indexed} =>
            \/ c \in broken' \/ Building(i, c)'
            \/ made'[c] = made[c] /\ ~Building(i, c)
  PROVE  HalfBuiltExplained'
  <1> SUFFICES ASSUME NEW c \in Names, made'[c] \in {Created, Indexed}
               PROVE  c \in broken' \/ \E j \in Instances : Building(j, c)'
    BY DEF HalfBuiltExplained
  <1>1. CASE c \in broken' \/ Building(i, c)'
    BY <1>1
  <1>2. CASE ~(c \in broken' \/ Building(i, c)')
    <2>1. made'[c] = made[c] /\ ~Building(i, c)
      BY <1>2 DEF Building
    <2>2. PICK j \in Instances : Building(j, c)
      BY <1>2, <2>1 DEF HalfBuiltExplained
    <2>3. j # i /\ Building(j, c)'
      BY <2>1, <2>2 DEF Building, Current
    <2> QED BY <2>3
  <1> QED BY <1>1, <1>2

(* A step that only moves an instance that builds nothing. *)
LEMMA Elsewhere ==
  ASSUME SInv, NEW i \in Instances, UNCHANGED <<made, broken>>,
         NEW r \in [pc : {"down", "ping", "serving"} \union MilvusCalls, n : 1..3],
         at' = [at EXCEPT ![i] = r], search' \subseteq Instances,
         \A j \in Instances : j # i => (j \in search' => j \in search),
         ~Building(i, Current(i)), Known(i)'
  PROVE  SInv'
  <1>1. SetupTypeOK'
    BY ThreeCollections DEF SInv, SetupTypeOK
  <1>2. Grown
    BY DEF Grown, SInv, SetupTypeOK, Absent, Created, Indexed, Loaded
  <1>3. \A j \in Instances : j # i => at'[j] = at[j]
    BY DEF SInv, SetupTypeOK
  <1>4. \A j \in Instances : Known(j)'
    BY <1>2, <1>3, OthersKnow DEF SInv
  <1>5. HalfBuiltExplained'
    BY <1>3, StillExplained DEF SInv
  <1> QED BY <1>1, <1>4, <1>5 DEF SInv

LEMMA AnsweredSInv == ASSUME SInv, NEW i \in Instances, Answered(i) PROVE SInv'
  <1> DEFINE c0 == Current(i)
             n0 == at[i].n
  <1>0. /\ SetupTypeOK /\ Known(i) /\ HalfBuiltExplained
        /\ at[i].pc \in MilvusCalls /\ made' = Effect(i) /\ After(i) /\ broken' = broken
        /\ n0 \in 1..3 /\ c0 \in Names /\ c0 = Collections[n0]
    BY CurrentIsName DEF SInv, Answered, Current
  <1>1. /\ Grown
        /\ Reached(i) <= made'[c0]
        /\ \A c \in Names : made'[c] = made[c] \/ (c = c0 /\ made'[c] = Reached(i))
    BY <1>0, EffectGrows
  <1>2. made[c0] \in {Absent, Created, Indexed, Loaded} /\ made'[c0] \in {Absent, Created, Indexed, Loaded}
    BY <1>0, <1>1 DEF SetupTypeOK, Grown
  <1>3. \A n \in 1..3 : made[Collections[n]] # Absent => made'[Collections[n]] # Absent
    BY <1>0, <1>1, ThreeCollections DEF Grown, SetupTypeOK, Absent, Created, Indexed, Loaded
  <1>4. CASE at[i].pc \in {"connect", "create", "index"} \/ (at[i].pc = "has" /\ made[c0] = Absent)
    <2>1. PICK pc \in {"has", "create", "index", "load"} :
            /\ at' = [at EXCEPT ![i].pc = pc] /\ search' = search
            /\ at[i].pc = "connect" => pc = "has"
            /\ at[i].pc = "has" => pc = "create"
            /\ at[i].pc = "create" => pc = "index"
            /\ at[i].pc = "index" => pc = "load"
      BY <1>0, <1>4 DEF After, Goto
    <2>2. /\ at'[i].pc = pc /\ at'[i].n = n0
          /\ \A j \in Instances : j # i => at'[j] = at[j]
          /\ at' \in [Instances -> [pc : {"down", "ping", "serving"} \union MilvusCalls,
                                    n : 1..Len(Collections)]]
      BY <1>0, <2>1 DEF SetupTypeOK, MilvusCalls
    <2>3. SetupTypeOK'
      BY <1>0, <1>1, <2>1, <2>2 DEF SetupTypeOK, Grown
    <2>4. Known(i)'
      <3>1. \A n \in 1..3 : n < n0 => made'[Collections[n]] # Absent
        <4>1. CASE at[i].pc = "connect"
          <5>1. n0 = 1
            BY <1>0, <4>1 DEF Known
          <5> QED BY <5>1
        <4>2. CASE at[i].pc \in {"has", "create", "index"}
          BY <1>0, <1>3, <4>2 DEF Known
        <4> QED BY <1>4, <4>1, <4>2
      <3>2. pc = "index" => made'[c0] # Absent
        BY <1>0, <1>1, <1>2, <1>4, <2>1, ReachedAt DEF Absent, Created, Indexed, Loaded
      <3>3. pc = "load" => made'[c0] \in {Indexed, Loaded}
        BY <1>0, <1>1, <1>2, <1>4, <2>1, ReachedAt DEF Absent, Created, Indexed, Loaded
      <3>4. i \in search => \A n \in 1..3 : made'[Collections[n]] # Absent
        BY <1>0, <1>3 DEF Known
      <3>5. Current(i)' = c0
        BY <2>2 DEF Current
      <3> QED BY <2>1, <2>2, <3>1, <3>2, <3>3, <3>4, <3>5 DEF Known
    <2>5. \A j \in Instances : Known(j)'
      BY <1>0, <1>1, <2>1, <2>2, <2>4, OthersKnow DEF SInv
    <2>6. HalfBuiltExplained'
      <3>1. at[i].pc \in {"create", "index"} => at'[i].pc \in {"index", "load"} /\ Current(i)' = Current(i)
        BY <2>1, <2>2 DEF Current
      <3>4. at[i].pc \in {"connect", "has"} => made'[c0] = made[c0] /\ ~Building(i, c0)
        BY <1>0, <1>1, <1>2, ReachedAt DEF Grown, Building, Absent, Created, Indexed, Loaded
      <3>2. /\ \A j \in Instances : j # i => at'[j] = at[j]
            /\ broken \subseteq broken'
            /\ \A c \in Names : made'[c] = made[c] \/ c = Current(i)
        BY <1>0, <1>1, <2>2
      <3>3. \A c \in Names : c = Current(i) =>
              c \in broken' \/ Building(i, c)' \/ (made'[c] = made[c] /\ ~Building(i, c))
        BY <1>4, <3>1, <3>4 DEF Building
      <3> QED BY <1>0, <3>2, <3>3, StillExplained
    <2> QED BY <2>3, <2>5, <2>6 DEF SInv
  <1>5. CASE at[i].pc = "load" \/ (at[i].pc = "has" /\ made[c0] # Absent)
    <2>1. OnToNext(i)
      BY <1>0, <1>5 DEF After
    <2>2. made'[c0] # Absent
      BY <1>0, <1>1, <1>2, <1>5 DEF Known, Grown, Absent, Created, Indexed, Loaded
    <2>3. \A n \in 1..3 : n <= n0 => made'[Collections[n]] # Absent
      BY <1>0, <1>3, <1>5, <2>2 DEF Known
    <2>4. PICK r \in [pc : {"has", "serving"}, n : 1..3] :
            /\ at' = [at EXCEPT ![i] = r]
            /\ \/ r.pc = "has" /\ r.n = n0 + 1 /\ search' = search
               \/ r.pc = "serving" /\ n0 = 3 /\ search' = search \union {i}
      <3>1. CASE n0 < 3
        <4>1. at' = [at EXCEPT ![i] = [pc |-> "has", n |-> n0 + 1]] /\ search' = search
          BY <2>1, <3>1, ThreeCollections DEF OnToNext
        <4>2. [pc |-> "has", n |-> n0 + 1] \in [pc : {"has", "serving"}, n : 1..3]
          BY <1>0, <3>1
        <4> QED BY <4>1, <4>2
      <3>2. CASE n0 = 3
        <4>1. at' = [at EXCEPT ![i] = [pc |-> "serving", n |-> n0]] /\ search' = search \union {i}
          BY <1>0, <2>1, <3>2, ThreeCollections DEF OnToNext, Goto, SetupTypeOK
        <4>2. [pc |-> "serving", n |-> n0] \in [pc : {"has", "serving"}, n : 1..3]
          BY <1>0
        <4> QED BY <3>2, <4>1, <4>2
      <3> QED BY <1>0, <3>1, <3>2
    <2>5. /\ at'[i] = r
          /\ \A j \in Instances : j # i => at'[j] = at[j] /\ (j \in search' => j \in search)
          /\ search' \subseteq Instances
          /\ at' \in [Instances -> [pc : {"down", "ping", "serving"} \union MilvusCalls,
                                    n : 1..Len(Collections)]]
      BY <1>0, <2>4, ThreeCollections DEF SetupTypeOK, MilvusCalls
    <2>6. SetupTypeOK'
      BY <1>0, <1>1, <2>5 DEF SetupTypeOK, Grown
    <2>7. Known(i)'
      BY <1>0, <1>3, <2>3, <2>4, <2>5 DEF Known
    <2>8. \A j \in Instances : Known(j)'
      BY <1>0, <1>1, <2>5, <2>7, OthersKnow DEF SInv
    <2>9. HalfBuiltExplained'
      <3>1. made'[c0] = Loaded \/ (made'[c0] = made[c0] /\ ~Building(i, c0))
        <4>1. CASE at[i].pc = "load"
          BY <1>0, <1>1, <1>2, <4>1, ReachedAt DEF Absent, Created, Indexed, Loaded
        <4>2. CASE at[i].pc = "has"
          <5>1. made'[c0] = made[c0]
            BY <1>0, <1>1, <1>2, <4>2, ReachedAt DEF Grown, Absent, Created, Indexed, Loaded
          <5> QED BY <4>2, <5>1 DEF Building
        <4> QED BY <1>5, <4>1, <4>2
      <3>2. /\ \A j \in Instances : j # i => at'[j] = at[j]
            /\ broken \subseteq broken'
            /\ \A c \in Names : made'[c] = made[c] \/ c = Current(i)
        BY <1>0, <1>1, <2>5
      <3>3. \A c \in Names : c = Current(i) /\ made'[c] \in {Created, Indexed} =>
              c \in broken' \/ Building(i, c)' \/ (made'[c] = made[c] /\ ~Building(i, c))
        BY <3>1 DEF Created, Indexed, Loaded
      <3> QED BY <1>0, <3>2, <3>3, StillExplained
    <2> QED BY <2>6, <2>8, <2>9 DEF SInv
  <1> QED BY <1>0, <1>4, <1>5 DEF MilvusCalls

LEMMA FailedSInv == ASSUME SInv, NEW i \in Instances, Failed(i) PROVE SInv'
  <1>1. PICK done \in BOOLEAN :
          /\ made' = IF done THEN Effect(i) ELSE made
          /\ broken' = broken \union GivenUp(i, made', done /\ at[i].pc = "create")
    BY DEF Failed
  <1>2. /\ SetupTypeOK /\ HalfBuiltExplained /\ Known(i)
        /\ at[i].pc \in MilvusCalls
        /\ at' = [at EXCEPT ![i].pc = "serving"] /\ search' = search
        /\ Current(i) \in Names
    BY CurrentIsName DEF SInv, Failed, FallBack, Goto
  <1>3. /\ Grown
        /\ \A c \in Names : made'[c] = made[c] \/ (done /\ c = Current(i) /\ made'[c] = Reached(i))
    <2>1. CASE done
      BY <1>1, <1>2, <2>1, EffectGrows
    <2>2. CASE ~done
      <3>1. made' = made /\ made \in [Names -> {Absent, Created, Indexed, Loaded}]
        BY <1>1, <1>2, <2>2 DEF SetupTypeOK
      <3>2. \A c \in Names : made[c] \in {0, 1, 2, 3}
        BY <3>1 DEF Absent, Created, Indexed, Loaded
      <3>3. \A c \in Names : made[c] <= made'[c]
        BY <3>1, <3>2
      <3> QED BY <3>1, <3>3 DEF Grown
    <2> QED BY <2>1, <2>2
  <1>4. /\ at'[i].pc = "serving"
        /\ \A j \in Instances : j # i => at'[j] = at[j]
        /\ at' \in [Instances -> [pc : {"down", "ping", "serving"} \union MilvusCalls,
                                  n : 1..Len(Collections)]]
    BY <1>2 DEF SetupTypeOK
  <1>5. broken' \subseteq Names
    BY <1>1, <1>2 DEF SetupTypeOK, GivenUp
  <1>6. SetupTypeOK'
    BY <1>2, <1>3, <1>4, <1>5 DEF SetupTypeOK, Grown
  <1>7. Known(i)'
    <2>1. i \in search => \A n \in 1..3 : made'[Collections[n]] # Absent
      BY <1>2, <1>3, ThreeCollections DEF Known, Grown, SetupTypeOK, Absent, Created, Indexed, Loaded
    <2> QED BY <1>2, <1>4, <2>1 DEF Known
  <1>8. \A j \in Instances : Known(j)'
    BY <1>2, <1>3, <1>4, <1>7, OthersKnow DEF SInv
  <1>9. HalfBuiltExplained'
    <2>1. ASSUME NEW c \in Names, c = Current(i), made'[c] \in {Created, Indexed}
          PROVE  c \in broken' \/ (made'[c] = made[c] /\ ~Building(i, c))
      <3>1. CASE Building(i, c) \/ (done /\ at[i].pc = "create")
        BY <1>1, <2>1, <3>1 DEF GivenUp
      <3>2. CASE ~Building(i, c) /\ ~(done /\ at[i].pc = "create")
        <4>1. CASE at[i].pc \in {"connect", "has"}
          BY <1>3, <2>1, <3>2, <4>1, ReachedAt DEF Absent, Created, Indexed
        <4>2. CASE at[i].pc = "create"
          BY <1>3, <2>1, <3>2, <4>2
        <4>3. at[i].pc \notin {"index", "load"}
          BY <2>1, <3>2 DEF Building
        <4> QED BY <1>2, <4>1, <4>2, <4>3 DEF MilvusCalls
      <3> QED BY <3>1, <3>2
    <2>2. broken \subseteq broken'
      BY <1>1
    <2> QED BY <1>2, <1>3, <1>4, <2>1, <2>2, StillExplained
  <1> QED BY <1>6, <1>8, <1>9 DEF SInv

LEMMA KillSInv == ASSUME SInv, NEW i \in Instances, Kill(i) PROVE SInv'
  <1>1. /\ SetupTypeOK /\ HalfBuiltExplained
        /\ at' = [at EXCEPT ![i].pc = "down"] /\ search' = search \ {i}
        /\ broken' = broken \union GivenUp(i, made, FALSE)
        /\ made' = made
    BY DEF SInv, Kill, Goto
  <1>2. /\ at'[i].pc = "down"
        /\ \A j \in Instances : j # i => at'[j] = at[j]
        /\ at' \in [Instances -> [pc : {"down", "ping", "serving"} \union MilvusCalls,
                                  n : 1..Len(Collections)]]
    BY <1>1 DEF SetupTypeOK
  <1>3. broken' \subseteq Names /\ broken \subseteq broken'
    BY <1>1 DEF SetupTypeOK, GivenUp
  <1>4. Grown
    BY <1>1 DEF SetupTypeOK, Grown, Absent, Created, Indexed, Loaded
  <1>5. search' \subseteq Instances
    BY <1>1 DEF SetupTypeOK
  <1>6. SetupTypeOK' /\ Grown
    BY <1>1, <1>2, <1>3, <1>4, <1>5 DEF SetupTypeOK, Grown
  <1>7. Known(i)'
    BY <1>1, <1>2 DEF Known
  <1>8. \A j \in Instances : Known(j)'
    BY <1>1, <1>2, <1>6, <1>7, OthersKnow DEF SInv
  <1>9. \A c \in Names : c = Current(i) /\ made'[c] \in {Created, Indexed} =>
          c \in broken' \/ (made'[c] = made[c] /\ ~Building(i, c))
    BY <1>1 DEF GivenUp
  <1>10. HalfBuiltExplained'
    BY <1>1, <1>2, <1>3, <1>9, StillExplained
  <1> QED BY <1>6, <1>8, <1>10 DEF SInv

LEMMA NextSInv == SInv /\ [SetupNext]_setupVars => SInv'
  <1> SUFFICES ASSUME SInv, [SetupNext]_setupVars PROVE SInv'
    OBVIOUS
  <1>1. ASSUME NEW i \in Instances, Begin(i) PROVE SInv'
    <2> DEFINE r == [pc |-> "ping", n |-> 1]
    <2>1. /\ r \in [pc : {"down", "ping", "serving"} \union MilvusCalls, n : 1..3]
          /\ UNCHANGED <<made, broken>> /\ search' = search
          /\ at' = [at EXCEPT ![i] = r] /\ at'[i] = r
          /\ at[i].pc = "down" /\ Known(i) /\ SetupTypeOK
      BY <1>1 DEF Begin, SInv, SetupTypeOK
    <2>2. Known(i)'
      BY <2>1 DEF Known
    <2>3. ~Building(i, Current(i)) /\ search' \subseteq Instances
      BY <2>1 DEF Building, SetupTypeOK
    <2> QED BY <2>1, <2>2, <2>3, Elsewhere
  <1>2. ASSUME NEW i \in Instances, Ping(i) PROVE SInv'
    <2>1. PICK pc \in {"down", "connect", "serving"} : at' = [at EXCEPT ![i].pc = pc]
      BY <1>2 DEF Ping, Goto
    <2> DEFINE r == [pc |-> pc, n |-> 1]
    <2>2. /\ UNCHANGED <<made, broken>> /\ search' = search
          /\ at[i].pc = "ping" /\ Known(i) /\ SetupTypeOK /\ at[i].n = 1
      BY <1>2 DEF Ping, SInv, Known
    <2>3. /\ r \in [pc : {"down", "ping", "serving"} \union MilvusCalls, n : 1..3]
          /\ at' = [at EXCEPT ![i] = r] /\ at'[i] = r
      <3>1. at[i] = [pc |-> "ping", n |-> 1] /\ [at[i] EXCEPT !.pc = pc] = r
        BY <2>2 DEF SetupTypeOK
      <3>2. at' = [at EXCEPT ![i] = [at[i] EXCEPT !.pc = pc]]
        BY <2>1, <2>2 DEF SetupTypeOK
      <3>3. pc \in {"down", "ping", "serving"} \union MilvusCalls
        BY DEF MilvusCalls
      <3>4. r \in [pc : {"down", "ping", "serving"} \union MilvusCalls, n : 1..3]
        BY <3>3
      <3>5. at' = [at EXCEPT ![i] = r]
        BY <3>1, <3>2
      <3> HIDE DEF r
      <3>6. at'[i] = r
        BY <2>2, <3>5 DEF SetupTypeOK
      <3> QED BY <3>4, <3>5, <3>6
    <2>4. Known(i)'
      BY <2>2, <2>3 DEF Known
    <2>5. ~Building(i, Current(i)) /\ search' \subseteq Instances
      BY <2>2 DEF Building, SetupTypeOK
    <2> QED BY <2>2, <2>3, <2>4, <2>5, Elsewhere
  <1>3. ASSUME NEW i \in Instances, Answered(i) PROVE SInv'
    BY <1>3, AnsweredSInv
  <1>4. ASSUME NEW i \in Instances, Failed(i) PROVE SInv'
    BY <1>4, FailedSInv
  <1>5. ASSUME NEW i \in Instances, Kill(i) PROVE SInv'
    BY <1>5, KillSInv
  <1>6. CASE UNCHANGED setupVars
    BY <1>6 DEF setupVars, SInv, SetupTypeOK, Known, HalfBuiltExplained, Building, Current
  <1> QED BY <1>1, <1>2, <1>3, <1>4, <1>5, <1>6 DEF SetupNext

LEMMA SpecSInv == SetupSpec => []SInv
  BY InitSInv, NextSInv, PTL DEF SetupSpec

(* The state of the setup keeps its types, for any number of instances.    *)
THEOREM SetupTypes == SetupSpec => []SetupTypeOK
  BY SpecSInv, PTL DEF SInv

(* Any number of instances that start, fail and are killed leave no        *)
(* collection half built but those they gave up.                           *)
THEOREM HalfBuiltHolds == SetupSpec => []HalfBuiltExplained
  BY SpecSInv, PTL DEF SInv

(* An instance that searches finds all three collections.                  *)
THEOREM SearchFindsCollections == SetupSpec => []SearchHasCollections
  <1>1. SInv => SearchHasCollections
    <2> SUFFICES ASSUME SInv, NEW i \in search, NEW c \in Names PROVE made[c] # Absent
      BY DEF SearchHasCollections
    <2>1. i \in Instances /\ Known(i)
      BY DEF SInv, SetupTypeOK
    <2>2. \A n \in 1..3 : made[Collections[n]] # Absent
      BY <2>1 DEF Known
    <2> QED BY <2>2, ThreeCollections
  <1> QED BY <1>1, SpecSInv, PTL

====
