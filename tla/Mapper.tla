---- MODULE Mapper ----
(***************************************************************************)
(* The method to command mapper of protocol/mapper.go: a table both ways   *)
(* behind one RWMutex, which any goroutine may extend or look up.  What a  *)
(* call does while it holds the mutex is one step; a registration that     *)
(* finds its command taken panics with the mutex locked, and a caller that *)
(* recovers leaves it so.                                                  *)
(***************************************************************************)
CONSTANTS
    Methods,    \* the names "Service.Method" of proper form
    Commands,   \* uint16 command ids
    Hash,       \* the 16 bits of FNV-1a of each method
    Procs,      \* the goroutines that call the mapper
    NoCommand, NoName, Idle

(* Names as they are given, spaces at the ends trimmed: spaces around the  *)
(* dot are still there, and a name may be of no use at all.                *)
Names == [method : Methods, spaced : BOOLEAN]
Malformed == "malformed"

Calls ==
    [op : {"register"}, name : Names \union {[method |-> Malformed, spaced |-> FALSE]}, cmd : Commands]
      \union [op : {"map"}, name : Names \union {[method |-> Malformed, spaced |-> FALSE]}]
      \union [op : {"strict"}, strict : BOOLEAN]

ASSUME MapperAssumption ==
    /\ Hash \in [Methods -> Commands]
    /\ NoCommand \notin Commands
    /\ NoName \notin Names
    /\ Malformed \notin Methods
    /\ Idle \notin Calls

VARIABLES
    methodCommand, commandMethod, strictMapping,
    locked,      \* methodCommandMu is held for good
    call,        \* the call each goroutine is in, or Idle
    (* History. *)
    given,       \* the answers lookups gave in strict mode or from the table
    conflicted   \* a registration found its command taken

tables == <<methodCommand, commandMethod, strictMapping>>
mapperVars == <<methodCommand, commandMethod, strictMapping, locked, call, given, conflicted>>

MapperInit ==
    /\ methodCommand = [n \in Names |-> NoCommand]
    /\ commandMethod = [c \in Commands |-> NoName]
    /\ strictMapping = FALSE
    /\ locked = FALSE
    /\ call = [p \in Procs |-> Idle]
    /\ given = {}
    /\ conflicted = FALSE

Call(p) ==
    /\ call[p] = Idle
    /\ \E c \in Calls : call' = [call EXCEPT ![p] = c]
    /\ UNCHANGED <<tables, locked, given, conflicted>>

Return(p) == call' = [call EXCEPT ![p] = Idle]

(* splitFullMethod fails before the mutex is taken: a registration panics, *)
(* a lookup returns an error.                                              *)
Refuse(p) ==
    /\ call[p] # Idle
    /\ call[p].op \in {"register", "map"}
    /\ call[p].name.method = Malformed
    /\ Return(p)
    /\ UNCHANGED <<tables, locked, given, conflicted>>

(* Plausible bug: only the method's own entry is compared. *)
TakenByAnother(n, c) == methodCommand[n] # NoCommand /\ methodCommand[n] # c

Taken(n, c) == commandMethod[c] # NoName /\ commandMethod[c] # n

(* Plausible bug: a method that gets a new command gives its old one up. *)
BindAndFree(n, c) ==
    /\ methodCommand' = [methodCommand EXCEPT ![n] = c]
    /\ commandMethod' = [d \in Commands |-> IF d = c THEN n
                                            ELSE IF commandMethod[d] = n THEN NoName
                                            ELSE commandMethod[d]]

Bind(n, c) ==
    /\ methodCommand' = [methodCommand EXCEPT ![n] = c]
    /\ commandMethod' = [commandMethod EXCEPT ![c] = n]

(* RegisterFullMethodCommand.                                              *)
Register(p) ==
    /\ call[p] # Idle
    /\ call[p].op = "register" /\ call[p].name \in Names
    /\ ~locked
    /\ \/ /\ Taken(call[p].name, call[p].cmd)
          /\ locked' = TRUE
          /\ conflicted' = TRUE
          /\ UNCHANGED <<methodCommand, commandMethod>>
       \/ /\ ~Taken(call[p].name, call[p].cmd)
          /\ Bind(call[p].name, call[p].cmd)
          /\ UNCHANGED <<locked, conflicted>>
    /\ Return(p)
    /\ UNCHANGED <<strictMapping, given>>

(* The name a lookup looks for: without the spaces around the dot. *)
normalized(n) == [method |-> n.method, spaced |-> FALSE]

Entry(n) == methodCommand[normalized(n)]

(* Plausible bug: strict mode is not looked at. *)
HashAlways(n) == IF Entry(n) # NoCommand THEN Entry(n) ELSE Hash[n.method]

(* MapMethodToCommand: the entry, or an error in strict mode, or the hash, *)
(* which is not kept.                                                      *)
Answer(n) ==
    IF Entry(n) # NoCommand THEN Entry(n)
    ELSE IF strictMapping THEN NoCommand ELSE Hash[n.method]

(* Plausible bug: the error of strict mode returns with the mutex held. *)
LeakOnError(n) == locked' = (Answer(n) = NoCommand)

Unlock(n) == locked' = FALSE

MapMethodToCommand(p) ==
    /\ call[p] # Idle
    /\ call[p].op = "map" /\ call[p].name \in Names
    /\ ~locked
    /\ LET n == call[p].name
           firm == strictMapping \/ Entry(n) # NoCommand
       IN  /\ given' = IF firm /\ Answer(n) # NoCommand THEN given \union {<<n.method, Answer(n)>>}
                                                       ELSE given
           /\ Unlock(n)
    /\ Return(p)
    /\ UNCHANGED <<tables, conflicted>>

SetStrictCommandMapping(p) ==
    /\ call[p] # Idle
    /\ call[p].op = "strict"
    /\ ~locked
    /\ strictMapping' = call[p].strict
    /\ Return(p)
    /\ UNCHANGED <<methodCommand, commandMethod, locked, given, conflicted>>

Proceed(p) == Refuse(p) \/ Register(p) \/ MapMethodToCommand(p) \/ SetStrictCommandMapping(p)

MapperNext == \E p \in Procs : Call(p) \/ Proceed(p)

(* Go's RWMutex lets no call starve; a goroutine that can go on does.      *)
MapperSpec ==
    /\ MapperInit /\ [][MapperNext]_mapperVars
    /\ \A p \in Procs : WF_mapperVars(Proceed(p))

----
MapperTypeOK ==
    /\ methodCommand \in [Names -> Commands \union {NoCommand}]
    /\ commandMethod \in [Commands -> Names \union {NoName}]
    /\ strictMapping \in BOOLEAN
    /\ locked \in BOOLEAN
    /\ call \in [Procs -> Calls \union {Idle}]
    /\ given \subseteq Methods \X Commands
    /\ conflicted \in BOOLEAN

(* A firm answer, from the table or in strict mode, never gives two        *)
(* methods one command, whatever was registered in between: a command that *)
(* a method once had stays its own, also when the method gets another, and *)
(* the hash, which may collide with it, answers nothing in strict mode.    *)
AnsweredUniquely == \A a, b \in given : a[2] = b[2] => a[1] = b[1]

(* Every call comes back, unless a registration ever found its command     *)
(* taken: that one panics with the mutex locked.                           *)
CallsReturn == <>conflicted \/ \A p \in Procs : call[p] # Idle ~> call[p] = Idle

====
