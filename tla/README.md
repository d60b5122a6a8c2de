# Novagate in TLA+

TLA+ models of the Novagate gateway, of the ACL service behind it and of the
admin service, with TLC configurations that check them on small instances and
TLAPS proofs of what matters most. `PROJECT.json` lists every run, mutant,
mapped source line, finding, hazard and theorem.

## The system

| Part | Source | State | Operations | What is hard |
|---|---|---|---|---|
| Connection limits | `conn_ctx.go` | tokens, lastRefill, bufferUsed | Allow, Reserve, Release | wall clock that steps, dropped fractions, the count at its limit |
| Connection handler, frame protocol | `conn_handler.go`, `protocol/{frame,message,compress}.go` | read buffer, place in the batch | read, decode, handle, write, compact | frames split at any byte and pipelined, errors in mid batch, a peer that stalls, a connection closed under the handler |
| Router | `router.go` | command table | Register, Dispatch | Register runs before serving |
| Server | `main.go` | listener, backoff, one goroutine and one watcher per connection | Serve, accept, backoff, shutdown | cancellation racing accept, watcher racing the end of a connection |
| ACL store interface | `services/acl/internal/acl/store_interface.go` | visibility, grants in force | SetVisibility, Grant, Revoke, RevokeAllUser, CheckBatch, ListGrants | the promise itself |
| In-memory store | `inmemory_store.go` | three nested maps under one mutex | the same | two maps for one grant, cleanup of other users' records |
| Redis store | `redis_store.go` | visibility key and four indexes per grant | the same, as pipelines | pipelines of several callers interleave, are lost, are repeated; whole-second scores; scripts |
| Admin service | `internal/admin/service.go` | user, document and acl keys, audit list | create, delete, grant, revoke, list | several calls per request, no transaction, errors dropped |
| Admin search index | `internal/admin/search.go` | three Milvus collections | index, delete, search | index and records drift apart |
| ACL HTTP handlers | `services/acl/biz/handler/acl.go` | the requests in progress | check, list, grant, revoke, revoke all | the clock is read before the store is called, a grant is two calls |
| Search setup | `internal/admin/search.go`, `NewService` in `service.go` | how far each Milvus collection is built | connect, create, index, load | a start that fails or is killed half way, two instances at once |
| Gateway configuration | `cmd/server/config.go` | where each setting was found | file, `.env`, environment, flags | four readers in a row, two parsers of one command line |
| Method to command mapper | `protocol/mapper.go` | a table both ways, strict mode | register, look up, switch the mode | rebinding, hash collisions, a panic that keeps the mutex |
| Codec, dispatcher, statistics, commands, tools | see `PROJECT.json` | | | not modelled, see the end |

The server accepts connections and runs one handler for each; the handler asks
the connection's limits and hands messages to the router. The ACL service's
HTTP handlers call a store, in memory or in Redis. The admin service keeps its
own keys in Redis and an index in Milvus. The three programs share no memory.

What makes each part correct: the limiter grants neither more than the rate nor
refuses what it owes; the handler never loses its place in the byte stream and
answers each request once, in order; the server leaks nothing and always shuts
down; a store answers as if each operation took effect at once; the admin
service's records, index, permissions and audit list agree when nothing went
wrong, and the audit list never tells of a change that was not made; an HTTP answer
is true of some moment of its request; an instance searches only when each collection
exists, and a collection without index or not loaded comes only from a start that was
interrupted; a setting comes from the strongest place that has it; a command stands for
one method.

## Modules

| Module | Models | Uses |
|---|---|---|
| `ConnContext` | the token bucket | |
| `ConnContextProofs` | theorems about it | `ConnContext` |
| `ConnHandler`, `MCConnHandler` | one connection from bytes to responses | |
| `ConnHandlerProofs` | theorems about it | `ConnHandler` |
| `Server` | accept loop, connections, watchers, shutdown | |
| `AclStore` | abstract: what a store promises | |
| `InMemoryStore` | the in-memory store | refines `AclStore` |
| `InMemoryStoreProofs` | theorems about it | `InMemoryStore` |
| `AclService`, `MCAclService` | the ACL service's HTTP handlers over the in-memory store | `InMemoryStore`, which it refines |
| `AclServiceProofs` | theorems about it | `AclService`, `InMemoryStoreProofs` |
| `RedisStore`, `MCRedisStore` | the Redis store, command by command | |
| `RedisStoreProofs` | theorems about it | `RedisStore` |
| `Admin`, `MCAdmin` | the admin service, call by call | |
| `AdminProofs` | theorems about it | `Admin` |
| `SearchSetup`, `MCSearchSetup` | the admin service's start, Milvus call by Milvus call | |
| `SearchSetupProofs` | theorems about it | `SearchSetup` |
| `Config`, `MCConfig` | `loadConfig` | |
| `Mapper`, `MCMapper` | the method to command mapper | |
| `GatewayProofs` | theorems about the server, `loadConfig` and the mapper, each by itself | `Server`, `Config`, `Mapper` |

Operators named after a "plausible bug" are mutants: each replaces one
definition, and the property named in `PROJECT.json` then fails.

### ConnContext

`Allow` is one action. The wall clock is set to any time in `0..MaxClock`
between two calls: `time.Now().UnixNano()` has no monotonic part. `granted`,
`denied`, `opened`, `lastCall` and `paced` are history. The fraction of a token
that a refill drops is there: `lastRefill` moves to now. In the span of the clock
`elapsed * rate` fits in an int64.

### ConnHandler

A byte is a position in a frame, so the buffer, the wire and the decoder work on
places, not on values, and a decoder that lost its place finds no header.
`pc` is "read" in `conn.Read`, "decode" at the head of the loop of
`processBufferedFrames`, "write" in `writeAll`, "returned" after `handleConn`, and
"panicked" when `protocol.Encode` panicked. `HandleFrame` is `handleFrame` up to the
write: nothing in it waits for another goroutine. Tokens earned since the last
frame are a choice of none or one (the bucket is `ConnContext`). The deferred
`Release(len(state.buf))` of `handleConn` is left out: its argument is evaluated when the
buffer is empty, so it releases nothing. With a nil router `handleConn` returns at once; that is
a second initial state.

### Server

One action per step of each goroutine: the accept loop, `closeOnDone`, each
`serveConn` and each watcher. `serveConn`'s deferred calls are two steps, stop before
close, as they run. Both an own listener (`ListenAndServeWithContext`) and a given
one, and a context that can or cannot be cancelled, are initial states.

### AclStore, InMemoryStore

`AclStore` keeps only grants in force. `InMemoryStore` keeps the two maps of the
code, flattened; each operation holds the mutex throughout and is one step.
`restrictedBar` and `liveBar` map it to `AclStore`. `valid_from` is compared with
`valid_to` and then ignored, in the code and in the model.

### AclService

A request is parsed, with its clock reading, in one step (`Parse`) and calls the store in
later ones; `pc` names the store call that is next. `ACLGrant` with `restricted` calls
`SetVisibility` and then `Grant` (`Restrict`, `MakeGrant`). The store is the default one
of a service without a Redis address. Its only error is a grant that ends before it starts, so
the handlers' other error answers cannot be reached in this composition; what a
failing store does to a check is in `RedisStore`. `shown`, `hidden`, `ranOut` and `quiet` are
history. The state of the store is the variables of `InMemoryStore`; every service action
makes at most one step of it, so that the store's invariants are those of the service too
(lemma `StoreStep`); this holds by the shape of the model and no run checks it.

### RedisStore

An operation is a pipeline of commands; Redis runs one command at a time and those
of several callers interleave. `Grant` has a second pipeline (its cleanup),
`RevokeAllUser` two reads before its pipeline. A `Grant` that ends before it starts is refused
and sends nothing. A pipeline can be lost before or after any command, also after the last
one, with the replies (`Lost`); go-redis sends it again (`Retry`) or the operation fails
(`GiveUp`). `ideal`, `dirty`, `ungranted`, `revoked` and `witness` are history: the last
operation on a pair that ran alone and without error; the pairs for which there is none; the
pairs of a running revocation on which no grant was in progress since it began; such pairs
of revocations that reported success, until a grant of them is asked for; and the documents that
were open at some time of a check or listing. A revocation that overlaps a grant of its pair
promises nothing, since the grant's commands may come after its own. `scripts` says whether Redis has the two Lua scripts cached; nothing
in the store loads them, so it is an initial state of either kind. Without them an
EVALSHA in a pipeline fails and the rest of the pipeline is done.

### Admin

A request is a row of calls; `Effect` is what a call does to the stores and the
`After...` operators are what the handler does next when the call succeeded or
failed. Users and documents go through the same calls and share them. A call fails
with or without its effect (`CallFails`), is repeated by the client library
(`Repeat`), and fails without effect once the request's five seconds are over
(`Expire`). A vector search returns any part of a collection (`ExactSearch = FALSE`) or
all of it; the code asks for 100 entries, more than the instances hold. New
documents always go to the hot collection, since their creation time is now;
`Archived` documents are in the cold one from an import. `DeleteUser` deletes acl keys one by
one (`DelKey`), and each DEL may fail with or without effect or be repeated. `ListPermissions`
reads the keys of a tenant and then each set, which it drops when the key does not split at
its colons in three parts (`InThreeParts`); `Colons` are the tenants and users with a colon in the
id. The documents' titles it adds are left out. `GetAuditLogs` reads the length of the list and
then its entries from 0 to `limit - 1` by LRANGE, for which a negative end counts from the end
of the list, and skips those that are not JSON; `OldLog` is the list as it is found, which may
have such entries. Keys of different users and tenants are taken to be different, and the pattern of
`DeleteUser` to match only the keys of its user.

### SearchSetup

`NewService` pings Redis and, when it has an address, builds the three collections in
the order of `initCollections`: has, create, index, load. Each call fails before or after
its effect (`Failed`), and a process ends between any two (`Kill`) and may start again.
`made` is how far Milvus has each collection; `broken` is history, the collections an
instance left half built. What a search of such a collection answers is Milvus's:
`HalfBuiltExplained` says when there can be one.

### Config

One action per reader of `loadConfig`, in its order. A setting is missing, bad or good in
each place, and its value is the name of the place it was found in. A file has a
current and a legacy key for each setting. `parseConfigPath` parses the whole command line
with a flag set that knows only `-config`, so it stops at the first other flag
(`SeenByPreconfig`); the final flag set knows all. A path is known by the file it names, so
`filepath.Abs` (`Abs`) leaves it as it is, except that the empty one becomes the working
directory (`WorkDir`). `resolveYAML` takes an empty path for the default before that, the
end of `loadConfig` does not: after `-config ""` the server reads `novagate.yaml` and
reports the working directory. `NamedFileRead` says which file is read for each command line, one
with a `-config` behind another flag included, and in which cases another path is reported.

### Mapper

A goroutine's call is a step that names it and a step that does it; the mutex is
held within a step, except after the conflict panic, which leaves it locked
(`locked`). Registration keeps spaces around the dot that lookup removes: a name that has
them is entered and never found. `given` is history, the answers taken from the table or
given in strict mode; answers by hash are not firm, since two methods may have one
hash.

## Runs

| Run | Instance | Shows |
|---|---|---|
| `conn_context` | rate 3 in 5 ticks, burst 3, 6 calls, clock 0..8 | over-grant, starvation and refusal while owed are impossible under any clock |
| `conn_handler` | 2 frames of 14 kinds, header of 2 units, reads of 1 to 4, quota 9 | place, quota, answers, order; work is done and timeouts end the connection |
| `server` | 2 connections, backoff 1, 2, 3, up to 3 errors in a row | no leak, backoff, shutdown, accepting |
| `in_memory_store` | 1 tenant, 2 documents, 2 users, clock 0..2 | refinement of `AclStore`, exact answers |
| `acl_service` | 2 requests at a time, 1 document, 1 user, clock 0..2 | answers within their request, lasting revocations, half-done grants only close |
| `redis_store` | 2 callers, 2 documents, 1 user, 3 operations (2 without scripts), 1 loss, 2 ticks a second, grants to 3 or for ever | settled pairs agree and answer as their last operation says; checks and listings show what was open |
| `redis_fail_open` | 1 caller, 1 loss | finding: a failed check allows |
| `redis_cleanup` | 2 grants of one pair | finding: the cleanup takes a concurrent grant away |
| `admin` | 2 requests at a time, 3 in all (2 without search), 1 fault, 2 tenants, one with a colon in the id, 1 user, 2 documents that are there from the start, limits 1 and -1, an audit list that starts with two entries, one unreadable | records, index, permissions, audit list, what is shown of it, and listings |
| `search_setup` | 2 instances, any number of starts and failures | a collection is half built only while, or because, a start was interrupted; an instance that searches finds each collection there, half built or not |
| `config` | 2 settings, 7 kinds of file, 6 environments, up to 2 arguments of 6 kinds | precedence, fail-fast, the file that is read |
| `mapper` | 2 methods with one hash, 2 commands, 2 goroutines | firm answers are unique, calls return |

Why the bounds are enough. Two frames with reads of one unit up to more than a
small frame reach every cut of a header and a body, two frames in one read, and a
frame that finishes while the next has begun. Two connections reach one that was
accepted before and one that was accepted after the cancellation. Rate 3 in 5
ticks makes refills drop fractions. The backoff of three steps reaches its
ceiling by rounding down. Two callers and three operations (`MaxOps`; `MaxUnscripted` is the
smaller bound without scripts, where fewer cases differ) have a third operation
follow two that overlapped; an end inside the second second, with a clock from 0 to that end,
shows the truncation. Three admin requests do the same
(`MaxUnindexed` is the smaller bound without search, where a listing reads the records
and no index can differ from them). The audit list starts with two entries of which the first
cannot be read and gets up to two more, so that a limit of 1 cuts it off and -1 asks for all
but the oldest. Documents that are there from the start can be deleted in the middle of a
listing within the three requests.
Two requests of the ACL service overlap in every way two can, and places are reused without a bound. Two instances of the
admin service meet at every pair of calls; their failures are not bounded. Two
settings are a string, which a flag set always accepts, and a duration, which it
may refuse; two arguments reach each order of `-config` and another flag, and a flag
given twice. Two methods with one hash, and two commands of which the hash is one,
reach every collision of the tables with the hash and with each other. Callers,
slots, requests and documents are interchangeable where a configuration says
SYMMETRY; these runs have no liveness property. `CHECK_DEADLOCK FALSE` stands where the
program ends (`config`) or may block for good after the conflict panic (`mapper`).

## Fairness

`ConnHandler` assumes weak fairness of the handler goroutine alone: a runnable
goroutine is scheduled, and a blocked read or write returns when there is data,
room, an error or a deadline. Nothing is assumed of the client. `Server` assumes
weak fairness of each goroutine's steps, of `Accept` when a connection is queued or
the listener is closed, and of a sleep's end; not of cancellation, clients, errors
or a handler's own return. `Mapper` assumes weak fairness of each goroutine in a call:
Go's RWMutex does not let a waiting call starve. `SearchSetup` assumes nothing: `NewGrpcClient`
and `initCollections` use `context.Background()` without a deadline (`search.go:35`, `52`), so
that a start may wait for ever for a Milvus that accepts connections and does not answer, and
no property says that a start ends. The other modules, too, state safety only.

## Proofs

`ConnContextProofs` proves, for every rate, burst, clock resolution and bound, that
the type invariant, `RateBound` and `PacedClientServed` hold and that refusals are
justified. `RateBound` is inductive with the types: a refill adds at most
`Rate * elapsed / Second` and moves `lastRefill` forward by `elapsed`, and lowering the
tokens to the burst only helps. `PacedClientServed` is not inductive: it needs that
for a paced client a call with an empty bucket finds `lastRefill` no later than the
last call, so that the time between two calls earns a token (`PacedInv`). Integer
division is used through one lemma on its bounds.

`ConnHandlerProofs` proves all six invariants of the connection, for every set of frames
and handlers, every quota and every size of a read. Four invariants carry them:

- `IInv` for `BufferAccounting`. Releasing `consumed` bytes is right only when no more than
  the buffer holds was consumed, and a frame is counted as consumed after its response
  was written, not when it was decoded. So bytes in the buffer and on the wire belong
  to frames that were sent, `consumed` lies within the buffer, and while a response is
  written its frame is still whole at the head of the undecoded bytes (`HeadWhole`).
- `SyncInv` for `InSync`. `InSync` relates each byte to the next; dropping a whole frame
  needs what follows after any number of steps. `Solid` says it for any distance within
  a frame, which stands in for an induction over the length of a frame, and the rest
  says where the pending bytes start and end. The lemmas on `Solid` (cutting, dropping,
  appending a frame) are about any byte sequence.
- `LogInv` for `ResponsesMatchRequests` and `DispatchedOnceInOrder`: the response in the
  making is the one of the first unanswered request, which is the only one dispatched
  and not answered. It needs `SyncInv`, by which the frame at the head of the undecoded
  bytes is that request (`HeadIsNext`).
- `QuotaInv` for `QuotaOnlyForBigFrames`: before a read the buffer holds less than one
  frame, as `FinishBatch` reads on only when no whole frame is left.

`TypeOK` follows from these and `Places`, the rest of the types.

`GatewayProofs` has the three parts of the gateway process outside a connection. For the
server it proves types and `NoOrphanConn` for any number of connections and any
backoff; `NoOrphanConn` is inductive together with the types, as the goroutine that
owns a connection closes it in the step in which it ends. `BackoffMatchesFailures` needs
that 2^(n + 1) is 2 * 2^n, by induction over n, which no prover here can do; `Doubles` gets it
from a library theorem, that a set of n elements has 2^n subsets, by counting the subsets of
1..(n + 1). `AnsweredUniquely` of the mapper comes from an invariant on the two tables
(`LeadsBack`): the command a method has leads back to it, and a command given as a firm
answer leads back to the method it was given for, also when that method has another
command by now. For `loadConfig` it proves the three properties for all inputs: `CInv` says
what each reader leaves behind, and the strongest offer is then found by cases on the
places that have the setting.

`SearchSetupProofs` proves both safety properties for any number of
instances: what an instance has passed is there (`Known`: the collections before the
one it is at, and how far that one is), and nothing built is undone (`Grown`).

`InMemoryStoreProofs` proves, for every set of tenants, documents, users and times,
types, `Exclusive`, exact answers and `Spec => A!Spec`. The inductive invariant is
`TypeOK` and `Exclusive`: without `Exclusive` a grant with an end could be hidden
behind an earlier permanent one and the step would not be a step of `AclStore`. Each
action of the store maps to the action of the same name; cleaning up expired records
changes no grant in force. The assumptions are that the values for no entry, no grant and
a permanent grant are not numbers and differ where they are compared.

`AclServiceProofs` proves the service's types and its three properties, for any number of
requests, times and pairs.
`AnsweredWithinRequest` is the hard one: a reading request's time lies in the past.
The invariant (`WInv`) says of such a request that what an exact answer names now is in
`shown`, what it leaves out is in `hidden`, and what the store would answer at the older
time is in `shown` or `ranOut`. The last part holds step by step because an earlier time
sees every grant a later one sees (`EarlierNamesMore`), and what a step adds to the
older answer is shown by that step or was over when recorded (`NamedGains`).
`RevokedUntilGranted` is inductive with the fact that no grant request of a quiet pair
is in progress (`QuietAlone`).

`RedisStoreProofs` proves all five properties of the Redis store, for all documents and
users, any number of callers, operations and lost or repeated pipelines, and any length of
a second. None of them is inductive: what a pair's four entries are depends on how far an
operation on it has come. The invariant (`IInv`) says, besides types:

- each operation that overlaps no other on a pair has done to the pair what the commands
  it is past say (`AloneDone`, with `Progress` for `Grant`, `Revoke` and
  `RevokeAllUser`), and operations that share a pair know that they do (`OverlapsKnown`);
- a settled pair agrees on both sides and follows its last operation (`SettledOK`). The two
  sides need not be equal: they may differ in entries that have run out (`Gone`), since the
  expiry sweeps of a grant clean one user's and one document's index only;
- a revoked pair has nothing on the user's side and no grant under way (`RevokedOK`), and the
  commands a running revocation is past have removed what they remove of the pairs
  that no grant has come between (`UngrantedOK`).

It is kept because the commands of other operations are gentle to a pair that is not
theirs (`Gentle`, `CommandGentle`): they remove an entry that has run out, and nothing
else, and that is what `Progress`, agreement and history survive (`GentleProgress`,
`GentleAgree`). `RevokeAllUser` is the hard case: its pipeline is built from two reads, in any
order of the documents, so that `RevokingAll` says of each pair of the user that it was
found, or was already gone, and of each pair found whether its commands were passed; a
pair that was already unsettled is exempt. A pipeline that is sent again starts with all its
progress still true (`RetryInv`). `AllowedWasOpen` is an action property: its
invariant (`Witnessed`) says that whatever a running check or listing has read open is
among the documents open at some moment since it began.

The assumptions are that the values for no entry and no end differ and are not numbers,
and that the documents are finitely many, as `RevokeAllUser` has an order of those it found.

`AdminProofs` proves all six invariants of the admin service, for any sets of users,
documents and tenants, any number of requests at a time and any failures, also for a search
that finds only part of what is there. First, every handler is reduced to where it may go after a call (`Moves`) and
every step of the service to what it does to the request that takes it, to the others and to
the stores (`NextStep`); everything else is argued from these. Then three invariants, each with
the types (`TInv`):

- `ListingsOK`: what a listing has put out was there at some moment; what must be
  shown is put out or still to be looked at once it matches strings itself and no call of
  it has failed (`Complete`), and it is in the stores while the listing runs.
- `AuditOK`: a request whose calls are past its change has made it (`MadePlaces`), and
  what `GetAuditLogs` was shown is the list as of a moment, without the entries that came in
  front of it later (`AsOf`), as the list only grows at its head.
- `StoresOK`: a request that shares nothing with others and had no failed call has done what
  its calls so far say (`Creating`, `Deleting`); requests that share something know it; what
  no request works on is as the history says (`Good`). `StepSound` reduces each step to
  what it does to the things its request covers.

The assumptions are that users, documents, permissions and the value for none can be told
apart, that there are users and documents to name, that limits are integers and that the audit
list starts as any sequence of entries, readable or not.

Every safety property a passing run checks is also proved. Only model-checked: liveness
(`RequestsWorkedOff`, `TimeoutsEndConnection`, `ShutdownCompletes`, `QueuedIsAccepted`,
`WatcherEnds`, `CallsReturn`), which is out of the prover's reach as it
needs fairness and ENABLED. The two violations are TLC's. The type invariants of
`ConnContext`, `Server`, `InMemoryStore`, `AclService`, `Mapper` and `SearchSetup`, and
`Exclusive`, are proved and not checked by a run.

## Findings

Two runs end in a violation: what the repository says, quoted in `PROJECT.json`,
is not what the code does. A Redis check fails open where the handler's comment
says fail closed (`redis_store.go:158`); the best-effort cleanup of a grant removes a
concurrent grant (`redis_store.go:106`).

Other differences between code and documents that the models take as the code has
them, without a run of their own:

- `README.md:321` says to name the file with `-config` at the start; one behind another flag is
  reported in the start message and not read (`config.go:355`), and an empty one is reported as
  the working directory (`config.go:156`). `NamedFileRead` states what holds.
- `docs/protocol.md:52` allows a body of 1MB; the byte quota of 256 KiB (`conn_ctx.go:20`,
  tested at `conn_handler.go:63`) ends the connection before such a frame is complete. In
  `MCConnHandler` the largest body is larger than the quota, as in the code.
- `redis_store_test.go:126` says script caching works by itself in production; inside a pipeline
  EVALSHA cannot fall back to EVAL, so on a server without the scripts `Revoke` and
  `RevokeAllUser` fail each time. `RedisStore` starts with and without them.
- `SearchDocuments` searches the users' collection for hot documents (`search.go:328`, against the
  comment at line 319). `AfterSearchDocuments` does the same.
- `DeleteUser` drops the errors of KEYS and DEL (`service.go:264`) and answers 200, where
  `docs/admin-guide.md:80` says all permissions go. `AfterDeleteUser` does the same.
- `createHotCollection` takes any existing collection for complete (`search.go:77`): one
  that a killed start left without index is never repaired. `HalfBuiltExplained` states
  what holds.
- KEYS `acl:*:id` in `DeleteUser` (`service.go:264`) also matches the keys of another user whose id
  ends in a colon and `id`; `ListPermissions` (`service.go:528`) drops the sets of ids with a colon.
  `AfterMembers` does the second; the first is left out.
- A permanent grant that replaces an ending one between the two reads of the Redis
  `ListGrants` is missed by the listing; nothing says that it is not.

## Not modelled

Left out for good: logging, wording of errors, ranking of search results, the codec
package and the internal dispatcher (tables and conversions without state, which the
connection handler does not use), the commands' `main` functions (wiring), the command line
client and the validation tool, the ACL statistics (counts for display, whose SCAN
promises nothing while others write). Pagination is left out: a computation on a
complete list; its product overflows for a huge page number and the slice expression
panics, which `net/http` recovers.

`elapsed * rate` in `Allow` overflows an int64 only when the clock is stepped by more than 2.9
years; the clock of the model stays below. Wall clocks that go backwards are modelled
for the limiter and not for the stores. Commands of a lost pipeline that reach Redis
after the caller went on are not modelled: the code sets no time after which none can.
