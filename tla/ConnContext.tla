---- MODULE ConnContext ----
(***************************************************************************)
(* The token bucket of conn_ctx.go: Allow, driven by the wall clock.  The  *)
(* byte quota of the same file, Reserve and Release, is in ConnHandler.    *)
(*                                                                         *)
(* Time is counted in clock ticks, Second of them in one second (the code  *)
(* counts nanoseconds).  Allow reads time.Now().UnixNano(), which is the   *)
(* wall clock: it may be stepped forwards and backwards between two calls. *)
(* The clock stays within 0..MaxClock, a span in which elapsed*rate fits   *)
(* in an int64 (at rate 100 that is 2.9 years), so no product wraps.       *)
(***************************************************************************)
EXTENDS Integers

CONSTANTS
    Second,      \* clock ticks in one second
    Rate,        \* tokens per second
    Burst,       \* capacity of the bucket
    InitTokens,  \* tokens of a new connection
    MaxClock,    \* bound on the wall clock
    MaxCalls     \* bound on the calls of Allow

ASSUME LimitsAssumption ==
    /\ Second \in Nat \ {0}
    /\ Rate \in Nat \ {0}
    /\ Burst \in Nat \ {0}
    /\ InitTokens \in 0..Burst
    /\ MaxClock \in Nat
    /\ MaxCalls \in Nat

VARIABLES
    clock,       \* the wall clock, UnixNano
    tokens,      \* ConnContext.tokens
    lastRefill,  \* ConnContext.lastRefill
    granted,     \* history: calls of Allow that returned true
    denied,      \* history: calls of Allow that returned false
    opened,      \* history: the clock when the connection was opened
    lastCall,    \* history: the clock at the last call of Allow
    paced        \* history: every call came a token's time after the one before

vars == <<clock, tokens, lastRefill, granted, denied, opened, lastCall, paced>>

----
(* Plausible bug: whole seconds instead of whole tokens. *)
EarnedBySeconds(now, last) == ((now - last) \div Second) * Rate

(* Tokens earned since the last refill, fractions dropped; not positive    *)
(* when the clock is behind lastRefill.                                    *)
Earned(now, last) == ((now - last) * Rate) \div Second

CapAtBurst(t) == IF t > Burst THEN Burst ELSE t

(* A caller that waits this long for its next call has earned one token.   *)
TokenTime(gap) == gap * Rate >= Second

Init ==
    /\ clock \in 0..MaxClock
    /\ tokens = InitTokens
    /\ lastRefill = clock
    /\ granted = 0
    /\ denied = 0
    /\ opened = clock
    /\ lastCall = clock
    /\ paced = TRUE

(* The wall clock is set to another time: it runs on, or is stepped.       *)
SetClock ==
    /\ clock' \in 0..MaxClock
    /\ UNCHANGED <<tokens, lastRefill, granted, denied, opened, lastCall, paced>>

(* Plausible bugs in the refill, for the mutation runs. *)
RefillIgnoringClock(now, last) ==
    LET add == Earned(now, last) IN
    IF add > 0
      THEN [tokens |-> CapAtBurst(tokens + add), lastRefill |-> last]
      ELSE [tokens |-> tokens, lastRefill |-> last]
RefillUncapped(now, last) ==
    LET add == Earned(now, last) IN
    IF add > 0
      THEN [tokens |-> tokens + add, lastRefill |-> now]
      ELSE [tokens |-> tokens, lastRefill |-> last]
RefillAboveOneToken(now, last) ==
    LET add == Earned(now, last) IN
    IF add > 1
      THEN [tokens |-> CapAtBurst(tokens + add), lastRefill |-> now]
      ELSE [tokens |-> tokens, lastRefill |-> last]

(* The refill at the head of Allow.  A refill of whole tokens moves        *)
(* lastRefill to now, which forfeits the fraction of a token.              *)
Refill(now, last) ==
    LET add == Earned(now, last) IN
    IF add > 0
      THEN [tokens |-> CapAtBurst(tokens + add), lastRefill |-> now]
      ELSE [tokens |-> tokens, lastRefill |-> last]

(* One call of Allow.  It returns true exactly when granted grows.         *)
Allow ==
    LET r == Refill(clock, lastRefill) IN
    /\ granted + denied < MaxCalls
    /\ lastRefill' = r.lastRefill
    /\ IF r.tokens <= 0
         THEN tokens' = r.tokens /\ denied' = denied + 1 /\ UNCHANGED granted
         ELSE tokens' = r.tokens - 1 /\ granted' = granted + 1 /\ UNCHANGED denied
    /\ lastCall' = clock
    /\ paced' = (paced /\ TokenTime(clock - lastCall))
    /\ UNCHANGED <<clock, opened>>

Next == SetClock \/ Allow

Spec == Init /\ [][Next]_vars

----
TypeOK ==
    /\ clock \in 0..MaxClock
    /\ tokens \in 0..Burst
    /\ lastRefill \in 0..MaxClock
    /\ granted \in Nat
    /\ denied \in Nat
    /\ opened \in 0..MaxClock
    /\ lastCall \in 0..MaxClock
    /\ paced \in BOOLEAN

(* Whatever the wall clock does, steps back included, a connection is never *)
(* granted more requests than its first tokens and Rate for every second    *)
(* from its opening to the latest time a refill has seen: a clock that goes *)
(* back and forth earns no time twice.                                      *)
RateBound ==
    /\ opened <= lastRefill
    /\ Second * (granted + tokens - InitTokens) <= Rate * (lastRefill - opened)

(* A client that leaves at least the time of one token between its requests *)
(* is never refused, although every refill drops the fraction it did not    *)
(* use.                                                                     *)
PacedClientServed == paced => denied = 0

(* A refusal means that less than one token has been earned since the last  *)
(* refill: the bucket never refuses while it owes a whole token, and once   *)
(* the clock has caught up with lastRefill it serves again.                 *)
RefusedOnlyWhenOwedNothing ==
    [][ denied' > denied => /\ tokens' = 0
                            /\ (clock - lastRefill) * Rate < Second ]_vars

====
