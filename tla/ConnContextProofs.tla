---- MODULE ConnContextProofs ----
(***************************************************************************)
(* Proofs about the token bucket of ConnContext, for every rate, capacity, *)
(* clock resolution and behaviour of the wall clock.                       *)
(***************************************************************************)
EXTENDS ConnContext, TLAPS

(* The arithmetic of Earned: whole tokens never exceed the time they stand *)
(* for, and the time of one token earns at least one.                      *)
LEMMA EarnedFacts ==
  ASSUME NEW now \in Int, NEW last \in Int
  PROVE  /\ Earned(now, last) \in Int
         /\ Second * Earned(now, last) <= Rate * (now - last)
         /\ (now - last) * Rate >= Second => Earned(now, last) >= 1
         /\ Earned(now, last) >= 1 => now > last
  <1> DEFINE p == (now - last) * Rate
             q == p \div Second
  <1>1. p \in Int /\ Second \in Nat /\ Second > 0 /\ Rate \in Nat /\ Rate > 0
    BY LimitsAssumption
  <1>2. q \in Int /\ Second * q <= p /\ p < Second * q + Second
    <2> HIDE DEF p
    <2> QED BY <1>1
  <1>3. p >= Second => q >= 1
    <2> SUFFICES ASSUME p >= Second, q <= 0 PROVE FALSE
      BY <1>1, <1>2
    <2>1. Second * q <= 0
      BY <1>1, <1>2
    <2> HIDE DEF p, q
    <2> QED BY <1>1, <1>2, <2>1
  <1>4. q >= 1 => now > last
    <2> SUFFICES ASSUME q >= 1, now - last <= 0 PROVE FALSE
      BY <1>2
    <2>1. p <= 0
      BY <1>1
    <2>2. Second * q >= Second
      BY <1>1, <1>2
    <2> HIDE DEF p, q
    <2> QED BY <1>1, <1>2, <2>1, <2>2
  <1>5. p = Rate * (now - last)
    BY <1>1
  <1> QED BY <1>2, <1>3, <1>4, <1>5 DEF Earned

(* What the refill at the head of Allow leaves: a bucket within its        *)
(* capacity, a refill time that never goes back, and no more tokens than   *)
(* the time between the two refills has earned.                            *)
LEMMA RefillFacts ==
  ASSUME TypeOK
  PROVE  LET r == Refill(clock, lastRefill) IN
         /\ r.tokens \in 0..Burst
         /\ r.lastRefill \in 0..MaxClock
         /\ lastRefill <= r.lastRefill
         /\ Second * (r.tokens - tokens) <= Rate * (r.lastRefill - lastRefill)
         /\ r.lastRefill = lastRefill \/ r.lastRefill = clock
         /\ (clock - lastRefill) * Rate >= Second => r.tokens >= 1 /\ r.lastRefill = clock
  <1> DEFINE add == Earned(clock, lastRefill)
             r == Refill(clock, lastRefill)
  <1>1. /\ clock \in 0..MaxClock /\ lastRefill \in 0..MaxClock /\ tokens \in 0..Burst
        /\ MaxClock \in Nat /\ Burst \in Nat /\ Burst >= 1 /\ Second \in Nat /\ Second > 0
        /\ Rate \in Nat
    BY LimitsAssumption DEF TypeOK
  <1>2. /\ add \in Int
        /\ Second * add <= Rate * (clock - lastRefill)
        /\ (clock - lastRefill) * Rate >= Second => add >= 1
        /\ add >= 1 => clock > lastRefill
    BY <1>1, EarnedFacts
  <1> HIDE DEF add
  <1>3. CASE add > 0
    <2>1. r = [tokens |-> CapAtBurst(tokens + add), lastRefill |-> clock]
      BY <1>3 DEF Refill, add
    <2>2. /\ CapAtBurst(tokens + add) \in 1..Burst
          /\ CapAtBurst(tokens + add) - tokens <= add
      BY <1>1, <1>2, <1>3 DEF CapAtBurst
    <2>3. Second * (CapAtBurst(tokens + add) - tokens) <= Second * add
      BY <1>1, <1>2, <2>2
    <2>4. /\ Second * (CapAtBurst(tokens + add) - tokens) \in Int
          /\ Second * add \in Int
          /\ Rate * (clock - lastRefill) \in Int
      BY <1>1, <1>2, <2>2
    <2>5. Second * (CapAtBurst(tokens + add) - tokens) <= Rate * (clock - lastRefill)
      BY <1>2, <2>3, <2>4
    <2> QED BY <1>1, <1>2, <1>3, <2>1, <2>2, <2>5
  <1>4. CASE ~(add > 0)
    <2>1. r = [tokens |-> tokens, lastRefill |-> lastRefill]
      BY <1>4 DEF Refill, add
    <2>2. ~((clock - lastRefill) * Rate >= Second)
      BY <1>2, <1>4
    <2>3. Second * (tokens - tokens) <= Rate * (lastRefill - lastRefill)
      BY <1>1
    <2> QED BY <1>1, <2>1, <2>2, <2>3
  <1> QED BY <1>3, <1>4

(* A paced client has seen no refusal, and no refill later than its last   *)
(* call, so its next call always finds a whole token earned.               *)
PacedInv == paced => denied = 0 /\ lastRefill <= lastCall

IInv == TypeOK /\ RateBound /\ PacedInv

LEMMA InitIInv == Init => IInv
  BY LimitsAssumption DEF Init, IInv, TypeOK, RateBound, PacedInv

LEMMA NextIInv == IInv /\ [Next]_vars => IInv'
  <1> SUFFICES ASSUME IInv, [Next]_vars PROVE IInv'
    OBVIOUS
  <1> USE LimitsAssumption DEF IInv
  <1>1. CASE SetClock
    BY <1>1 DEF SetClock, TypeOK, RateBound, PacedInv
  <1>2. CASE Allow
    <2> DEFINE r == Refill(clock, lastRefill)
    <2>1. /\ r.tokens \in 0..Burst
          /\ r.lastRefill \in 0..MaxClock
          /\ lastRefill <= r.lastRefill
          /\ Second * (r.tokens - tokens) <= Rate * (r.lastRefill - lastRefill)
          /\ r.lastRefill = lastRefill \/ r.lastRefill = clock
          /\ (clock - lastRefill) * Rate >= Second => r.tokens >= 1 /\ r.lastRefill = clock
      BY RefillFacts
    <2>2. /\ lastRefill' = r.lastRefill
          /\ \/ r.tokens <= 0 /\ tokens' = r.tokens /\ denied' = denied + 1 /\ granted' = granted
             \/ ~(r.tokens <= 0) /\ tokens' = r.tokens - 1 /\ granted' = granted + 1 /\ denied' = denied
          /\ lastCall' = clock
          /\ paced' = (paced /\ TokenTime(clock - lastCall))
          /\ clock' = clock /\ opened' = opened
      BY <1>2 DEF Allow
    <2> HIDE DEF r
    <2>3. TypeOK'
      BY <2>1, <2>2 DEF TypeOK, TokenTime
    <2>4. RateBound'
      <3>0. r.tokens \in Int /\ granted \in Int
        BY <2>1 DEF TypeOK
      <3>1. granted' + tokens' - InitTokens = granted + r.tokens - InitTokens
        BY <2>2, <3>0
      <3>2. Second * (granted + r.tokens - InitTokens)
              = Second * (granted + tokens - InitTokens) + Second * (r.tokens - tokens)
        BY <2>1 DEF TypeOK
      <3>3. Rate * (r.lastRefill - opened)
              = Rate * (lastRefill - opened) + Rate * (r.lastRefill - lastRefill)
        BY <2>1 DEF TypeOK
      <3>4. /\ Second * (granted + tokens - InitTokens) \in Int
            /\ Second * (r.tokens - tokens) \in Int
            /\ Rate * (lastRefill - opened) \in Int
            /\ Rate * (r.lastRefill - lastRefill) \in Int
        BY <2>1 DEF TypeOK
      <3>5. Second * (granted + r.tokens - InitTokens) <= Rate * (r.lastRefill - opened)
        BY <2>1, <3>2, <3>3, <3>4 DEF RateBound
      <3>6. opened' <= lastRefill'
        BY <2>1, <2>2 DEF TypeOK, RateBound
      <3>7. Second * (granted' + tokens' - InitTokens) <= Rate * (lastRefill' - opened')
        BY <2>2, <3>1, <3>5
      <3> QED BY <3>6, <3>7 DEF RateBound
    <2>5. PacedInv'
      <3> SUFFICES ASSUME paced, TokenTime(clock - lastCall)
                   PROVE  denied' = 0 /\ lastRefill' <= lastCall'
        BY <2>2 DEF PacedInv
      <3>1. (clock - lastRefill) * Rate >= (clock - lastCall) * Rate
        BY DEF PacedInv, TypeOK
      <3>2. (clock - lastRefill) * Rate >= Second
        BY <3>1 DEF TokenTime, TypeOK
      <3> QED BY <2>1, <2>2, <3>2 DEF PacedInv, TypeOK
    <2> QED BY <2>3, <2>4, <2>5
  <1>3. CASE UNCHANGED vars
    BY <1>3 DEF vars, TypeOK, RateBound, PacedInv
  <1> QED BY <1>1, <1>2, <1>3 DEF Next

LEMMA SpecIInv == Spec => []IInv
  BY InitIInv, NextIInv, PTL DEF Spec

(* The bucket of Allow holds between no tokens and Burst tokens, and the   *)
(* refill time is a time the clock has shown, whatever the clock does.     *)
THEOREM TypeCorrect == Spec => []TypeOK
  BY SpecIInv, PTL DEF IInv

(* The rate limit holds for every rate, burst and clock resolution, and    *)
(* for a wall clock that is stepped back as well as forward.               *)
THEOREM RateBoundHolds == Spec => []RateBound
  BY SpecIInv, PTL DEF IInv

(* No client that paces itself at one token's time is ever refused.        *)
THEOREM PacedClientHolds == Spec => []PacedClientServed
  <1>1. IInv => PacedClientServed
    BY DEF IInv, PacedInv, PacedClientServed
  <1> QED BY <1>1, SpecIInv, PTL

(* Allow refuses only when less than one token has been earned.            *)
THEOREM RefusalJustified == Spec => RefusedOnlyWhenOwedNothing
  <1> DEFINE Step == denied' > denied => tokens' = 0 /\ (clock - lastRefill) * Rate < Second
  <1>1. IInv /\ [Next]_vars => [Step]_vars
    <2> SUFFICES ASSUME IInv, Next PROVE Step
      OBVIOUS
    <2>1. CASE SetClock
      BY <2>1 DEF SetClock, IInv, TypeOK
    <2>2. CASE Allow
      <3> DEFINE r == Refill(clock, lastRefill)
      <3>1. /\ r.tokens \in 0..Burst
            /\ (clock - lastRefill) * Rate >= Second => r.tokens >= 1
        BY RefillFacts DEF IInv
      <3>2. denied' > denied => r.tokens <= 0 /\ tokens' = r.tokens
        BY <2>2 DEF Allow, IInv, TypeOK
      <3>3. (clock - lastRefill) * Rate \in Int /\ Second \in Int /\ Burst \in Nat
        BY LimitsAssumption DEF IInv, TypeOK
      <3> HIDE DEF r
      <3> QED BY <3>1, <3>2, <3>3
    <2> QED BY <2>1, <2>2 DEF Next
  <1> QED BY <1>1, SpecIInv, PTL DEF Spec, RefusedOnlyWhenOwedNothing

====
