-------------------------- MODULE Admission_proofs --------------------------
(***************************************************************************)
(* What handle_mcp does before it dispatches: the rate limiter and the     *)
(* session manager, which share no state.                                  *)
(*                                                                         *)
(* RateLimiter, for every burst, rate, clock resolution, set of clients    *)
(* and number of concurrent handlers: a client is admitted no more often   *)
(* than burst and rate allow, and refused only where it has used them up.  *)
(* Sessions, for any number of sessions, requests and restarts, any TTL    *)
(* and leeway: an id which left the map never returns, and a deleted id is *)
(* refused from then on.                                                   *)
(***************************************************************************)
EXTENDS RateLimiter, Sessions, TLAPS

-----------------------------------------------------------------------------
\* The rate limiter.

\* A product of numbers is a number, stated where the provers need it.
LEMMA ProductNat == \A m, n \in Nat : m * n \in Nat
  OBVIOUS

\* Earnings over two spans of time add up.
LEMMA Distributes == \A c, x, y \in Int : c * (x + y) = c * x + c * y
  OBVIOUS

\* The capacity of a bucket is a number.
LEMMA MaxTokensNat == MaxTokens \in Nat
  BY RateLimiterAssumption, ProductNat DEF MaxTokens

\* What refill does to a bucket: it stays a bucket, its time never moves back
\* nor beyond now, and it gains at most what the rate earns in the time that
\* last_refill advances by.
LEMMA RefillFacts ==
  ASSUME NEW b \in Bucket, NEW now \in 0..MaxClock
  PROVE  /\ refill(b, now) \in Bucket
         /\ refill(b, now).present = b.present
         /\ refill(b, now).last_refill >= b.last_refill
         /\ \/ refill(b, now).last_refill = b.last_refill
            \/ refill(b, now).last_refill = now
         /\ refill(b, now).tokens
              <= b.tokens + Rate * (refill(b, now).last_refill - b.last_refill)
<1> USE RateLimiterAssumption, MaxTokensNat
<1>1. CASE now > b.last_refill
  <2> DEFINE gain == (now - b.last_refill) * Rate
  <2>1. now - b.last_refill \in Nat
    BY <1>1 DEF Bucket
  <2>2. gain \in Nat /\ gain = Rate * (now - b.last_refill)
    BY <2>1, ProductNat
  <2> HIDE DEF gain
  <2>3. Capped(b.tokens + gain) \in 0..MaxTokens /\ Capped(b.tokens + gain) <= b.tokens + gain
    BY <2>2 DEF Bucket, Capped
  <2>4. refill(b, now) = [b EXCEPT !.tokens = Capped(b.tokens + gain), !.last_refill = now]
    BY <1>1 DEF refill, gain
  <2>5. /\ refill(b, now).tokens = Capped(b.tokens + gain)
        /\ refill(b, now).last_refill = now
        /\ refill(b, now).present = b.present
        /\ refill(b, now) \in Bucket
    BY <2>3, <2>4 DEF Bucket
  <2> QED
    BY <1>1, <2>2, <2>3, <2>5 DEF Bucket
<1>2. CASE ~(now > b.last_refill)
  BY <1>2 DEF refill, Bucket
<1> QED BY <1>1, <1>2

\* What check() leaves of the bucket it looked up or made, before the token is
\* taken: the refilled bucket accounts for every admission so far.
LEMMA RefilledFacts ==
  ASSUME IInv, NEW h \in Handlers, InsideLock(h)
  PROVE  LET k == handler[h].key IN
         /\ k \in Keys
         /\ Refilled(h) \in Bucket
         /\ Refilled(h).present
         /\ Refilled(h).last_refill <= clock
         /\ created' \in [Keys -> 0..MaxClock]
         /\ created'[k] <= Refilled(h).last_refill
         /\ admitted[k] * TicksPerSecond + Refilled(h).tokens
              <= MaxTokens + Rate * (Refilled(h).last_refill - created'[k])
<1> USE RateLimiterAssumption, MaxTokensNat
<1> DEFINE k == handler[h].key  b0 == BucketOf(k)  now == handler[h].now  b == refill(b0, now)
<1>1. k \in Keys /\ now \in 0..clock /\ now \in 0..MaxClock /\ clock \in 0..MaxClock
  BY DEF IInv, TypeOK, HandlerState, NoFutureReadings
<1>2. created' = [created EXCEPT ![k] = IF buckets[k].present THEN @ ELSE clock]
  BY DEF InsideLock
<1>3. created' \in [Keys -> 0..MaxClock]
  BY <1>1, <1>2 DEF IInv, TypeOK
<1>4. /\ b0 \in Bucket
      /\ b0.present
      /\ b0.last_refill <= clock
      /\ created'[k] <= b0.last_refill
      /\ admitted[k] \in Nat
      /\ admitted[k] * TicksPerSecond + b0.tokens
           <= MaxTokens + Rate * (b0.last_refill - created'[k])
  <2>1. CASE buckets[k].present
    <3>1. b0 = buckets[k] /\ created'[k] = created[k]
      BY <1>1, <1>2, <2>1 DEF BucketOf, IInv, TypeOK
    <3> QED
      BY <1>1, <2>1, <3>1 DEF IInv, TypeOK, NoFutureReadings, TokensAccounted
  <2>2. CASE ~buckets[k].present
    <3>1. b0 = [present |-> TRUE, tokens |-> MaxTokens, last_refill |-> clock]
      BY <2>2 DEF BucketOf, NewBucket
    <3>2. created'[k] = clock /\ admitted[k] = 0
      BY <1>1, <1>2, <2>2 DEF IInv, TypeOK, TokensAccounted
    <3>3. Rate * (b0.last_refill - created'[k]) = 0 /\ admitted[k] * TicksPerSecond = 0
      BY <1>1, <3>1, <3>2
    <3> QED
      BY <1>1, <3>1, <3>2, <3>3 DEF Bucket
  <2> QED BY <2>1, <2>2
<1> HIDE DEF b0, now
<1>5. /\ b \in Bucket
      /\ b.present = b0.present
      /\ b.last_refill >= b0.last_refill
      /\ b.last_refill = b0.last_refill \/ b.last_refill = now
      /\ b.tokens <= b0.tokens + Rate * (b.last_refill - b0.last_refill)
  BY <1>1, <1>4, RefillFacts
<1> HIDE DEF b
<1> DEFINE x == b0.last_refill - created'[k]  y == b.last_refill - b0.last_refill
<1>6. /\ x \in Int /\ y \in Int /\ x + y = b.last_refill - created'[k]
      /\ b.tokens \in Int /\ b0.tokens \in Int
      /\ b.last_refill \in Int /\ b0.last_refill \in Int /\ created'[k] \in Int
  <2>1. b.tokens \in Int /\ b.last_refill \in Int
    BY <1>5 DEF Bucket
  <2>2. b0.tokens \in Int /\ b0.last_refill \in Int
    BY <1>4 DEF Bucket
  <2>3. created'[k] \in Int
    BY <1>1, <1>3
  <2> QED BY <2>1, <2>2, <2>3
<1>7. Rate * (b.last_refill - created'[k])
        = Rate * (b0.last_refill - created'[k]) + Rate * (b.last_refill - b0.last_refill)
  BY <1>6, Distributes DEF x, y
<1>8. /\ Rate * (b0.last_refill - created'[k]) \in Int
      /\ Rate * (b.last_refill - b0.last_refill) \in Int
      /\ admitted[k] * TicksPerSecond \in Int
  BY <1>4, <1>6 DEF x, y
<1>9. admitted[k] * TicksPerSecond + b.tokens
        <= MaxTokens + Rate * (b.last_refill - created'[k])
  BY <1>4, <1>5, <1>6, <1>7, <1>8
<1>10. Refilled(h) = b
  BY DEF Refilled, b, b0, now
<1>11. b.last_refill <= clock /\ created'[k] <= b.last_refill
  BY <1>1, <1>4, <1>5, <1>6
<1> QED
  BY <1>1, <1>3, <1>4, <1>5, <1>9, <1>10, <1>11

\* What refill earns is exact unless the bucket is full afterwards, and its time
\* is the later of the two.
LEMMA RefillExact ==
  ASSUME NEW b \in Bucket, NEW now \in 0..MaxClock
  PROVE  /\ refill(b, now).last_refill = Later(b.last_refill, now)
         /\ \/ now > b.last_refill /\ refill(b, now).tokens = MaxTokens
            \/ refill(b, now).tokens
                 = b.tokens + Rate * (refill(b, now).last_refill - b.last_refill)
<1> USE RateLimiterAssumption, MaxTokensNat
<1>1. CASE now > b.last_refill
  <2> DEFINE gain == (now - b.last_refill) * Rate
  <2>1. gain = Rate * (now - b.last_refill)
    BY DEF Bucket
  <2>2. refill(b, now).tokens = Capped(b.tokens + gain) /\ refill(b, now).last_refill = now
    BY <1>1 DEF refill, Bucket
  <2> HIDE DEF gain
  <2>3. Later(b.last_refill, now) = now
    BY <1>1 DEF Later, Bucket
  <2> QED BY <1>1, <2>1, <2>2, <2>3 DEF Capped
<1>2. CASE ~(now > b.last_refill)
  <2>1. refill(b, now) = b /\ Later(b.last_refill, now) = b.last_refill
    BY <1>2 DEF refill, Later, Bucket
  <2>2. Rate * (b.last_refill - b.last_refill) = 0 /\ b.tokens + 0 = b.tokens
    BY DEF Bucket
  <2> QED BY <2>1, <2>2
<1> QED BY <1>1, <1>2

\* One time more and one time less cancel out: what the windows below are
\* rewritten with.
LEMMA WindowGrows ==
  ASSUME NEW tok \in Int, NEW paid \in Int, NEW s \in Int, NEW t \in Int, NEW u \in Int,
         tok + paid >= MaxTokens + Rate * (t - s)
  PROVE  (tok + Rate * (u - t)) + paid >= MaxTokens + Rate * (u - s)
<1>1. Rate * ((t - s) + (u - t)) = Rate * (t - s) + Rate * (u - t)
  BY Distributes, RateLimiterAssumption
<1>2. (t - s) + (u - t) = u - s
  OBVIOUS
<1>3. Rate * (t - s) \in Int /\ Rate * (u - t) \in Int /\ MaxTokens \in Int
  BY RateLimiterAssumption, MaxTokensNat
<1> QED BY <1>1, <1>2, <1>3

\* The bucket check() is about to take a token from lacks only what was taken
\* since some time: the window of the old bucket, moved on by the refill, or the
\* one that begins with the refill which filled it.
LEMMA RefilledNotLost ==
  ASSUME IInv, NEW h \in Handlers, InsideLock(h)
  PROVE  LET k == handler[h].key IN
         /\ seen' \in [Keys -> 0..MaxClock]
         /\ seen'[k] = Refilled(h).last_refill
         /\ \A t \in 0..MaxClock : t > seen'[k] => before[k][t] = admitted[k]
         /\ \E s \in created'[k]..seen'[k] :
              Refilled(h).tokens + (admitted[k] - before[k][s]) * TicksPerSecond
                >= MaxTokens + Rate * (seen'[k] - s)
<1> USE RateLimiterAssumption, MaxTokensNat
<1> DEFINE k == handler[h].key  b0 == BucketOf(k)  now == handler[h].now  b == refill(b0, now)
           Used(s) == (admitted[k] - before[k][s]) * TicksPerSecond
<1>1. k \in Keys /\ now \in 0..MaxClock /\ now <= clock /\ clock \in 0..MaxClock
  BY DEF IInv, TypeOK, HandlerState, NoFutureReadings
<1>2. /\ created' = [created EXCEPT ![k] = IF buckets[k].present THEN @ ELSE clock]
      /\ seen' = [seen EXCEPT ![k] = IF buckets[k].present THEN Later(@, now) ELSE clock]
  BY DEF InsideLock
<1>3. seen' \in [Keys -> 0..MaxClock]
  <2>1. seen \in [Keys -> 0..MaxClock]
    BY DEF IInv, TypeOK
  <2>2. seen[k] \in 0..MaxClock /\ Later(seen[k], now) \in 0..MaxClock
    BY <1>1, <2>1 DEF Later
  <2> QED BY <1>1, <1>2, <2>1, <2>2
<1>4. /\ b0 \in Bucket
      /\ created'[k] \in 0..MaxClock
      /\ created'[k] <= b0.last_refill
      /\ seen'[k] = Later(b0.last_refill, now)
      /\ \A t \in 0..MaxClock : t > b0.last_refill => before[k][t] = admitted[k]
      /\ \E s \in created'[k]..b0.last_refill :
           b0.tokens + Used(s) >= MaxTokens + Rate * (b0.last_refill - s)
  <2>1. CASE buckets[k].present
    <3>1. b0 = buckets[k] /\ created'[k] = created[k] /\ seen'[k] = Later(seen[k], now)
      BY <1>1, <1>2, <2>1 DEF BucketOf, IInv, TypeOK
    <3>2. seen[k] = b0.last_refill
      BY <1>1, <3>1 DEF IInv, TokensNotLost, NotLost
    <3>3. b0 \in Bucket /\ created'[k] \in 0..MaxClock /\ created'[k] <= b0.last_refill
      BY <1>1, <2>1, <3>1 DEF IInv, TypeOK, TokensAccounted
    <3>4. /\ \A t \in 0..MaxClock : t > seen[k] => before[k][t] = admitted[k]
          /\ \E s \in created[k]..seen[k] :
               buckets[k].tokens + Used(s) >= MaxTokens + Rate * (seen[k] - s)
      BY <1>1, <2>1 DEF IInv, TokensNotLost, NotLost
    <3> HIDE DEF b0, Used, now, k
    <3> QED
      BY <3>1, <3>2, <3>3, <3>4
  <2>2. CASE ~buckets[k].present
    <3>1. b0 = [present |-> TRUE, tokens |-> MaxTokens, last_refill |-> clock]
      BY <2>2 DEF BucketOf, NewBucket
    <3>2. b0 \in Bucket /\ b0.tokens = MaxTokens /\ b0.last_refill = clock
      BY <1>1, <3>1 DEF Bucket
    <3>3. created'[k] = clock /\ seen'[k] = clock /\ admitted[k] = 0
      BY <1>1, <1>2, <2>2 DEF IInv, TypeOK, TokensAccounted
    <3>4. \A t \in 0..MaxClock : before[k][t] = 0
      <4>1. \A t \in 0..MaxClock : before[k][t] \in Nat
        BY <1>1 DEF IInv, TypeOK
      <4>2. \A t \in 0..MaxClock : before[k][t] <= 0
        BY <1>1, <3>3 DEF IInv, TokensNotLost, NotLost
      <4> QED BY <4>1, <4>2
    <3>5. clock = Later(clock, now)
      BY <1>1 DEF Later
    <3>6. Used(clock) = 0 /\ Rate * (clock - clock) = 0
      BY <1>1, <3>3, <3>4
    <3>7. MaxTokens + Used(clock) >= MaxTokens + Rate * (clock - clock)
      BY <3>6
    <3>8. clock \in clock..clock
      BY <1>1
    <3> HIDE DEF b0, Used
    <3> QED
      BY <1>1, <3>2, <3>3, <3>4, <3>5, <3>7, <3>8
  <2> QED BY <2>1, <2>2
<1> HIDE DEF b0, now
<1>5. /\ b \in Bucket
      /\ b.last_refill = seen'[k]
      /\ \/ now > b0.last_refill /\ b.tokens = MaxTokens
         \/ b.tokens = b0.tokens + Rate * (b.last_refill - b0.last_refill)
      /\ b.last_refill = b0.last_refill \/ b.last_refill = now
      /\ b.last_refill >= b0.last_refill
  BY <1>1, <1>4, RefillExact, RefillFacts
<1> HIDE DEF b
<1>6. \A t \in 0..MaxClock : t > seen'[k] => before[k][t] = admitted[k]
  BY <1>4, <1>5 DEF Bucket
<1>7. \A s \in 0..MaxClock : Used(s) \in Int
  BY <1>1 DEF IInv, TypeOK
<1>8. /\ b.tokens \in Int /\ b0.tokens \in Int /\ b.last_refill \in 0..MaxClock
      /\ b0.last_refill \in 0..MaxClock /\ created'[k] \in 0..MaxClock
  BY <1>4, <1>5 DEF Bucket
<1>9. \E s \in created'[k]..seen'[k] : b.tokens + Used(s) >= MaxTokens + Rate * (seen'[k] - s)
  <2>1. CASE now > b0.last_refill /\ b.tokens = MaxTokens
    <3>1. seen'[k] = now
      BY <1>1, <1>4, <1>8, <2>1 DEF Later
    <3>2. before[k][now] = admitted[k] /\ now \in created'[k]..now
      BY <1>1, <1>4, <1>8, <2>1
    <3>3. Used(now) = 0 /\ Rate * (now - now) = 0
      <4>1. admitted[k] - before[k][now] = 0
        BY <1>1, <3>2 DEF IInv, TypeOK
      <4> QED BY <1>1, <4>1
    <3> HIDE DEF Used
    <3>4. b.tokens + Used(now) >= MaxTokens + Rate * (now - now)
      BY <1>8, <2>1, <3>3
    <3> QED BY <3>1, <3>2, <3>4
  <2>2. CASE b.tokens = b0.tokens + Rate * (b.last_refill - b0.last_refill)
    <3>1. PICK s \in created'[k]..b0.last_refill :
            b0.tokens + Used(s) >= MaxTokens + Rate * (b0.last_refill - s)
      BY <1>4
    <3>2. s \in 0..MaxClock /\ s \in created'[k]..seen'[k]
      BY <1>5, <1>8
    <3>3. Used(s) \in Int
      BY <1>7, <3>2
    <3> HIDE DEF Used
    <3>4. s \in Int /\ b0.last_refill \in Int /\ seen'[k] \in Int
      BY <1>5, <1>8, <3>2
    <3>5. (b0.tokens + Rate * (seen'[k] - b0.last_refill)) + Used(s)
             >= MaxTokens + Rate * (seen'[k] - s)
      BY <1>8, <3>1, <3>3, <3>4, WindowGrows
    <3> QED BY <1>5, <2>2, <3>2, <3>5
  <2> QED BY <1>5, <2>1, <2>2
<1>10. Refilled(h) = b
  BY DEF Refilled, b, b0, now
<1> QED BY <1>3, <1>5, <1>6, <1>9, <1>10

\* The inductive invariant: types, no reading from the future, every admission
\* and every token accounted for, and none lost.
THEOREM TokensAccountedFor == Spec => []IInv
<1> USE RateLimiterAssumption, MaxTokensNat
<1>1. Init => IInv
  <2> SUFFICES ASSUME Init PROVE IInv
    OBVIOUS
  <2>1. TypeOK
    BY DEF Init, TypeOK, Bucket, HandlerState
  <2>2. NoFutureReadings
    BY DEF Init, NoFutureReadings
  <2>3. TokensAccounted
    BY DEF Init, TokensAccounted
  <2>4. TokensNotLost
    <3>1. \A k \in Keys : /\ seen[k] = 0 /\ admitted[k] = 0 /\ ~buckets[k].present
                          /\ buckets[k].last_refill = 0
                          /\ \A t \in 0..MaxClock : before[k][t] = 0
      BY DEF Init
    <3> SUFFICES ASSUME NEW k \in Keys PROVE NotLost(k)
      BY DEF TokensNotLost
    <3>2. \A t \in 0..MaxClock : /\ before[k][t] <= admitted[k]
                                 /\ t > seen[k] => before[k][t] = admitted[k]
      BY <3>1
    <3> QED BY <3>1, <3>2 DEF NotLost
  <2> QED BY <2>1, <2>2, <2>3, <2>4 DEF IInv
<1>2. IInv /\ [Next]_vars => IInv'
  <2> SUFFICES ASSUME IInv, [Next]_vars PROVE IInv'
    OBVIOUS
  <2>1. ASSUME NEW h \in Handlers, NEW k \in Keys, ReadClock(h, k) PROVE IInv'
    <3>1. TypeOK'
      BY <2>1 DEF IInv, TypeOK, ReadClock, HandlerState
    <3>2. NoFutureReadings'
      <4>1. \A g \in Handlers : handler'[g].now = handler[g].now \/ handler'[g].now = clock
        BY <2>1 DEF IInv, TypeOK, ReadClock, HandlerState
      <4>2. clock \in Int /\ clock' = clock
        BY <2>1 DEF IInv, TypeOK, ReadClock
      <4> QED BY <2>1, <4>1, <4>2 DEF IInv, NoFutureReadings, ReadClock
    <3>3. TokensAccounted'
      BY <2>1 DEF IInv, TokensAccounted, ReadClock
    <3>4. TokensNotLost'
      BY <2>1 DEF IInv, TokensNotLost, NotLost, ReadClock
    <3> QED BY <3>1, <3>2, <3>3, <3>4 DEF IInv
  <2>2. ASSUME NEW h \in Handlers, Admit(h) PROVE IInv'
    <3> DEFINE k == handler[h].key  b == Refilled(h)
    <3>1. InsideLock(h) /\ CanAcquire(b)
      BY <2>2 DEF Admit
    <3>2. /\ k \in Keys /\ b \in Bucket /\ b.present /\ b.last_refill <= clock
          /\ created' \in [Keys -> 0..MaxClock]
          /\ created'[k] <= b.last_refill
          /\ admitted[k] * TicksPerSecond + b.tokens
               <= MaxTokens + Rate * (b.last_refill - created'[k])
      BY <3>1, RefilledFacts
    <3>3. /\ buckets' = [buckets EXCEPT ![k] = Spend(b)]
          /\ admitted' = [admitted EXCEPT ![k] = @ + 1]
      BY <2>2 DEF Admit
    <3> HIDE DEF k, b
    <3>4. /\ Spend(b) \in Bucket
          /\ Spend(b).present
          /\ Spend(b).last_refill = b.last_refill
          /\ Spend(b).tokens = b.tokens - TicksPerSecond
      BY <3>1, <3>2 DEF Spend, CanAcquire, Bucket
    <3>5. admitted[k] \in Nat
      BY <3>2 DEF IInv, TypeOK
    <3>6. (admitted[k] + 1) * TicksPerSecond = admitted[k] * TicksPerSecond + TicksPerSecond
      BY <3>5
    <3>7. (admitted[k] + 1) * TicksPerSecond + Spend(b).tokens
            <= MaxTokens + Rate * (b.last_refill - created'[k])
      <4>1. b.tokens \in Int /\ admitted[k] * TicksPerSecond \in Int
        BY <3>2, <3>5, ProductNat DEF Bucket
      <4> QED BY <3>2, <3>4, <3>6, <4>1
    <3>8. InsideLock(h)
      BY <3>1
    <3>9. \A j \in Keys : j # k => /\ buckets'[j] = buckets[j]
                                   /\ admitted'[j] = admitted[j]
                                   /\ created'[j] = created[j]
      BY <3>2, <3>3, <3>8 DEF IInv, TypeOK, InsideLock, k
    <3>10. /\ buckets'[k] = Spend(b)
           /\ admitted'[k] = admitted[k] + 1
      BY <3>2, <3>3 DEF IInv, TypeOK
    <3>14. /\ seen' \in [Keys -> 0..MaxClock]
           /\ seen'[k] = b.last_refill
           /\ \A t \in 0..MaxClock : t > seen'[k] => before[k][t] = admitted[k]
           /\ \E s \in created'[k]..seen'[k] :
                b.tokens + (admitted[k] - before[k][s]) * TicksPerSecond
                  >= MaxTokens + Rate * (seen'[k] - s)
      BY <3>1, RefilledNotLost DEF k, b
    <3>15. before' = [before EXCEPT ![k] = [t \in 0..MaxClock |->
                                             before[k][t] + (IF t > seen'[k] THEN 1 ELSE 0)]]
      BY <2>2 DEF Admit, k
    <3>16. \A t \in 0..MaxClock : before[k][t] \in Nat
      BY <3>2 DEF IInv, TypeOK
    <3>17. before' \in [Keys -> [0..MaxClock -> Nat]]
      <4> DEFINE f == [t \in 0..MaxClock |-> before[k][t] + (IF t > seen'[k] THEN 1 ELSE 0)]
      <4>1. f \in [0..MaxClock -> Nat]
        BY <3>16
      <4>2. before' = [before EXCEPT ![k] = f]
        BY <3>15
      <4> HIDE DEF f
      <4> QED BY <3>2, <4>1, <4>2 DEF IInv, TypeOK
    <3>19. seen' \in [Keys -> 0..MaxClock]
      BY <3>14
    <3>11. TypeOK'
      <4>1. handler' \in [Handlers -> HandlerState] /\ clock' = clock
        BY <3>8 DEF IInv, TypeOK, InsideLock, HandlerState
      <4>2. buckets' \in [Keys -> Bucket]
        BY <3>2, <3>3, <3>4 DEF IInv, TypeOK
      <4>3. admitted' \in [Keys -> Nat]
        <5>1. admitted \in [Keys -> Nat] /\ admitted[k] + 1 \in Nat
          BY <3>5 DEF IInv, TypeOK
        <5>2. k \in Keys /\ admitted' = [admitted EXCEPT ![k] = admitted[k] + 1]
          BY <3>2, <3>3
        <5> QED BY <5>1, <5>2
      <4> QED BY <3>2, <3>17, <3>19, <4>1, <4>2, <4>3 DEF IInv, TypeOK
    <3>12. NoFutureReadings'
      <4>1. \A j \in Keys : buckets'[j].last_refill <= clock /\ created'[j] <= clock
        <5>1. clock \in Int /\ created'[k] \in Int /\ b.last_refill \in Int
          BY <3>2 DEF IInv, TypeOK, Bucket
        <5> QED BY <3>2, <3>4, <3>9, <3>10, <5>1 DEF IInv, NoFutureReadings
      <4> QED BY <3>8, <4>1 DEF IInv, TypeOK, HandlerState, NoFutureReadings, InsideLock
    <3>13. TokensAccounted'
      <4> SUFFICES ASSUME NEW j \in Keys
                   PROVE  /\ buckets'[j].present =>
                               /\ created'[j] <= buckets'[j].last_refill
                               /\ admitted'[j] * TicksPerSecond + buckets'[j].tokens
                                   <= MaxTokens + Rate * (buckets'[j].last_refill - created'[j])
                          /\ ~buckets'[j].present => admitted'[j] = 0 /\ created'[j] = 0
        BY DEF TokensAccounted
      <4>1. CASE j = k
        BY <3>2, <3>4, <3>7, <3>10, <4>1
      <4>2. CASE j # k
        BY <3>9, <4>2 DEF IInv, TokensAccounted
      <4> QED BY <4>1, <4>2
    <3>18. TokensNotLost'
      <4>1. \A j \in Keys : j # k => seen'[j] = seen[j] /\ before'[j] = before[j]
        BY <3>2, <3>8, <3>15 DEF IInv, TypeOK, InsideLock, k
      <4>2. \A t \in 0..MaxClock : before'[k][t] = before[k][t] + (IF t > seen'[k] THEN 1 ELSE 0)
        BY <3>2, <3>15 DEF IInv, TypeOK
      <4>3. seen'[k] = buckets'[k].last_refill
        BY <3>4, <3>10, <3>14
      <4>4. \A t \in 0..MaxClock : /\ before'[k][t] <= admitted'[k]
                                   /\ t > seen'[k] => before'[k][t] = admitted'[k]
        <5>1. \A t \in 0..MaxClock : before[k][t] <= admitted[k]
          BY <3>2 DEF IInv, TokensNotLost, NotLost
        <5> QED BY <3>5, <3>10, <3>14, <3>16, <4>2, <5>1
      <4>5. \E s \in created'[k]..seen'[k] :
              buckets'[k].tokens + (admitted'[k] - before'[k][s]) * TicksPerSecond
                >= MaxTokens + Rate * (seen'[k] - s)
        <5>1. PICK s \in created'[k]..seen'[k] :
                b.tokens + (admitted[k] - before[k][s]) * TicksPerSecond
                  >= MaxTokens + Rate * (seen'[k] - s)
          BY <3>14
        <5>2. created'[k] \in 0..MaxClock /\ seen'[k] \in 0..MaxClock
          BY <3>2, <3>14
        <5>3. s \in 0..MaxClock /\ ~(s > seen'[k])
          BY <5>2
        <5>4. before'[k][s] = before[k][s] /\ before[k][s] \in Nat
          BY <3>16, <4>2, <5>3
        <5>5. (admitted[k] + 1 - before[k][s]) * TicksPerSecond
                = (admitted[k] - before[k][s]) * TicksPerSecond + TicksPerSecond
          <6>1. admitted[k] + 1 - before[k][s] = (admitted[k] - before[k][s]) + 1
            BY <3>5, <5>4
          <6>2. TicksPerSecond * ((admitted[k] - before[k][s]) + 1)
                  = TicksPerSecond * (admitted[k] - before[k][s]) + TicksPerSecond * 1
            BY <3>5, <5>4, Distributes
          <6> QED BY <3>5, <5>4, <6>1, <6>2
        <5>6. (admitted[k] - before[k][s]) * TicksPerSecond \in Int /\ b.tokens \in Int
          BY <3>2, <3>5, <5>4 DEF Bucket
        <5>7. (b.tokens - TicksPerSecond) + (admitted[k] + 1 - before[k][s]) * TicksPerSecond
                = b.tokens + (admitted[k] - before[k][s]) * TicksPerSecond
          BY <5>5, <5>6
        <5>8. buckets'[k].tokens = b.tokens - TicksPerSecond
          BY <3>4, <3>10
        <5>9. admitted'[k] - before'[k][s] = admitted[k] + 1 - before[k][s]
          BY <3>5, <3>10, <5>4
        <5> QED BY <5>1, <5>7, <5>8, <5>9
      <4> SUFFICES ASSUME NEW j \in Keys PROVE NotLost(j)'
        BY DEF TokensNotLost
      <4>6. CASE j = k
        <5>1. seen'[j] = buckets'[j].last_refill
          BY <4>3, <4>6
        <5>2. \A t \in 0..MaxClock : /\ before'[j][t] <= admitted'[j]
                                     /\ t > seen'[j] => before'[j][t] = admitted'[j]
          BY <4>4, <4>6
        <5>3. \E s \in created'[j]..seen'[j] :
                buckets'[j].tokens + (admitted'[j] - before'[j][s]) * TicksPerSecond
                  >= MaxTokens + Rate * (seen'[j] - s)
          BY <4>5, <4>6
        <5> QED BY <5>1, <5>2, <5>3 DEF NotLost
      <4>7. CASE j # k
        BY <3>9, <4>1, <4>7 DEF IInv, TokensNotLost, NotLost
      <4> QED BY <4>6, <4>7
    <3> QED BY <3>11, <3>12, <3>13, <3>18 DEF IInv
  <2>3. ASSUME NEW h \in Handlers, Reject(h) PROVE IInv'
    <3> DEFINE k == handler[h].key  b == Refilled(h)
    <3>1. InsideLock(h)
      BY <2>3 DEF Reject
    <3>2. /\ k \in Keys /\ b \in Bucket /\ b.present /\ b.last_refill <= clock
          /\ created' \in [Keys -> 0..MaxClock]
          /\ created'[k] <= b.last_refill
          /\ admitted[k] * TicksPerSecond + b.tokens
               <= MaxTokens + Rate * (b.last_refill - created'[k])
      BY <3>1, RefilledFacts
    <3>3. buckets' = [buckets EXCEPT ![k] = b] /\ admitted' = admitted /\ before' = before
      BY <2>3 DEF Reject
    <3>9. /\ seen' \in [Keys -> 0..MaxClock]
          /\ seen'[k] = b.last_refill
          /\ \A t \in 0..MaxClock : t > seen'[k] => before[k][t] = admitted[k]
          /\ \E s \in created'[k]..seen'[k] :
               b.tokens + (admitted[k] - before[k][s]) * TicksPerSecond
                 >= MaxTokens + Rate * (seen'[k] - s)
      BY <3>1, RefilledNotLost
    <3> HIDE DEF b
    <3>4. \A j \in Keys : j # k => /\ buckets'[j] = buckets[j] /\ created'[j] = created[j]
                                   /\ seen'[j] = seen[j]
      BY <3>1, <3>2, <3>3 DEF IInv, TypeOK, InsideLock
    <3>5. buckets'[k] = b
      BY <3>2, <3>3 DEF IInv, TypeOK
    <3> HIDE DEF k
    <3>6. TypeOK'
      <4>1. seen' \in [Keys -> 0..MaxClock]
        BY <3>9
      <4>2. handler' \in [Handlers -> HandlerState] /\ clock' = clock
        BY <3>1 DEF IInv, TypeOK, InsideLock, HandlerState
      <4>3. buckets' \in [Keys -> Bucket]
        BY <3>2, <3>3 DEF IInv, TypeOK
      <4> QED BY <3>2, <3>3, <4>1, <4>2, <4>3 DEF IInv, TypeOK
    <3>7. NoFutureReadings'
      <4>1. \A j \in Keys : buckets'[j].last_refill <= clock /\ created'[j] <= clock
        <5>1. clock \in Int /\ created'[k] \in Int /\ b.last_refill \in Int
          BY <3>2 DEF IInv, TypeOK, Bucket
        <5> QED BY <3>2, <3>4, <3>5, <5>1 DEF IInv, NoFutureReadings
      <4> QED BY <3>1, <4>1 DEF IInv, TypeOK, HandlerState, NoFutureReadings, InsideLock
    <3>8. TokensAccounted'
      <4> SUFFICES ASSUME NEW j \in Keys
                   PROVE  /\ buckets'[j].present =>
                               /\ created'[j] <= buckets'[j].last_refill
                               /\ admitted'[j] * TicksPerSecond + buckets'[j].tokens
                                   <= MaxTokens + Rate * (buckets'[j].last_refill - created'[j])
                          /\ ~buckets'[j].present => admitted'[j] = 0 /\ created'[j] = 0
        BY DEF TokensAccounted
      <4>1. CASE j = k
        BY <3>2, <3>3, <3>5, <4>1
      <4>2. CASE j # k
        BY <3>3, <3>4, <4>2 DEF IInv, TokensAccounted
      <4> QED BY <4>1, <4>2
    <3>10. TokensNotLost'
      <4> SUFFICES ASSUME NEW j \in Keys PROVE NotLost(j)'
        BY DEF TokensNotLost
      <4>1. CASE j = k
        <5>1. \A t \in 0..MaxClock : before[k][t] <= admitted[k]
          BY <3>2 DEF IInv, TokensNotLost, NotLost
        <5> QED BY <3>3, <3>5, <3>9, <4>1, <5>1 DEF NotLost
      <4>2. CASE j # k
        BY <3>3, <3>4, <4>2 DEF IInv, TokensNotLost, NotLost
      <4> QED BY <4>1, <4>2
    <3> QED BY <3>6, <3>7, <3>8, <3>10 DEF IInv
  <2>4. CASE Tick
    <3>1. TypeOK'
      BY <2>4 DEF IInv, TypeOK, Tick
    <3>2. NoFutureReadings'
      BY <2>4 DEF IInv, TypeOK, Bucket, HandlerState, NoFutureReadings, Tick
    <3>3. TokensAccounted'
      BY <2>4 DEF IInv, TokensAccounted, Tick
    <3>4. TokensNotLost'
      BY <2>4 DEF IInv, TokensNotLost, NotLost, Tick
    <3> QED BY <3>1, <3>2, <3>3, <3>4 DEF IInv
  <2>5. CASE UNCHANGED vars
    BY <2>5 DEF vars, IInv, TypeOK, NoFutureReadings, TokensAccounted, TokensNotLost, NotLost
  <2> QED BY <2>1, <2>2, <2>3, <2>4, <2>5 DEF Next
<1> QED BY <1>1, <1>2, PTL DEF Spec

\* The rate limiter never lets a client through more often than its burst plus
\* what the rate earned since its bucket was made, for any interleaving of
\* handlers and any delay between reading the clock and taking the lock.
THEOREM AdmissionsBounded == Spec => []AdmissionBound
<1>1. IInv => AdmissionBound
  <2> SUFFICES ASSUME IInv, NEW k \in Keys
               PROVE  admitted[k] * TicksPerSecond <= MaxTokens + Rate * (clock - created[k])
    BY DEF AdmissionBound
  <2> USE RateLimiterAssumption, MaxTokensNat
  <2> DEFINE x == buckets[k].last_refill - created[k]  y == clock - buckets[k].last_refill
  <2>1. /\ clock \in Nat /\ created[k] \in Nat /\ buckets[k].last_refill \in Nat
        /\ created[k] <= clock /\ buckets[k].last_refill <= clock
        /\ buckets[k].tokens \in Nat /\ admitted[k] \in Nat
    BY DEF IInv, TypeOK, Bucket, NoFutureReadings
  <2>2. x \in Int /\ y \in Nat /\ x + y = clock - created[k] /\ clock - created[k] \in Nat
    BY <2>1
  <2>3. admitted[k] * TicksPerSecond \in Nat /\ Rate * y \in Nat
        /\ Rate * (clock - created[k]) \in Nat /\ Rate * x \in Int
    BY <2>1, <2>2, ProductNat
  <2>4. Rate * (clock - created[k]) = Rate * x + Rate * y
    <3> HIDE DEF x, y
    <3>1. Rate * (x + y) = Rate * x + Rate * y
      BY <2>2, Distributes
    <3> QED BY <2>2, <3>1
  <2>5. CASE buckets[k].present
    <3>1. admitted[k] * TicksPerSecond + buckets[k].tokens <= MaxTokens + Rate * x
      BY <2>5 DEF IInv, TokensAccounted
    <3> HIDE DEF x, y
    <3> QED BY <2>1, <2>3, <2>4, <3>1
  <2>6. CASE ~buckets[k].present
    <3>1. admitted[k] * TicksPerSecond = 0
      BY <2>6 DEF IInv, TokensAccounted
    <3> QED BY <2>3, <3>1
  <2> QED BY <2>5, <2>6
<1> QED BY <1>1, TokensAccountedFor, PTL

\* rate_limit.rs check(): nobody is refused a token it has earned, whatever order
\* the handlers' readings of the clock reach its bucket in and however often it was
\* refused before: a refusal means that with one request more the client would
\* have exceeded burst and rate over some stretch of time up to the latest
\* reading its requests brought.
THEOREM RejectedOnlyWhenPoor == Spec => NoUndueRejection
<1>1. ASSUME IInv, NEW h \in Handlers, Reject(h)
      PROVE  LET k == handler[h].key IN
             \E s \in created'[k]..seen'[k] :
               (admitted[k] - before[k][s] + 1) * TicksPerSecond
                 > MaxTokens + Rate * (seen'[k] - s)
  <2> USE RateLimiterAssumption, MaxTokensNat
  <2> DEFINE k == handler[h].key  b == Refilled(h)
  <2>1. InsideLock(h) /\ ~CanAcquire(b)
    BY <1>1 DEF Reject
  <2>2. /\ k \in Keys /\ b \in Bucket
        /\ created' \in [Keys -> 0..MaxClock]
    BY <1>1, <2>1, RefilledFacts
  <2>3. /\ seen' \in [Keys -> 0..MaxClock]
        /\ \E s \in created'[k]..seen'[k] :
             b.tokens + (admitted[k] - before[k][s]) * TicksPerSecond
               >= MaxTokens + Rate * (seen'[k] - s)
    BY <1>1, <2>1, RefilledNotLost
  <2> HIDE DEF k, b
  <2>4. PICK s \in created'[k]..seen'[k] :
          b.tokens + (admitted[k] - before[k][s]) * TicksPerSecond
            >= MaxTokens + Rate * (seen'[k] - s)
    BY <2>3
  <2>5. s \in 0..MaxClock /\ s \in Int /\ seen'[k] \in Int
    BY <2>2, <2>3
  <2>6. admitted[k] \in Nat /\ before[k][s] \in Nat
    BY <1>1, <2>2, <2>5 DEF IInv, TypeOK
  <2>7. b.tokens \in Int /\ b.tokens < TicksPerSecond
    BY <2>1, <2>2 DEF Bucket, CanAcquire
  <2>8. (admitted[k] - before[k][s] + 1) * TicksPerSecond
          = (admitted[k] - before[k][s]) * TicksPerSecond + TicksPerSecond
    BY <2>6
  <2>9. /\ (admitted[k] - before[k][s]) * TicksPerSecond \in Int
        /\ Rate * (seen'[k] - s) \in Int
    BY <2>5, <2>6
  <2>10. (admitted[k] - before[k][s] + 1) * TicksPerSecond > MaxTokens + Rate * (seen'[k] - s)
    BY <2>4, <2>7, <2>8, <2>9
  <2> QED BY <2>10 DEF k
<1>2. IInv /\ [Next]_vars =>
        [\A h \in Handlers :
           Reject(h) =>
             LET k == handler[h].key IN
             \E s \in created'[k]..seen'[k] :
               (admitted[k] - before[k][s] + 1) * TicksPerSecond
                 > MaxTokens + Rate * (seen'[k] - s)]_vars
  BY <1>1
<1> QED BY <1>2, TokensAccountedFor, PTL DEF Spec, NoUndueRejection

-----------------------------------------------------------------------------
\* The session manager.

\* create_session, touch_session, terminate_session, prune_expired and a restart
\* keep the sets of ids consistent with one another.
THEOREM SessionIdsConsistent == SMSpec => []SMInv
<1> USE SessionsAssumption DEF ExpiredAge
<1>1. SMInit => SMInv
  BY DEF SMInit, SMInv, SMTypeOK, RequestState, Idle, Kinds
<1>2. SMInv /\ [SMNext]_SMvars => SMInv'
  <2> SUFFICES ASSUME SMInv, [SMNext]_SMvars PROVE SMInv'
    OBVIOUS
  <2> USE DEF SMInv, SMTypeOK, RequestState, Kinds
  <2>1. ASSUME NEW r \in Requests, NEW k \in Kinds, NEW s \in Sids, Accept(r, k, s)
        PROVE  SMInv'
    BY <2>1 DEF Accept
  <2>2. ASSUME NEW r \in Requests, Touch(r) PROVE SMInv'
    <3>1. PICK i \in [Sids -> 0..TTL] : idle' = i
      <4>1. request[r].sid \in Sids
        BY <2>2 DEF Touch
      <4> QED BY <2>2, <4>1 DEF Touch, touch_session
    <3>2. sessions' = sessions
      BY <2>2 DEF Touch, touch_session
    <3>3. /\ request' \in [Requests -> RequestState]
          /\ \A g \in Requests : request'[g].pc = "touch" => request'[g] = request[g]
      BY <2>2 DEF Touch, Respond, Goto, Idle
    <3> QED BY <2>2, <3>1, <3>2, <3>3 DEF Touch
  <2>3. ASSUME NEW r \in Requests, Initialize(r) PROVE SMInv'
    BY <2>3 DEF Initialize
  <2>4. ASSUME NEW r \in Requests, Limited(r) PROVE SMInv'
    BY <2>4 DEF Limited, Respond, Idle
  <2>5. ASSUME NEW r \in Requests, Admitted(r) PROVE SMInv'
    BY <2>5 DEF Admitted, Goto
  <2>6. ASSUME NEW r \in Requests, Dispatch(r) PROVE SMInv'
    BY <2>6 DEF Dispatch, Respond, Idle
  <2>7. ASSUME NEW r \in Requests, NEW s \in Sids, create_session(r, s) PROVE SMInv'
    BY <2>7 DEF create_session, Respond, Idle
  <2>8. ASSUME NEW r \in Requests, NEW s \in Sids, Delete(r, s) PROVE SMInv'
    BY <2>8 DEF Delete
  <2>9. CASE prune_expired
    BY <2>9 DEF prune_expired
  <2>10. CASE Restart
    BY <2>10 DEF Restart, Idle
  <2>11. CASE SMTick
    BY <2>11 DEF SMTick
  <2>12. CASE UNCHANGED SMvars
    BY <2>12 DEF SMvars
  <2>13. ASSUME NEW r \in Requests, NEW s \in Sids, Refuse(r, s) PROVE SMInv'
    BY <2>12, <2>13 DEF Refuse
  <2> QED
    BY <2>1, <2>2, <2>3, <2>4, <2>5, <2>6, <2>7, <2>8, <2>9, <2>10, <2>11, <2>12, <2>13 DEF SMNext
<1> QED BY <1>1, <1>2, PTL DEF SMSpec

\* No step puts an id back that has left the map: a late touch_session of a
\* request validated before a DELETE, a prune or a restart finds nothing to do.
THEOREM NeverResurrected == SMSpec => NoResurrection
<1>1. ASSUME SMInv, [SMNext]_SMvars
      PROVE  [\A s \in issued : s \notin sessions => s \notin sessions']_SMvars
  <2> SUFFICES ASSUME SMNext, NEW t \in issued, t \notin sessions
               PROVE  t \notin sessions'
    BY <1>1
  <2>1. ASSUME NEW r \in Requests, NEW k \in Kinds, NEW s \in Sids, Accept(r, k, s)
        PROVE  t \notin sessions'
    BY <2>1 DEF Accept
  <2>2. ASSUME NEW r \in Requests,
               Touch(r) \/ Initialize(r) \/ Limited(r) \/ Admitted(r) \/ Dispatch(r)
        PROVE  t \notin sessions'
    BY <2>2 DEF Touch, touch_session, Initialize, Limited, Admitted, Dispatch
  <2>3. ASSUME NEW r \in Requests, NEW s \in Sids, create_session(r, s) \/ Delete(r, s)
        PROVE  t \notin sessions'
    BY <2>3 DEF create_session, Delete
  <2>4. CASE prune_expired \/ Restart \/ SMTick
    BY <2>4 DEF prune_expired, Restart, SMTick
  <2>5. ASSUME NEW r \in Requests, NEW s \in Sids, Refuse(r, s) PROVE t \notin sessions'
    BY <2>5 DEF Refuse, SMvars
  <2> QED BY <2>1, <2>2, <2>3, <2>4, <2>5 DEF SMNext
<1> QED BY <1>1, SessionIdsConsistent, PTL DEF SMSpec, NoResurrection

\* A request that presents an id after its DELETE was answered with 200 is never
\* accepted, whatever other requests, prunes and restarts happened in between.
THEOREM DeletedNeverAccepted == SMSpec => TerminatedRefused
<1>1. ASSUME SMInv, [SMNext]_SMvars
      PROVE  [\A r \in Requests, k \in Kinds, s \in Sids :
                 Accept(r, k, s) => s \notin deleted]_SMvars
  BY <1>1 DEF SMInv, Accept, validate_session
<1> QED BY <1>1, SessionIdsConsistent, PTL DEF SMSpec, TerminatedRefused
=============================================================================
