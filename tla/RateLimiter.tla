---------------------------- MODULE RateLimiter ----------------------------
(***************************************************************************)
(* The per-client token buckets of rate_limit.rs.  Handlers of concurrent  *)
(* requests call RateLimiter::check; each reads the clock BEFORE it takes  *)
(* the mutex of the bucket map, so the buckets may see those readings out  *)
(* of order.  The enabled limiter is modelled; a disabled one admits       *)
(* everything and keeps no state.                                          *)
(*                                                                         *)
(* Time is counted in ticks, TicksPerSecond to the second, and a bucket    *)
(* counts its tokens in fractions of 1/TicksPerSecond, so that one tick    *)
(* refills exactly Rate fractions and one request costs TicksPerSecond.    *)
(***************************************************************************)
EXTENDS Integers

CONSTANTS
  Keys,           \* client labels (RequestContext::client_label)
  Handlers,       \* request handlers running concurrently
  Burst,          \* rate_limit.burst_size
  Rate,           \* rate_limit.requests_per_second
  TicksPerSecond, \* resolution of the model's clock
  MaxClock        \* bound: the clock stops here

ASSUME RateLimiterAssumption ==
  /\ Burst \in Nat
  /\ Rate \in Nat
  /\ TicksPerSecond \in Nat \ {0}
  /\ MaxClock \in Nat

VARIABLES
  clock,    \* Instant::now()
  buckets,  \* RateLimiter.buckets, a bucket per key seen so far
  handler,  \* where each handler is in check(), its key and its reading of now
  admitted, \* history: requests let through per key
  created,  \* history: when the bucket of a key was made
  seen,     \* history: the latest reading of the clock that checks of a key brought
  before    \* history: of a key and a time, the requests let through before a
            \* reading of that time or later was brought

vars == <<clock, buckets, handler, admitted, created, seen, before>>

MaxTokens == Burst * TicksPerSecond

Bucket == [present : BOOLEAN, tokens : 0..MaxTokens, last_refill : 0..MaxClock]

HandlerState == [pc : {"idle", "locking"}, key : Keys, now : 0..MaxClock]

TypeOK ==
  /\ clock \in 0..MaxClock
  /\ buckets \in [Keys -> Bucket]
  /\ handler \in [Handlers -> HandlerState]
  /\ admitted \in [Keys -> Nat]
  /\ created \in [Keys -> 0..MaxClock]
  /\ seen \in [Keys -> 0..MaxClock]
  /\ before \in [Keys -> [0..MaxClock -> Nat]]

Init ==
  /\ clock = 0
  /\ buckets = [k \in Keys |-> [present |-> FALSE, tokens |-> 0, last_refill |-> 0]]
  /\ handler \in [Handlers -> [pc : {"idle"}, key : Keys, now : {0}]]
  /\ admitted = [k \in Keys |-> 0]
  /\ created = [k \in Keys |-> 0]
  /\ seen = [k \in Keys |-> 0]
  /\ before = [k \in Keys |-> [t \in 0..MaxClock |-> 0]]

-----------------------------------------------------------------------------
\* .min(self.max_tokens)
Capped(tokens) == IF tokens < MaxTokens THEN tokens ELSE MaxTokens

\* Variant of NewBucket: the bucket of a new client starts empty.
NewBucketEmpty == [present |-> TRUE, tokens |-> 0, last_refill |-> clock]

\* TokenBucket::new
NewBucket == [present |-> TRUE, tokens |-> MaxTokens, last_refill |-> clock]

\* Variant of refill: last_refill is stamped even by an older reading.
refillAlwaysStamps(b, now) ==
  [b EXCEPT !.tokens = IF now > b.last_refill
                       THEN Capped(@ + (now - b.last_refill) * Rate) ELSE @,
            !.last_refill = now]

\* Variant of refill: tokens are whole numbers, and what was earned beyond the
\* last whole token is lost.
refillWholeTokens(b, now) ==
  IF now > b.last_refill
  THEN [b EXCEPT !.tokens = Capped(b.tokens + (((now - b.last_refill) * Rate) \div TicksPerSecond)
                                                * TicksPerSecond),
                 !.last_refill = now]
  ELSE b

\* TokenBucket::refill.  A reading older than last_refill saturates to zero
\* elapsed time and leaves the bucket alone.
refill(b, now) ==
  IF now > b.last_refill
  THEN [b EXCEPT !.tokens = Capped(b.tokens + (now - b.last_refill) * Rate),
                 !.last_refill = now]
  ELSE b

\* entry(key).or_insert_with(...)
BucketOf(k) == IF buckets[k].present THEN buckets[k] ELSE NewBucket

\* TokenBucket::try_acquire on the bucket of handler h: the bucket it leaves.
Refilled(h) == refill(BucketOf(handler[h].key), handler[h].now)

CanAcquire(b) == b.tokens >= TicksPerSecond

\* Variant of Spend: the token is not taken.
SpendNothing(b) == b

Spend(b) == [b EXCEPT !.tokens = @ - TicksPerSecond]

-----------------------------------------------------------------------------
\* check(): the clock is read before the lock is requested.
ReadClock(h, k) ==
  /\ handler[h].pc = "idle"
  /\ handler' = [handler EXCEPT ![h] = [pc |-> "locking", key |-> k, now |-> clock]]
  /\ UNCHANGED <<clock, buckets, admitted, created, seen, before>>

\* The later of two readings.
Later(t, u) == IF t < u THEN u ELSE t

\* The part of check() under the mutex that is common to both answers.
InsideLock(h) ==
  LET k == handler[h].key IN
  /\ handler[h].pc = "locking"
  /\ created' = [created EXCEPT ![k] = IF buckets[k].present THEN @ ELSE clock]
  /\ seen' = [seen EXCEPT ![k] = IF buckets[k].present THEN Later(@, handler[h].now) ELSE clock]
  /\ handler' = [handler EXCEPT ![h].pc = "idle"]
  /\ UNCHANGED clock

\* check() returns true.
Admit(h) ==
  LET k == handler[h].key IN
  /\ InsideLock(h)
  /\ CanAcquire(Refilled(h))
  /\ buckets' = [buckets EXCEPT ![k] = Spend(Refilled(h))]
  /\ admitted' = [admitted EXCEPT ![k] = @ + 1]
  /\ before' = [before EXCEPT ![k] = [t \in 0..MaxClock |->
                                          before[k][t] + (IF t > seen'[k] THEN 1 ELSE 0)]]

\* check() returns false; the refill stays.
Reject(h) ==
  LET k == handler[h].key IN
  /\ InsideLock(h)
  /\ ~CanAcquire(Refilled(h))
  /\ buckets' = [buckets EXCEPT ![k] = Refilled(h)]
  /\ UNCHANGED <<admitted, before>>

Tick ==
  /\ clock < MaxClock
  /\ clock' = clock + 1
  /\ UNCHANGED <<buckets, handler, admitted, created, seen, before>>

Next ==
  \/ \E h \in Handlers, k \in Keys : ReadClock(h, k)
  \/ \E h \in Handlers : Admit(h) \/ Reject(h)
  \/ Tick

Spec == Init /\ [][Next]_vars

-----------------------------------------------------------------------------
\* rate_limit.rs: whatever order the handlers get the lock in, and however
\* stale the clock readings they bring, a key's admissions since its bucket was
\* made never exceed the burst plus what the rate has earned in that time.
AdmissionBound ==
  \A k \in Keys :
    admitted[k] * TicksPerSecond <= MaxTokens + Rate * (clock - created[k])

\* The strengthening of AdmissionBound that is inductive: a bucket only holds
\* tokens that were earned up to the latest reading it has seen (refill), and
\* every admission was paid for out of them (try_acquire).
TokensAccounted ==
  \A k \in Keys :
    /\ buckets[k].present =>
         /\ created[k] <= buckets[k].last_refill
         /\ admitted[k] * TicksPerSecond + buckets[k].tokens
              <= MaxTokens + Rate * (buckets[k].last_refill - created[k])
    /\ ~buckets[k].present => admitted[k] = 0 /\ created[k] = 0

\* No bucket and no handler holds a time from the future.
NoFutureReadings ==
  /\ \A k \in Keys : buckets[k].last_refill <= clock /\ created[k] <= clock
  /\ \A h \in Handlers : handler[h].now <= clock

\* What holds a client back is what it used: a bucket is short of its capacity
\* by no more than what was taken from it since some time, less what that time
\* has earned (the last time refill reached the capacity is such a time).  The
\* bucket's time is the latest reading brought to it.
NotLost(k) ==
  /\ seen[k] = buckets[k].last_refill
  /\ \A t \in 0..MaxClock :
       before[k][t] <= admitted[k] /\ (t > seen[k] => before[k][t] = admitted[k])
  /\ buckets[k].present =>
       \E s \in created[k]..seen[k] :
         buckets[k].tokens + (admitted[k] - before[k][s]) * TicksPerSecond
           >= MaxTokens + Rate * (seen[k] - s)

TokensNotLost == \A k \in Keys : NotLost(k)

IInv == TypeOK /\ NoFutureReadings /\ TokensAccounted /\ TokensNotLost

\* rate_limit.rs check(): nobody is refused a token it has earned.  A request is
\* turned away only if there is a time s since the bucket was made such that the
\* requests of the client let through from s up to the latest reading brought by
\* any of its requests, and this one, would be more than the burst plus what
\* the rate earned from s to that reading.  Nothing is said of the bucket, so a
\* bucket that loses time (to a late reading, to an earlier refusal, to
\* rounding) and a new one that is not full refuse against it.
NoUndueRejection ==
  [][\A h \in Handlers :
       Reject(h) =>
         LET k == handler[h].key IN
         \E s \in created'[k]..seen'[k] :
           (admitted[k] - before[k][s] + 1) * TicksPerSecond
             > MaxTokens + Rate * (seen'[k] - s)]_vars
=============================================================================
