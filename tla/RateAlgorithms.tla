--------------------------- MODULE RateAlgorithms ---------------------------
(***************************************************************************)
(* The three counting algorithms of the rate limiter's memory backend      *)
(* (rate_limiter/src/memory.rs), as pure operators on the state of one     *)
(* key.  An evaluation returns the key's next state and the DimResult the  *)
(* caller sees.  Time is counted in ticks of the monotonic clock;          *)
(* NanosPerSec ticks make one second of the Unix clock.                    *)
(***************************************************************************)
EXTENDS Integers, Sequences, FiniteSetsExt

CONSTANTS
  NanosPerSec,   \* ticks per second (1_000_000_000 in the code)
  Milli,         \* fixed-point scale of a token (1000 in the code)
  WordMod,       \* 2^64: unsigned subtraction wraps modulo this
  StaleNanos     \* TOKEN_BUCKET_STALE_NANOS, one hour in the code

ASSUME ScaleAssumption ==
  /\ NanosPerSec \in Nat \ {0}
  /\ Milli \in Nat \ {0}
  /\ WordMod \in Nat \ {0}
  /\ StaleNanos \in Nat

Algorithms == {"fixed_window", "sliding_window", "token_bucket"}

(***************************************************************************)
(* Machine arithmetic: saturating and wrapping subtraction of u64, the     *)
(* rounding division and the .max(1) floor.                                *)
(***************************************************************************)
SatSub(a, b) == IF a >= b THEN a - b ELSE 0
WrapSub(a, b) == (a - b) % WordMod
CeilDiv(a, b) == (a + b - 1) \div b
AtLeast1(n) == IF n >= 1 THEN n ELSE 1

(***************************************************************************)
(* DimResult.  retry = 0 stands for None: every Some is at least 1.        *)
(***************************************************************************)
NoRetry == 0

Allowed(limit, remaining, reset) ==
  [allowed |-> TRUE, limit |-> limit, remaining |-> remaining,
   reset |-> reset, retry |-> NoRetry]

Blocked(limit, reset, retry) ==
  [allowed |-> FALSE, limit |-> limit, remaining |-> 0,
   reset |-> reset, retry |-> retry]

DimResults ==
  [allowed: BOOLEAN, limit: Nat, remaining: Nat, reset: Int, retry: Nat]

(***************************************************************************)
(* KeyState and its variants.                                              *)
(***************************************************************************)
FixedWindowState == [count: Nat, start: Nat, startUnix: Int]
SlidingWindowState == [timestamps: Seq(Nat)]
TokenBucketState == [tokens: Nat, lastRefill: Nat]

StatesOf(algorithm) ==
  CASE algorithm = "fixed_window" -> FixedWindowState
    [] algorithm = "sliding_window" -> SlidingWindowState
    [] algorithm = "token_bucket" -> TokenBucketState

(* No key holds more than its configured limit: not in the window's count, *)
(* not in the deque of timestamps, not in the bucket.                      *)
WithinLimit(algorithm, st, limit) ==
  CASE algorithm = "fixed_window" -> st.count <= limit
    [] algorithm = "sliding_window" -> Len(st.timestamps) <= limit
    [] algorithm = "token_bucket" -> st.tokens <= limit * Milli

NewKeyState(algorithm, limit, t, unix) ==
  CASE algorithm = "fixed_window" ->
         [count |-> 0, start |-> t, startUnix |-> unix]
    [] algorithm = "sliding_window" -> [timestamps |-> << >>]
    [] algorithm = "token_bucket" ->
         [tokens |-> limit * Milli, lastRefill |-> t]

----------------------------------------------------------------------------
(* Fixed window. *)

WindowElapsedEarly(st, window, t) == t >= st.start            \* mutant
WindowElapsed(st, window, t) == t >= st.start + window

FixedRetry(st, window, t) ==
  AtLeast1(SatSub(window, WrapSub(t, st.start)) \div NanosPerSec)

OffByOneQuota(count, limit) == count <= limit                 \* mutant
UnderQuota(count, limit) == count < limit

FixedWindow(st, limit, window, t, unix) ==
  LET s == IF WindowElapsed(st, window, t)
           THEN [count |-> 0, start |-> t, startUnix |-> unix]
           ELSE st
      reset == s.startUnix + AtLeast1(window \div NanosPerSec)
  IN IF UnderQuota(s.count, limit)
     THEN [state |-> [s EXCEPT !.count = @ + 1],
           result |-> Allowed(limit, limit - (s.count + 1), reset)]
     ELSE [state |-> s,
           result |-> Blocked(limit, reset, FixedRetry(s, window, t))]

----------------------------------------------------------------------------
(* Sliding window. *)

(* Timestamps are popped from the front while they are at or below the     *)
(* cutoff: the deque keeps everything from its first fresh entry on.       *)
DrainOnlyOlder(timestamps, cutoff) ==                         \* mutant
  LET fresh == {i \in DOMAIN timestamps : timestamps[i] >= cutoff}
  IN IF fresh = {} THEN << >>
     ELSE SubSeq(timestamps, Min(fresh), Len(timestamps))
DrainOneMore(timestamps, cutoff) ==                           \* mutant
  LET fresh == {i \in DOMAIN timestamps : timestamps[i] > cutoff + 1}
  IN IF fresh = {} THEN << >>
     ELSE SubSeq(timestamps, Min(fresh), Len(timestamps))
DrainStale(timestamps, cutoff) ==
  LET fresh == {i \in DOMAIN timestamps : timestamps[i] > cutoff}
  IN IF fresh = {} THEN << >>
     ELSE SubSeq(timestamps, Min(fresh), Len(timestamps))

UntilOldestExpires(timestamps, window, t) ==
  SatSub(timestamps[1] + window, t)

SlidingWindow(st, limit, window, t, unix) ==
  LET ts == DrainStale(st.timestamps, SatSub(t, window))
      reset == IF ts # << >>
               THEN unix + UntilOldestExpires(ts, window, t) \div NanosPerSec
               ELSE unix + window \div NanosPerSec
      retry == IF ts # << >>
               THEN UntilOldestExpires(ts, window, t) \div NanosPerSec
               ELSE 1
  IN IF UnderQuota(Len(ts), limit)
     THEN [state |-> [timestamps |-> Append(ts, t)],
           result |-> Allowed(limit, limit - Len(ts) - 1, reset)]
     ELSE [state |-> [timestamps |-> ts],
           result |-> Blocked(limit, reset, AtLeast1(retry))]

----------------------------------------------------------------------------
(* Token bucket, in thousandths of a token. *)

TokensToAddRoundedUp(limit, elapsed, window) ==               \* mutant
  CeilDiv(limit * Milli * elapsed, window)
TokensToAdd(limit, elapsed, window) ==
  (limit * Milli * elapsed) \div window

Refill(st, limit, window, t) ==
  LET elapsed == SatSub(t, st.lastRefill)
      filled == st.tokens + TokensToAdd(limit, elapsed, window)
  IN IF elapsed > 0
     THEN [tokens |-> IF filled <= limit * Milli THEN filled ELSE limit * Milli,
           lastRefill |-> t]
     ELSE st

TokenRetryTruncated(tokens, limit, window) ==                 \* mutant
  AtLeast1((((Milli - tokens) * window) \div (limit * Milli)) \div NanosPerSec)
TokenRetry(tokens, limit, window) ==
  LET nanos == AtLeast1(((Milli - tokens) * window) \div (limit * Milli))
  IN AtLeast1(CeilDiv(nanos, NanosPerSec))

TokenBucket(st, limit, window, t, unix) ==
  LET s == Refill(st, limit, window, t)
      left == s.tokens - Milli
      needed == limit * Milli - left
      refillSecs == IF needed = 0 THEN 0
                    ELSE AtLeast1(((needed * window) \div (limit * Milli))
                                    \div NanosPerSec)
      retry == TokenRetry(s.tokens, limit, window)
  IN IF s.tokens >= Milli
     THEN [state |-> [s EXCEPT !.tokens = left],
           result |-> Allowed(limit, left \div Milli, unix + refillSecs)]
     ELSE [state |-> s,
           result |-> Blocked(limit, unix + retry, retry)]

----------------------------------------------------------------------------
(* Dispatch on the variant, and what the amortized sweep does to one key:  *)
(* the state it leaves behind, and whether the key is kept at all.         *)

Evaluate(algorithm, st, limit, window, t, unix) ==
  CASE algorithm = "fixed_window" -> FixedWindow(st, limit, window, t, unix)
    [] algorithm = "sliding_window" -> SlidingWindow(st, limit, window, t, unix)
    [] algorithm = "token_bucket" -> TokenBucket(st, limit, window, t, unix)

SweptState(algorithm, st, window, t) ==
  IF algorithm = "sliding_window"
  THEN [timestamps |-> DrainStale(st.timestamps, SatSub(t, window))]
  ELSE st

SweepKeepsTooLittle(algorithm, st, window, t) ==              \* mutant
  CASE algorithm = "fixed_window" -> SatSub(t, st.start) + 1 < window
    [] algorithm = "sliding_window" -> Len(st.timestamps) > 1
    [] algorithm = "token_bucket" -> SatSub(t, st.lastRefill) < 1
SweepKeeps(algorithm, st, window, t) ==
  CASE algorithm = "fixed_window" -> SatSub(t, st.start) < window
    [] algorithm = "sliding_window" ->
         SweptState(algorithm, st, window, t).timestamps # << >>
    [] algorithm = "token_bucket" -> SatSub(t, st.lastRefill) < StaleNanos
=============================================================================
