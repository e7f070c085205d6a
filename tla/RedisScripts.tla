---------------------------- MODULE RedisScripts ----------------------------
(***************************************************************************)
(* The Lua scripts of the rate limiter's Redis backend                     *)
(* (rate_limiter/src/redis_backend.rs), one key of a batch: what a script  *)
(* leaves under the key, and the verdict the backend makes of its reply.   *)
(*                                                                         *)
(* Two clocks meet here.  A script is given the caller's Unix time in      *)
(* whole seconds, its reading; the life of a key is counted by Redis, in   *)
(* ticks of which TicksPerSec make a second.                               *)
(*                                                                         *)
(* Numbers of a bucket are exact: a token is Window units, so that one     *)
(* second refills Limit units.  The code has them as f64.                  *)
(***************************************************************************)
EXTENDS Integers, FiniteSets

CONSTANTS
  TicksPerSec,  \* ticks of the Redis clock per second
  Limit,        \* configured count
  Window        \* configured window, in seconds

ASSUME ScriptAssumption ==
  /\ TicksPerSec \in Nat \ {0}
  /\ Limit \in Nat \ {0}
  /\ Window \in Nat \ {0}

CeilDiv(a, b) == (a + b - 1) \div b
Larger(a, b) == IF a >= b THEN a ELSE b
Smaller(a, b) == IF a <= b THEN a ELSE b

(***************************************************************************)
(* An entry of Redis: a value and the tick at which it vanishes, if any.   *)
(***************************************************************************)
Never == -1
NoEntry == [value |-> {}, expires |-> 0]
Entry(value, t, seconds) ==
  [value |-> value, expires |-> t + seconds * TicksPerSec]

Live(entry, t) == entry.expires = Never \/ t < entry.expires

(* Redis rounds a TTL to the nearest second. *)
Ttl(entry, t) == (2 * (entry.expires - t) + TicksPerSec) \div (2 * TicksPerSec)

(* What a run of a script leaves, and the verdict; retry is 0 for None. *)
Outcome(entry, allowed, retry) ==
  [entry |-> entry, allowed |-> allowed, retry |-> IF allowed THEN 0 ELSE retry]

(***************************************************************************)
(* Fixed window: INCR, EXPIRE when the counter is new, TTL.                *)
(***************************************************************************)
FixedExpiry(entry, t) ==
  IF Live(entry, t) THEN entry.expires ELSE t + Window * TicksPerSec

CountWithin(count) == count <= Limit

RetryFromTtl(ttl) == Larger(ttl, 1)

FixedScript(entry, t) ==
  LET count == 1 + IF Live(entry, t) THEN entry.value ELSE 0
      left == [value |-> count, expires |-> FixedExpiry(entry, t)]
  IN Outcome(left, CountWithin(count), RetryFromTtl(Ttl(left, t)))

(***************************************************************************)
(* Sliding window: a sorted set whose members carry their score, the       *)
(* reading with which they were added.  EXPIRE comes before ZADD, and an   *)
(* empty set does not exist: the first member is added to a key that has   *)
(* no expiry.                                                              *)
(***************************************************************************)
PurgedEarly(members, reading) ==                              \* mutant
  {x \in members : x.score > reading - Window + 1}
Purged(members, reading) == {x \in members : x.score > reading - Window}

RetryFromOldest(members, reading) ==
  LET oldest == CHOOSE s \in {x.score : x \in members} :
                  \A x \in members : s <= x.score
  IN Larger(oldest + Window - reading, 1)

Full(members) == Cardinality(members) >= Limit

SlidingScript(entry, t, reading, member) ==
  LET live == IF Live(entry, t) THEN entry.value ELSE {}
      members == Purged(live, reading)
      added == [Entry(members \union {member}, t, Window + 1) EXCEPT
                  !.expires = IF members = {} THEN Never ELSE @]
  IN IF Full(members)
     THEN Outcome(Entry(members, t, Window + 1), FALSE,
                  RetryFromOldest(members, reading))
     ELSE Outcome(added, TRUE, 0)

(***************************************************************************)
(* Token bucket: a hash of the tokens and the reading of the last refill.  *)
(***************************************************************************)
Capacity == Limit * Window

RefillForward(bucket, reading) ==                             \* mutant
  Smaller(Capacity, bucket.tokens + Larger(0, reading - bucket.last) * Limit)
Refill(bucket, reading) ==
  Smaller(Capacity, bucket.tokens + (reading - bucket.last) * Limit)

SecondsToToken(tokens) == (Window - tokens) \div Limit        \* mutant
SecondsToOneToken(tokens) == CeilDiv(Window - tokens, Limit)

TokenScript(entry, t, reading) ==
  LET Bucket(tokens) == [tokens |-> tokens, last |-> reading]
      Stored(tokens) == Entry(Bucket(tokens), t, CeilDiv(Capacity - tokens, Limit) + 1)
      tokens == IF Live(entry, t) THEN Refill(entry.value, reading) ELSE Capacity
  IN IF ~Live(entry, t)
     THEN Outcome(Entry(Bucket(Capacity - Window), t, CeilDiv(Capacity, Limit) + 1), TRUE, 0)
     ELSE IF tokens >= Window
     THEN Outcome(Stored(tokens - Window), TRUE, 0)
     ELSE Outcome(Stored(tokens), FALSE, Larger(SecondsToOneToken(tokens), 1))
=============================================================================
