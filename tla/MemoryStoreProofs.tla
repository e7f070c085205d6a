------------------------- MODULE MemoryStoreProofs -------------------------
(***************************************************************************)
(* Theorems about MemoryStore, for every set of callers and keys, every    *)
(* limit and window, every scale of the clock and every algorithm: types   *)
(* and capacity, the rate of a token bucket, the burst of a fixed window,  *)
(* evictions that change no answer, retry times that hold, the promise of  *)
(* a sliding window with prompt callers, and its bound with late ones.     *)
(***************************************************************************)
EXTENDS MemoryStorePromise, RateAlgorithmsProofs, FiniteSetTheorems

(***************************************************************************)
(* Type correctness and capacity.  A caller that evaluates or counts has a *)
(* key at the head of its list: without that, TypeOK is not inductive.     *)
(***************************************************************************)
HasTodo == \A c \in Callers :
  caller[c].pc \in {"lookup", "insert", "count"} => caller[c].todo # << >>

TypeInv == TypeOK /\ HasTodo

(* What the assumption on Limiters says of the one in use. *)
LEMMA LimiterFacts ==
  ASSUME limiter \in Limiters
  PROVE  Algorithm \in Algorithms /\ MaxLag \in Nat
         /\ limiter.requests \subseteq Seq(Keys)
  BY StoreAssumption DEF Algorithm, MaxLag

LEMMA TypeInit == Init => TypeInv
  <1> SUFFICES ASSUME Init PROVE TypeInv
    OBVIOUS
  <1>1. << >> \in Seq(Keys) /\ << >> \in Seq(DimResults) /\ << >> \in Seq(Nat)
    BY EmptySeq
  <1>2. Idle \in CallerState
    BY <1>1 DEF Idle, CallerState, PCs
  <1>3. DOMAIN store = {}
    BY DEF Init
  <1>4. TypeOK
    BY <1>1, <1>2, <1>3, StoreAssumption DEF Init, TypeOK
  <1>5. HasTodo
    BY DEF Init, HasTodo, Idle
  <1> QED BY <1>4, <1>5 DEF TypeInv

(* What a caller that is about to evaluate holds. *)
LEMMA HeadIsKey ==
  ASSUME TypeInv, NEW c \in Callers, caller[c].pc \in {"lookup", "insert", "count"}
  PROVE  Head(caller[c].todo) \in Keys /\ Tail(caller[c].todo) \in Seq(Keys)
  <1>1. caller[c].todo \in Seq(Keys) /\ caller[c].todo # << >>
    BY DEF TypeInv, TypeOK, HasTodo, CallerState
  <1> QED BY <1>1, HeadTailProperties

(* The common part of the fast and the slow path. *)
LEMMA EvaluateKeyTyped ==
  ASSUME TypeInv, NEW c \in Callers, NEW k \in Keys, NEW st,
         caller[c].pc \in {"lookup", "insert"},
         st \in StatesOf(Algorithm), WithinLimit(Algorithm, st, Limit[k]),
         EvaluateKey(c, k, st)
  PROVE  TypeInv'
  <1> DEFINE ev == Evaluate(Algorithm, st, Limit[k], Window[k],
                            caller[c].stamp, caller[c].unix)
  <1>1. caller[c] \in CallerState /\ caller[c].stamp \in Nat /\ caller[c].unix \in Nat
    BY DEF TypeInv, TypeOK, CallerState
  <1>2. /\ ev.state \in StatesOf(Algorithm)
        /\ WithinLimit(Algorithm, ev.state, Limit[k])
        /\ ev.result \in DimResults
    <2>1. Algorithm \in Algorithms
      BY LimiterFacts DEF TypeInv, TypeOK
    <2>2. Limit[k] \in Nat \ {0} /\ Window[k] \in Nat \ {0}
      BY StoreAssumption
    <2> QED BY <1>1, <2>1, <2>2, EvaluateShape
  <1> HIDE DEF ev
  <1>3. /\ store' = [x \in DOMAIN store \union {k} |->
                       IF x = k THEN ev.state ELSE store[x]]
        /\ admitted' = IF ev.result.allowed
                       THEN [admitted EXCEPT ![k] = Append(@, caller[c].stamp)]
                       ELSE admitted
        /\ caller' = [caller EXCEPT ![c] =
                        [caller[c] EXCEPT !.pc = "count", !.dims = Append(@, ev.result)]]
        /\ UNCHANGED <<limiter, now, callCount>>
    BY DEF EvaluateKey, ev
  <1>4. admitted' \in [Keys -> Seq(Nat)]
    <2>1. admitted \in [Keys -> Seq(Nat)]
      BY DEF TypeInv, TypeOK
    <2>2. Append(admitted[k], caller[c].stamp) \in Seq(Nat)
      BY <1>1, <2>1, AppendProperties
    <2> QED BY <1>3, <2>1, <2>2
  <1>5. caller' \in [Callers -> CallerState] /\ HasTodo'
    <2>1. Append(caller[c].dims, ev.result) \in Seq(DimResults)
      BY <1>1, <1>2, AppendProperties DEF CallerState
    <2>2. caller \in [Callers -> CallerState]
      BY DEF TypeInv, TypeOK
    <2>3. caller'[c] = [caller[c] EXCEPT !.pc = "count",
                                         !.dims = Append(@, ev.result)]
      BY <1>3, <2>2
    <2>4. caller'[c] \in CallerState
      BY <1>1, <2>1, <2>3 DEF CallerState, PCs
    <2>5. caller'[c].todo = caller[c].todo
      BY <1>1, <2>3 DEF CallerState
    <2> QED BY <1>3, <2>2, <2>4, <2>5 DEF TypeInv, HasTodo
  <1>6. /\ DOMAIN store' \subseteq Keys
        /\ \A x \in DOMAIN store' :
             store'[x] \in StatesOf(Algorithm)
               /\ WithinLimit(Algorithm, store'[x], Limit[x])
    BY <1>2, <1>3 DEF TypeInv, TypeOK
  <1>7. Algorithm' = Algorithm
    BY <1>3 DEF Algorithm
  <1> QED BY <1>3, <1>4, <1>5, <1>6, <1>7 DEF TypeInv, TypeOK

LEMMA TypeStep == TypeInv /\ [Next]_vars => TypeInv'
  <1> SUFFICES ASSUME TypeInv, [Next]_vars PROVE TypeInv'
    OBVIOUS
  <1>0. /\ now \in Nat /\ caller \in [Callers -> CallerState]
        /\ callCount \in 0..SweepInterval /\ SweepInterval \in Nat \ {0}
        /\ limiter \in Limiters
    BY StoreAssumption DEF TypeInv, TypeOK
  <1>a. limiter' = limiter /\ Algorithm' = Algorithm
    BY DEF Next, Check, LookupHit, LookupMiss, Insert, EvaluateKey, CountCall,
           Sweep, Respond, Tick, vars, Algorithm
  <1>1. ASSUME NEW c \in Callers, Check(c) PROVE TypeInv'
    <2>1. PICK checks \in limiter.requests :
            caller' = [caller EXCEPT ![c] =
              [pc |-> IF checks = << >> THEN "respond" ELSE "lookup",
               todo |-> checks, stamp |-> now, unix |-> now \div NanosPerSec,
               dims |-> << >>]]
      BY <1>1 DEF Check
    <2>2. checks \in Seq(Keys) /\ << >> \in Seq(DimResults)
      BY <1>0, LimiterFacts, EmptySeq
    <2>3. now \div NanosPerSec \in Nat
      BY <1>0, DivNat, ScaleAssumption
    <2>4. caller' \in [Callers -> CallerState]
      BY <1>0, <2>1, <2>2, <2>3 DEF CallerState, PCs
    <2>5. HasTodo'
      BY <1>0, <2>1 DEF TypeInv, HasTodo
    <2> QED BY <1>a, <1>1, <2>4, <2>5 DEF Check, TypeInv, TypeOK
  <1>2. ASSUME NEW c \in Callers, LookupHit(c) PROVE TypeInv'
    <2> DEFINE k == Head(caller[c].todo)
    <2>1. caller[c].pc = "lookup" /\ k \in DOMAIN store /\ EvaluateKey(c, k, store[k])
      BY <1>2 DEF LookupHit
    <2>2. k \in Keys
      BY <2>1, HeadIsKey
    <2>3. store[k] \in StatesOf(Algorithm) /\ WithinLimit(Algorithm, store[k], Limit[k])
      BY <2>1 DEF TypeInv, TypeOK
    <2> HIDE DEF k
    <2> QED BY <2>1, <2>2, <2>3, EvaluateKeyTyped
  <1>3. ASSUME NEW c \in Callers, LookupMiss(c) PROVE TypeInv'
    <2>1. caller' \in [Callers -> CallerState]
      BY <1>0, <1>3 DEF LookupMiss, CallerState, PCs
    <2>2. HasTodo'
      BY <1>0, <1>3 DEF LookupMiss, TypeInv, HasTodo
    <2> QED BY <1>a, <1>3, <2>1, <2>2 DEF LookupMiss, TypeInv, TypeOK
  <1>4. ASSUME NEW c \in Callers, Insert(c) PROVE TypeInv'
    <2> DEFINE k == Head(caller[c].todo)
               st == EntryOrInsert(c, k)
    <2>1. caller[c].pc = "insert" /\ EvaluateKey(c, k, st)
      BY <1>4 DEF Insert
    <2>2. k \in Keys
      BY <2>1, HeadIsKey
    <2>3. st \in StatesOf(Algorithm) /\ WithinLimit(Algorithm, st, Limit[k])
      <3>1. CASE k \in DOMAIN store
        BY <3>1 DEF TypeInv, TypeOK, EntryOrInsert
      <3>2. CASE k \notin DOMAIN store
        <4>1. caller[c].stamp \in Nat /\ caller[c].unix \in Nat
          BY <1>0 DEF CallerState
        <4>2. st = NewKeyState(Algorithm, Limit[k], caller[c].stamp, caller[c].unix)
          BY <3>2 DEF EntryOrInsert
        <4> HIDE DEF k, st
        <4>3. Algorithm \in Algorithms /\ Limit[k] \in Nat \ {0}
          BY <1>0, <2>2, LimiterFacts, StoreAssumption
        <4> QED BY <4>1, <4>2, <4>3, NewKeyShape
      <3> QED BY <3>1, <3>2
    <2> HIDE DEF k, st
    <2> QED BY <2>1, <2>2, <2>3, EvaluateKeyTyped
  <1>5. ASSUME NEW c \in Callers, CountCall(c) PROVE TypeInv'
    <2>1. caller[c].pc = "count" /\ Tail(caller[c].todo) \in Seq(Keys)
      BY <1>5, HeadIsKey DEF CountCall
    <2>2. caller' \in [Callers -> CallerState]
      BY <1>0, <1>5, <2>1 DEF CountCall, NextDim, CallerState, PCs
    <2>3. HasTodo'
      BY <1>0, <1>5 DEF CountCall, NextDim, TypeInv, HasTodo
    <2>4. callCount' \in 0..SweepInterval
      BY <1>0, <1>5 DEF CountCall
    <2> QED BY <1>a, <1>5, <2>2, <2>3, <2>4 DEF CountCall, TypeInv, TypeOK
  <1>6. ASSUME NEW c \in Callers, Sweep(c) PROVE TypeInv'
    <2>1. caller' \in [Callers -> CallerState]
      BY <1>0, <1>6 DEF Sweep, NextDim, CallerState, PCs
    <2>2. HasTodo'
      BY <1>0, <1>6 DEF Sweep, NextDim, TypeInv, HasTodo
    <2>3. caller[c].stamp \in Nat
      BY <1>0 DEF CallerState
    <2>4. PICK kept \in SUBSET DOMAIN store :
            store' = [k \in kept |->
                        SweptState(Algorithm, store[k], Window[k], caller[c].stamp)]
      BY <1>6 DEF Sweep
    <2>5. \A k \in DOMAIN store' :
            /\ k \in Keys
            /\ store'[k] \in StatesOf(Algorithm)
            /\ WithinLimit(Algorithm, store'[k], Limit[k])
      <3> SUFFICES ASSUME NEW k \in kept
                   PROVE  LET s == SweptState(Algorithm, store[k], Window[k],
                                              caller[c].stamp)
                          IN k \in Keys /\ s \in StatesOf(Algorithm)
                               /\ WithinLimit(Algorithm, s, Limit[k])
        BY <2>4
      <3>1. /\ k \in Keys /\ store[k] \in StatesOf(Algorithm)
            /\ WithinLimit(Algorithm, store[k], Limit[k])
        BY DEF TypeInv, TypeOK
      <3>2. /\ Algorithm \in Algorithms /\ Limit[k] \in Nat \ {0}
            /\ Window[k] \in Nat \ {0}
        BY <1>0, <3>1, LimiterFacts, StoreAssumption
      <3> QED BY <2>3, <3>1, <3>2, SweptShape
    <2> QED BY <1>a, <1>6, <2>1, <2>2, <2>5 DEF Sweep, TypeInv, TypeOK
  <1>7. ASSUME NEW c \in Callers, Respond(c) PROVE TypeInv'
    <2>1. Idle \in CallerState
      BY EmptySeq DEF Idle, CallerState, PCs
    <2>2. caller' \in [Callers -> CallerState]
      BY <1>0, <1>7, <2>1 DEF Respond
    <2>3. HasTodo'
      BY <1>0, <1>7 DEF Respond, Idle, TypeInv, HasTodo
    <2> QED BY <1>a, <1>7, <2>2, <2>3 DEF Respond, TypeInv, TypeOK
  <1>8. ASSUME Tick PROVE TypeInv'
    BY <1>0, <1>a, <1>8 DEF Tick, TypeInv, TypeOK, HasTodo
  <1>9. CASE UNCHANGED vars
    BY <1>a, <1>9 DEF vars, TypeInv, TypeOK, HasTodo
  <1> QED
    BY <1>1, <1>2, <1>3, <1>4, <1>5, <1>6, <1>7, <1>8, <1>9 DEF Next

(* The types are right, and no key ever holds more than its limit, however *)
(* late its callers are and whatever the sweep evicts.                     *)
THEOREM TypeCorrect == Spec => []TypeOK
  <1>1. TypeInv => TypeOK
    BY DEF TypeInv
  <1> QED BY <1>1, TypeInit, TypeStep, PTL DEF Spec

(***************************************************************************)
(* The rate of the token bucket.  For the i-th admitted call of a key, the *)
(* calls admitted since and the tokens now in the bucket are paid for by   *)
(* the capacity and by the refill up to the last one (GrantsPaid); a key   *)
(* that is gone has had the time to fill up (GrantsRepaid).  That needs    *)
(* callers that are not too late, and an eviction no earlier than a        *)
(* window and a lag after the last refill.                                 *)
(***************************************************************************)
StampInv == \A c \in Callers : Active(c) =>
  caller[c].stamp <= now /\ now <= caller[c].stamp + MaxLag

Paid(n, tokens, lr, ai, limit, window) ==
  n * Milli * window + tokens * window
    <= (limit - 1) * Milli * window + limit * Milli * (lr - ai)

Repaid(n, time, ai, limit, window) ==
  n * Milli * window + Milli * window <= limit * Milli * (time - ai)

RateBound(n, aj, ai, limit, window) ==
  (n + 1) * window <= limit * window + limit * (aj + MaxLag - ai)

GrantsPaid(k) ==
  /\ store[k].lastRefill <= now
  /\ \A i \in 1..Len(admitted[k]) :
       /\ admitted[k][i] <= store[k].lastRefill
       /\ Paid(Len(admitted[k]) - i, store[k].tokens, store[k].lastRefill,
               admitted[k][i], Limit[k], Window[k])

GrantsRepaid(k) ==
  \A i \in 1..Len(admitted[k]) :
    Repaid(Len(admitted[k]) - i, now - MaxLag, admitted[k][i],
           Limit[k], Window[k])

BucketInv == \A k \in Keys :
  IF k \in DOMAIN store THEN GrantsPaid(k) ELSE GrantsRepaid(k)

(* A refill keeps the account. *)
LEMMA PaidRefill ==
  ASSUME NEW n \in Nat, NEW t0 \in Nat, NEW t1 \in Nat, NEW lr0 \in Nat,
         NEW lr1 \in Nat, NEW ai \in Nat, NEW limit \in Nat, NEW window \in Nat,
         Paid(n, t0, lr0, ai, limit, window),
         t1 * window <= t0 * window + (limit * Milli) * (lr1 - lr0)
  PROVE  Paid(n, t1, lr1, ai, limit, window)
  <1>1. Milli \in Nat
    BY ScaleAssumption
  <1> QED BY <1>1 DEF Paid

(* A grant takes a token for the call it admits. *)
LEMMA PaidGrant ==
  ASSUME NEW n \in Nat, NEW tokens \in Nat, NEW lr \in Nat, NEW ai \in Nat,
         NEW limit \in Nat, NEW window \in Nat,
         Paid(n, tokens, lr, ai, limit, window)
  PROVE  Paid(n + 1, tokens - Milli, lr, ai, limit, window)
  <1>1. Milli \in Nat
    BY ScaleAssumption
  <1> QED BY <1>1 DEF Paid

(* The call just admitted has an account of its own. *)
LEMMA PaidFirst ==
  ASSUME NEW tokens \in Nat, NEW lr \in Nat, NEW ai \in Nat,
         NEW limit \in Nat, NEW window \in Nat,
         tokens <= limit * Milli, ai <= lr
  PROVE  Paid(0, tokens - Milli, lr, ai, limit, window)
  <1>1. Milli \in Nat
    BY ScaleAssumption
  <1>2. tokens * window <= (limit * Milli) * window
    BY <1>1
  <1>3. limit * Milli * (lr - ai) \in Nat
    BY <1>1
  <1>4. tokens * window - Milli * window
          <= (limit * Milli) * window - Milli * window + limit * Milli * (lr - ai)
    BY <1>1, <1>2, <1>3
  <1> QED BY <1>1, <1>4 DEF Paid

(* A bucket untouched for a window and a lag owes nothing. *)
LEMMA PaidEvicted ==
  ASSUME NEW n \in Nat, NEW tokens \in Nat, NEW lr \in Nat, NEW ai \in Nat,
         NEW limit \in Nat, NEW window \in Nat, NEW time \in Int,
         Paid(n, tokens, lr, ai, limit, window), lr + window <= time
  PROVE  Repaid(n, time, ai, limit, window)
  <1>1. Milli \in Nat
    BY ScaleAssumption
  <1>2. limit * Milli * (lr + window - ai) <= limit * Milli * (time - ai)
    <2>1. limit * Milli \in Nat /\ lr + window - ai \in Int /\ time - ai \in Int
      BY <1>1
    <2>2. lr + window - ai <= time - ai
      OBVIOUS
    <2> QED BY <2>1, <2>2
  <1>3. tokens * window >= 0
    OBVIOUS
  <1> QED BY <1>1, <1>2, <1>3 DEF Paid, Repaid

(* A fresh bucket that starts at lr, when the account is repaid. *)
LEMMA RepaidRestart ==
  ASSUME NEW n \in Nat, NEW lr \in Nat, NEW ai \in Nat, NEW time \in Int,
         NEW limit \in Nat \ {0}, NEW window \in Nat \ {0},
         Repaid(n, time, ai, limit, window), time <= lr
  PROVE  Paid(n, limit * Milli, lr, ai, limit, window) /\ ai <= lr
  <1>1. Milli \in Nat \ {0}
    BY ScaleAssumption
  <1>2. limit * Milli * (time - ai) <= limit * Milli * (lr - ai)
    <2>1. limit * Milli \in Nat /\ time - ai \in Int /\ lr - ai \in Int
      BY <1>1
    <2>2. time - ai <= lr - ai
      OBVIOUS
    <2> QED BY <2>1, <2>2
  <1>3. Paid(n, limit * Milli, lr, ai, limit, window)
    BY <1>1, <1>2 DEF Paid, Repaid
  <1>4. time - ai > 0
    <2>1. limit * Milli * (time - ai) > 0
      <3>1. n * Milli * window >= 0 /\ Milli * window > 0
        BY <1>1
      <3> QED BY <1>1, <3>1 DEF Repaid
    <2>2. limit * Milli \in Nat
      BY <1>1
    <2> QED BY <2>1, <2>2
  <1> QED BY <1>3, <1>4

(* The bound on the rate, read off the account. *)
LEMMA PaidRate ==
  ASSUME MaxLag \in Nat, NEW n \in Nat, NEW tokens \in Nat, NEW lr \in Nat, NEW ai \in Nat,
         NEW aj \in Nat, NEW limit \in Nat, NEW window \in Nat,
         Paid(n, tokens, lr, ai, limit, window), lr <= aj + MaxLag
  PROVE  RateBound(n, aj, ai, limit, window)
  <1>1. Milli \in Nat \ {0}
    BY ScaleAssumption
  <1> DEFINE have == (n + 1) * window
             may == limit * window + limit * (aj + MaxLag - ai)
  <1>2. limit * Milli * (lr - ai) <= limit * Milli * (aj + MaxLag - ai)
    <2>1. limit * Milli \in Nat /\ lr - ai \in Int /\ aj + MaxLag - ai \in Int
      BY <1>1
    <2>2. lr - ai <= aj + MaxLag - ai
      BY <1>1
    <2> QED BY <2>1, <2>2
  <1>3. Milli * have <= Milli * may
    <2>1. tokens * window >= 0
      OBVIOUS
    <2> QED BY <1>1, <1>2, <2>1 DEF Paid
  <1>4. have \in Int /\ may \in Int
    BY <1>1
  <1> HIDE DEF have, may
  <1>5. have <= may
    BY <1>1, <1>3, <1>4
  <1> QED BY <1>5 DEF RateBound, have, may

(***************************************************************************)
(* The invariant of a token-bucket store whose windows, lag included, are  *)
(* shorter than the eviction threshold.  It does not hold without: a       *)
(* one-hour window is evicted at the instant it is full, and a late caller *)
(* restarts it in the past.                                                *)
(***************************************************************************)
TokenStore ==
  /\ Algorithm = "token_bucket"
  /\ \A k \in Keys : Window[k] + MaxLag <= StaleNanos

Rated ==
  \A k \in Keys : \A i, j \in DOMAIN admitted[k] :
    i <= j =>
      (j - i + 1) * Window[k]
        <= Limit[k] * Window[k]
           + Limit[k] * (admitted[k][j] + MaxLag - admitted[k][i])

RateInv == TypeInv /\ StampInv /\ BucketInv /\ Rated

LEMMA RateInit == ASSUME TokenStore PROVE Init => RateInv
  <1> SUFFICES ASSUME Init PROVE RateInv
    OBVIOUS
  <1>1. StampInv
    BY DEF Init, StampInv, Active, Idle
  <1>2. \A k \in Keys : admitted[k] = << >> /\ Len(admitted[k]) = 0
    BY EmptySeq DEF Init
  <1>3. DOMAIN store = {}
    BY DEF Init
  <1>4. BucketInv
    BY <1>2, <1>3 DEF BucketInv, GrantsRepaid
  <1>5. Rated
    BY <1>2 DEF Rated
  <1> QED BY <1>1, <1>4, <1>5, TypeInit DEF RateInv

(* The account after an evaluation of a bucket whose account is in order:  *)
(* an allowed call is appended to the log and takes a token.               *)
LEMMA EvaluateKeyPaid ==
  ASSUME TokenStore, RateInv, NEW c \in Callers, NEW k \in Keys,
         NEW st \in TokenBucketState, caller[c].pc \in {"lookup", "insert"},
         st.tokens <= Limit[k] * Milli, st.lastRefill <= now,
         \A i \in 1..Len(admitted[k]) :
           /\ admitted[k][i] <= st.lastRefill
           /\ Paid(Len(admitted[k]) - i, st.tokens, st.lastRefill,
                   admitted[k][i], Limit[k], Window[k]),
         EvaluateKey(c, k, st)
  PROVE  StampInv' /\ BucketInv' /\ Rated'
  <1> DEFINE a == admitted[k]
             n == Len(admitted[k])
             t == caller[c].stamp
             s == Refill(st, Limit[k], Window[k], t)
             ev == TokenBucket(st, Limit[k], Window[k], t, caller[c].unix)
  <1>1. /\ t \in Nat /\ caller[c].unix \in Nat /\ now \in Nat
        /\ t <= now /\ now <= t + MaxLag /\ MaxLag \in Nat
    <2>1. caller[c] \in CallerState /\ Active(c)
      BY DEF RateInv, TypeInv, TypeOK, Active
    <2> QED BY <2>1, LimiterFacts
        DEF RateInv, TypeInv, TypeOK, StampInv, CallerState
  <1>2. /\ a \in Seq(Nat) /\ n \in Nat /\ DOMAIN a = 1..n
        /\ \A i \in 1..n : a[i] \in Nat
    BY LenProperties, ElementOfSeq DEF RateInv, TypeInv, TypeOK
  <1>3. /\ Limit[k] \in Nat \ {0} /\ Window[k] \in Nat \ {0} /\ Milli \in Nat \ {0}
        /\ st.tokens \in Nat /\ st.lastRefill \in Nat
    BY StoreAssumption, ScaleAssumption DEF TokenBucketState
  <1>4. /\ s.tokens \in Nat /\ s.lastRefill \in Nat
        /\ s.tokens <= Limit[k] * Milli
        /\ st.lastRefill <= s.lastRefill /\ t <= s.lastRefill /\ s.lastRefill <= now
        /\ s.tokens * Window[k]
             <= st.tokens * Window[k]
                  + (Limit[k] * Milli) * (s.lastRefill - st.lastRefill)
    <2>1. /\ s \in TokenBucketState
          /\ s.tokens <= Limit[k] * Milli
          /\ s.lastRefill = IF t > st.lastRefill THEN t ELSE st.lastRefill
          /\ s.tokens * Window[k]
               <= st.tokens * Window[k]
                    + (Limit[k] * Milli) * (s.lastRefill - st.lastRefill)
      <3> HIDE DEF t
      <3> QED BY <1>1, <1>3, RefillBounds
    <2> HIDE DEF s, t
    <2> QED BY <1>1, <1>3, <2>1 DEF TokenBucketState
  <1>5. /\ ev.state.lastRefill = s.lastRefill /\ ev.state.tokens \in Nat
        /\ ev.result.allowed => ev.state.tokens = s.tokens - Milli
        /\ ~ev.result.allowed => ev.state.tokens = s.tokens
    <2>1. /\ ev.state \in TokenBucketState
          /\ ev.state.lastRefill = s.lastRefill
          /\ ev.state.tokens = IF ev.result.allowed THEN s.tokens - Milli
                              ELSE s.tokens
      <3> DEFINE l == Limit[k]
                 w == Window[k]
                 u == caller[c].unix
      <3>1. /\ l \in Nat \ {0} /\ w \in Nat \ {0} /\ u \in Nat /\ t \in Nat
            /\ st.tokens <= l * Milli
        BY <1>1, <1>3
      <3>2. s = Refill(st, l, w, t) /\ ev = TokenBucket(st, l, w, t, u)
        OBVIOUS
      <3> HIDE DEF l, w, u, t, s, ev
      <3>3. TokenBucket(st, l, w, t, u).state.lastRefill = Refill(st, l, w, t).lastRefill
        BY <3>1, TokenBucketShape
      <3>4. LET e == TokenBucket(st, l, w, t, u) IN
            /\ e.state \in TokenBucketState
            /\ e.state.tokens = IF e.result.allowed
                               THEN Refill(st, l, w, t).tokens - Milli
                               ELSE Refill(st, l, w, t).tokens
        BY <3>1, TokenBucketShape
      <3> QED BY <3>2, <3>3, <3>4
    <2> HIDE DEF ev, s
    <2> QED BY <2>1 DEF TokenBucketState
  <1>6. /\ store' = [x \in DOMAIN store \union {k} |->
                       IF x = k THEN ev.state ELSE store[x]]
        /\ admitted' = IF ev.result.allowed
                       THEN [admitted EXCEPT ![k] = Append(a, t)] ELSE admitted
        /\ caller' = [caller EXCEPT ![c] =
                        [caller[c] EXCEPT !.pc = "count", !.dims = Append(@, ev.result)]]
        /\ now' = now /\ MaxLag' = MaxLag
    BY DEF EvaluateKey, Evaluate, TokenStore, MaxLag
  <1>7. \A i \in 1..n : /\ a[i] <= s.lastRefill
                       /\ Paid(n - i, s.tokens, s.lastRefill, a[i], Limit[k], Window[k])
    <2> SUFFICES ASSUME NEW i \in 1..n
                 PROVE  /\ a[i] <= s.lastRefill
                        /\ Paid(n - i, s.tokens, s.lastRefill, a[i],
                                Limit[k], Window[k])
      OBVIOUS
    <2>1. n - i \in Nat /\ a[i] \in Nat
      BY <1>2
    <2> HIDE DEF a, n, s
    <2>2. Paid(n - i, st.tokens, st.lastRefill, a[i], Limit[k], Window[k])
      BY DEF a, n
    <2>3. a[i] <= st.lastRefill
      BY DEF a, n
    <2>4. Paid(n - i, s.tokens, s.lastRefill, a[i], Limit[k], Window[k])
      BY <1>3, <1>4, <2>1, <2>2, PaidRefill
    <2> QED BY <1>3, <1>4, <2>1, <2>3, <2>4
  <1> HIDE DEF ev, s, t, n, a
  <1>8. admitted \in [Keys -> Seq(Nat)] /\ a = admitted[k] /\ n = Len(admitted[k])
    BY DEF RateInv, TypeInv, TypeOK, a, n
  <1>9. admitted' \in [Keys -> Seq(Nat)] /\ \A x \in Keys \ {k} : admitted'[x] = admitted[x]
    <2>1. Append(a, t) \in Seq(Nat)
      BY <1>1, <1>2, AppendProperties
    <2> QED BY <1>6, <1>8, <2>1
  <1> DEFINE PaidLog(b, m, tokens) ==
               \A i \in 1..m :
                 /\ b[i] \in Nat
                 /\ b[i] <= s.lastRefill
                 /\ Paid(m - i, tokens, s.lastRefill, b[i], Limit[k], Window[k])
  <1>10. PaidLog(admitted'[k], Len(admitted'[k]), ev.state.tokens)
    <2>1. CASE ~ev.result.allowed
      <3>1. PaidLog(a, n, s.tokens)
        BY <1>2, <1>7
      <3>2. admitted'[k] = a /\ Len(admitted'[k]) = n /\ ev.state.tokens = s.tokens
        BY <1>5, <1>6, <1>8, <2>1
      <3> HIDE DEF PaidLog
      <3> QED BY <3>1, <3>2
    <2>2. CASE ev.result.allowed
      <3>1. /\ Len(Append(a, t)) = n + 1
            /\ \A i \in 1..n : Append(a, t)[i] = a[i]
            /\ Append(a, t)[n + 1] = t
        BY <1>1, <1>2, <1>8, AppendProperties
      <3>2. PaidLog(Append(a, t), n + 1, s.tokens - Milli)
        <4>1. ASSUME NEW i \in 1..(n + 1)
              PROVE  /\ Append(a, t)[i] \in Nat
                     /\ Append(a, t)[i] <= s.lastRefill
                     /\ Paid(n + 1 - i, s.tokens - Milli, s.lastRefill,
                             Append(a, t)[i], Limit[k], Window[k])
          <5>1. CASE i = n + 1
            <6>1. Paid(0, s.tokens - Milli, s.lastRefill, t, Limit[k], Window[k])
              BY <1>1, <1>3, <1>4, PaidFirst
            <6>2. n + 1 - i = 0
              BY <1>2, <5>1
            <6> QED BY <1>1, <1>4, <3>1, <5>1, <6>1, <6>2
          <5>2. CASE i # n + 1
            <6>1. i \in 1..n /\ n - i \in Nat /\ n + 1 - i = (n - i) + 1
              BY <1>2, <5>2
            <6>2. Paid((n - i) + 1, s.tokens - Milli, s.lastRefill, a[i],
                       Limit[k], Window[k])
              BY <1>2, <1>3, <1>4, <1>7, <6>1, PaidGrant
            <6>3. Append(a, t)[i] = a[i] /\ a[i] \in Nat /\ a[i] <= s.lastRefill
              BY <1>2, <1>7, <3>1, <6>1
            <6>4. Paid(n + 1 - i, s.tokens - Milli, s.lastRefill,
                       Append(a, t)[i], Limit[k], Window[k])
              BY <6>1, <6>2, <6>3, Zenon
            <6> QED BY <6>3, <6>4
          <5> QED BY <5>1, <5>2
        <4> QED BY <1>2, <4>1, Z3
      <3>3. /\ admitted'[k] = Append(a, t) /\ Len(admitted'[k]) = n + 1
            /\ ev.state.tokens = s.tokens - Milli
        BY <1>5, <1>6, <1>8, <2>2, <3>1
      <3> HIDE DEF PaidLog
      <3> QED BY <3>2, <3>3
    <2> QED BY <2>1, <2>2
  <1>11. StampInv'
    <2>1. \A d \in Callers : caller'[d].stamp = caller[d].stamp
                             /\ (Active(d)' => Active(d))
      BY <1>6 DEF RateInv, TypeInv, TypeOK, CallerState, Active
    <2> QED BY <1>6, <2>1 DEF RateInv, StampInv
  <1> HIDE DEF PaidLog
  <1>12. BucketInv'
    <2> SUFFICES ASSUME NEW x \in Keys
                 PROVE  IF x \in DOMAIN store' THEN GrantsPaid(x)' ELSE GrantsRepaid(x)'
      BY DEF BucketInv
    <2>1. CASE x = k
      <3>1. x \in DOMAIN store' /\ store'[x] = ev.state
        BY <1>6, <2>1
      <3>2. GrantsPaid(x)'
        BY <1>4, <1>5, <1>6, <1>10, <2>1, <3>1 DEF GrantsPaid, PaidLog
      <3> QED BY <3>1, <3>2
    <2>2. CASE x # k
      <3>1. /\ x \in DOMAIN store' <=> x \in DOMAIN store
            /\ x \in DOMAIN store => store'[x] = store[x]
            /\ admitted'[x] = admitted[x] /\ now' = now /\ MaxLag' = MaxLag
        BY <1>6, <1>9, <2>2
      <3> QED BY <3>1 DEF RateInv, BucketInv, GrantsPaid, GrantsRepaid
    <2> QED BY <2>1, <2>2
  <1>13. Rated'
    <2> SUFFICES ASSUME NEW x \in Keys, NEW i \in DOMAIN admitted'[x],
                        NEW j \in DOMAIN admitted'[x], i <= j
                 PROVE  (j - i + 1) * Window[x]
                          <= Limit[x] * Window[x]
                             + Limit[x] * (admitted'[x][j] + MaxLag - admitted'[x][i])
      BY <1>6 DEF Rated
    <2>1. CASE admitted'[x] = admitted[x]
      BY <2>1 DEF RateInv, Rated
    <2>2. CASE admitted'[x] # admitted[x]
      <3>1. x = k /\ ev.result.allowed /\ admitted'[k] = Append(a, t)
        BY <1>6, <1>8, <1>9, <2>2
      <3>2. /\ Len(Append(a, t)) = n + 1 /\ DOMAIN Append(a, t) = 1..(n + 1)
            /\ \A l \in 1..n : Append(a, t)[l] = a[l]
            /\ Append(a, t)[n + 1] = t
        <4>1. Append(a, t) \in Seq(Nat)
          BY <1>1, <1>2, AppendProperties
        <4> QED BY <1>1, <1>2, <1>8, <4>1, AppendProperties, LenProperties
      <3>3. CASE j = n + 1
        <4>1. RateBound(n + 1 - i, t, admitted'[k][i], Limit[k], Window[k])
          <5>1. i \in 1..(n + 1) /\ n + 1 - i \in Nat
            BY <1>2, <3>1, <3>2
          <5>2. /\ admitted'[k][i] \in Nat
                /\ Paid(n + 1 - i, ev.state.tokens, s.lastRefill,
                        admitted'[k][i], Limit[k], Window[k])
            <6>1. Len(admitted'[k]) = n + 1
              BY <3>1, <3>2
            <6>2. PaidLog(admitted'[k], n + 1, ev.state.tokens)
              <7> HIDE DEF PaidLog
              <7> QED BY <1>10, <6>1
            <6> QED BY <1>2, <1>3, <1>4, <1>5, <5>1, <6>2 DEF PaidLog
          <5>3. s.lastRefill <= t + MaxLag
            BY <1>1, <1>4
          <5> QED BY <1>1, <1>3, <1>4, <1>5, <5>1, <5>2, <5>3, PaidRate
        <4>2. admitted'[k][j] = t /\ x = k /\ j = n + 1
          BY <3>1, <3>2, <3>3
        <4>3. RateBound(j - i, admitted'[x][j], admitted'[x][i], Limit[x], Window[x])
          BY <1>2, <3>1, <3>2, <4>1, <4>2
        <4> QED BY <4>3 DEF RateBound
      <3>4. CASE j # n + 1
        <4>1. i \in 1..n /\ j \in 1..n
          BY <1>2, <3>1, <3>2, <3>4
        <4>2. (j - i + 1) * Window[k]
                <= Limit[k] * Window[k] + Limit[k] * (a[j] + MaxLag - a[i])
          BY <1>2, <1>8, <4>1 DEF RateInv, Rated
        <4> QED BY <3>1, <3>2, <4>1, <4>2
      <3> QED BY <3>3, <3>4
    <2> QED BY <2>1, <2>2
  <1> QED BY <1>11, <1>12, <1>13

(* Time passing never puts an account in debt. *)
LEMMA RepaidLater ==
  ASSUME NEW n \in Nat, NEW time \in Int, NEW ai \in Nat,
         NEW limit \in Nat, NEW window \in Nat,
         Repaid(n, time, ai, limit, window)
  PROVE  Repaid(n, time + 1, ai, limit, window)
  <1>1. Milli \in Nat /\ limit * Milli \in Nat
    BY ScaleAssumption
  <1>2. limit * Milli * (time + 1 - ai) = limit * Milli * (time - ai) + limit * Milli
    BY <1>1
  <1> QED BY <1>1, <1>2 DEF Repaid

(* The types the steps below rely on. *)
LEMMA RateFacts ==
  ASSUME RateInv
  PROVE  /\ now \in Nat /\ MaxLag \in Nat /\ Milli \in Nat \ {0}
         /\ caller \in [Callers -> CallerState]
         /\ \A c \in Callers : caller[c].stamp \in Nat
         /\ \A k \in Keys :
              /\ Limit[k] \in Nat \ {0} /\ Window[k] \in Nat \ {0}
              /\ Len(admitted[k]) \in Nat
              /\ \A i \in 1..Len(admitted[k]) : admitted[k][i] \in Nat
  <1>1. \A k \in Keys : admitted[k] \in Seq(Nat)
    BY DEF RateInv, TypeInv, TypeOK
  <1>2. \A k \in Keys : /\ Len(admitted[k]) \in Nat
                       /\ \A i \in 1..Len(admitted[k]) : admitted[k][i] \in Nat
    BY <1>1, LenProperties, ElementOfSeq
  <1>3. MaxLag \in Nat
    BY LimiterFacts DEF RateInv, TypeInv, TypeOK
  <1> QED BY <1>2, <1>3, StoreAssumption, ScaleAssumption
      DEF RateInv, TypeInv, TypeOK, CallerState

(* A bucket that is present is a bucket. *)
LEMMA PresentBucket ==
  ASSUME TokenStore, RateInv, NEW k \in Keys, k \in DOMAIN store
  PROVE  /\ store[k] \in TokenBucketState /\ store[k].tokens \in Nat
         /\ store[k].lastRefill \in Nat
         /\ store[k].tokens <= Limit[k] * Milli
         /\ GrantsPaid(k)
  <1>1. store[k] \in TokenBucketState /\ store[k].tokens <= Limit[k] * Milli
    BY DEF RateInv, TypeInv, TypeOK, TokenStore, StatesOf, WithinLimit
  <1> QED BY <1>1 DEF TokenBucketState, RateInv, BucketInv

(* A step that leaves the store, the log and the clock alone, and whose    *)
(* active callers keep their clock reading.                                *)
LEMMA RateUnchanged ==
  ASSUME RateInv, UNCHANGED <<limiter, now, store, admitted>>,
         \A d \in Callers : Active(d)' =>
           \/ Active(d) /\ caller'[d].stamp = caller[d].stamp
           \/ caller'[d].stamp = now
  PROVE  StampInv' /\ BucketInv' /\ Rated'
  <1>1. StampInv'
    BY RateFacts DEF RateInv, StampInv, MaxLag
  <1>2. BucketInv' /\ Rated'
    BY DEF RateInv, BucketInv, GrantsPaid, GrantsRepaid, Rated, MaxLag
  <1> QED BY <1>1, <1>2

(* The sweep forgets a bucket only when its account is repaid. *)
LEMMA SweepRepaid ==
  ASSUME TokenStore, RateInv, NEW c \in Callers, Sweep(c)
  PROVE  BucketInv'
  <1>1. caller[c].stamp \in Nat /\ caller[c].stamp <= now
    <2>1. Active(c)
      BY DEF Sweep, Active
    <2> QED BY <2>1, RateFacts DEF RateInv, StampInv
  <1> SUFFICES ASSUME NEW k \in Keys
               PROVE  IF k \in DOMAIN store' THEN GrantsPaid(k)' ELSE GrantsRepaid(k)'
    BY DEF BucketInv
  <1>2. UNCHANGED <<now, admitted>> /\ MaxLag' = MaxLag
    BY DEF Sweep, MaxLag
  <1>3. CASE k \in DOMAIN store'
    <2>1. k \in DOMAIN store /\ store'[k] = store[k]
      BY <1>3 DEF Sweep, SweptState, TokenStore
    <2> QED BY <1>2, <1>3, <2>1, PresentBucket DEF GrantsPaid
  <1>4. CASE k \notin DOMAIN store
    <2>1. k \notin DOMAIN store'
      BY <1>4 DEF Sweep
    <2> QED BY <1>2, <1>4, <2>1 DEF RateInv, BucketInv, GrantsRepaid
  <1>5. CASE k \in DOMAIN store /\ k \notin DOMAIN store'
    <2>1. ~(SatSub(caller[c].stamp, store[k].lastRefill) < StaleNanos)
      BY <1>5 DEF Sweep, SweepKeeps, TokenStore
    <2>2. store[k].lastRefill + Window[k] <= now - MaxLag
      <3>1. StaleNanos \in Nat /\ Window[k] + MaxLag <= StaleNanos
        BY ScaleAssumption DEF TokenStore
      <3> QED BY <1>1, <1>5, <2>1, <3>1, PresentBucket, RateFacts DEF SatSub
    <2>3. ASSUME NEW i \in 1..Len(admitted[k])
          PROVE  Repaid(Len(admitted[k]) - i, now - MaxLag, admitted[k][i],
                        Limit[k], Window[k])
      <3>1. Paid(Len(admitted[k]) - i, store[k].tokens, store[k].lastRefill,
                 admitted[k][i], Limit[k], Window[k])
        BY <1>5, PresentBucket DEF GrantsPaid
      <3>2. /\ Len(admitted[k]) - i \in Nat /\ admitted[k][i] \in Nat
            /\ now - MaxLag \in Int
        BY RateFacts
      <3>3. Limit[k] \in Nat /\ Window[k] \in Nat
        BY RateFacts
      <3>4. store[k].tokens \in Nat /\ store[k].lastRefill \in Nat
        BY <1>5, PresentBucket
      <3> QED BY <2>2, <3>1, <3>2, <3>3, <3>4, PaidEvicted
    <2> QED BY <1>2, <1>5, <2>3 DEF GrantsRepaid
  <1> QED BY <1>3, <1>4, <1>5

(* The slow path evaluates a bucket whose account is in order: the one     *)
(* another caller inserted, or a full one that starts at the caller's      *)
(* clock reading.                                                          *)
LEMMA InsertPaid ==
  ASSUME TokenStore, RateInv, NEW c \in Callers, Insert(c)
  PROVE  StampInv' /\ BucketInv' /\ Rated'
  <1> DEFINE k == Head(caller[c].todo)
             st == EntryOrInsert(c, k)
  <1>1. caller[c].pc = "insert" /\ EvaluateKey(c, k, st)
    BY DEF Insert
  <1>2. k \in Keys
    BY <1>1, HeadIsKey DEF RateInv
  <1>3. CASE k \in DOMAIN store
    <2>1. st = store[k]
      BY <1>3 DEF EntryOrInsert
    <2> HIDE DEF k, st
    <2> QED BY <1>1, <1>2, <1>3, <2>1, PresentBucket, EvaluateKeyPaid DEF GrantsPaid
  <1>4. CASE k \notin DOMAIN store
    <2>1. st = [tokens |-> Limit[k] * Milli, lastRefill |-> caller[c].stamp]
      BY <1>4 DEF EntryOrInsert, NewKeyState, TokenStore
    <2>2. /\ caller[c].stamp \in Nat /\ caller[c].stamp <= now
          /\ now - MaxLag <= caller[c].stamp /\ now - MaxLag \in Int
      <3>1. Active(c)
        BY <1>1 DEF Active
      <3> QED BY <3>1, RateFacts DEF RateInv, StampInv
    <2> HIDE DEF k, st
    <2>3. Limit[k] \in Nat \ {0} /\ Window[k] \in Nat \ {0} /\ Limit[k] * Milli \in Nat
      BY <1>2, RateFacts
    <2>4. st \in TokenBucketState /\ st.tokens <= Limit[k] * Milli /\ st.lastRefill <= now
      BY <2>1, <2>2, <2>3 DEF TokenBucketState
    <2>5. ASSUME NEW i \in 1..Len(admitted[k])
          PROVE  /\ admitted[k][i] <= st.lastRefill
                 /\ Paid(Len(admitted[k]) - i, st.tokens, st.lastRefill,
                         admitted[k][i], Limit[k], Window[k])
      <3>1. Repaid(Len(admitted[k]) - i, now - MaxLag, admitted[k][i],
                   Limit[k], Window[k])
        BY <1>2, <1>4 DEF RateInv, BucketInv, GrantsRepaid
      <3>2. Len(admitted[k]) - i \in Nat /\ admitted[k][i] \in Nat
        BY <1>2, RateFacts
      <3>3. /\ Paid(Len(admitted[k]) - i, Limit[k] * Milli, caller[c].stamp,
                    admitted[k][i], Limit[k], Window[k])
            /\ admitted[k][i] <= caller[c].stamp
        BY <2>2, <2>3, <3>1, <3>2, RepaidRestart
      <3>4. st.tokens = Limit[k] * Milli /\ st.lastRefill = caller[c].stamp
        BY <2>1
      <3> QED BY <3>3, <3>4
    <2> QED BY <1>1, <1>2, <2>4, <2>5, EvaluateKeyPaid
  <1> QED BY <1>3, <1>4

LEMMA TickRepaid ==
  ASSUME TokenStore, RateInv, Tick
  PROVE  StampInv' /\ BucketInv' /\ Rated'
  <1>1. /\ now' = now + 1 /\ UNCHANGED <<store, caller, admitted>>
        /\ MaxLag' = MaxLag
    BY DEF Tick, MaxLag
  <1>2. StampInv'
    <2>1. \A c \in Callers : Active(c) => now + 1 - caller[c].stamp <= MaxLag
      BY DEF Tick
    <2> QED BY <1>1, <2>1, RateFacts DEF RateInv, StampInv, Active
  <1>3. Rated'
    BY <1>1 DEF RateInv, Rated
  <1>4. ASSUME NEW k \in Keys
        PROVE  IF k \in DOMAIN store' THEN GrantsPaid(k)' ELSE GrantsRepaid(k)'
    <2>1. CASE k \in DOMAIN store
      BY <1>1, <2>1, PresentBucket, RateFacts DEF GrantsPaid
    <2>2. CASE k \notin DOMAIN store
      <3>1. ASSUME NEW i \in 1..Len(admitted[k])
            PROVE  Repaid(Len(admitted[k]) - i, now + 1 - MaxLag, admitted[k][i],
                          Limit[k], Window[k])
        <4>1. Repaid(Len(admitted[k]) - i, now - MaxLag, admitted[k][i],
                     Limit[k], Window[k])
          BY <2>2 DEF RateInv, BucketInv, GrantsRepaid
        <4>2. /\ Len(admitted[k]) - i \in Nat /\ admitted[k][i] \in Nat
              /\ now - MaxLag \in Int /\ Limit[k] \in Nat /\ Window[k] \in Nat
          BY RateFacts
        <4>3. Repaid(Len(admitted[k]) - i, (now - MaxLag) + 1, admitted[k][i],
                     Limit[k], Window[k])
          BY <4>1, <4>2, RepaidLater, SMTT(30)
        <4>4. (now - MaxLag) + 1 = now + 1 - MaxLag
          BY RateFacts
        <4> QED BY <4>3, <4>4
      <3>2. now' - MaxLag' = now + 1 - MaxLag
        BY <1>1, RateFacts
      <3>3. GrantsRepaid(k)'
        BY <1>1, <3>1, <3>2 DEF GrantsRepaid
      <3>4. k \notin DOMAIN store'
        BY <1>1, <2>2
      <3> QED BY <3>3, <3>4
    <2> QED BY <2>1, <2>2
  <1> QED BY <1>2, <1>3, <1>4 DEF BucketInv

LEMMA RateStep == ASSUME TokenStore PROVE RateInv /\ [Next]_vars => RateInv'
  <1> SUFFICES ASSUME RateInv, [Next]_vars PROVE StampInv' /\ BucketInv' /\ Rated'
    BY TypeStep DEF RateInv
  <1>1. ASSUME NEW c \in Callers, Check(c) PROVE StampInv' /\ BucketInv' /\ Rated'
    BY <1>1, RateFacts, RateUnchanged DEF Check, Active
  <1>2. ASSUME NEW c \in Callers, LookupHit(c) PROVE StampInv' /\ BucketInv' /\ Rated'
    <2> DEFINE k == Head(caller[c].todo)
    <2>1. caller[c].pc = "lookup" /\ k \in DOMAIN store /\ EvaluateKey(c, k, store[k])
      BY <1>2 DEF LookupHit
    <2>2. k \in Keys
      BY <2>1, HeadIsKey DEF RateInv
    <2> HIDE DEF k
    <2> QED BY <2>1, <2>2, PresentBucket, EvaluateKeyPaid DEF GrantsPaid
  <1>3. ASSUME NEW c \in Callers, LookupMiss(c) PROVE StampInv' /\ BucketInv' /\ Rated'
    BY <1>3, RateFacts, RateUnchanged DEF LookupMiss, Active, CallerState
  <1>4. ASSUME NEW c \in Callers, Insert(c) PROVE StampInv' /\ BucketInv' /\ Rated'
    BY <1>4, InsertPaid
  <1>5. ASSUME NEW c \in Callers, CountCall(c) PROVE StampInv' /\ BucketInv' /\ Rated'
    BY <1>5, RateFacts, RateUnchanged DEF CountCall, Active, CallerState
  <1>6. ASSUME NEW c \in Callers, Sweep(c) PROVE StampInv' /\ BucketInv' /\ Rated'
    <2>1. BucketInv'
      BY <1>6, SweepRepaid
    <2>2. UNCHANGED <<now, admitted>> /\ MaxLag' = MaxLag
      BY <1>6 DEF Sweep, MaxLag
    <2>3. \A d \in Callers : Active(d)' => Active(d) /\ caller'[d].stamp = caller[d].stamp
      BY <1>6, RateFacts DEF Sweep, Active, CallerState
    <2> QED BY <2>1, <2>2, <2>3 DEF RateInv, StampInv, Rated
  <1>7. ASSUME NEW c \in Callers, Respond(c) PROVE StampInv' /\ BucketInv' /\ Rated'
    BY <1>7, RateFacts, RateUnchanged DEF Respond, Idle, Active
  <1>8. ASSUME Tick PROVE StampInv' /\ BucketInv' /\ Rated'
    BY <1>8, TickRepaid
  <1>9. CASE UNCHANGED vars
    BY <1>9, RateUnchanged DEF vars, Active
  <1> QED
    BY <1>1, <1>2, <1>3, <1>4, <1>5, <1>6, <1>7, <1>8, <1>9 DEF Next

(* A limiter never changes its algorithm or its lag. *)
LEMMA SameLimiter ==
  ASSUME [Next]_vars
  PROVE  Algorithm' = Algorithm /\ TokenStore' = TokenStore
  BY DEF Next, Check, LookupHit, LookupMiss, Insert, EvaluateKey, CountCall,
         Sweep, Respond, Tick, vars, Algorithm, MaxLag, TokenStore

(* Between any two of its admitted calls, a token bucket grants no more    *)
(* than its capacity and what refills in the time between them and one lag *)
(* at the configured rate, although refills are rounded, buckets evicted   *)
(* and callers late.                                                       *)
THEOREM TokenRateHolds ==
  ASSUME \A l \in Limiters : l.algorithm = "token_bucket" =>
           \A k \in Keys : Window[k] + l.lag <= StaleNanos
  PROVE  Spec => []TokenRate
  <1> DEFINE Inv == TypeInv /\ (Algorithm = "token_bucket" => TokenStore /\ RateInv)
  <1>1. Init => Inv
    <2> SUFFICES ASSUME Init PROVE Inv
      OBVIOUS
    <2>1. limiter \in Limiters
      BY DEF Init
    <2>2. Algorithm = "token_bucket" => TokenStore
      BY <2>1 DEF TokenStore, Algorithm, MaxLag
    <2> QED BY <2>2, TypeInit, RateInit
  <1>2. Inv /\ [Next]_vars => Inv'
    <2> SUFFICES ASSUME Inv, [Next]_vars PROVE Inv'
      OBVIOUS
    <2>1. TypeInv'
      BY TypeStep
    <2>2. CASE Algorithm = "token_bucket"
      <3>1. TokenStore /\ RateInv
        BY <2>2
      <3>2. RateInv'
        BY <3>1, RateStep
      <3> QED BY <2>1, <3>1, <3>2, SameLimiter
    <2>3. CASE Algorithm # "token_bucket"
      BY <2>1, <2>3, SameLimiter
    <2> QED BY <2>2, <2>3
  <1>3. Inv => TokenRate
    BY DEF RateInv, Rated, TokenRate
  <1> HIDE DEF Inv
  <1> QED BY <1>1, <1>2, <1>3, PTL DEF Spec

(***************************************************************************)
(* Steps.  An evaluation is the fast or the slow path, and either way it   *)
(* takes the key's state or a fresh one; of the other steps only the sweep *)
(* and the clock touch what the properties below are about.                *)
(***************************************************************************)
Evaluation(c) ==
  \E k \in Keys :
    /\ caller[c].pc \in {"lookup", "insert"}
    /\ k = Head(caller[c].todo)
    /\ EvaluateKey(c, k, EntryOrInsert(c, k))

Aside == UNCHANGED <<limiter, now, store, admitted>>

LEMMA EvaluationStep ==
  ASSUME TypeInv, NEW c \in Callers, LookupHit(c) \/ Insert(c)
  PROVE  Evaluation(c)
  <1> DEFINE k == Head(caller[c].todo)
  <1>1. caller[c].pc \in {"lookup", "insert"}
    BY DEF LookupHit, Insert
  <1>2. k \in Keys
    BY <1>1, HeadIsKey
  <1>3. EvaluateKey(c, k, EntryOrInsert(c, k))
    BY DEF LookupHit, Insert, EntryOrInsert
  <1> HIDE DEF k
  <1>4. k = Head(caller[c].todo)
    BY DEF k
  <1> QED BY <1>1, <1>2, <1>3, <1>4 DEF Evaluation

LEMMA KindsOfStep ==
  ASSUME TypeInv, [Next]_vars
  PROVE  \/ \E c \in Callers : Evaluation(c)
         \/ \E c \in Callers : Sweep(c)
         \/ Tick
         \/ Aside
  <1>1. ASSUME NEW c \in Callers,
               Check(c) \/ LookupMiss(c) \/ CountCall(c) \/ Respond(c)
        PROVE  Aside
    BY <1>1 DEF Check, LookupMiss, CountCall, Respond, Aside
  <1>2. UNCHANGED vars => Aside
    BY DEF vars, Aside
  <1> QED BY <1>1, <1>2, EvaluationStep DEF Next

(***************************************************************************)
(* No clock reading in the store is ahead of the clock.                    *)
(***************************************************************************)
NotAhead == \A k \in DOMAIN store :
  /\ Algorithm = "fixed_window" => store[k].start <= now
  /\ Algorithm = "token_bucket" => store[k].lastRefill <= now

CommonInv == TypeInv /\ StampInv /\ NotAhead

LEMMA CommonFacts ==
  ASSUME CommonInv
  PROVE  /\ now \in Nat /\ MaxLag \in Nat /\ Algorithm \in Algorithms
         /\ caller \in [Callers -> CallerState]
         /\ \A c \in Callers : caller[c].stamp \in Nat /\ caller[c].unix \in Nat
         /\ \A k \in Keys :
              /\ Limit[k] \in Nat \ {0} /\ Window[k] \in Nat \ {0}
              /\ admitted[k] \in Seq(Nat)
         /\ DOMAIN store \subseteq Keys
         /\ \A k \in DOMAIN store :
              /\ store[k] \in StatesOf(Algorithm)
              /\ WithinLimit(Algorithm, store[k], Limit[k])
  <1>1. MaxLag \in Nat /\ Algorithm \in Algorithms
    BY LimiterFacts DEF CommonInv, TypeInv, TypeOK
  <1> QED BY <1>1, StoreAssumption DEF CommonInv, TypeInv, TypeOK, CallerState

(* What a caller that evaluates a key brings along. *)
LEMMA EvaluationFacts ==
  ASSUME CommonInv, NEW c \in Callers, NEW k \in Keys,
         caller[c].pc \in {"lookup", "insert"}
  PROVE  /\ caller[c].stamp \in Nat /\ caller[c].unix \in Nat
         /\ caller[c].stamp <= now /\ now <= caller[c].stamp + MaxLag
         /\ EntryOrInsert(c, k) \in StatesOf(Algorithm)
         /\ WithinLimit(Algorithm, EntryOrInsert(c, k), Limit[k])
  <1>1. caller[c].stamp \in Nat /\ caller[c].unix \in Nat
        /\ Algorithm \in Algorithms /\ Limit[k] \in Nat \ {0}
    BY CommonFacts
  <1>2. caller[c].stamp <= now /\ now <= caller[c].stamp + MaxLag
    BY DEF CommonInv, StampInv, Active
  <1>3. CASE k \in DOMAIN store
    BY <1>1, <1>2, <1>3, CommonFacts DEF EntryOrInsert
  <1>4. CASE k \notin DOMAIN store
    <2>1. EntryOrInsert(c, k)
            = NewKeyState(Algorithm, Limit[k], caller[c].stamp, caller[c].unix)
      BY <1>4 DEF EntryOrInsert
    <2> QED BY <1>1, <1>2, <2>1, NewKeyShape
  <1> QED BY <1>3, <1>4

(* The new state of a key after an evaluation, and of the others. *)
EvaluatesTo(c, k, st, t, unix, ev) ==
  /\ caller[c].pc \in {"lookup", "insert"}
  /\ k = Head(caller[c].todo)
  /\ t = caller[c].stamp /\ unix = caller[c].unix
  /\ st = EntryOrInsert(c, k)
  /\ ev = Evaluate(Algorithm, st, Limit[k], Window[k], t, unix)
  /\ limiter' = limiter /\ now' = now
  /\ DOMAIN store' = DOMAIN store \union {k}
  /\ store'[k] = ev.state
  /\ \A x \in DOMAIN store : x # k => store'[x] = store[x]
  /\ admitted'[k] = IF ev.result.allowed THEN Append(admitted[k], t) ELSE admitted[k]
  /\ \A x \in Keys : x # k => admitted'[x] = admitted[x]
  /\ caller' = [caller EXCEPT ![c] =
       [caller[c] EXCEPT !.pc = "count", !.dims = Append(@, ev.result)]]

LEMMA EvaluationEffect ==
  ASSUME CommonInv, NEW c \in Callers, Evaluation(c)
  PROVE  \E k \in Keys, st \in StatesOf(Algorithm), t \in Nat, unix \in Nat :
           \E ev : EvaluatesTo(c, k, st, t, unix, ev)
  <1>1. PICK k \in Keys : /\ caller[c].pc \in {"lookup", "insert"}
                         /\ k = Head(caller[c].todo)
                         /\ EvaluateKey(c, k, EntryOrInsert(c, k))
    BY DEF Evaluation
  <1>2. /\ EntryOrInsert(c, k) \in StatesOf(Algorithm)
        /\ caller[c].stamp \in Nat /\ caller[c].unix \in Nat
    BY <1>1, EvaluationFacts
  <1>3. admitted \in [Keys -> Seq(Nat)]
    BY DEF CommonInv, TypeInv, TypeOK
  <1> DEFINE ev == Evaluate(Algorithm, EntryOrInsert(c, k), Limit[k], Window[k],
                            caller[c].stamp, caller[c].unix)
  <1>4. /\ store' = [x \in DOMAIN store \union {k} |->
                       IF x = k THEN ev.state ELSE store[x]]
        /\ admitted' = IF ev.result.allowed
                       THEN [admitted EXCEPT ![k] = Append(@, caller[c].stamp)]
                       ELSE admitted
        /\ caller' = [caller EXCEPT ![c] =
              [caller[c] EXCEPT !.pc = "count", !.dims = Append(@, ev.result)]]
        /\ limiter' = limiter /\ now' = now
    BY <1>1 DEF EvaluateKey
  <1> HIDE DEF ev
  <1>5. /\ admitted'[k] = IF ev.result.allowed
                          THEN Append(admitted[k], caller[c].stamp)
                          ELSE admitted[k]
        /\ \A x \in Keys : x # k => admitted'[x] = admitted[x]
    BY <1>3, <1>4
  <1>6. EvaluatesTo(c, k, EntryOrInsert(c, k), caller[c].stamp, caller[c].unix, ev)
    <2>1. ev = Evaluate(Algorithm, EntryOrInsert(c, k), Limit[k], Window[k],
                        caller[c].stamp, caller[c].unix)
      BY DEF ev
    <2> QED BY <1>1, <1>4, <1>5, <2>1 DEF EvaluatesTo
  <1> QED BY <1>2, <1>6

(* An evaluation with the reading of its caller, which may be late. *)
LEMMA EvaluatedFacts ==
  ASSUME CommonInv, NEW c \in Callers, NEW k \in Keys, NEW st, NEW t, NEW unix, NEW ev,
         EvaluatesTo(c, k, st, t, unix, ev)
  PROVE  /\ t <= now /\ now <= t + MaxLag
         /\ WithinLimit(Algorithm, st, Limit[k])
         /\ Algorithm = "fixed_window" => st.start <= now
         /\ Algorithm = "token_bucket" => st.lastRefill <= now
         /\ Algorithm' = Algorithm /\ MaxLag' = MaxLag
         /\ Limit[k] \in Nat \ {0} /\ Window[k] \in Nat \ {0}
         /\ now \in Nat /\ MaxLag \in Nat /\ admitted[k] \in Seq(Nat)
  <1>1. /\ caller[c].pc \in {"lookup", "insert"}
        /\ t = caller[c].stamp /\ st = EntryOrInsert(c, k) /\ limiter' = limiter
    BY DEF EvaluatesTo
  <1>2. Algorithm' = Algorithm /\ MaxLag' = MaxLag
    BY <1>1 DEF Algorithm, MaxLag
  <1>3. /\ caller[c].stamp <= now /\ now <= caller[c].stamp + MaxLag
        /\ WithinLimit(Algorithm, EntryOrInsert(c, k), Limit[k])
    BY <1>1, EvaluationFacts
  <1>4. /\ Algorithm = "fixed_window" => EntryOrInsert(c, k).start <= now
        /\ Algorithm = "token_bucket" => EntryOrInsert(c, k).lastRefill <= now
    BY <1>3 DEF EntryOrInsert, NewKeyState, CommonInv, NotAhead
  <1> QED BY <1>1, <1>2, <1>3, <1>4, CommonFacts

LEMMA CommonInit == Init => CommonInv
  <1> SUFFICES ASSUME Init PROVE CommonInv
    OBVIOUS
  <1>1. StampInv
    BY DEF Init, StampInv, Active, Idle
  <1>2. DOMAIN store = {}
    BY DEF Init
  <1>3. NotAhead
    BY <1>2 DEF NotAhead
  <1> QED BY <1>1, <1>3, TypeInit DEF CommonInv

(* A caller keeps the reading it took when its call began. *)
LEMMA StampStep ==
  ASSUME CommonInv, [Next]_vars
  PROVE  StampInv'
  <1>1. /\ now \in Nat /\ MaxLag \in Nat /\ caller \in [Callers -> CallerState]
        /\ \A c \in Callers : caller[c].stamp \in Nat
    BY CommonFacts
  <1>2. limiter' = limiter /\ MaxLag' = MaxLag
    BY DEF Next, Check, LookupHit, LookupMiss, Insert, EvaluateKey, CountCall,
           Sweep, Respond, Tick, vars, MaxLag
  <1>3. ASSUME now' = now,
               \A d \in Callers : Active(d)' =>
                 \/ Active(d) /\ caller'[d].stamp = caller[d].stamp
                 \/ caller'[d].stamp = now
        PROVE  StampInv'
    BY <1>1, <1>2, <1>3 DEF CommonInv, StampInv
  <1>4. ASSUME NEW c \in Callers, Check(c) PROVE StampInv'
    BY <1>1, <1>3, <1>4 DEF Check, Active
  <1>5. ASSUME NEW c \in Callers, Evaluation(c) PROVE StampInv'
    <2>1. PICK k \in Keys : caller[c].pc \in {"lookup", "insert"}
                            /\ EvaluateKey(c, k, EntryOrInsert(c, k))
      BY <1>5 DEF Evaluation
    <2>2. PICK r : caller' = [caller EXCEPT ![c] =
                     [caller[c] EXCEPT !.pc = "count", !.dims = r]]
      BY <2>1 DEF EvaluateKey
    <2>3. now' = now
      BY <2>1 DEF EvaluateKey
    <2> QED BY <1>1, <1>3, <2>1, <2>2, <2>3 DEF Active, CallerState
  <1>6. ASSUME NEW c \in Callers,
               LookupMiss(c) \/ CountCall(c) \/ Sweep(c) \/ Respond(c)
        PROVE  StampInv'
    <2>1. CASE LookupMiss(c)
      BY <1>1, <1>3, <2>1 DEF LookupMiss, Active, CallerState
    <2>2. CASE CountCall(c)
      BY <1>1, <1>3, <2>2 DEF CountCall, Active, CallerState
    <2>3. CASE Sweep(c)
      BY <1>1, <1>3, <2>3 DEF Sweep, Active, CallerState
    <2>4. CASE Respond(c)
      BY <1>1, <1>3, <2>4 DEF Respond, Active, Idle
    <2> QED BY <1>6, <2>1, <2>2, <2>3, <2>4
  <1>7. ASSUME Tick PROVE StampInv'
    <2>1. /\ now' = now + 1 /\ caller' = caller
          /\ \A c \in Callers : Active(c) => now + 1 - caller[c].stamp <= MaxLag
      BY <1>7 DEF Tick
    <2> QED BY <1>1, <1>2, <2>1 DEF CommonInv, StampInv, Active
  <1>8. CASE UNCHANGED vars
    BY <1>3, <1>8 DEF vars, Active
  <1> QED BY <1>4, <1>5, <1>6, <1>7, <1>8, EvaluationStep DEF Next, CommonInv

LEMMA NotAheadStep ==
  ASSUME CommonInv, [Next]_vars
  PROVE  NotAhead'
  <1>1. /\ now \in Nat /\ Algorithm \in Algorithms
        /\ \A k \in DOMAIN store : store[k] \in StatesOf(Algorithm)
    BY CommonFacts
  <1>2. ASSUME NEW c \in Callers, Evaluation(c) PROVE NotAhead'
    <2>0. PICK k \in Keys, st \in StatesOf(Algorithm), t \in Nat, unix \in Nat :
            \E ev : EvaluatesTo(c, k, st, t, unix, ev)
      BY <1>2, EvaluationEffect
    <2>1. PICK ev : EvaluatesTo(c, k, st, t, unix, ev)
      BY <2>0
    <2>2. /\ t <= now /\ Algorithm' = Algorithm
          /\ WithinLimit(Algorithm, st, Limit[k])
          /\ Limit[k] \in Nat \ {0} /\ Window[k] \in Nat \ {0}
          /\ Algorithm = "fixed_window" => st.start <= now
          /\ Algorithm = "token_bucket" => st.lastRefill <= now
      BY <2>1, EvaluatedFacts
    <2>3. /\ ev = Evaluate(Algorithm, st, Limit[k], Window[k], t, unix)
          /\ now' = now /\ DOMAIN store' = DOMAIN store \union {k}
          /\ store'[k] = ev.state
          /\ \A x \in DOMAIN store : x # k => store'[x] = store[x]
      BY <2>1 DEF EvaluatesTo
    <2>4. ASSUME Algorithm = "fixed_window" PROVE ev.state.start <= now
      <3>1. st \in FixedWindowState /\ ev = FixedWindow(st, Limit[k], Window[k], t, unix)
        BY <2>3, <2>4 DEF StatesOf, Evaluate
      <3>2. FixedWindow(st, Limit[k], Window[k], t, unix).state.start
              = OpenStart(st, Window[k], t)
        BY <2>2, <3>1, FixedVerdict
      <3> QED BY <2>2, <2>4, <3>1, <3>2 DEF OpenStart
    <2>5. ASSUME Algorithm = "token_bucket" PROVE ev.state.lastRefill <= now
      <3>1. /\ st \in TokenBucketState /\ st.tokens <= Limit[k] * Milli
            /\ ev = TokenBucket(st, Limit[k], Window[k], t, unix)
        BY <2>2, <2>3, <2>5 DEF StatesOf, Evaluate, WithinLimit
      <3>2. TokenBucket(st, Limit[k], Window[k], t, unix).state.lastRefill
              = IF t > st.lastRefill THEN t ELSE st.lastRefill
        BY <2>2, <3>1, TokenVerdict
      <3> QED BY <2>2, <2>5, <3>1, <3>2
    <2> QED BY <2>2, <2>3, <2>4, <2>5 DEF CommonInv, NotAhead
  <1>3. ASSUME NEW c \in Callers, Sweep(c) PROVE NotAhead'
    <2>1. now' = now /\ Algorithm' = Algorithm
      BY <1>3 DEF Sweep, Algorithm
    <2>2. \A k \in DOMAIN store' :
            k \in DOMAIN store /\ (Algorithm # "sliding_window" => store'[k] = store[k])
      BY <1>3 DEF Sweep, SweptState
    <2> QED BY <2>1, <2>2 DEF CommonInv, NotAhead
  <1>4. ASSUME Tick PROVE NotAhead'
    <2>1. now' = now + 1 /\ store' = store /\ Algorithm' = Algorithm
      BY <1>4 DEF Tick, Algorithm
    <2>2. /\ \A k \in DOMAIN store : Algorithm = "fixed_window" => store[k].start \in Nat
          /\ \A k \in DOMAIN store : Algorithm = "token_bucket" => store[k].lastRefill \in Nat
      BY <1>1 DEF StatesOf, FixedWindowState, TokenBucketState
    <2> QED BY <1>1, <2>1, <2>2 DEF CommonInv, NotAhead
  <1>5. ASSUME Aside PROVE NotAhead'
    BY <1>5 DEF Aside, CommonInv, NotAhead, Algorithm
  <1> QED BY <1>2, <1>3, <1>4, <1>5, KindsOfStep DEF CommonInv

LEMMA CommonStep == CommonInv /\ [Next]_vars => CommonInv'
  BY TypeStep, StampStep, NotAheadStep DEF CommonInv

(***************************************************************************)
(* The burst of a fixed window.  Every call of the open window, and every  *)
(* earlier one, was read before the window ends; a call of an earlier      *)
(* window at most a lag after the open one starts; and from a call of a    *)
(* window before those, the clock is already a window less a lag further.  *)
(* The same can be said of a key that is gone, whose next window starts at *)
(* most a lag ago.                                                         *)
(***************************************************************************)
WindowOpen(log, count, start, time, lag, limit, window) ==
  /\ count \in 0..Len(log)
  /\ \A i \in 1..Len(log) : log[i] < start + window
  /\ \A i \in 1..(Len(log) - count) : log[i] < start + lag
  /\ \A i \in 1..(Len(log) - count - limit) : log[i] + window < time + lag

WindowGone(log, time, lag, limit, window) ==
  /\ \A i \in 1..Len(log) : log[i] < time
  /\ \A i \in 1..(Len(log) - limit) : log[i] + window < time + lag

(* Two limits further in the log, the reading is a window less two lags on *)
BurstSpaced(log, lag, limit, window) ==
  \A i, j \in 1..Len(log) :
    i + 2 * limit <= j => log[i] + window < log[j] + 2 * lag

BurstInv ==
  \A k \in Keys : 2 * MaxLag <= Window[k] =>
    /\ BurstSpaced(admitted[k], MaxLag, Limit[k], Window[k])
    /\ IF k \in DOMAIN store
       THEN WindowOpen(admitted[k], store[k].count, store[k].start, now,
                       MaxLag, Limit[k], Window[k])
       ELSE WindowGone(admitted[k], now, MaxLag, Limit[k], Window[k])

(* A new window takes over from the one that has elapsed. *)
LEMMA WindowRestarts ==
  ASSUME NEW log \in Seq(Nat), NEW count \in Nat, NEW start \in Nat, NEW t \in Nat,
         NEW time \in Nat, NEW lag \in Nat, NEW limit \in Nat \ {0},
         NEW window \in Nat \ {0},
         WindowOpen(log, count, start, time, lag, limit, window),
         count <= limit, start + window <= t, t <= time
  PROVE  WindowOpen(log, 0, t, time, lag, limit, window)
  <1>1. Len(log) \in Nat /\ \A i \in 1..Len(log) : log[i] \in Nat
    BY LogFacts
  <1>2. /\ count \in 0..Len(log)
        /\ \A i \in 1..Len(log) : log[i] < start + window
        /\ \A i \in 1..(Len(log) - count) : log[i] < start + lag
    BY DEF WindowOpen
  <1>3. \A i \in 1..Len(log) : log[i] < t
    BY <1>1, <1>2
  <1>4. \A i \in 1..(Len(log) - limit) : log[i] + window < time + lag
    <2> SUFFICES ASSUME NEW i \in 1..(Len(log) - limit)
                 PROVE  log[i] + window < time + lag
      OBVIOUS
    <2>1. i \in 1..(Len(log) - count) /\ i \in 1..Len(log)
      BY <1>1
    <2>2. log[i] < start + lag /\ log[i] \in Nat
      BY <1>1, <1>2, <2>1
    <2> QED BY <2>2
  <1>5. \A i \in 1..Len(log) : log[i] < t + window /\ log[i] < t + lag
    BY <1>1, <1>3
  <1> QED BY <1>1, <1>4, <1>5 DEF WindowOpen

(* An elapsed window may be forgotten. *)
LEMMA WindowForgotten ==
  ASSUME NEW log \in Seq(Nat), NEW count \in Nat, NEW start \in Nat,
         NEW time \in Nat, NEW lag \in Nat, NEW limit \in Nat \ {0},
         NEW window \in Nat \ {0},
         WindowOpen(log, count, start, time, lag, limit, window),
         count <= limit, start + window <= time
  PROVE  WindowGone(log, time, lag, limit, window)
  <1>0. time <= time
    OBVIOUS
  <1>1. WindowOpen(log, 0, time, time, lag, limit, window)
    BY <1>0, WindowRestarts, Zenon
  <1>2. Len(log) \in Nat /\ \A i \in 1..Len(log) : log[i] \in Nat
    BY LogFacts
  <1>3. \A i \in 1..Len(log) : log[i] < start + window
    BY DEF WindowOpen
  <1>4. \A i \in 1..Len(log) : log[i] < time
    BY <1>2, <1>3
  <1>5. \A i \in 1..(Len(log) - limit) : log[i] + window < time + lag
    BY <1>1, <1>2 DEF WindowOpen
  <1> QED BY <1>4, <1>5 DEF WindowGone

(* A forgotten key starts over, perhaps in the past. *)
LEMMA WindowStartsOver ==
  ASSUME NEW log \in Seq(Nat), NEW t \in Nat, NEW time \in Nat, NEW lag \in Nat,
         NEW limit \in Nat \ {0}, NEW window \in Nat \ {0},
         WindowGone(log, time, lag, limit, window),
         t <= time, time <= t + lag, 2 * lag <= window
  PROVE  WindowOpen(log, 0, t, time, lag, limit, window)
  BY LogFacts DEF WindowOpen, WindowGone

(* A call is admitted to the open window. *)
LEMMA WindowAdmits ==
  ASSUME NEW log \in Seq(Nat), NEW count \in Nat, NEW start \in Nat, NEW t \in Nat,
         NEW time \in Nat, NEW lag \in Nat, NEW limit \in Nat \ {0},
         NEW window \in Nat \ {0},
         WindowOpen(log, count, start, time, lag, limit, window),
         BurstSpaced(log, lag, limit, window),
         count < limit, t < start + window, time <= t + lag
  PROVE  /\ WindowOpen(Append(log, t), count + 1, start, time, lag, limit, window)
         /\ BurstSpaced(Append(log, t), lag, limit, window)
  <1> DEFINE n == Len(log)
             l == Append(log, t)
  <1>1. /\ n \in Nat /\ Len(l) = n + 1 /\ l[n + 1] = t
        /\ \A i \in 1..n : l[i] = log[i] /\ log[i] \in Nat
    BY LogFacts
  <1>n. n = Len(log)
    OBVIOUS
  <1> HIDE DEF n, l
  <1>2. WindowOpen(l, count + 1, start, time, lag, limit, window)
    <2>1. /\ count \in 0..n
          /\ \A i \in 1..n : log[i] < start + window
          /\ \A i \in 1..(n - count) : log[i] < start + lag
          /\ \A i \in 1..(n - count - limit) : log[i] + window < time + lag
      BY <1>n DEF WindowOpen
    <2>2. /\ count + 1 \in 0..(n + 1)
          /\ \A i \in 1..(n + 1) : l[i] < start + window
      BY <1>1, <2>1
    <2>3. /\ n + 1 - (count + 1) = n - count
          /\ 1..(n - count) \subseteq 1..n
          /\ 1..(n - count - limit) \subseteq 1..n
      BY <1>1, <2>1
    <2>4. /\ \A i \in 1..(n - count) : l[i] < start + lag
          /\ \A i \in 1..(n - count - limit) : l[i] + window < time + lag
      BY <1>1, <2>1, <2>3
    <2>5. ASSUME NEW i \in 1..(n + 1 - (count + 1)) PROVE l[i] < start + lag
      <3>1. i \in 1..(n - count)
        BY <1>1, <2>1
      <3> QED BY <2>4, <3>1
    <2>6. ASSUME NEW i \in 1..(n + 1 - (count + 1) - limit)
          PROVE  l[i] + window < time + lag
      <3>1. i \in 1..(n - count - limit)
        BY <1>1, <2>1
      <3> QED BY <2>4, <3>1
    <2> QED BY <1>1, <2>2, <2>5, <2>6 DEF WindowOpen
  <1>3. BurstSpaced(l, lag, limit, window)
    <2> SUFFICES ASSUME NEW i \in 1..(n + 1), NEW j \in 1..(n + 1), i + 2 * limit <= j
                 PROVE  l[i] + window < l[j] + 2 * lag
      BY <1>1 DEF BurstSpaced
    <2>1. i \in 1..n /\ l[i] = log[i] /\ log[i] \in Nat
      BY <1>1
    <2>2. CASE j = n + 1
      <3>1. i \in 1..(n - count - limit)
        BY <1>1, <2>2
      <3>2. log[i] + window < time + lag
        BY <1>n, <3>1 DEF WindowOpen
      <3> QED BY <1>1, <2>1, <2>2, <3>2, SMTT(30)
    <2>3. CASE j # n + 1
      <3>1. j \in 1..n /\ l[j] = log[j]
        BY <1>1, <2>3
      <3>2. log[i] + window < log[j] + 2 * lag
        BY <1>n, <2>1, <3>1 DEF BurstSpaced
      <3> QED BY <2>1, <3>1, <3>2
    <2> QED BY <2>2, <2>3
  <1> QED BY <1>2, <1>3 DEF l

(* What is spaced that way comes in bursts of at most twice the limit. *)
LEMMA SpacedBurst ==
  ASSUME NEW log \in Seq(Nat), NEW lag \in Nat, NEW limit \in Nat \ {0},
         NEW window \in Nat \ {0}, NEW a \in Nat,
         BurstSpaced(log, lag, limit, window)
  PROVE  Cardinality({i \in 1..Len(log) :
                        a <= log[i] /\ log[i] < a + (window - 2 * lag + 1)}) <= 2 * limit
  <1> DEFINE S == {i \in 1..Len(log) :
                     a <= log[i] /\ log[i] < a + (window - 2 * lag + 1)}
  <1>1. Len(log) \in Nat /\ \A i \in 1..Len(log) : log[i] \in Nat
    BY LogFacts
  <1>2. CASE S = {}
    <2>1. Cardinality(S) = 0
      BY <1>2, FS_EmptySet
    <2> HIDE DEF S
    <2> QED BY <2>1 DEF S
  <1>3. CASE S # {}
    <2>1. PICK m \in S : \A i \in S : m <= i
      <3>1. S \in SUBSET Nat
        BY <1>1
      <3> HIDE DEF S
      <3> QED BY <1>3, <3>1, MinIsLeast
    <2>2. m \in 1..Len(log) /\ a <= log[m] /\ log[m] \in Nat /\ m \in Nat
      BY <1>1, <2>1
    <2>3. ASSUME NEW i \in S PROVE i \in m..(m + 2 * limit - 1)
      <3>1. i \in 1..Len(log) /\ log[i] < a + (window - 2 * lag + 1) /\ log[i] \in Nat
        BY <1>1
      <3>2. ASSUME m + 2 * limit <= i PROVE FALSE
        <4>1. log[m] + window < log[i] + 2 * lag
          BY <2>2, <3>1, <3>2 DEF BurstSpaced
        <4>2. \A p, q \in Nat :
                a <= p /\ q < a + (window - 2 * lag + 1) => ~(p + window < q + 2 * lag)
          OBVIOUS
        <4> HIDE DEF S
        <4> QED BY <2>2, <3>1, <4>1, <4>2
      <3> QED BY <1>1, <2>1, <2>2, <3>1, <3>2
    <2>4. S \subseteq m..(m + 2 * limit - 1)
      BY <2>3
    <2>5. /\ IsFiniteSet(m..(m + 2 * limit - 1))
          /\ Cardinality(m..(m + 2 * limit - 1)) = 2 * limit
      <3> DEFINE b == m + 2 * limit - 1
      <3>1. m \in Int /\ b \in Int /\ ~(m > b) /\ b - m + 1 = 2 * limit
        BY <2>2
      <3> HIDE DEF b
      <3>2. IsFiniteSet(m..b) /\ Cardinality(m..b) = IF m > b THEN 0 ELSE b - m + 1
        BY <3>1, FS_Interval
      <3> QED BY <3>1, <3>2 DEF b
    <2> HIDE DEF S
    <2>6. Cardinality(S) <= 2 * limit
      BY <2>4, <2>5, FS_Subset
    <2> QED BY <2>6 DEF S
  <1> QED BY <1>2, <1>3

LEMMA BurstInit == Init => BurstInv
  <1> SUFFICES ASSUME Init, NEW k \in Keys
               PROVE  /\ BurstSpaced(admitted[k], MaxLag, Limit[k], Window[k])
                      /\ k \notin DOMAIN store
                      /\ WindowGone(admitted[k], now, MaxLag, Limit[k], Window[k])
    BY DEF BurstInv
  <1>1. admitted[k] = << >> /\ Len(admitted[k]) = 0
    BY EmptySeq DEF Init
  <1>2. DOMAIN store = {}
    BY DEF Init
  <1>3. Limit[k] \in Nat \ {0}
    BY StoreAssumption
  <1> HIDE DEF Init
  <1> QED BY <1>1, <1>2, <1>3 DEF BurstSpaced, WindowGone

LEMMA WindowLater ==
  ASSUME NEW log \in Seq(Nat), NEW time \in Nat, NEW later \in Nat, NEW lag \in Nat,
         NEW limit \in Nat \ {0}, NEW window \in Nat \ {0}, time <= later
  PROVE  /\ WindowGone(log, time, lag, limit, window)
              => WindowGone(log, later, lag, limit, window)
         /\ \A count, start : WindowOpen(log, count, start, time, lag, limit, window)
              => WindowOpen(log, count, start, later, lag, limit, window)
  <1>1. Len(log) \in Nat /\ \A i \in 1..Len(log) : log[i] \in Nat
    BY LogFacts
  <1>2. ASSUME WindowGone(log, time, lag, limit, window)
        PROVE  WindowGone(log, later, lag, limit, window)
    <2>1. \A i \in 1..Len(log) : log[i] < later
      BY <1>1, <1>2 DEF WindowGone
    <2>2. \A i \in 1..(Len(log) - limit) : log[i] + window < later + lag
      BY <1>1, <1>2 DEF WindowGone
    <2> QED BY <2>1, <2>2 DEF WindowGone
  <1>3. ASSUME NEW count, NEW start,
               WindowOpen(log, count, start, time, lag, limit, window)
        PROVE  WindowOpen(log, count, start, later, lag, limit, window)
    <2>1. count \in 0..Len(log)
      BY <1>3 DEF WindowOpen
    <2>2. \A i \in 1..(Len(log) - count - limit) : log[i] + window < later + lag
      BY <1>1, <1>3, <2>1 DEF WindowOpen
    <2> QED BY <1>3, <2>2 DEF WindowOpen
  <1> QED BY <1>2, <1>3

(* One evaluation of a fixed window, on the key's log. *)
LEMMA EvaluationBurst ==
  ASSUME CommonInv, BurstInv, Algorithm = "fixed_window",
         NEW c \in Callers, NEW k \in Keys, NEW st \in StatesOf(Algorithm),
         NEW t \in Nat, NEW unix \in Nat, NEW ev, EvaluatesTo(c, k, st, t, unix, ev),
         2 * MaxLag <= Window[k]
  PROVE  /\ BurstSpaced(admitted'[k], MaxLag, Limit[k], Window[k])
         /\ WindowOpen(admitted'[k], ev.state.count, ev.state.start, now,
                       MaxLag, Limit[k], Window[k])
  <1>1. /\ t <= now /\ now <= t + MaxLag /\ now \in Nat /\ MaxLag \in Nat
        /\ Limit[k] \in Nat \ {0} /\ Window[k] \in Nat \ {0}
        /\ admitted[k] \in Seq(Nat)
        /\ WithinLimit(Algorithm, st, Limit[k])
    BY EvaluatedFacts
  <1>2. /\ st = EntryOrInsert(c, k) /\ t = caller[c].stamp
        /\ ev = Evaluate(Algorithm, st, Limit[k], Window[k], t, unix)
        /\ admitted'[k] = IF ev.result.allowed THEN Append(admitted[k], t) ELSE admitted[k]
    BY DEF EvaluatesTo
  <1>3. /\ st \in FixedWindowState /\ st.count \in Nat /\ st.start \in Nat
        /\ st.count <= Limit[k]
        /\ ev = FixedWindow(st, Limit[k], Window[k], t, unix)
    BY <1>1, <1>2 DEF StatesOf, WithinLimit, Evaluate, FixedWindowState
  <1> DEFINE count == OpenCount(st, Window[k], t)
             start == OpenStart(st, Window[k], t)
             log == admitted[k]
  <1>4. BurstSpaced(log, MaxLag, Limit[k], Window[k])
    BY DEF BurstInv
  <1>5. count \in Nat /\ start \in Nat /\ t < start + Window[k]
    BY <1>1, <1>3 DEF OpenCount, OpenStart
  <1>6. WindowOpen(log, count, start, now, MaxLag, Limit[k], Window[k])
    <2>1. CASE k \in DOMAIN store
      <3>1. st = store[k]
        BY <1>2, <2>1 DEF EntryOrInsert
      <3>2. WindowOpen(log, st.count, st.start, now, MaxLag, Limit[k], Window[k])
        BY <2>1, <3>1 DEF BurstInv
      <3>3. CASE t >= st.start + Window[k]
        <4>1. count = 0 /\ start = t
          BY <3>3 DEF OpenCount, OpenStart
        <4>2. st.start + Window[k] <= t
          BY <1>1, <1>3, <3>3
        <4> HIDE DEF count, start, log
        <4>3. log \in Seq(Nat)
          BY <1>1 DEF log
        <4>4. WindowOpen(log, 0, t, now, MaxLag, Limit[k], Window[k])
          BY <1>1, <1>3, <3>2, <4>2, <4>3, WindowRestarts
        <4> QED BY <4>1, <4>4
      <3>4. CASE ~(t >= st.start + Window[k])
        BY <3>2, <3>4 DEF OpenCount, OpenStart
      <3> QED BY <3>3, <3>4
    <2>2. CASE k \notin DOMAIN store
      <3>1. st.count = 0 /\ st.start = t
        BY <1>2, <2>2 DEF EntryOrInsert, NewKeyState
      <3>2. count = 0 /\ start = t
        BY <1>1, <3>1 DEF OpenCount, OpenStart
      <3>3. WindowGone(log, now, MaxLag, Limit[k], Window[k])
        BY <2>2 DEF BurstInv
      <3> HIDE DEF count, start, log
      <3>4. log \in Seq(Nat)
        BY <1>1 DEF log
      <3>5. WindowOpen(log, 0, t, now, MaxLag, Limit[k], Window[k])
        BY <1>1, <3>3, <3>4, WindowStartsOver
      <3> QED BY <3>2, <3>5
    <2> QED BY <2>1, <2>2
  <1>7. /\ ev.state.start = start
        /\ count < Limit[k] => ev.result.allowed /\ ev.state.count = count + 1
        /\ ~(count < Limit[k]) => ~ev.result.allowed /\ ev.state.count = count
    <2>1. /\ Limit[k] \in Nat \ {0} /\ Window[k] \in Nat \ {0}
          /\ t \in Nat /\ unix \in Nat
      BY <1>1
    <2> HIDE DEF count, start
    <2>2. PICK limit \in Nat \ {0}, window \in Nat \ {0} :
            limit = Limit[k] /\ window = Window[k]
      BY <2>1
    <2>3. ev = FixedWindow(st, limit, window, t, unix)
      BY <1>3, <2>2
    <2>4. st \in FixedWindowState
      BY <1>3
    <2>5. /\ ev.state.start = OpenStart(st, window, t)
          /\ OpenCount(st, window, t) < limit =>
               ev.result.allowed /\ ev.state.count = OpenCount(st, window, t) + 1
          /\ ~(OpenCount(st, window, t) < limit) =>
               ~ev.result.allowed /\ ev.state.count = OpenCount(st, window, t)
      BY ONLY <2>4, t \in Nat, unix \in Nat, <2>3, FixedDecides
    <2> QED BY <2>2, <2>5 DEF count, start
  <1> HIDE DEF count, start, log
  <1>8. CASE count < Limit[k]
    <2>1. admitted'[k] = Append(log, t)
      BY <1>2, <1>7, <1>8 DEF log
    <2>2. log \in Seq(Nat)
      BY <1>1 DEF log
    <2>3. /\ WindowOpen(Append(log, t), count + 1, start, now, MaxLag, Limit[k], Window[k])
          /\ BurstSpaced(Append(log, t), MaxLag, Limit[k], Window[k])
      BY <1>1, <1>4, <1>5, <1>6, <1>8, <2>2, WindowAdmits
    <2> QED BY <1>7, <1>8, <2>1, <2>3
  <1>9. CASE ~(count < Limit[k])
    <2>1. admitted'[k] = log
      BY <1>2, <1>7, <1>9 DEF log
    <2> QED BY <1>4, <1>6, <1>7, <1>9, <2>1
  <1> QED BY <1>8, <1>9

LEMMA BurstStep ==
  ASSUME CommonInv, BurstInv, [Next]_vars, Algorithm = "fixed_window"
  PROVE  BurstInv'
  <1>0. /\ now \in Nat /\ MaxLag \in Nat
        /\ \A k \in Keys : /\ Limit[k] \in Nat \ {0} /\ Window[k] \in Nat \ {0}
                           /\ admitted[k] \in Seq(Nat)
        /\ DOMAIN store \subseteq Keys
    BY CommonFacts
  <1>w. \A k \in DOMAIN store : /\ store[k].count \in Nat /\ store[k].start \in Nat
                                /\ store[k].count <= Limit[k]
    <2>1. \A k \in DOMAIN store : store[k] \in FixedWindowState
                                  /\ store[k].count <= Limit[k]
      BY CommonFacts DEF StatesOf, WithinLimit
    <2> QED BY <2>1 DEF FixedWindowState
  <1>1. ASSUME NEW c \in Callers, Evaluation(c) PROVE BurstInv'
    <2>0. PICK k \in Keys, st \in StatesOf(Algorithm), t \in Nat, unix \in Nat :
            \E ev : EvaluatesTo(c, k, st, t, unix, ev)
      BY <1>1, EvaluationEffect
    <2>1. PICK ev : EvaluatesTo(c, k, st, t, unix, ev)
      BY <2>0
    <2>2. /\ now' = now
          /\ DOMAIN store' = DOMAIN store \union {k}
          /\ store'[k] = ev.state
          /\ \A x \in DOMAIN store : x # k => store'[x] = store[x]
          /\ \A x \in Keys : x # k => admitted'[x] = admitted[x]
      BY <2>1 DEF EvaluatesTo
    <2>4. MaxLag' = MaxLag
      BY <2>1, EvaluatedFacts
    <2>3. 2 * MaxLag <= Window[k] =>
            /\ BurstSpaced(admitted'[k], MaxLag, Limit[k], Window[k])
            /\ WindowOpen(admitted'[k], ev.state.count, ev.state.start, now,
                          MaxLag, Limit[k], Window[k])
      BY <2>1, EvaluationBurst
    <2> QED BY <2>2, <2>3, <2>4 DEF BurstInv
  <1>2. ASSUME NEW c \in Callers, Sweep(c) PROVE BurstInv'
    <2>1. now' = now /\ admitted' = admitted /\ MaxLag' = MaxLag
      BY <1>2 DEF Sweep, MaxLag
    <2>2. \A k \in DOMAIN store' : k \in DOMAIN store /\ store'[k] = store[k]
      BY <1>2 DEF Sweep, SweptState
    <2>3. ASSUME NEW k \in DOMAIN store, k \notin DOMAIN store'
          PROVE  store[k].start + Window[k] <= now
      <3>1. ~(SatSub(caller[c].stamp, store[k].start) < Window[k])
        BY <1>2, <2>3 DEF Sweep, SweepKeeps
      <3>2. caller[c].stamp <= now /\ caller[c].stamp \in Nat
        <4>1. Active(c)
          BY <1>2 DEF Sweep, Active
        <4> QED BY <4>1, CommonFacts DEF CommonInv, StampInv
      <3>3. k \in Keys /\ Window[k] \in Nat \ {0} /\ store[k].start \in Nat
        BY <1>0, <1>w
      <3> QED BY <1>0, <3>1, <3>2, <3>3 DEF SatSub
    <2>4. ASSUME NEW k \in DOMAIN store, k \notin DOMAIN store', 2 * MaxLag <= Window[k]
          PROVE  WindowGone(admitted[k], now, MaxLag, Limit[k], Window[k])
      <3>1. k \in Keys
        BY <1>0
      <3>2. WindowOpen(admitted[k], store[k].count, store[k].start, now,
                       MaxLag, Limit[k], Window[k])
        BY <2>4, <3>1 DEF BurstInv
      <3>3. store[k].start + Window[k] <= now
        BY <2>3, <2>4
      <3>4. store[k].count \in Nat /\ store[k].start \in Nat /\ store[k].count <= Limit[k]
        BY <1>w
      <3> QED BY <1>0, <3>1, <3>2, <3>3, <3>4, WindowForgotten
    <2> QED BY <2>1, <2>2, <2>4 DEF BurstInv
  <1>3. ASSUME Tick PROVE BurstInv'
    <2>1. /\ now' = now + 1 /\ admitted' = admitted /\ store' = store
          /\ MaxLag' = MaxLag
      BY <1>3 DEF Tick, MaxLag
    <2>2. now + 1 \in Nat /\ now <= now + 1
      BY <1>0
    <2>3. ASSUME NEW k \in Keys
          PROVE  /\ WindowGone(admitted[k], now, MaxLag, Limit[k], Window[k])
                      => WindowGone(admitted[k], now + 1, MaxLag, Limit[k], Window[k])
                 /\ \A count, start :
                      WindowOpen(admitted[k], count, start, now, MaxLag, Limit[k], Window[k])
                        => WindowOpen(admitted[k], count, start, now + 1,
                                      MaxLag, Limit[k], Window[k])
      BY <1>0, <2>2, WindowLater
    <2> QED BY <2>1, <2>3 DEF BurstInv
  <1>4. ASSUME Aside PROVE BurstInv'
    BY <1>4 DEF Aside, BurstInv, MaxLag
  <1> QED BY <1>1, <1>2, <1>3, <1>4, KindsOfStep DEF CommonInv

(* Calls that a fixed window admits less than a window and two lags apart  *)
(* are at most twice the limit, wherever one starts to count: late callers *)
(* and keys that restart in the past cost the two lags and nothing else.   *)
THEOREM FixedWindowBurstHolds == Spec => []FixedWindowBurst
  <1> DEFINE Inv == CommonInv /\ (Algorithm = "fixed_window" => BurstInv)
  <1>1. Init => Inv
    BY CommonInit, BurstInit
  <1>2. Inv /\ [Next]_vars => Inv'
    <2> SUFFICES ASSUME Inv, [Next]_vars PROVE Inv'
      OBVIOUS
    <2>1. CommonInv' /\ Algorithm' = Algorithm
      BY CommonStep, SameLimiter
    <2>2. CASE Algorithm = "fixed_window"
      BY <2>1, <2>2, BurstStep
    <2>3. CASE Algorithm # "fixed_window"
      BY <2>1, <2>3
    <2> QED BY <2>2, <2>3
  <1>3. Inv => FixedWindowBurst
    <2> SUFFICES ASSUME CommonInv, BurstInv, NEW k \in Keys, NEW a \in StartTime..now
                 PROVE  Cardinality(AdmittedIn(k, a, Window[k] - 2 * MaxLag + 1))
                          <= 2 * Limit[k]
      BY DEF FixedWindowBurst
    <2>1. /\ a \in Nat /\ MaxLag \in Nat /\ admitted[k] \in Seq(Nat)
          /\ Limit[k] \in Nat \ {0} /\ Window[k] \in Nat \ {0}
      BY CommonFacts, StoreAssumption
    <2> DEFINE d == Window[k] - 2 * MaxLag + 1
    <2>2. AdmittedIn(k, a, d) = {i \in 1..Len(admitted[k]) :
                                   a <= admitted[k][i] /\ admitted[k][i] < a + d}
      <3>1. DOMAIN admitted[k] = 1..Len(admitted[k])
        BY <2>1, LenProperties
      <3> HIDE DEF d
      <3> QED BY <3>1 DEF AdmittedIn
    <2>3. CASE 2 * MaxLag <= Window[k]
      <3>1. BurstSpaced(admitted[k], MaxLag, Limit[k], Window[k])
        BY <2>3 DEF BurstInv
      <3>2. Cardinality({i \in 1..Len(admitted[k]) :
              a <= admitted[k][i]
                /\ admitted[k][i] < a + (Window[k] - 2 * MaxLag + 1)}) <= 2 * Limit[k]
        BY <2>1, <3>1, SpacedBurst
      <3> QED BY <2>2, <3>2
    <2>4. CASE ~(2 * MaxLag <= Window[k])
      <3>1. d \in Int /\ d <= 0
        BY <2>1, <2>4
      <3> HIDE DEF d
      <3>2. \A i \in 1..Len(admitted[k]) : admitted[k][i] \in Nat
        BY <2>1, LogFacts
      <3>3. AdmittedIn(k, a, d) = {}
        BY <2>1, <2>2, <3>1, <3>2
      <3>4. Cardinality(AdmittedIn(k, a, d)) = 0
        BY <3>3, FS_EmptySet
      <3> QED BY <2>1, <3>4 DEF d
    <2> QED BY <2>3, <2>4
  <1> HIDE DEF Inv
  <1> QED BY <1>1, <1>2, <1>3, PTL DEF Spec

(***************************************************************************)
(* Evictions.  A key is forgotten when its window has elapsed, its deque   *)
(* is drained or its bucket is full again, and stays so: whoever asks      *)
(* later is answered as by a fresh key.                                    *)
(***************************************************************************)

(* The answer of a bucket depends on what a refill leaves in it.           *)
LEMMA SameBucketAnswer ==
  ASSUME NEW a, NEW b, NEW limit, NEW window, NEW t, NEW unix,
         Refill(a, limit, window, t).tokens = Refill(b, limit, window, t).tokens
  PROVE  TokenBucket(a, limit, window, t, unix).result
           = TokenBucket(b, limit, window, t, unix).result
  <1> DEFINE Verdict(tokens) ==
               LET left == tokens - Milli
                   needed == limit * Milli - left
                   refillSecs == IF needed = 0 THEN 0
                                 ELSE AtLeast1(((needed * window) \div (limit * Milli))
                                                 \div NanosPerSec)
                   retry == TokenRetry(tokens, limit, window)
               IN IF tokens >= Milli
                  THEN Allowed(limit, left \div Milli, unix + refillSecs)
                  ELSE Blocked(limit, unix + retry, retry)
  <1>1. TokenBucket(a, limit, window, t, unix).result
          = Verdict(Refill(a, limit, window, t).tokens)
    BY DEF TokenBucket
  <1>2. TokenBucket(b, limit, window, t, unix).result
          = Verdict(Refill(b, limit, window, t).tokens)
    BY DEF TokenBucket
  <1> HIDE DEF Verdict
  <1> QED BY <1>1, <1>2

LEMMA EvictedFixed ==
  ASSUME NEW st \in FixedWindowState, NEW limit \in Nat \ {0},
         NEW window \in Nat \ {0}, NEW t \in Nat, NEW unix \in Nat,
         st.start + window <= t
  PROVE  FixedWindow(st, limit, window, t, unix)
           = FixedWindow(NewKeyState("fixed_window", limit, t, unix), limit, window, t, unix)
  <1> DEFINE fresh == [count |-> 0, start |-> t, startUnix |-> unix]
  <1>1. WindowElapsed(st, window, t) /\ ~WindowElapsed(fresh, window, t)
    BY DEF WindowElapsed, FixedWindowState
  <1>2. NewKeyState("fixed_window", limit, t, unix) = fresh
    BY DEF NewKeyState
  <1> QED BY <1>1, <1>2, Zenon DEF FixedWindow

LEMMA EvictedSliding ==
  ASSUME NEW st \in SlidingWindowState, NEW limit, NEW window \in Nat \ {0},
         NEW t \in Nat, NEW unix, NEW seen \in Nat, seen <= t,
         DrainStale(st.timestamps, SatSub(seen, window)) = << >>
  PROVE  SlidingWindow(st, limit, window, t, unix)
           = SlidingWindow(NewKeyState("sliding_window", limit, t, unix),
                           limit, window, t, unix)
  <1>1. /\ SatSub(seen, window) \in Nat /\ SatSub(t, window) \in Nat
        /\ SatSub(seen, window) <= SatSub(t, window)
    BY DEF SatSub
  <1>2. st.timestamps \in Seq(Nat)
    BY DEF SlidingWindowState
  <1>3. DrainStale(st.timestamps, SatSub(t, window)) = << >>
    BY <1>1, <1>2, DrainedStaysDrained
  <1>4. NewKeyState("sliding_window", limit, t, unix).timestamps = << >>
    BY DEF NewKeyState
  <1>5. DrainStale(<< >>, SatSub(t, window)) = << >>
    BY <1>1, DrainNothing
  <1> QED BY <1>3, <1>4, <1>5, Zenon DEF SlidingWindow

LEMMA EvictedToken ==
  ASSUME NEW st \in TokenBucketState, NEW limit \in Nat \ {0},
         NEW window \in Nat \ {0}, NEW t \in Nat, NEW unix,
         st.tokens <= limit * Milli, st.lastRefill + window <= t
  PROVE  TokenBucket(st, limit, window, t, unix).result
           = TokenBucket(NewKeyState("token_bucket", limit, t, unix),
                         limit, window, t, unix).result
  <1> DEFINE full == limit * Milli
             elapsed == t - st.lastRefill
             fresh == NewKeyState("token_bucket", limit, t, unix)
  <1>1. /\ full \in Nat /\ st.tokens \in Nat /\ elapsed \in Nat
        /\ window <= elapsed /\ elapsed > 0 /\ SatSub(t, st.lastRefill) = elapsed
    BY ScaleAssumption DEF TokenBucketState, SatSub
  <1>2. TokensToAdd(limit, elapsed, window) >= full
    <2> HIDE DEF full, elapsed
    <2>1. (full * elapsed) \div window >= full
      <3>1. full * window <= full * elapsed
        BY <1>1
      <3>2. full * window \in Nat /\ full * elapsed \in Nat
        BY <1>1
      <3> QED BY <1>1, <3>1, <3>2, DivReaches
    <2>2. limit * Milli * elapsed = full * elapsed
      BY DEF full
    <2> QED BY <2>1, <2>2 DEF TokensToAdd
  <1>3. TokensToAdd(limit, elapsed, window) \in Nat
    <2>1. limit * Milli * elapsed \in Nat
      BY <1>1
    <2> HIDE DEF elapsed
    <2> QED BY <2>1, DivNat DEF TokensToAdd
  <1>4. Refill(st, limit, window, t).tokens = full
    <2> DEFINE filled == st.tokens + TokensToAdd(limit, elapsed, window)
    <2>1. Refill(st, limit, window, t).tokens = IF filled <= full THEN filled ELSE full
      BY <1>1 DEF Refill
    <2>2. filled >= full /\ filled \in Nat
      <3> HIDE DEF full, elapsed
      <3> QED BY <1>1, <1>2, <1>3
    <2> HIDE DEF filled, full
    <2> QED BY <1>1, <2>1, <2>2
  <1>5. Refill(fresh, limit, window, t).tokens = full
    <2>1. fresh = [tokens |-> full, lastRefill |-> t]
      BY DEF NewKeyState
    <2>2. fresh.tokens = full /\ SatSub(t, fresh.lastRefill) = 0
      BY <2>1 DEF SatSub
    <2> HIDE DEF fresh, full
    <2> QED BY <2>2 DEF Refill
  <1> HIDE DEF fresh, full
  <1>6. Refill(st, limit, window, t).tokens = Refill(fresh, limit, window, t).tokens
    BY <1>4, <1>5
  <1> QED BY <1>6, SameBucketAnswer DEF fresh

SameAnswerAfresh(k, t) ==
  LET Answer(st) == Evaluate(Algorithm, st, Limit[k], Window[k],
                             t, t \div NanosPerSec).result
  IN Answer(store[k])
       = Answer(NewKeyState(Algorithm, Limit[k], t, t \div NanosPerSec))

(* Every window is at most TOKEN_BUCKET_STALE_NANOS, an hour, as those of  *)
(* config.rs are.                                                          *)
BucketsFillFirst ==
  \A l \in Limiters : l.algorithm = "token_bucket" =>
    \A k \in Keys : Window[k] <= StaleNanos

LEMMA EvictedAnswer ==
  ASSUME BucketsFillFirst, CommonInv, NEW c \in Callers, Sweep(c),
         NEW k \in DOMAIN store, k \notin DOMAIN store', NEW t \in Nat, now <= t
  PROVE  SameAnswerAfresh(k, t)
  <1> DEFINE seen == caller[c].stamp
             unix == t \div NanosPerSec
             st == store[k]
             limit == Limit[k]
             window == Window[k]
  <1>1. seen \in Nat /\ seen <= now /\ now \in Nat
    <2>1. Active(c)
      BY DEF Sweep, Active
    <2> QED BY <2>1, CommonFacts DEF CommonInv, StampInv
  <1>2. unix \in Nat
    BY DivNat, ScaleAssumption
  <1>3. /\ k \in Keys /\ limit \in Nat \ {0} /\ window \in Nat \ {0}
        /\ st \in StatesOf(Algorithm) /\ WithinLimit(Algorithm, st, limit)
        /\ Algorithm \in Algorithms
    BY CommonFacts
  <1>4. ~SweepKeeps(Algorithm, st, window, seen)
    BY DEF Sweep
  <1>5. seen <= t
    BY <1>1
  <1> HIDE DEF seen, unix, st, limit, window
  <1>6. CASE Algorithm = "fixed_window"
    <2>1. st \in FixedWindowState /\ ~(SatSub(seen, st.start) < window)
      BY <1>3, <1>4, <1>6 DEF StatesOf, SweepKeeps
    <2>2. st.start + window <= t
      BY <1>1, <1>3, <1>5, <2>1 DEF FixedWindowState, SatSub
    <2>3. FixedWindow(st, limit, window, t, unix)
            = FixedWindow(NewKeyState("fixed_window", limit, t, unix), limit, window, t, unix)
      <3>1. st \in FixedWindowState
        BY <2>1
      <3>2. limit \in Nat \ {0} /\ window \in Nat \ {0} /\ t \in Nat /\ unix \in Nat
        BY <1>2, <1>3
      <3>3. st.start + window <= t
        BY <2>2
      <3> QED BY ONLY <3>1, <3>2, <3>3, EvictedFixed
    <2>4. Evaluate(Algorithm, st, limit, window, t, unix)
            = Evaluate(Algorithm, NewKeyState(Algorithm, limit, t, unix),
                       limit, window, t, unix)
      BY <1>6, <2>3 DEF Evaluate
    <2> QED BY <2>4, Zenon DEF SameAnswerAfresh, st, limit, window, unix
  <1>7. CASE Algorithm = "sliding_window"
    <2>1. st \in SlidingWindowState
          /\ DrainStale(st.timestamps, SatSub(seen, window)) = << >>
      BY <1>3, <1>4, <1>7 DEF StatesOf, SweepKeeps, SweptState
    <2>2. SlidingWindow(st, limit, window, t, unix)
            = SlidingWindow(NewKeyState("sliding_window", limit, t, unix),
                            limit, window, t, unix)
      BY <1>1, <1>3, <1>5, <2>1, EvictedSliding
    <2>3. Evaluate(Algorithm, st, limit, window, t, unix)
            = Evaluate(Algorithm, NewKeyState(Algorithm, limit, t, unix),
                       limit, window, t, unix)
      BY <1>7, <2>2 DEF Evaluate
    <2> QED BY <2>3, Zenon DEF SameAnswerAfresh, st, limit, window, unix
  <1>8. CASE Algorithm = "token_bucket"
    <2>1. /\ st \in TokenBucketState /\ ~(SatSub(seen, st.lastRefill) < StaleNanos)
          /\ st.tokens <= limit * Milli
      BY <1>3, <1>4, <1>8 DEF StatesOf, SweepKeeps, WithinLimit
    <2>2. window <= StaleNanos
      <3>1. limiter \in Limiters /\ limiter.algorithm = "token_bucket"
        BY <1>8 DEF CommonInv, TypeInv, TypeOK, Algorithm
      <3> QED BY <1>3, <3>1 DEF BucketsFillFirst, window
    <2>3. st.lastRefill + window <= t
      BY <1>1, <1>3, <1>5, <2>1, <2>2, ScaleAssumption DEF TokenBucketState, SatSub
    <2>4. TokenBucket(st, limit, window, t, unix).result
            = TokenBucket(NewKeyState("token_bucket", limit, t, unix),
                          limit, window, t, unix).result
      BY <1>3, <2>1, <2>3, EvictedToken
    <2>5. Evaluate(Algorithm, st, limit, window, t, unix).result
            = Evaluate(Algorithm, NewKeyState(Algorithm, limit, t, unix),
                       limit, window, t, unix).result
      BY <1>8, <2>4 DEF Evaluate
    <2> QED BY <2>5, Zenon DEF SameAnswerAfresh, st, limit, window, unix
  <1> QED BY <1>3, <1>6, <1>7, <1>8 DEF Algorithms

(* Forgetting a key is invisible: from the moment the sweep evicts it, the *)
(* answer it would have given and the one of a fresh key are the same, to  *)
(* the last field.                                                         *)
THEOREM EvictionTransparentHolds ==
  ASSUME BucketsFillFirst
  PROVE  Spec => EvictionTransparent
  <1>1. CommonInv /\ [Next]_vars =>
          [\A k \in DOMAIN store \ DOMAIN store' : \A t \in now..(now + Window[k]) :
             LET Answer(st) == Evaluate(Algorithm, st, Limit[k], Window[k],
                                        t, t \div NanosPerSec).result
             IN Answer(store[k])
                  = Answer(NewKeyState(Algorithm, Limit[k], t, t \div NanosPerSec))]_vars
    <2> SUFFICES ASSUME CommonInv, [Next]_vars,
                        NEW k \in DOMAIN store \ DOMAIN store',
                        NEW t \in now..(now + Window[k])
                 PROVE  SameAnswerAfresh(k, t)
      BY DEF SameAnswerAfresh
    <2>1. \E c \in Callers : Sweep(c)
      <3>1. ASSUME NEW c \in Callers, Evaluation(c) PROVE FALSE
        <4>1. DOMAIN store \subseteq DOMAIN store'
          BY <3>1, EvaluationEffect DEF EvaluatesTo
        <4> QED BY <4>1
      <3>2. ~Tick /\ ~Aside
        BY DEF Tick, Aside
      <3> QED BY <3>1, <3>2, KindsOfStep DEF CommonInv
    <2>2. t \in Nat /\ now <= t
      <3>1. now \in Nat /\ Window[k] \in Nat
        BY CommonFacts
      <3> QED BY <3>1
    <2> QED BY <2>1, <2>2, EvictedAnswer
  <1> QED BY <1>1, CommonInit, CommonStep, PTL DEF Spec, EvictionTransparent

(***************************************************************************)
(* Retry times.  A refused caller is told when to come back, and a state   *)
(* that nobody has touched since then allows it.                           *)
(***************************************************************************)
(* A fixed window, to a caller whose reading is the clock's. *)
LEMMA FixedComesBack ==
  ASSUME NEW st \in FixedWindowState, NEW limit \in Nat \ {0},
         NEW window \in Nat \ {0}, NEW t \in Nat, NEW unix \in Nat,
         NEW ev, ev = FixedWindow(st, limit, window, t, unix),
         st.count <= limit, st.start <= t, ~ev.result.allowed,
         NEW u \in Nat
  PROVE  LET back == t + (ev.result.retry * NanosPerSec + NanosPerSec)
         IN FixedWindow(ev.state, limit, window, back, u).result.allowed
  <1> DEFINE left == SatSub(window, WrapSub(t, st.start))
             retry == AtLeast1(left \div NanosPerSec)
             back == t + (retry * NanosPerSec + NanosPerSec)
  <1>1. st.count \in Nat /\ st.start \in Nat /\ NanosPerSec \in Nat \ {0}
    BY ScaleAssumption DEF FixedWindowState
  <1>2. ~(OpenCount(st, window, t) < limit)
    <2>1. OpenCount(st, window, t) < limit => ev.result.allowed
      BY FixedVerdict
    <2> QED BY <2>1
  <1>3. ~(t >= st.start + window)
    BY <1>2 DEF OpenCount
  <1>4. OpenStart(st, window, t) = st.start
    BY <1>3 DEF OpenStart
  <1>5. ev.state.start = st.start
    <2>1. ev.state.start = OpenStart(st, window, t)
      BY FixedVerdict
    <2> QED BY <1>4, <2>1
  <1>6. ev.result.retry = retry
    <2>1. ev.result.retry = AtLeast1(SatSub(window, WrapSub(t, OpenStart(st, window, t)))
                                       \div NanosPerSec)
      BY <1>2, FixedVerdict
    <2> QED BY <1>4, <2>1
  <1>7. ev.state \in FixedWindowState
    BY FixedWindowShape
  <1>8. WrapSub(t, st.start) \in Nat /\ WrapSub(t, st.start) <= t - st.start
    <2> DEFINE d == t - st.start
    <2>1. d \in Nat /\ WordMod \in Nat \ {0}
      BY <1>1, ScaleAssumption
    <2> HIDE DEF d
    <2>2. d % WordMod \in Nat /\ d % WordMod <= d
      BY <2>1, Z3
    <2> QED BY <2>2 DEF WrapSub, d
  <1>9. left \in Nat /\ window - (t - st.start) <= left
    <2> DEFINE wrapped == WrapSub(t, st.start)
    <2>1. wrapped \in Nat /\ wrapped <= t - st.start
      BY <1>8
    <2> HIDE DEF wrapped
    <2>2. SatSub(window, wrapped) \in Nat
          /\ window - (t - st.start) <= SatSub(window, wrapped)
      BY <1>1, <2>1 DEF SatSub
    <2> QED BY <2>2 DEF wrapped
  <1> HIDE DEF left
  <1>10. retry \in Nat /\ left < retry * NanosPerSec + NanosPerSec
    BY <1>1, <1>9, RoundedUp
  <1> HIDE DEF retry
  <1>11. retry * NanosPerSec \in Nat
    BY <1>1, <1>10
  <1>12. back \in Nat /\ back >= st.start + window
    BY <1>1, <1>9, <1>10, <1>11
  <1> HIDE DEF back
  <1>13. OpenCount(ev.state, window, back) = 0
    BY <1>5, <1>12 DEF OpenCount
  <1>14. FixedWindow(ev.state, limit, window, back, u).result.allowed
    <2>1. OpenCount(ev.state, window, back) < limit
            => FixedWindow(ev.state, limit, window, back, u).result.allowed
      BY <1>7, <1>12, FixedVerdict
    <2> QED BY <1>13, <2>1
  <1> QED BY <1>6, <1>14 DEF back

LEMMA SlidingComesBack ==
  ASSUME NEW st \in SlidingWindowState, NEW limit \in Nat \ {0},
         NEW window \in Nat \ {0}, NEW t \in Nat, NEW unix \in Nat,
         NEW ev, ev = SlidingWindow(st, limit, window, t, unix),
         Len(st.timestamps) <= limit, ~ev.result.allowed,
         NEW time \in Nat, t <= time, NEW u \in Nat
  PROVE  LET back == time + (ev.result.retry * NanosPerSec + NanosPerSec)
         IN SlidingWindow(ev.state, limit, window, back, u).result.allowed
  <1> DEFINE ts == DrainStale(st.timestamps, SatSub(t, window))
             until == UntilOldestExpires(ts, window, t)
             retry == AtLeast1(until \div NanosPerSec)
             back == time + (retry * NanosPerSec + NanosPerSec)
  <1>0. NanosPerSec \in Nat \ {0}
    BY ScaleAssumption
  <1>1. st.timestamps \in Seq(Nat) /\ SatSub(t, window) \in Nat
    BY MachineArithmetic DEF SlidingWindowState
  <1>2. ts \in Seq(Nat) /\ Len(ts) \in Nat /\ Len(ts) <= limit
    <2>1. ts \in Seq(Nat) /\ Len(ts) <= Len(st.timestamps)
      BY <1>1, DrainShape
    <2> QED BY <1>1, <2>1, LenProperties
  <1>3. ~(Len(ts) < limit)
    <2>1. Len(ts) < limit => ev.result.allowed
      BY SlidingVerdict
    <2> QED BY <2>1
  <1>4. ts # << >> /\ ts[1] \in Nat
    <2>1. Len(ts) # 0
      BY <1>2, <1>3
    <2> HIDE DEF ts
    <2> QED BY <1>2, <2>1, EmptySeq, ElementOfSeq
  <1>5. ev.state.timestamps = ts /\ ev.state \in SlidingWindowState
    <2>1. ev.state.timestamps = ts
      BY <1>3, SlidingVerdict
    <2>2. ev.state \in SlidingWindowState
      BY SlidingWindowShape
    <2> QED BY <2>1, <2>2
  <1>6. ev.result.retry = retry
    BY <1>3, <1>4, SlidingVerdict
  <1> HIDE DEF ts
  <1>7. until \in Nat /\ ts[1] + window <= t + until
    BY <1>4 DEF UntilOldestExpires, SatSub
  <1> HIDE DEF until
  <1>8. retry \in Nat /\ until < retry * NanosPerSec + NanosPerSec
    BY <1>0, <1>7, RoundedUp
  <1> HIDE DEF retry
  <1>9. retry * NanosPerSec \in Nat
    BY <1>0, <1>8
  <1>10. back \in Nat /\ ts[1] + window <= back
    BY <1>0, <1>4, <1>7, <1>8, <1>9
  <1> HIDE DEF back
  <1> DEFINE cutoff == SatSub(back, window)
             rest == DrainStale(ts, cutoff)
  <1>11. cutoff \in Nat /\ ts[1] <= cutoff
    BY <1>4, <1>10 DEF SatSub
  <1> HIDE DEF cutoff
  <1>12. /\ Len(rest) \in 0..Len(ts)
         /\ \A i \in 1..Len(rest) : rest[i] = ts[(Len(ts) - Len(rest)) + i]
         /\ Len(rest) > 0 => rest[1] > cutoff
    BY <1>2, <1>11, DrainExact
  <1> HIDE DEF rest
  <1>13. ASSUME Len(rest) = Len(ts) PROVE FALSE
    <2>1. Len(rest) > 0 /\ 1 \in 1..Len(rest) /\ (Len(ts) - Len(rest)) + 1 = 1
      BY <1>2, <1>3, <1>13
    <2>2. rest[1] = ts[1]
      BY <1>12, <2>1
    <2> QED BY <1>4, <1>11, <1>12, <2>1, <2>2
  <1>14. Len(rest) < limit
    BY <1>2, <1>12, <1>13
  <1>15. SlidingWindow(ev.state, limit, window, back, u).result.allowed
    <2>1. Len(DrainStale(ev.state.timestamps, SatSub(back, window))) < limit
      BY <1>5, <1>14 DEF rest, cutoff
    <2> QED BY <1>5, <1>10, <2>1, SlidingVerdict
  <1> QED BY <1>6, <1>15 DEF back

(* The wait is rounded down to a tick and then up to a second; with        *)
(* windows of whole seconds, and few of them, no tick is lost.             *)
LEMMA WaitSuffices ==
  ASSUME NEW p \in Nat, NEW y \in Nat \ {0}, NEW n \in Nat \ {0},
         p > y => y <= n
  PROVE  LET r == AtLeast1(CeilDiv(AtLeast1((p * n) \div y), n))
         IN r \in Nat \ {0} /\ p <= y * r
  <1> DEFINE ticks == (p * n) \div y
             nanos == AtLeast1(ticks)
             secs == CeilDiv(nanos, n)
             r == AtLeast1(secs)
  <1>1. p * n \in Nat
    BY Z3
  <1>2. ticks \in Nat
    BY <1>1, DivNat
  <1>3. nanos \in Nat /\ ticks <= nanos
    BY <1>2 DEF AtLeast1
  <1> HIDE DEF nanos
  <1>4. secs \in Nat
    BY <1>3, CeilDivNat
  <1> HIDE DEF secs
  <1>5. r \in Nat \ {0} /\ secs <= r
    BY <1>4 DEF AtLeast1
  <1> HIDE DEF r
  <1>6. CASE p <= y
    <2>1. y <= y * r
      BY <1>5, Z3
    <2>2. y * r \in Nat
      BY <1>5, Z3
    <2> QED BY <1>5, <1>6, <2>1, <2>2 DEF r, secs, nanos
  <1>7. CASE p > y
    <2>1. y <= n /\ y * r \in Nat
      <3>1. y * r \in Nat
        BY <1>5, Z3
      <3> QED BY <1>7, <3>1
    <2>2. ASSUME y * r < p PROVE FALSE
      <3> DEFINE yr == y * r
                 rn == r * n
      <3>1. yr \in Nat /\ yr + 1 <= p
        BY <2>1, <2>2
      <3> HIDE DEF yr
      <3>2. (yr + 1) * n <= p * n
        BY <3>1, Z3
      <3>3. (yr + 1) * n = yr * n + n
        BY <3>1, Z3
      <3>4. yr * n = y * rn
        BY <1>5, Z3 DEF yr
      <3>5. rn \in Nat
        BY <1>5, Z3
      <3> HIDE DEF rn
      <3>6. y * rn \in Nat /\ (rn + 1) * y = y * rn + y
        BY <3>5, Z3
      <3>7. (rn + 1) * y <= p * n
        BY <1>1, <2>1, <3>2, <3>3, <3>4, <3>6
      <3>8. ticks >= rn + 1
        <4>1. rn + 1 \in Nat
          BY <3>5
        <4> QED BY <1>1, <3>7, <4>1, DivReaches
      <3>9. nanos >= rn + 1
        BY <1>2, <1>3, <3>5, <3>8
      <3>10. secs >= r + 1
        <4>1. (r + 1) * n = rn + n
          BY <1>5, Z3 DEF rn
        <4>2. (r + 1) * n <= nanos + n - 1
          BY <1>3, <3>5, <3>9, <4>1
        <4>3. nanos + n - 1 \in Nat /\ r + 1 \in Nat
          BY <1>3, <1>5
        <4> QED BY <4>2, <4>3, DivReaches DEF secs, CeilDiv
      <3> QED BY <1>4, <1>5, <3>10
    <2>3. p <= y * r
      BY <2>1, <2>2
    <2> QED BY <1>5, <2>3 DEF r, secs, nanos
  <1> QED BY <1>6, <1>7

LEMMA TokenComesBack ==
  ASSUME NEW st \in TokenBucketState, NEW limit \in Nat \ {0},
         NEW window \in Nat \ {0}, NEW t \in Nat, NEW unix \in Nat,
         NEW ev, ev = TokenBucket(st, limit, window, t, unix),
         st.tokens <= limit * Milli, ~ev.result.allowed,
         NEW time \in Nat, t <= time, st.lastRefill <= time, NEW u \in Nat,
         NEW secs \in Nat, window = secs * NanosPerSec, secs * Milli <= NanosPerSec
  PROVE  LET back == time + ev.result.retry * NanosPerSec
         IN TokenBucket(ev.state, limit, window, back, u).result.allowed
  <1> DEFINE s == Refill(st, limit, window, t)
             lacking == Milli - s.tokens
             r == TokenRetry(s.tokens, limit, window)
             back == time + r * NanosPerSec
  <1>0. NanosPerSec \in Nat \ {0} /\ Milli \in Nat \ {0}
    BY ScaleAssumption
  <1>1. /\ s \in TokenBucketState /\ s.tokens <= limit * Milli
        /\ s.lastRefill = IF t > st.lastRefill THEN t ELSE st.lastRefill
    BY RefillBounds
  <1>2. s.tokens < Milli
    <2>1. ev.result.allowed = (s.tokens >= Milli)
      BY TokenVerdict
    <2>2. ~(s.tokens >= Milli)
      BY <2>1
    <2> QED BY <1>0, <1>1, <2>2 DEF TokenBucketState
  <1>3. ev.state = s /\ ev.result.retry = r
    BY <1>2, TokenVerdict
  <1> HIDE DEF s
  <1>4. /\ s.tokens \in Nat /\ s.lastRefill \in Nat /\ st.lastRefill \in Nat
        /\ s.lastRefill <= time /\ lacking \in Nat /\ lacking <= Milli
    BY <1>0, <1>1, <1>2 DEF TokenBucketState
  <1> HIDE DEF lacking
  <1> DEFINE p == lacking * secs
             y == limit * Milli
  <1>5. p \in Nat /\ y \in Nat \ {0}
    BY <1>0, <1>4, Z3
  <1>6. p > y => y <= NanosPerSec
    <2>1. p <= secs * Milli
      BY <1>0, <1>4, Z3
    <2>2. secs * Milli \in Nat
      BY <1>0, Z3
    <2> HIDE DEF p, y
    <2> QED BY <1>0, <1>5, <2>1, <2>2
  <1>7. lacking * window = p * NanosPerSec
    BY <1>0, <1>4, Z3
  <1>8. r = AtLeast1(CeilDiv(AtLeast1((p * NanosPerSec) \div y), NanosPerSec))
    <2> HIDE DEF p
    <2> QED BY <1>7 DEF r, y, TokenRetry, lacking
  <1> HIDE DEF r, p
  <1>9. r \in Nat \ {0} /\ p <= y * r
    <2> HIDE DEF y
    <2> QED BY <1>0, <1>5, <1>6, <1>8, WaitSuffices
  <1> DEFINE wait == r * NanosPerSec
             elapsed == back - s.lastRefill
  <1>10. wait \in Nat /\ wait > 0
    BY <1>0, <1>9, Z3
  <1>11. back = time + wait
    OBVIOUS
  <1> HIDE DEF wait, back
  <1>12. /\ back \in Nat /\ elapsed \in Nat /\ elapsed > 0 /\ wait <= elapsed
         /\ SatSub(back, s.lastRefill) = elapsed
    BY <1>4, <1>10, <1>11 DEF SatSub
  <1> HIDE DEF elapsed
  <1>13. lacking * window <= y * elapsed
    <2> HIDE DEF y
    <2>1. p * NanosPerSec <= (y * r) * NanosPerSec
      <3>1. y * r \in Nat
        BY <1>5, <1>9, Z3
      <3> DEFINE z == y * r
      <3>2. z \in Nat /\ p <= z
        BY <1>9, <3>1
      <3> HIDE DEF z
      <3>3. p * NanosPerSec <= z * NanosPerSec
        BY <1>0, <1>5, <3>2, Z3
      <3> QED BY <3>3 DEF z
    <2>2. (y * r) * NanosPerSec = y * wait
      BY <1>0, <1>5, <1>9, Z3 DEF wait
    <2>3. y * wait <= y * elapsed
      BY <1>5, <1>10, <1>12, Z3
    <2>4. /\ p * NanosPerSec \in Nat /\ y * wait \in Nat /\ y * elapsed \in Nat
      BY <1>0, <1>5, <1>10, <1>12, Z3
    <2> QED BY <1>7, <2>1, <2>2, <2>3, <2>4
  <1>14. TokensToAdd(limit, elapsed, window) \in Nat
         /\ TokensToAdd(limit, elapsed, window) >= lacking
    <2> DEFINE grown == y * elapsed
    <2>1. grown \in Nat
      BY <1>5, <1>12, Z3
    <2>2. limit * Milli * elapsed = grown
      OBVIOUS
    <2> HIDE DEF grown, y
    <2>3. grown \div window \in Nat /\ grown \div window >= lacking
      <3>1. lacking * window <= grown
        BY <1>13 DEF grown
      <3> QED BY <1>4, <2>1, <3>1, DivNat, DivReaches
    <2> QED BY <2>2, <2>3 DEF TokensToAdd
  <1>15. Refill(s, limit, window, back).tokens >= Milli
    <2> DEFINE filled == s.tokens + TokensToAdd(limit, elapsed, window)
    <2>1. Refill(s, limit, window, back).tokens = IF filled <= y THEN filled ELSE y
      BY <1>12 DEF Refill
    <2>2. filled \in Nat /\ filled >= Milli
      BY <1>0, <1>4, <1>14 DEF lacking
    <2>3. y >= Milli
      BY <1>0, Z3
    <2> HIDE DEF filled, y
    <2> QED BY <1>0, <1>5, <2>1, <2>2, <2>3
  <1>16. TokenBucket(s, limit, window, back, u).result.allowed
    <2>1. TokenBucket(s, limit, window, back, u).result.allowed
            = (Refill(s, limit, window, back).tokens >= Milli)
      <3>1. s \in TokenBucketState /\ s.tokens <= limit * Milli
        BY <1>1
      <3>2. limit \in Nat \ {0} /\ window \in Nat \ {0} /\ back \in Nat /\ u \in Nat
        BY <1>12
      <3> QED BY ONLY <3>1, <3>2, TokenVerdict
    <2> QED BY <1>15, <2>1
  <1> QED BY <1>3, <1>16 DEF back, r

(* Windows are whole seconds, an hour at most (config.rs:76, 82), and an   *)
(* hour is fewer seconds than a thousandth of a second has nanoseconds.    *)
WholeSeconds ==
  \A l \in Limiters : l.algorithm = "token_bucket" =>
    \A k \in Keys : \E secs \in Nat :
      Window[k] = secs * NanosPerSec /\ secs * Milli <= NanosPerSec

(* The evaluation that refused, and the key's state after it. *)
LEMMA RefusalIsEvaluation ==
  ASSUME CommonInv, [Next]_vars, NEW c \in Callers, RefusedNow(c)
  PROVE  \E k \in Keys, st \in StatesOf(Algorithm), t \in Nat, unix \in Nat :
           \E ev : /\ EvaluatesTo(c, k, st, t, unix, ev)
                   /\ ev.result \in DimResults
                   /\ ~ev.result.allowed
                   /\ RetryTicks(c) = ev.result.retry * NanosPerSec
  <1>1. /\ caller \in [Callers -> CallerState] /\ caller'[c].pc = "count"
        /\ caller[c].pc \in {"lookup", "insert"}
    BY CommonFacts DEF RefusedNow
  <1>2. Evaluation(c)
    <2>1. ASSUME NEW d \in Callers, d # c, Evaluation(d) PROVE FALSE
      <3>0. PICK k \in Keys, st \in StatesOf(Algorithm), t \in Nat, unix \in Nat :
              \E ev : EvaluatesTo(d, k, st, t, unix, ev)
        BY <2>1, EvaluationEffect
      <3>1. PICK ev : EvaluatesTo(d, k, st, t, unix, ev)
        BY <3>0
      <3>2. caller'[c] = caller[c]
        BY <1>1, <2>1, <3>1 DEF EvaluatesTo
      <3> QED BY <1>1, <3>2
    <2>2. ASSUME NEW d \in Callers, d # c,
                 Check(d) \/ LookupMiss(d) \/ CountCall(d) \/ Sweep(d) \/ Respond(d)
          PROVE  FALSE
      <3>1. caller'[c] = caller[c]
        BY <1>1, <2>2 DEF Check, LookupMiss, CountCall, Sweep, Respond
      <3> QED BY <1>1, <3>1
    <2>3. ~Check(c) /\ ~CountCall(c) /\ ~Sweep(c) /\ ~Respond(c)
      BY <1>1 DEF Check, CountCall, Sweep, Respond
    <2>4. ~LookupMiss(c)
      BY <1>1 DEF LookupMiss, CallerState
    <2>5. ~Tick /\ ~UNCHANGED vars
      BY <1>1 DEF Tick, vars
    <2> QED BY <2>1, <2>2, <2>3, <2>4, <2>5, EvaluationStep DEF Next, CommonInv
  <1>0. PICK k \in Keys, st \in StatesOf(Algorithm), t \in Nat, unix \in Nat :
          \E ev : EvaluatesTo(c, k, st, t, unix, ev)
    BY <1>2, EvaluationEffect
  <1>3. PICK ev : EvaluatesTo(c, k, st, t, unix, ev)
    BY <1>0
  <1>4. ev.result \in DimResults
    <2>1. WithinLimit(Algorithm, st, Limit[k])
      BY <1>3, EvaluatedFacts
    <2>2. /\ Limit[k] \in Nat \ {0} /\ Window[k] \in Nat \ {0}
          /\ Algorithm \in Algorithms
      BY CommonFacts
    <2>3. ev = Evaluate(Algorithm, st, Limit[k], Window[k], t, unix)
      BY <1>3 DEF EvaluatesTo
    <2> QED BY <2>1, <2>2, <2>3, EvaluateShape
  <1>5. caller'[c].dims = Append(caller[c].dims, ev.result)
    <2>1. caller' = [caller EXCEPT ![c] =
            [caller[c] EXCEPT !.pc = "count", !.dims = Append(@, ev.result)]]
      BY <1>3 DEF EvaluatesTo
    <2> QED BY <1>1, <2>1 DEF CallerState
  <1>6. caller'[c].dims[Len(caller'[c].dims)] = ev.result
    <2>1. caller[c].dims \in Seq(DimResults)
      BY <1>1 DEF CallerState
    <2> DEFINE dims == caller[c].dims
    <2> HIDE DEF dims
    <2>2. dims \in Seq(DimResults)
      BY <2>1 DEF dims
    <2>3. Append(dims, ev.result)[Len(dims) + 1] = ev.result
          /\ Len(Append(dims, ev.result)) = Len(dims) + 1
      BY <1>4, <2>2, AppendProperties
    <2>4. caller'[c].dims = Append(dims, ev.result)
      BY <1>5 DEF dims
    <2> QED BY <2>3, <2>4
  <1>7. ~ev.result.allowed /\ RetryTicks(c) = ev.result.retry * NanosPerSec
    BY <1>6 DEF RefusedNow, RetryTicks
  <1> QED BY <1>3, <1>4, <1>7

(* A refused caller that comes back after the advertised time, and finds   *)
(* that nobody else has called, is allowed: of a window, a second later at *)
(* most; of a bucket, to the tick.  A fixed window keeps that promise to   *)
(* callers that are not late.                                              *)
THEOREM RetryHonestHolds ==
  ASSUME WholeSeconds
  PROVE  Spec => RetryHonest
  <1>1. CommonInv /\ [Next]_vars =>
          [(MaxLag = 0 \/ Algorithm # "fixed_window") =>
             \A c \in Callers :
               RefusedNow(c) => AllowedAfter(c, RetryTicks(c) + RoundedDown)]_vars
    <2> SUFFICES ASSUME CommonInv, [Next]_vars,
                        MaxLag = 0 \/ Algorithm # "fixed_window",
                        NEW c \in Callers, RefusedNow(c)
                 PROVE  AllowedAfter(c, RetryTicks(c) + RoundedDown)
      OBVIOUS
    <2>0. PICK k \in Keys, st \in StatesOf(Algorithm), t \in Nat, unix \in Nat :
            \E ev : /\ EvaluatesTo(c, k, st, t, unix, ev)
                    /\ ev.result \in DimResults
                    /\ ~ev.result.allowed
                    /\ RetryTicks(c) = ev.result.retry * NanosPerSec
      BY RefusalIsEvaluation
    <2>1. PICK ev : /\ EvaluatesTo(c, k, st, t, unix, ev)
                    /\ ev.result \in DimResults
                    /\ ~ev.result.allowed
                    /\ RetryTicks(c) = ev.result.retry * NanosPerSec
      BY <2>0
    <2>2. /\ k = Head(caller[c].todo) /\ store'[k] = ev.state
          /\ ev = Evaluate(Algorithm, st, Limit[k], Window[k], t, unix)
      BY <2>1 DEF EvaluatesTo
    <2>3. PICK limit \in Nat \ {0}, window \in Nat \ {0} :
            limit = Limit[k] /\ window = Window[k]
      BY CommonFacts
    <2>4. /\ t <= now /\ now <= t + MaxLag /\ now \in Nat /\ MaxLag \in Nat
          /\ WithinLimit(Algorithm, st, limit)
          /\ Algorithm = "fixed_window" => st.start <= now
          /\ Algorithm = "token_bucket" => st.lastRefill <= now
          /\ Algorithm \in Algorithms
      BY <2>1, <2>3, EvaluatedFacts, CommonFacts
    <2> DEFINE back == now + (RetryTicks(c) + RoundedDown)
               u == back \div NanosPerSec
    <2>5. ev.result.retry \in Nat /\ NanosPerSec \in Nat \ {0}
      BY <2>1, ScaleAssumption DEF DimResults
    <2>6. RetryTicks(c) \in Nat /\ back \in Nat /\ u \in Nat
      <3>1. RetryTicks(c) \in Nat
        BY <2>1, <2>5, Z3
      <3>2. back \in Nat
        BY <2>4, <2>5, <3>1 DEF RoundedDown
      <3> HIDE DEF back
      <3> QED BY <2>5, <3>1, <3>2, DivNat
    <2>7. AllowedAfter(c, RetryTicks(c) + RoundedDown)
            <=> Evaluate(Algorithm, ev.state, limit, window, back, u).result.allowed
      BY <2>2, <2>3 DEF AllowedAfter
    <2> HIDE DEF u
    <2>8. CASE Algorithm = "fixed_window"
      <3>1. /\ st \in FixedWindowState /\ st.count <= limit /\ st.start <= t /\ t = now
            /\ ev = FixedWindow(st, limit, window, t, unix)
        BY <2>2, <2>3, <2>4, <2>8 DEF StatesOf, WithinLimit, Evaluate
      <3>2. back = t + (ev.result.retry * NanosPerSec + NanosPerSec)
        BY <2>1, <2>8, <3>1 DEF RoundedDown
      <3> HIDE DEF back
      <3>3. FixedWindow(ev.state, limit, window, back, u).result.allowed
        BY <2>1, <2>6, <3>1, <3>2, FixedComesBack
      <3> QED BY <2>7, <2>8, <3>3 DEF Evaluate
    <2>9. CASE Algorithm = "sliding_window"
      <3>1. /\ st \in SlidingWindowState /\ Len(st.timestamps) <= limit
            /\ ev = SlidingWindow(st, limit, window, t, unix)
        BY <2>2, <2>3, <2>4, <2>9 DEF StatesOf, WithinLimit, Evaluate
      <3>2. back = now + (ev.result.retry * NanosPerSec + NanosPerSec)
        BY <2>1, <2>9 DEF RoundedDown
      <3> HIDE DEF back
      <3>3. SlidingWindow(ev.state, limit, window, back, u).result.allowed
        BY <2>1, <2>4, <2>6, <3>1, <3>2, SlidingComesBack
      <3> QED BY <2>7, <2>9, <3>3 DEF Evaluate
    <2>10. CASE Algorithm = "token_bucket"
      <3>1. /\ st \in TokenBucketState /\ st.tokens <= limit * Milli
            /\ ev = TokenBucket(st, limit, window, t, unix)
            /\ st.lastRefill <= now
        BY <2>2, <2>3, <2>4, <2>10 DEF StatesOf, WithinLimit, Evaluate
      <3>2. back = now + ev.result.retry * NanosPerSec
        BY <2>1, <2>6, <2>10 DEF RoundedDown
      <3> HIDE DEF back
      <3>3. PICK secs \in Nat : window = secs * NanosPerSec /\ secs * Milli <= NanosPerSec
        <4>1. limiter \in Limiters /\ limiter.algorithm = "token_bucket"
          BY <2>10 DEF CommonInv, TypeInv, TypeOK, Algorithm
        <4> QED BY <2>3, <4>1 DEF WholeSeconds
      <3>4. TokenBucket(ev.state, limit, window, back, u).result.allowed
        BY <2>1, <2>4, <2>6, <3>1, <3>2, <3>3, TokenComesBack, SMTT(30)
      <3> QED BY <2>7, <2>10, <3>4 DEF Evaluate
    <2> QED BY <2>4, <2>8, <2>9, <2>10 DEF Algorithms
  <1> QED BY <1>1, CommonInit, CommonStep, PTL DEF Spec, RetryHonest

(***************************************************************************)
(* The promise.  The sliding window with prompt callers implements         *)
(* SlidingWindowPromise.                                                   *)
(***************************************************************************)
LEMMA EmptyVerdicts == Verdicts(<< >>) = << >>
  BY DEF Verdicts

LEMMA MoreVerdicts ==
  ASSUME NEW dims \in Seq(DimResults), NEW r \in DimResults
  PROVE  Verdicts(Append(dims, r)) = Append(Verdicts(dims), r.allowed)
  <1> DEFINE more == Append(dims, r)
             n == Len(dims)
  <1>1. n \in Nat /\ DOMAIN dims = 1..n /\ \A i \in 1..n : dims[i] \in DimResults
    BY LenProperties, ElementOfSeq
  <1>2. /\ more \in Seq(DimResults) /\ Len(more) = n + 1
        /\ \A i \in 1..n : more[i] = dims[i]
        /\ more[n + 1] = r
    BY AppendProperties
  <1>3. DOMAIN more = 1..(n + 1) /\ \A i \in 1..(n + 1) : more[i] \in DimResults
    BY <1>2, LenProperties, ElementOfSeq
  <1> HIDE DEF more, n
  <1>4. \A x \in DimResults : x.allowed \in BOOLEAN
    BY DEF DimResults
  <1>5. Verdicts(dims) \in [1..n -> BOOLEAN] /\ Verdicts(more) \in [1..(n + 1) -> BOOLEAN]
    BY <1>1, <1>3, <1>4 DEF Verdicts
  <1>6. Verdicts(dims) \in Seq(BOOLEAN) /\ Verdicts(more) \in Seq(BOOLEAN)
    BY <1>1, <1>5, SeqDef
  <1>7. Len(Verdicts(dims)) = n /\ Len(Verdicts(more)) = n + 1
    <2>1. DOMAIN Verdicts(dims) = 1..n /\ DOMAIN Verdicts(more) = 1..(n + 1)
      BY <1>5
    <2> QED BY <1>1, <1>6, <2>1, LenProperties
  <1>8. /\ Append(Verdicts(dims), r.allowed) \in Seq(BOOLEAN)
        /\ Len(Append(Verdicts(dims), r.allowed)) = n + 1
        /\ \A i \in 1..n : Append(Verdicts(dims), r.allowed)[i] = Verdicts(dims)[i]
        /\ Append(Verdicts(dims), r.allowed)[n + 1] = r.allowed
    BY <1>4, <1>6, <1>7, AppendProperties
  <1>9. ASSUME NEW i \in 1..(n + 1)
        PROVE  Verdicts(more)[i] = Append(Verdicts(dims), r.allowed)[i]
    <2>1. Verdicts(more)[i] = more[i].allowed
      BY <1>3 DEF Verdicts
    <2>2. CASE i = n + 1
      BY <1>2, <1>8, <2>1, <2>2
    <2>3. CASE i # n + 1
      <3>1. i \in 1..n
        BY <1>1, <2>3
      <3>2. Verdicts(dims)[i] = dims[i].allowed
        BY <1>1, <3>1 DEF Verdicts
      <3> QED BY <1>2, <1>8, <2>1, <3>1, <3>2
    <2> QED BY <2>2, <2>3
  <1>10. Verdicts(more) = Append(Verdicts(dims), r.allowed)
    <2> DEFINE a == Verdicts(more)
               b == Append(Verdicts(dims), r.allowed)
    <2>1. a \in Seq(BOOLEAN) /\ b \in Seq(BOOLEAN) /\ Len(a) = Len(b)
          /\ \A i \in 1..Len(a) : a[i] = b[i]
      BY <1>6, <1>7, <1>8, <1>9
    <2> HIDE DEF a, b
    <2>2. a = b
      BY <2>1, SeqEqual
    <2> QED BY <2>2 DEF a, b
  <1> QED BY <1>10 DEF more

(***************************************************************************)
(* The deque of a prompt sliding window is the log without an expired      *)
(* front, and the log is in the order of time.                             *)
(***************************************************************************)
LogKept(log, ts, time, window) ==
  /\ \A i, j \in 1..Len(log) : i <= j => log[i] <= log[j]
  /\ \A i \in 1..Len(log) : log[i] <= time
  /\ ts \in Seq(Nat) /\ Len(ts) \in 0..Len(log)
  /\ \A i \in 1..Len(ts) : ts[i] = log[(Len(log) - Len(ts)) + i]
  /\ \A i \in 1..(Len(log) - Len(ts)) : log[i] + window <= time

Deque(k) == IF k \in DOMAIN store THEN store[k].timestamps ELSE << >>

PromiseInv ==
  /\ StartTime <= now
  /\ \A k \in Keys : LogKept(admitted[k], Deque(k), now, Window[k])

LEMMA KeptLater ==
  ASSUME NEW log \in Seq(Nat), NEW ts, NEW time \in Nat, NEW window \in Nat,
         LogKept(log, ts, time, window)
  PROVE  LogKept(log, ts, time + 1, window)
  <1>1. Len(log) \in Nat /\ \A i \in 1..Len(log) : log[i] \in Nat
    BY LogFacts
  <1>2. \A i \in 1..Len(log) : log[i] <= time + 1
    BY <1>1 DEF LogKept
  <1>3. \A i \in 1..(Len(log) - Len(ts)) : log[i] + window <= time + 1
    <2>1. Len(ts) \in 0..Len(log)
      BY DEF LogKept
    <2> QED BY <1>1, <2>1 DEF LogKept
  <1> QED BY <1>2, <1>3 DEF LogKept

LEMMA KeptDrained ==
  ASSUME NEW log \in Seq(Nat), NEW ts, NEW time \in Nat, NEW window \in Nat \ {0},
         window <= time, LogKept(log, ts, time, window)
  PROVE  LET d == DrainStale(ts, SatSub(time, window))
         IN /\ LogKept(log, d, time, window)
            /\ Cardinality({i \in DOMAIN log : log[i] > time - window}) = Len(d)
  <1> DEFINE cutoff == SatSub(time, window)
             d == DrainStale(ts, cutoff)
             n == Len(log)
             kept == n - Len(d)
  <1>1. cutoff = time - window /\ cutoff \in Nat
    BY DEF SatSub
  <1>2. n \in Nat /\ DOMAIN log = 1..n /\ \A i \in 1..n : log[i] \in Nat
    BY LogFacts, LenProperties
  <1>3. /\ ts \in Seq(Nat) /\ Len(ts) \in 0..n
        /\ \A i \in 1..Len(ts) : ts[i] = log[(n - Len(ts)) + i]
        /\ \A i \in 1..(n - Len(ts)) : log[i] + window <= time
        /\ \A i, j \in 1..n : i <= j => log[i] <= log[j]
        /\ \A i \in 1..n : log[i] <= time
    BY DEF LogKept
  <1>4. /\ d \in Seq(Nat) /\ Len(d) \in 0..Len(ts)
        /\ \A i \in 1..Len(d) : d[i] = ts[(Len(ts) - Len(d)) + i]
        /\ \A i \in 1..(Len(ts) - Len(d)) : ts[i] <= cutoff
        /\ Len(d) > 0 => d[1] > cutoff
    <2> HIDE DEF cutoff
    <2> QED BY <1>1, <1>3, DrainExact, SMTT(30)
  <1> HIDE DEF d, cutoff, n
  <1>5. Len(d) \in 0..n
    BY <1>2, <1>3, <1>4
  <1>6. ASSUME NEW i \in 1..Len(d) PROVE d[i] = log[kept + i]
    <2>1. (Len(ts) - Len(d)) + i \in 1..Len(ts)
          /\ (n - Len(ts)) + ((Len(ts) - Len(d)) + i) = kept + i
      BY <1>2, <1>3, <1>4
    <2> QED BY <1>3, <1>4, <2>1
  <1>7. ASSUME NEW i \in 1..kept PROVE log[i] <= cutoff
    <2>1. CASE i \in 1..(n - Len(ts))
      BY <1>1, <1>2, <1>3, <2>1
    <2>2. CASE i \notin 1..(n - Len(ts))
      <3> DEFINE j == i - (n - Len(ts))
      <3>a. /\ i \in Int /\ i >= 1 /\ i <= n - Len(d) /\ ~(i <= n - Len(ts))
            /\ Len(ts) \in Nat /\ Len(d) \in Nat /\ Len(d) <= Len(ts)
        BY <1>2, <1>3, <1>4, <2>2
      <3>b. j \in Int /\ j >= 1 /\ j <= Len(ts) - Len(d) /\ j <= Len(ts)
        BY <1>2, <3>a
      <3>c. (n - Len(ts)) + j = i
        BY <1>2, <3>a
      <3>1. j \in 1..(Len(ts) - Len(d)) /\ j \in 1..Len(ts) /\ (n - Len(ts)) + j = i
        <4> HIDE DEF j
        <4> QED BY <3>a, <3>b, <3>c
      <3> HIDE DEF j
      <3>2. ts[j] = log[i] /\ ts[j] <= cutoff
        BY <1>3, <1>4, <3>1
      <3> QED BY <3>2
    <2> QED BY <2>1, <2>2
  <1>8. ASSUME NEW i \in (kept + 1)..n PROVE log[i] > cutoff
    <2>1. Len(d) > 0 /\ 1 \in 1..Len(d) /\ kept + 1 \in 1..n /\ i \in 1..n
          /\ kept + 1 <= i
      BY <1>2, <1>5
    <2>2. log[kept + 1] > cutoff
      BY <1>4, <1>6, <2>1
    <2>3. log[kept + 1] <= log[i]
      BY <1>3, <2>1
    <2> QED BY <1>1, <1>2, <2>1, <2>2, <2>3
  <1>9. LogKept(log, d, time, window)
    <2>1. \A i \in 1..kept : log[i] + window <= time
      <3> SUFFICES ASSUME NEW i \in 1..kept PROVE log[i] + window <= time
        OBVIOUS
      <3>1. i \in 1..n
        BY <1>2, <1>5
      <3> QED BY <1>1, <1>2, <1>7, <3>1
    <2> QED BY <1>3, <1>4, <1>5, <1>6, <2>1 DEF LogKept, n
  <1>10. {i \in DOMAIN log : log[i] > time - window} = (kept + 1)..n
    <2>1. ASSUME NEW i \in 1..n, log[i] > cutoff PROVE i \in (kept + 1)..n
      <3>1. i \notin 1..kept
        BY <1>1, <1>2, <1>7, <2>1
      <3> QED BY <1>2, <1>5, <3>1
    <2>2. (kept + 1)..n \subseteq 1..n
      BY <1>2, <1>5
    <2> QED BY <1>1, <1>2, <1>8, <2>1, <2>2
  <1>11. Cardinality((kept + 1)..n) = Len(d)
    <2> DEFINE b == kept + 1
    <2>1. b \in Int /\ n \in Int /\ n - b + 1 = Len(d) /\ Len(d) >= 0
          /\ (b > n => Len(d) = 0)
      BY <1>2, <1>5
    <2> HIDE DEF b
    <2>2. Cardinality(b..n) = IF b > n THEN 0 ELSE n - b + 1
      BY <2>1, FS_Interval
    <2>3. Cardinality(b..n) = Len(d)
      BY <2>1, <2>2
    <2> QED BY <2>3 DEF b
  <1> QED BY <1>9, <1>10, <1>11 DEF d, cutoff

LEMMA KeptAdmits ==
  ASSUME NEW log \in Seq(Nat), NEW ts, NEW time \in Nat, NEW window \in Nat,
         LogKept(log, ts, time, window)
  PROVE  LogKept(Append(log, time), Append(ts, time), time, window)
  <1> DEFINE n == Len(log)
             m == Len(ts)
             l == Append(log, time)
             s == Append(ts, time)
  <1>1. /\ ts \in Seq(Nat) /\ m \in 0..n
        /\ \A i \in 1..m : ts[i] = log[(n - m) + i]
        /\ \A i \in 1..(n - m) : log[i] + window <= time
        /\ \A i, j \in 1..n : i <= j => log[i] <= log[j]
        /\ \A i \in 1..n : log[i] <= time
    BY DEF LogKept
  <1>2. /\ n \in Nat /\ Len(l) = n + 1 /\ l[n + 1] = time
        /\ \A i \in 1..n : l[i] = log[i] /\ log[i] \in Nat
    BY LogFacts
  <1>3. /\ m \in Nat /\ Len(s) = m + 1 /\ s[m + 1] = time /\ s \in Seq(Nat)
        /\ \A i \in 1..m : s[i] = ts[i]
    <2> HIDE DEF n
    <2> QED BY <1>1, LogFacts
  <1> HIDE DEF n, m, l, s
  <1>4. ASSUME NEW i \in 1..(n + 1) PROVE l[i] <= time /\ l[i] \in Nat
    <2>1. CASE i = n + 1
      BY <1>2, <2>1
    <2>2. CASE i # n + 1
      <3>1. i \in 1..n
        BY <1>2, <2>2
      <3> QED BY <1>1, <1>2, <3>1
    <2> QED BY <2>1, <2>2
  <1>5. ASSUME NEW i \in 1..(n + 1), NEW j \in 1..(n + 1), i <= j PROVE l[i] <= l[j]
    <2>1. CASE j = n + 1
      BY <1>2, <1>4, <2>1
    <2>2. CASE j # n + 1
      <3>1. i \in 1..n /\ j \in 1..n
        BY <1>2, <1>5, <2>2
      <3> QED BY <1>1, <1>2, <1>5, <3>1
    <2> QED BY <2>1, <2>2
  <1>6. ASSUME NEW i \in 1..(m + 1) PROVE s[i] = l[((n + 1) - (m + 1)) + i]
    <2>1. ((n + 1) - (m + 1)) + i = (n - m) + i
      BY <1>2, <1>3
    <2>2. CASE i = m + 1
      <3>1. (n - m) + i = n + 1
        BY <1>2, <1>3, <2>2
      <3> QED BY <1>2, <1>3, <2>1, <2>2, <3>1
    <2>3. CASE i # m + 1
      <3>1. i \in 1..m /\ (n - m) + i \in 1..n
        BY <1>1, <1>2, <1>3, <2>3
      <3> QED BY <1>1, <1>2, <1>3, <2>1, <3>1
    <2> QED BY <2>2, <2>3
  <1>7. ASSUME NEW i \in 1..((n + 1) - (m + 1)) PROVE l[i] + window <= time
    <2>1. i \in 1..(n - m) /\ i \in 1..n
      BY <1>1, <1>2, <1>3
    <2> QED BY <1>1, <1>2, <2>1
  <1>8. m + 1 \in 0..(n + 1)
    BY <1>1, <1>2
  <1>9. LogKept(l, s, time, window)
    BY <1>2, <1>3, <1>4, <1>5, <1>6, <1>7, <1>8 DEF LogKept
  <1> QED BY <1>9 DEF l, s
LEMMA PromiseInit == PromiseMade /\ Init => PromiseInv
  <1> SUFFICES ASSUME Init PROVE PromiseInv
    OBVIOUS
  <1>1. StartTime <= now
    <2>1. now = StartTime /\ StartTime \in Nat
      BY StoreAssumption DEF Init
    <2> QED BY <2>1
  <1>2. ASSUME NEW k \in Keys PROVE LogKept(admitted[k], Deque(k), now, Window[k])
    <2>1. admitted[k] = << >> /\ Deque(k) = << >>
      BY DEF Init, Deque
    <2>2. << >> \in Seq(Nat) /\ Len(<< >>) = 0
      BY EmptySeq
    <2> QED BY <2>1, <2>2 DEF LogKept
  <1> QED BY <1>1, <1>2 DEF PromiseInv

(* One evaluation: the log decides, and the deque keeps up with it.        *)
LEMMA PromptEvaluation ==
  ASSUME CommonInv, PromiseInv, PromiseMade, NEW c \in Callers, NEW k \in Keys,
         NEW st \in StatesOf(Algorithm), NEW t \in Nat, NEW unix \in Nat, NEW ev,
         EvaluatesTo(c, k, st, t, unix, ev)
  PROVE  LET seen == Cardinality({i \in DOMAIN admitted[k] :
                                    admitted[k][i] > now - Window[k]})
         IN /\ t = now
            /\ LogKept(admitted'[k], ev.state.timestamps, now, Window[k])
            /\ seen < Limit[k] => ev.result.allowed
            /\ ~(seen < Limit[k]) => ~ev.result.allowed
  <1> DEFINE log == admitted[k]
             ts == DrainStale(Deque(k), SatSub(now, Window[k]))
  <1>1. t = now /\ now \in Nat
    <2>1. MaxLag = 0
      BY DEF PromiseMade
    <2>2. t <= now /\ now <= t + MaxLag /\ now \in Nat
      BY EvaluatedFacts
    <2> QED BY <2>1, <2>2
  <1>2. Limit[k] \in Nat \ {0} /\ Window[k] \in Nat \ {0} /\ log \in Seq(Nat)
    BY CommonFacts
  <1>3. Window[k] <= now
    <2>1. Window[k] + limiter.lag < StartTime /\ limiter.lag = 0 /\ StartTime \in Nat
      BY ClockAssumption, StoreAssumption
      DEF PromiseMade, MaxLag, CommonInv, TypeInv, TypeOK
    <2> QED BY <1>1, <1>2, <2>1 DEF PromiseInv
  <1>4. st.timestamps = Deque(k)
    <2>1. st = EntryOrInsert(c, k) /\ Algorithm = "sliding_window"
      BY DEF EvaluatesTo, PromiseMade
    <2> QED BY <2>1 DEF EntryOrInsert, Deque, NewKeyState
  <1>5. /\ st \in SlidingWindowState
        /\ ev = SlidingWindow(st, Limit[k], Window[k], t, unix)
        /\ admitted'[k] = IF ev.result.allowed THEN Append(log, t) ELSE log
    BY DEF EvaluatesTo, PromiseMade, StatesOf, Evaluate
  <1>6. /\ LogKept(log, ts, now, Window[k])
        /\ Cardinality({i \in DOMAIN log : log[i] > now - Window[k]}) = Len(ts)
    <2>1. PICK lg, dq, time, w : lg = log /\ dq = Deque(k) /\ time = now /\ w = Window[k]
      OBVIOUS
    <2>2. LogKept(lg, dq, time, w) /\ w <= time
      BY <1>3, <2>1 DEF PromiseInv
    <2>3. lg \in Seq(Nat) /\ time \in Nat /\ w \in Nat \ {0}
      BY <1>1, <1>2, <2>1
    <2>4. LogKept(lg, DrainStale(dq, SatSub(time, w)), time, w)
      BY <2>2, <2>3, KeptDrained
    <2>5. Cardinality({i \in DOMAIN lg : lg[i] > time - w})
            = Len(DrainStale(dq, SatSub(time, w)))
      BY <2>2, <2>3, KeptDrained
    <2> HIDE DEF log
    <2> QED BY <2>1, <2>4, <2>5
  <1>7. ts = DrainStale(st.timestamps, SatSub(t, Window[k]))
    BY <1>1, <1>4
  <1> HIDE DEF log, ts
  <1>a. /\ st \in SlidingWindowState /\ t \in Nat /\ unix \in Nat
        /\ Limit[k] \in Nat \ {0} /\ Window[k] \in Nat \ {0}
    BY <1>2, <1>5
  <1>b. PICK limit, w : limit = Limit[k] /\ w = Window[k]
    OBVIOUS
  <1>c. limit \in Nat \ {0} /\ w \in Nat \ {0} /\ ev = SlidingWindow(st, limit, w, t, unix)
        /\ ts = DrainStale(st.timestamps, SatSub(t, w))
    BY <1>5, <1>7, <1>a, <1>b
  <1>d. Len(ts) < limit => ev.result.allowed
    BY <1>5, <1>c, SlidingVerdict
  <1>e. Len(ts) < limit => ev.state.timestamps = Append(ts, t)
    <2>1. ASSUME Len(ts) < limit
          PROVE  ev.state = [timestamps |-> Append(ts, t)]
      BY <1>c, <2>1, Zenon DEF SlidingWindow, UnderQuota
    <2> QED BY <2>1
  <1>8. Len(ts) < limit => ev.result.allowed /\ ev.state.timestamps = Append(ts, t)
    BY <1>d, <1>e
  <1>9. ~(Len(ts) < limit) => ~ev.result.allowed /\ ev.state.timestamps = ts
    BY <1>5, <1>c, SlidingVerdict
  <1>10. LogKept(admitted'[k], ev.state.timestamps, now, Window[k])
    <2>1. CASE Len(ts) < Limit[k]
      <3>1. LogKept(Append(log, now), Append(ts, now), now, Window[k])
        BY <1>1, <1>2, <1>6, KeptAdmits
      <3> QED BY <1>1, <1>5, <1>8, <1>b, <2>1, <3>1
    <2>2. CASE ~(Len(ts) < Limit[k])
      BY <1>5, <1>6, <1>9, <1>b, <2>2
    <2> QED BY <2>1, <2>2
  <1>11. Cardinality({i \in DOMAIN admitted[k] : admitted[k][i] > now - Window[k]})
           = Len(ts)
    BY <1>6 DEF log
  <1> QED BY <1>1, <1>8, <1>9, <1>10, <1>11, <1>b

LEMMA PromiseStep ==
  ASSUME CommonInv, PromiseInv, PromiseMade, [Next]_vars
  PROVE  PromiseInv'
  <1>0. /\ now \in Nat /\ StartTime \in Nat
        /\ \A k \in Keys : /\ Window[k] \in Nat \ {0} /\ admitted[k] \in Seq(Nat)
                           /\ Window[k] <= now
    <2>1. now \in Nat /\ StartTime \in Nat /\ StartTime <= now
      BY CommonFacts, StoreAssumption DEF PromiseInv
    <2>2. \A k \in Keys : /\ Window[k] \in Nat \ {0} /\ admitted[k] \in Seq(Nat)
      BY CommonFacts
    <2>3. \A k \in Keys : Window[k] + limiter.lag < StartTime /\ limiter.lag = 0
      BY ClockAssumption DEF PromiseMade, MaxLag, CommonInv, TypeInv, TypeOK
    <2> QED BY <2>1, <2>2, <2>3
  <1>1. ASSUME NEW c \in Callers, Evaluation(c) PROVE PromiseInv'
    <2>0. PICK k \in Keys, st \in StatesOf(Algorithm), t \in Nat, unix \in Nat :
            \E ev : EvaluatesTo(c, k, st, t, unix, ev)
      BY <1>1, EvaluationEffect
    <2>1. PICK ev : EvaluatesTo(c, k, st, t, unix, ev)
      BY <2>0
    <2>2. /\ now' = now
          /\ DOMAIN store' = DOMAIN store \union {k}
          /\ store'[k] = ev.state
          /\ \A x \in DOMAIN store : x # k => store'[x] = store[x]
          /\ \A x \in Keys : x # k => admitted'[x] = admitted[x]
      BY <2>1 DEF EvaluatesTo
    <2>3. LogKept(admitted'[k], ev.state.timestamps, now, Window[k])
      BY <2>1, PromptEvaluation
    <2>4. Deque(k)' = ev.state.timestamps
      BY <2>2 DEF Deque
    <2>5. ASSUME NEW x \in Keys, x # k PROVE Deque(x)' = Deque(x)
      BY <2>2, <2>5 DEF Deque
    <2> QED BY <2>2, <2>3, <2>4, <2>5 DEF PromiseInv
  <1>2. ASSUME NEW c \in Callers, Sweep(c) PROVE PromiseInv'
    <2>1. /\ now' = now /\ admitted' = admitted
          /\ caller[c].stamp = now
      <3>1. caller[c].stamp <= now /\ now <= caller[c].stamp + MaxLag
            /\ caller[c].stamp \in Nat /\ MaxLag = 0
        <4>1. Active(c)
          BY <1>2 DEF Sweep, Active
        <4> QED BY <4>1, CommonFacts DEF CommonInv, StampInv, PromiseMade
      <3> QED BY <1>0, <1>2, <3>1 DEF Sweep
    <2>2. ASSUME NEW k \in Keys
          PROVE  Deque(k)' = DrainStale(Deque(k), SatSub(now, Window[k])) \/
                 (k \notin DOMAIN store /\ Deque(k)' = Deque(k))
      <3> DEFINE d == DrainStale(store[k].timestamps, SatSub(now, Window[k]))
      <3>1. /\ DOMAIN store' = {x \in DOMAIN store :
                 SweepKeeps(Algorithm, store[x], Window[x], caller[c].stamp)}
            /\ \A x \in DOMAIN store' : store'[x] =
                 SweptState(Algorithm, store[x], Window[x], caller[c].stamp)
        BY <1>2 DEF Sweep
      <3>2. CASE k \notin DOMAIN store
        BY <3>1, <3>2 DEF Deque
      <3>3. CASE k \in DOMAIN store
        <4>1. Deque(k) = store[k].timestamps
          BY <3>3 DEF Deque
        <4>2. SweptState(Algorithm, store[k], Window[k], caller[c].stamp).timestamps = d
          BY <2>1 DEF SweptState, PromiseMade
        <4>3. SweepKeeps(Algorithm, store[k], Window[k], caller[c].stamp) <=> d # << >>
          BY <4>2 DEF SweepKeeps, PromiseMade
        <4> HIDE DEF d
        <4>4. CASE k \in DOMAIN store'
          <5>1. store'[k].timestamps = d
            BY <3>1, <4>2, <4>4
          <5> QED BY <4>1, <4>4, <5>1 DEF Deque, d
        <4>5. CASE k \notin DOMAIN store'
          <5>1. d = << >>
            BY <3>1, <3>3, <4>3, <4>5
          <5> QED BY <4>1, <4>5, <5>1 DEF Deque, d
        <4> QED BY <4>4, <4>5
      <3> QED BY <3>2, <3>3
    <2>3. ASSUME NEW k \in Keys
          PROVE  LogKept(admitted[k], DrainStale(Deque(k), SatSub(now, Window[k])),
                         now, Window[k])
      <3>1. LogKept(admitted[k], Deque(k), now, Window[k])
        BY DEF PromiseInv
      <3> QED BY <1>0, <3>1, KeptDrained
    <2> QED BY <2>1, <2>2, <2>3 DEF PromiseInv
  <1>3. ASSUME Tick PROVE PromiseInv'
    <2>1. now' = now + 1 /\ admitted' = admitted /\ store' = store
      BY <1>3 DEF Tick
    <2>2. \A k \in Keys : Deque(k)' = Deque(k)
      BY <2>1 DEF Deque
    <2>3. ASSUME NEW k \in Keys
          PROVE  LogKept(admitted[k], Deque(k), now + 1, Window[k])
      <3>1. LogKept(admitted[k], Deque(k), now, Window[k])
        BY DEF PromiseInv
      <3> QED BY <1>0, <3>1, KeptLater
    <2>4. StartTime <= now + 1
      BY <1>0 DEF PromiseInv
    <2> QED BY <2>1, <2>2, <2>3, <2>4 DEF PromiseInv
  <1>4. ASSUME Aside PROVE PromiseInv'
    BY <1>4 DEF Aside, PromiseInv, Deque
  <1> QED BY <1>1, <1>2, <1>3, <1>4, KindsOfStep DEF CommonInv

(***************************************************************************)
(* Each step of the store is a step of the promise, or none.               *)
(***************************************************************************)
StoreInv == CommonInv /\ (PromiseMade => PromiseInv)

LEMMA StoreInvInit == Init => StoreInv
  BY CommonInit, PromiseInit DEF StoreInv

LEMMA StoreInvStep == StoreInv /\ [Next]_vars => StoreInv' /\ PromiseMade' = PromiseMade
  <1> SUFFICES ASSUME StoreInv, [Next]_vars
               PROVE  StoreInv' /\ PromiseMade' = PromiseMade
    OBVIOUS
  <1>1. limiter' = limiter
    BY DEF Next, Check, LookupHit, LookupMiss, Insert, EvaluateKey, CountCall,
           Sweep, Respond, Tick, vars
  <1>2. PromiseMade' = PromiseMade
    BY <1>1 DEF PromiseMade, Algorithm, MaxLag
  <1>3. CommonInv'
    BY CommonStep DEF StoreInv
  <1>4. CASE PromiseMade
    BY <1>2, <1>3, <1>4, PromiseStep DEF StoreInv
  <1>5. CASE ~PromiseMade
    BY <1>2, <1>3, <1>5 DEF StoreInv
  <1> QED BY <1>4, <1>5

(* The mapped state before the first step. *)
LEMMA PromiseStarts == Init => Promise!Init
  <1> SUFFICES ASSUME Init PROVE Promise!Init
    OBVIOUS
  <1>1. PromiseLog = [k \in Keys |-> << >>]
    BY DEF Init, PromiseLog
  <1>2. PromiseVerdicts = [c \in Callers |-> << >>]
    <2>1. \A c \in Callers : caller[c].dims = << >>
      BY DEF Init, Idle
    <2> QED BY <2>1, EmptyVerdicts DEF PromiseVerdicts
  <1>3. now = StartTime
    BY DEF Init
  <1> QED BY <1>1, <1>2, <1>3 DEF Promise!Init

(* A step that changes the dims of one caller at most. *)
LEMMA OtherVerdicts ==
  ASSUME StoreInv, NEW c \in Callers, PromiseMade' = PromiseMade,
         \A d \in Callers : d # c => caller'[d] = caller[d]
  PROVE  PromiseVerdicts' = [PromiseVerdicts EXCEPT ![c] =
           IF PromiseMade THEN Verdicts(caller'[c].dims) ELSE << >>]
  <1>1. PromiseVerdicts' =
          [d \in Callers |-> IF PromiseMade THEN Verdicts(caller'[d].dims) ELSE << >>]
    BY DEF PromiseVerdicts
  <1>2. \A d \in Callers : d # c => Verdicts(caller'[d].dims) = Verdicts(caller[d].dims)
    OBVIOUS
  <1> QED BY <1>1, <1>2 DEF PromiseVerdicts

LEMMA EvaluationDecides ==
  ASSUME StoreInv, [Next]_vars, NEW c \in Callers, Evaluation(c)
  PROVE  [Promise!Next]_(Promise!vars)
  <1>0. PICK k \in Keys, st \in StatesOf(Algorithm), t \in Nat, unix \in Nat :
          \E ev : EvaluatesTo(c, k, st, t, unix, ev)
    BY EvaluationEffect DEF StoreInv
  <1>1. PICK ev : EvaluatesTo(c, k, st, t, unix, ev)
    BY <1>0
  <1>2. /\ caller \in [Callers -> CallerState] /\ admitted \in [Keys -> Seq(Nat)]
        /\ admitted' \in [Keys -> Seq(Nat)]
    BY StoreInvStep DEF StoreInv, CommonInv, TypeInv, TypeOK
  <1>3. PromiseMade' = PromiseMade
    BY StoreInvStep
  <1>4. /\ now' = now
        /\ admitted'[k] = IF ev.result.allowed THEN Append(admitted[k], t) ELSE admitted[k]
        /\ \A x \in Keys : x # k => admitted'[x] = admitted[x]
        /\ caller' = [caller EXCEPT ![c] =
             [caller[c] EXCEPT !.pc = "count", !.dims = Append(@, ev.result)]]
    BY <1>1 DEF EvaluatesTo
  <1>5. /\ \A d \in Callers : d # c => caller'[d] = caller[d]
        /\ caller'[c].dims = Append(caller[c].dims, ev.result)
    BY <1>2, <1>4 DEF CallerState
  <1>6. CASE PromiseMade
    <2> DEFINE log == PromiseLog
               seen == Cardinality({i \in DOMAIN log[k] : log[k][i] > now - Window[k]})
               allow == seen < Limit[k]
    <2>1. log = admitted /\ PromiseLog' = admitted'
      BY <1>3, <1>6 DEF PromiseLog
    <2>2. /\ t = now
          /\ allow => ev.result.allowed
          /\ ~allow => ~ev.result.allowed
      <3>1. PromiseInv /\ CommonInv
        BY <1>6 DEF StoreInv
      <3>2. LET s == Cardinality({i \in DOMAIN admitted[k] :
                                    admitted[k][i] > now - Window[k]})
            IN /\ t = now
               /\ s < Limit[k] => ev.result.allowed
               /\ ~(s < Limit[k]) => ~ev.result.allowed
        BY <1>1, <1>6, <3>1, PromptEvaluation, SMTT(30)
      <3> QED BY <2>1, <3>2
    <2>3. ev.result.allowed \in BOOLEAN /\ ev.result \in DimResults
          /\ caller[c].dims \in Seq(DimResults)
      <3>1. /\ WithinLimit(Algorithm, st, Limit[k]) /\ Limit[k] \in Nat \ {0}
            /\ Window[k] \in Nat \ {0}
        BY <1>1, EvaluatedFacts DEF StoreInv
      <3>2. ev = Evaluate(Algorithm, st, Limit[k], Window[k], t, unix)
            /\ Algorithm \in Algorithms
        BY <1>1, <1>6 DEF EvaluatesTo, PromiseMade, Algorithms
      <3>3. ev.result \in DimResults
        BY <3>1, <3>2, EvaluateShape
      <3> QED BY <1>2, <3>3 DEF DimResults, CallerState
    <2> HIDE DEF allow, log
    <2>4. ev.result.allowed = allow
      <3>1. allow \in BOOLEAN
        BY DEF allow
      <3> QED BY <2>2, <2>3, <3>1
    <2>5. PromiseVerdicts' = [PromiseVerdicts EXCEPT ![c] = Append(@, allow)]
      <3>1. PromiseVerdicts' = [PromiseVerdicts EXCEPT ![c] = Verdicts(caller'[c].dims)]
        BY <1>3, <1>5, <1>6, OtherVerdicts
      <3>2. PromiseVerdicts[c] = Verdicts(caller[c].dims)
        BY <1>6 DEF PromiseVerdicts
      <3>3. Verdicts(caller'[c].dims) = Append(Verdicts(caller[c].dims), allow)
        BY <1>5, <2>3, <2>4, MoreVerdicts
      <3> QED BY <3>1, <3>2, <3>3
    <2>6. PromiseLog' = IF allow THEN [log EXCEPT ![k] = Append(@, now)] ELSE log
      <3>1. CASE allow
        <4>1. admitted'[k] = Append(admitted[k], now)
          BY <1>4, <2>2, <3>1
        <4>2. admitted' = [admitted EXCEPT ![k] = Append(@, now)]
          BY <1>2, <1>4, <4>1
        <4> QED BY <2>1, <3>1, <4>2
      <3>2. CASE ~allow
        <4>1. admitted' = admitted
          BY <1>2, <1>4, <2>2, <3>2
        <4> QED BY <2>1, <3>2, <4>1
      <3> QED BY <3>1, <3>2
    <2>7. Promise!Decide(c, k)
      <3>a. ASSUME NEW S PROVE Cardinality(S) = Promise!Cardinality(S)
        BY DEF Cardinality, Promise!Cardinality
      <3>1. allow = (Promise!InLastWindow(k) < Limit[k])
        BY <3>a, Zenon DEF Promise!InLastWindow, allow, log
      <3>2. log = PromiseLog /\ now' = now
        BY <1>4 DEF log
      <3> QED BY <2>5, <2>6, <3>1, <3>2, Zenon DEF Promise!Decide
    <2> QED BY <2>7 DEF Promise!Next
  <1>7. CASE ~PromiseMade
    <2>1. PromiseLog' = PromiseLog /\ PromiseVerdicts' = PromiseVerdicts
      BY <1>3, <1>7 DEF PromiseLog, PromiseVerdicts
    <2> QED BY <1>4, <2>1 DEF Promise!vars
  <1> QED BY <1>6, <1>7

LEMMA StepsImplement ==
  ASSUME StoreInv, [Next]_vars
  PROVE  [Promise!Next]_(Promise!vars)
  <1>1. caller \in [Callers -> CallerState] /\ PromiseMade' = PromiseMade
    BY StoreInvStep DEF StoreInv, CommonInv, TypeInv, TypeOK
  <1>2. ASSUME NEW c \in Callers, Check(c) \/ Respond(c)
        PROVE  [Promise!Next]_(Promise!vars)
    <2>1. /\ now' = now /\ admitted' = admitted /\ caller'[c].dims = << >>
          /\ \A d \in Callers : d # c => caller'[d] = caller[d]
      BY <1>1, <1>2 DEF Check, Respond, Idle
    <2>2. PromiseLog' = PromiseLog
      BY <1>1, <2>1 DEF PromiseLog
    <2>3. PromiseVerdicts' = [PromiseVerdicts EXCEPT ![c] = << >>]
      BY <1>1, <2>1, OtherVerdicts, EmptyVerdicts
    <2>4. Promise!Answer(c)
      BY <2>1, <2>2, <2>3 DEF Promise!Answer
    <2> QED BY <2>4 DEF Promise!Next
  <1>3. ASSUME NEW c \in Callers, LookupMiss(c) \/ CountCall(c) \/ Sweep(c)
        PROVE  [Promise!Next]_(Promise!vars)
    <2>1. /\ now' = now /\ admitted' = admitted
          /\ \A d \in Callers : caller'[d].dims = caller[d].dims
      <3>1. CASE LookupMiss(c)
        BY <1>1, <3>1 DEF LookupMiss, CallerState
      <3>2. CASE CountCall(c)
        BY <1>1, <3>2 DEF CountCall, CallerState
      <3>3. CASE Sweep(c)
        BY <1>1, <3>3 DEF Sweep, CallerState
      <3> QED BY <1>3, <3>1, <3>2, <3>3
    <2>2. PromiseLog' = PromiseLog /\ PromiseVerdicts' = PromiseVerdicts
      BY <1>1, <2>1 DEF PromiseLog, PromiseVerdicts
    <2> QED BY <2>1, <2>2 DEF Promise!vars
  <1>4. ASSUME Tick PROVE [Promise!Next]_(Promise!vars)
    <2>1. now' = now + 1 /\ admitted' = admitted /\ caller' = caller
      BY <1>4 DEF Tick
    <2>2. PromiseLog' = PromiseLog /\ PromiseVerdicts' = PromiseVerdicts
      BY <1>1, <2>1 DEF PromiseLog, PromiseVerdicts
    <2>3. Promise!Tick
      BY <2>1, <2>2 DEF Promise!Tick
    <2> QED BY <2>3 DEF Promise!Next
  <1>5. CASE UNCHANGED vars
    <2>1. now' = now /\ admitted' = admitted /\ caller' = caller
      BY <1>5 DEF vars
    <2>2. PromiseLog' = PromiseLog /\ PromiseVerdicts' = PromiseVerdicts
      BY <1>1, <2>1 DEF PromiseLog, PromiseVerdicts
    <2> QED BY <2>1, <2>2 DEF Promise!vars
  <1>6. ASSUME NEW c \in Callers, LookupHit(c) \/ Insert(c)
        PROVE  [Promise!Next]_(Promise!vars)
    BY <1>6, EvaluationStep, EvaluationDecides DEF StoreInv, CommonInv
  <1> QED BY <1>2, <1>3, <1>4, <1>5, <1>6 DEF Next

(* A sliding window whose callers are prompt keeps the promise of the log: *)
(* a call is allowed exactly when fewer than the limit were admitted in    *)
(* the last window, whatever the deque dropped, the sweep evicted or two   *)
(* callers raced to insert.                                                *)
THEOREM PromiseImplemented == Spec => ImplementsPromise
  <1>1. StoreInv /\ [Next]_vars => [Promise!Next]_(Promise!vars)
    BY StepsImplement
  <1>2. StoreInv /\ [Next]_vars => StoreInv'
    BY StoreInvStep
  <1> QED BY <1>1, <1>2, StoreInvInit, PromiseStarts, PTL
          DEF Spec, ImplementsPromise, Promise!Spec

(***************************************************************************)
(* A sliding window, whatever the readings of its callers: the deque is    *)
(* the newest part of the log, in the order of the lock and not of time,   *)
(* and what has left it is older than a window.  A reading that falls in a *)
(* span of a window less the lag therefore finds every call of that span   *)
(* still in the deque.                                                     *)
(***************************************************************************)
DequeOf(log, ts, time, window) ==
  /\ ts \in Seq(Nat) /\ Len(ts) \in 0..Len(log)
  /\ \A i \in 1..Len(ts) : ts[i] = log[(Len(log) - Len(ts)) + i]
  /\ \A i \in 1..(Len(log) - Len(ts)) : log[i] + window <= time

SpanOf(log, a, d) == {i \in 1..Len(log) : a <= log[i] /\ log[i] < a + d}

SpanBounded(log, d, limit) ==
  \A a \in Nat : Cardinality(SpanOf(log, a, d)) <= limit

SpanInv ==
  /\ StartTime <= now
  /\ \A k \in Keys : /\ DequeOf(admitted[k], Deque(k), now, Window[k])
                     /\ SpanBounded(admitted[k], Window[k] - MaxLag, Limit[k])

LEMMA DequeLater ==
  ASSUME NEW log \in Seq(Nat), NEW ts, NEW time \in Nat, NEW window \in Nat,
         DequeOf(log, ts, time, window)
  PROVE  DequeOf(log, ts, time + 1, window)
  <1>1. Len(log) \in Nat /\ Len(ts) \in 0..Len(log)
        /\ \A i \in 1..Len(log) : log[i] \in Nat
    BY LogFacts DEF DequeOf
  <1>2. \A i \in 1..(Len(log) - Len(ts)) : log[i] + window <= time + 1
    BY <1>1 DEF DequeOf
  <1> QED BY <1>2 DEF DequeOf

(* Draining by a reading that is not ahead of the clock. *)
LEMMA DequeDrained ==
  ASSUME NEW log \in Seq(Nat), NEW ts, NEW time \in Nat, NEW window \in Nat,
         NEW t \in Nat, window <= t, t <= time, DequeOf(log, ts, time, window)
  PROVE  DequeOf(log, DrainStale(ts, SatSub(t, window)), time, window)
  <1> DEFINE cutoff == SatSub(t, window)
             d == DrainStale(ts, cutoff)
             n == Len(log)
             m == Len(ts)
             kept == n - Len(d)
  <1>1. cutoff = t - window /\ cutoff \in Nat
    BY DEF SatSub
  <1>2. n \in Nat /\ \A i \in 1..n : log[i] \in Nat
    BY LogFacts
  <1>3. /\ ts \in Seq(Nat) /\ m \in 0..n
        /\ \A i \in 1..m : ts[i] = log[(n - m) + i]
        /\ \A i \in 1..(n - m) : log[i] + window <= time
    BY DEF DequeOf
  <1>4. /\ d \in Seq(Nat) /\ Len(d) \in 0..m
        /\ \A i \in 1..Len(d) : d[i] = ts[(m - Len(d)) + i]
        /\ \A i \in 1..(m - Len(d)) : ts[i] <= cutoff
    <2> HIDE DEF cutoff
    <2> QED BY <1>1, <1>3, DrainExact, SMTT(30)
  <1> HIDE DEF d, cutoff, n, m
  <1>5. Len(d) \in 0..n
    BY <1>2, <1>3, <1>4
  <1>6. ASSUME NEW i \in 1..Len(d) PROVE d[i] = log[kept + i]
    <2>1. (m - Len(d)) + i \in 1..m
          /\ (n - m) + ((m - Len(d)) + i) = kept + i
      BY <1>2, <1>3, <1>4
    <2> QED BY <1>3, <1>4, <2>1
  <1>7. ASSUME NEW i \in 1..kept PROVE log[i] + window <= time
    <2>1. CASE i \in 1..(n - m)
      BY <1>3, <2>1
    <2>2. CASE i \notin 1..(n - m)
      <3>1. PICK j \in Int : j = i - (n - m)
        BY <1>2, <1>3
      <3>2. j \in 1..(m - Len(d)) /\ j \in 1..m /\ (n - m) + j = i /\ i \in 1..n
        BY <1>2, <1>3, <1>4, <2>2, <3>1
      <3>3. ts[j] = log[i] /\ ts[j] <= cutoff
        BY <1>3, <1>4, <3>2
      <3> QED BY <1>1, <1>2, <3>2, <3>3
    <2> QED BY <2>1, <2>2
  <1>8. DequeOf(log, d, time, window)
    BY <1>4, <1>5, <1>6, <1>7 DEF DequeOf, n
  <1> QED BY <1>8 DEF d, cutoff

LEMMA DequeAdmits ==
  ASSUME NEW log \in Seq(Nat), NEW ts, NEW time \in Nat, NEW window \in Nat,
         NEW t \in Nat, DequeOf(log, ts, time, window)
  PROVE  DequeOf(Append(log, t), Append(ts, t), time, window)
  <1> DEFINE n == Len(log)
             m == Len(ts)
             l == Append(log, t)
             s == Append(ts, t)
  <1>1. /\ ts \in Seq(Nat) /\ m \in 0..n
        /\ \A i \in 1..m : ts[i] = log[(n - m) + i]
        /\ \A i \in 1..(n - m) : log[i] + window <= time
    BY DEF DequeOf
  <1>2. /\ n \in Nat /\ Len(l) = n + 1 /\ l[n + 1] = t
        /\ \A i \in 1..n : l[i] = log[i] /\ log[i] \in Nat
    BY LogFacts
  <1>3. /\ m \in Nat /\ Len(s) = m + 1 /\ s[m + 1] = t /\ s \in Seq(Nat)
        /\ \A i \in 1..m : s[i] = ts[i]
    <2> HIDE DEF n
    <2> QED BY <1>1, LogFacts
  <1> HIDE DEF n, m, l, s
  <1>4. ASSUME NEW i \in 1..(m + 1) PROVE s[i] = l[((n + 1) - (m + 1)) + i]
    <2>1. ((n + 1) - (m + 1)) + i = (n - m) + i
      BY <1>2, <1>3
    <2>2. CASE i = m + 1
      <3>1. (n - m) + i = n + 1
        BY <1>2, <1>3, <2>2
      <3> QED BY <1>2, <1>3, <2>1, <2>2, <3>1
    <2>3. CASE i # m + 1
      <3>1. i \in 1..m /\ (n - m) + i \in 1..n
        BY <1>1, <1>2, <1>3, <2>3
      <3> QED BY <1>1, <1>2, <1>3, <2>1, <3>1
    <2> QED BY <2>2, <2>3
  <1>5. ASSUME NEW i \in 1..((n + 1) - (m + 1)) PROVE l[i] + window <= time
    <2>1. i \in 1..(n - m) /\ i \in 1..n
      BY <1>1, <1>2, <1>3
    <2> QED BY <1>1, <1>2, <2>1
  <1>6. m + 1 \in 0..(n + 1)
    BY <1>1, <1>2
  <1>7. DequeOf(l, s, time, window)
    BY <1>2, <1>3, <1>4, <1>5, <1>6 DEF DequeOf
  <1> QED BY <1>7 DEF l, s

(* A span that the new reading falls in starts after all that has left the *)
(* deque, so it holds no more than the deque and the new call.             *)
LEMMA SpanAdmits ==
  ASSUME NEW log \in Seq(Nat), NEW ts, NEW time \in Nat, NEW window \in Nat,
         NEW lag \in Nat, NEW t \in Nat, time <= t + lag, NEW limit \in Nat,
         DequeOf(log, ts, time, window), Len(ts) < limit,
         SpanBounded(log, window - lag, limit)
  PROVE  SpanBounded(Append(log, t), window - lag, limit)
  <1> DEFINE n == Len(log)
             m == Len(ts)
             l == Append(log, t)
             d == window - lag
  <1>1. /\ m \in 0..n
        /\ \A i \in 1..(n - m) : log[i] + window <= time
    BY DEF DequeOf
  <1>2. /\ n \in Nat /\ Len(l) = n + 1 /\ l[n + 1] = t
        /\ \A i \in 1..n : l[i] = log[i] /\ log[i] \in Nat
    BY LogFacts
  <1>3. d \in Int /\ time <= t + window - d
    OBVIOUS
  <1>4. \A a \in Nat : Cardinality(SpanOf(log, a, d)) <= limit
    BY DEF SpanBounded
  <1>5. m < limit
    OBVIOUS
  <1> HIDE DEF n, m, l, d
  <1>6. SUFFICES ASSUME NEW a \in Nat PROVE Cardinality(SpanOf(l, a, d)) <= limit
    BY DEF SpanBounded, l, d
  <1>7. CASE a <= t /\ t < a + d
    <2>1. ASSUME NEW i \in SpanOf(l, a, d) PROVE i \in ((n - m) + 1)..(n + 1)
      <3>1. i \in 1..(n + 1) /\ a <= l[i]
        BY <1>2, <2>1 DEF SpanOf
      <3>2. ASSUME i \in 1..(n - m) PROVE FALSE
        <4>1. i \in 1..n /\ log[i] + window <= time /\ l[i] = log[i] /\ log[i] \in Nat
          BY <1>1, <1>2, <3>2
        <4> QED BY <1>3, <1>7, <3>1, <4>1
      <3> QED BY <1>1, <1>2, <3>1, <3>2
    <2>2. PICK b \in Int, e \in Int : b = (n - m) + 1 /\ e = n + 1
      BY <1>1, <1>2
    <2>3. IsFiniteSet(b..e) /\ Cardinality(b..e) = m + 1
      <3>1. b <= e /\ e - b + 1 = m + 1
        BY <1>1, <1>2, <2>2
      <3>2. IsFiniteSet(b..e) /\ Cardinality(b..e) = IF b > e THEN 0 ELSE e - b + 1
        BY FS_Interval
      <3> QED BY <3>1, <3>2
    <2>4. SpanOf(l, a, d) \subseteq b..e
      BY <2>1, <2>2
    <2>5. /\ Cardinality(SpanOf(l, a, d)) <= Cardinality(b..e)
          /\ IsFiniteSet(SpanOf(l, a, d))
      BY <2>3, <2>4, FS_Subset
    <2>6. Cardinality(SpanOf(l, a, d)) \in Nat
      BY <2>5, FS_CardinalityType
    <2> QED BY <1>1, <1>2, <1>5, <2>3, <2>5, <2>6
  <1>8. CASE ~(a <= t /\ t < a + d)
    <2>1. SpanOf(l, a, d) = SpanOf(log, a, d)
      <3>1. ASSUME NEW i \in 1..(n + 1), a <= l[i] /\ l[i] < a + d
            PROVE  i \in 1..n
        <4>1. i # n + 1
          BY <1>2, <1>8, <3>1
        <4> QED BY <1>2, <4>1
      <3>2. \A i \in 1..n : i \in 1..(n + 1)
        BY <1>2
      <3>3. SpanOf(l, a, d) = {i \in 1..(n + 1) : a <= l[i] /\ l[i] < a + d}
        BY <1>2 DEF SpanOf
      <3>4. SpanOf(log, a, d) = {i \in 1..n : a <= log[i] /\ log[i] < a + d}
        BY DEF SpanOf, n
      <3> QED BY <1>2, <3>1, <3>2, <3>3, <3>4
    <2> QED BY <1>4, <2>1
  <1> QED BY <1>7, <1>8

LEMMA SpanInit == Init => SpanInv
  <1> SUFFICES ASSUME Init PROVE SpanInv
    OBVIOUS
  <1>1. StartTime <= now
    <2>1. now = StartTime /\ StartTime \in Nat
      BY StoreAssumption DEF Init
    <2> QED BY <2>1
  <1>2. ASSUME NEW k \in Keys
        PROVE  /\ DequeOf(admitted[k], Deque(k), now, Window[k])
               /\ SpanBounded(admitted[k], Window[k] - MaxLag, Limit[k])
    <2>1. admitted[k] = << >> /\ Deque(k) = << >>
      BY DEF Init, Deque
    <2>2. << >> \in Seq(Nat) /\ Len(<< >>) = 0
      BY EmptySeq
    <2>3. Limit[k] \in Nat
      BY StoreAssumption
    <2>4. ASSUME NEW a \in Nat
          PROVE  Cardinality(SpanOf(<< >>, a, Window[k] - MaxLag)) <= Limit[k]
      <3>1. SpanOf(<< >>, a, Window[k] - MaxLag) = {}
        BY <2>2 DEF SpanOf
      <3>2. Cardinality(SpanOf(<< >>, a, Window[k] - MaxLag)) = 0
        BY <3>1, FS_EmptySet, Zenon
      <3> QED BY <2>3, <3>2
    <2> QED BY <2>1, <2>2, <2>4 DEF DequeOf, SpanBounded
  <1> QED BY <1>1, <1>2 DEF SpanInv

(* One evaluation, by whatever reading. *)
LEMMA EvaluationSpan ==
  ASSUME CommonInv, SpanInv, Algorithm = "sliding_window", NEW c \in Callers,
         NEW k \in Keys, NEW st \in StatesOf(Algorithm), NEW t \in Nat,
         NEW unix \in Nat, NEW ev, EvaluatesTo(c, k, st, t, unix, ev)
  PROVE  /\ DequeOf(admitted'[k], ev.state.timestamps, now, Window[k])
         /\ SpanBounded(admitted'[k], Window[k] - MaxLag, Limit[k])
  <1>1. PICK log, ts, limit, w :
          /\ log = admitted[k] /\ limit = Limit[k] /\ w = Window[k]
          /\ ts = DrainStale(st.timestamps, SatSub(t, w))
    OBVIOUS
  <1>2. /\ t <= now /\ now <= t + MaxLag /\ now \in Nat /\ MaxLag \in Nat
        /\ limit \in Nat \ {0} /\ w \in Nat \ {0} /\ log \in Seq(Nat)
    BY <1>1, EvaluatedFacts
  <1>3. w <= t
    <2>1. Window[k] + MaxLag < StartTime /\ StartTime \in Nat /\ StartTime <= now
      BY ClockAssumption, StoreAssumption
      DEF MaxLag, CommonInv, TypeInv, TypeOK, SpanInv
    <2> QED BY <1>1, <1>2, <2>1
  <1>4. /\ st \in SlidingWindowState
        /\ ev = SlidingWindow(st, limit, w, t, unix)
        /\ admitted'[k] = IF ev.result.allowed THEN Append(log, t) ELSE log
    BY <1>1 DEF EvaluatesTo, StatesOf, Evaluate
  <1>5. st.timestamps = Deque(k)
    <2>1. st = EntryOrInsert(c, k)
      BY DEF EvaluatesTo
    <2> QED BY <2>1 DEF EntryOrInsert, Deque, NewKeyState
  <1>6. DequeOf(log, ts, now, w)
    <2>1. DequeOf(log, st.timestamps, now, w)
      BY <1>1, <1>5 DEF SpanInv
    <2> QED BY <1>1, <1>2, <1>3, <2>1, DequeDrained
  <1>7. SpanBounded(log, w - MaxLag, limit)
    BY <1>1 DEF SpanInv
  <1>8. CASE Len(ts) < limit
    <2>1. ev.result.allowed
      BY <1>1, <1>2, <1>4, <1>8, SlidingVerdict
    <2>2. ev.state.timestamps = Append(ts, t)
      <3>1. ev.state = [timestamps |-> Append(ts, t)]
        BY <1>1, <1>4, <1>8, Zenon DEF SlidingWindow, UnderQuota
      <3> QED BY <3>1
    <2>3. DequeOf(Append(log, t), Append(ts, t), now, w)
      BY <1>2, <1>6, DequeAdmits
    <2>4. SpanBounded(Append(log, t), w - MaxLag, limit)
      BY <1>2, <1>6, <1>7, <1>8, SpanAdmits
    <2> QED BY <1>1, <1>4, <2>1, <2>2, <2>3, <2>4
  <1>9. CASE ~(Len(ts) < limit)
    <2>1. ~ev.result.allowed /\ ev.state.timestamps = ts
      BY <1>1, <1>2, <1>4, <1>9, SlidingVerdict
    <2> QED BY <1>1, <1>4, <1>6, <1>7, <2>1
  <1> QED BY <1>8, <1>9

LEMMA SpanStep ==
  ASSUME CommonInv, SpanInv, Algorithm = "sliding_window", [Next]_vars
  PROVE  SpanInv'
  <1>0. /\ now \in Nat /\ StartTime \in Nat /\ StartTime <= now /\ MaxLag' = MaxLag
        /\ \A k \in Keys : /\ Window[k] \in Nat \ {0} /\ admitted[k] \in Seq(Nat)
                           /\ Window[k] + MaxLag < StartTime
    <2>1. now \in Nat /\ StartTime \in Nat /\ StartTime <= now
      BY CommonFacts, StoreAssumption DEF SpanInv
    <2>2. \A k \in Keys : /\ Window[k] \in Nat \ {0} /\ admitted[k] \in Seq(Nat)
      BY CommonFacts
    <2>3. \A k \in Keys : Window[k] + MaxLag < StartTime
      BY ClockAssumption DEF MaxLag, CommonInv, TypeInv, TypeOK
    <2>4. MaxLag' = MaxLag
      BY DEF Next, Check, LookupHit, LookupMiss, Insert, EvaluateKey, CountCall,
             Sweep, Respond, Tick, vars, MaxLag
    <2> QED BY <2>1, <2>2, <2>3, <2>4
  <1>1. ASSUME NEW c \in Callers, Evaluation(c) PROVE SpanInv'
    <2>1. PICK k \in Keys, st \in StatesOf(Algorithm), t \in Nat, unix \in Nat :
            \E ev : EvaluatesTo(c, k, st, t, unix, ev)
      BY <1>1, EvaluationEffect
    <2>2. PICK ev : EvaluatesTo(c, k, st, t, unix, ev)
      BY <2>1
    <2>3. /\ now' = now
          /\ DOMAIN store' = DOMAIN store \union {k}
          /\ store'[k] = ev.state
          /\ \A x \in DOMAIN store : x # k => store'[x] = store[x]
          /\ \A x \in Keys : x # k => admitted'[x] = admitted[x]
      BY <2>2 DEF EvaluatesTo
    <2>4. /\ DequeOf(admitted'[k], ev.state.timestamps, now, Window[k])
          /\ SpanBounded(admitted'[k], Window[k] - MaxLag, Limit[k])
      BY <2>2, EvaluationSpan
    <2>5. Deque(k)' = ev.state.timestamps
      BY <2>3 DEF Deque
    <2>6. ASSUME NEW x \in Keys, x # k PROVE Deque(x)' = Deque(x)
      BY <2>3, <2>6 DEF Deque
    <2> QED BY <1>0, <2>3, <2>4, <2>5, <2>6 DEF SpanInv
  <1>2. ASSUME NEW c \in Callers, Sweep(c) PROVE SpanInv'
    <2>1. PICK t : t = caller[c].stamp
      OBVIOUS
    <2>2. now' = now /\ admitted' = admitted
      BY <1>2 DEF Sweep
    <2>3. t \in Nat /\ t <= now /\ now <= t + MaxLag /\ MaxLag \in Nat
      <3>1. Active(c)
        BY <1>2 DEF Sweep, Active
      <3> QED BY <2>1, <3>1, CommonFacts DEF CommonInv, StampInv
    <2>4. ASSUME NEW k \in Keys
          PROVE  Deque(k)' = DrainStale(Deque(k), SatSub(t, Window[k])) \/
                 (k \notin DOMAIN store /\ Deque(k)' = Deque(k))
      <3> DEFINE d == DrainStale(store[k].timestamps, SatSub(t, Window[k]))
      <3>1. /\ DOMAIN store' = {x \in DOMAIN store :
                 SweepKeeps(Algorithm, store[x], Window[x], t)}
            /\ \A x \in DOMAIN store' : store'[x] =
                 SweptState(Algorithm, store[x], Window[x], t)
        BY <1>2, <2>1 DEF Sweep
      <3>2. CASE k \notin DOMAIN store
        BY <3>1, <3>2 DEF Deque
      <3>3. CASE k \in DOMAIN store
        <4>1. Deque(k) = store[k].timestamps
          BY <3>3 DEF Deque
        <4>2. SweptState(Algorithm, store[k], Window[k], t).timestamps = d
          BY DEF SweptState
        <4>3. SweepKeeps(Algorithm, store[k], Window[k], t) <=> d # << >>
          BY <4>2 DEF SweepKeeps
        <4> HIDE DEF d
        <4>4. CASE k \in DOMAIN store'
          <5>1. store'[k].timestamps = d
            BY <3>1, <4>2, <4>4
          <5> QED BY <4>1, <4>4, <5>1 DEF Deque, d
        <4>5. CASE k \notin DOMAIN store'
          <5>1. d = << >>
            BY <3>1, <3>3, <4>3, <4>5
          <5> QED BY <4>1, <4>5, <5>1 DEF Deque, d
        <4> QED BY <4>4, <4>5
      <3> QED BY <3>2, <3>3
    <2>5. ASSUME NEW k \in Keys
          PROVE  DequeOf(admitted[k], DrainStale(Deque(k), SatSub(t, Window[k])),
                         now, Window[k])
      <3>1. DequeOf(admitted[k], Deque(k), now, Window[k])
        BY DEF SpanInv
      <3>2. Window[k] <= t /\ Window[k] \in Nat /\ admitted[k] \in Seq(Nat)
        BY <1>0, <2>3
      <3> QED BY <1>0, <2>3, <3>1, <3>2, DequeDrained
    <2> QED BY <1>0, <2>2, <2>4, <2>5 DEF SpanInv
  <1>3. ASSUME Tick PROVE SpanInv'
    <2>1. now' = now + 1 /\ admitted' = admitted /\ store' = store
      BY <1>3 DEF Tick
    <2>2. \A k \in Keys : Deque(k)' = Deque(k)
      BY <2>1 DEF Deque
    <2>3. ASSUME NEW k \in Keys
          PROVE  DequeOf(admitted[k], Deque(k), now + 1, Window[k])
      <3>1. DequeOf(admitted[k], Deque(k), now, Window[k])
        BY DEF SpanInv
      <3> QED BY <1>0, <3>1, DequeLater
    <2>4. StartTime <= now + 1
      BY <1>0
    <2> QED BY <1>0, <2>1, <2>2, <2>3, <2>4 DEF SpanInv
  <1>4. ASSUME Aside PROVE SpanInv'
    BY <1>0, <1>4 DEF Aside, SpanInv, Deque
  <1> QED BY <1>1, <1>2, <1>3, <1>4, KindsOfStep DEF CommonInv

(* No span of a window less the lag holds more admitted calls of a sliding *)
(* window than its limit, however late the readings are that callers and   *)
(* sweeps drain with, and in whatever order they are pushed.               *)
THEOREM SlidingWindowSpanHolds == Spec => []SlidingWindowSpan
  <1> DEFINE Inv == CommonInv /\ (Algorithm = "sliding_window" => SpanInv)
  <1>1. Init => Inv
    BY CommonInit, SpanInit
  <1>2. Inv /\ [Next]_vars => Inv'
    <2> SUFFICES ASSUME Inv, [Next]_vars PROVE Inv'
      OBVIOUS
    <2>1. CommonInv' /\ Algorithm' = Algorithm
      BY CommonStep, SameLimiter
    <2>2. CASE Algorithm = "sliding_window"
      BY <2>1, <2>2, SpanStep
    <2>3. CASE Algorithm # "sliding_window"
      BY <2>1, <2>3
    <2> QED BY <2>2, <2>3
  <1>3. Inv => SlidingWindowSpan
    <2> SUFFICES ASSUME CommonInv, SpanInv, NEW k \in Keys, NEW a \in StartTime..now
                 PROVE  Cardinality(AdmittedIn(k, a, Window[k] - MaxLag)) <= Limit[k]
      BY DEF SlidingWindowSpan
    <2>1. a \in Nat /\ admitted[k] \in Seq(Nat)
      BY CommonFacts, StoreAssumption
    <2>2. AdmittedIn(k, a, Window[k] - MaxLag) = SpanOf(admitted[k], a, Window[k] - MaxLag)
      <3>1. DOMAIN admitted[k] = 1..Len(admitted[k])
        BY <2>1, LenProperties
      <3> QED BY <3>1 DEF AdmittedIn, SpanOf
    <2> QED BY <2>1, <2>2 DEF SpanInv, SpanBounded
  <1> QED BY <1>1, <1>2, <1>3, PTL DEF Spec

(* The two bounds together: what a caller with an old reading, a sweep and *)
(* racing insertions may cost a limit, for every lag.                      *)
THEOREM StoreWindowsHold == Spec => []StoreWindows
  BY FixedWindowBurstHolds, SlidingWindowSpanHolds, PTL DEF StoreWindows
=============================================================================
