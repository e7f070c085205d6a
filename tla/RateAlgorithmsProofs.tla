------------------------ MODULE RateAlgorithmsProofs ------------------------
(***************************************************************************)
(* Lemmas about the operators of RateAlgorithms: what an evaluation does   *)
(* to the state of a key, for every limit, window, clock reading and       *)
(* scale.                                                                  *)
(***************************************************************************)
EXTENDS RateAlgorithms, SequenceTheorems, WellFoundedInduction, TLAPS

(***************************************************************************)
(* Arithmetic.                                                             *)
(***************************************************************************)

(* Integer division rounds down. *)
LEMMA DivNat ==
  ASSUME NEW x \in Nat, NEW y \in Nat \ {0}
  PROVE  /\ x \div y \in Nat
         /\ (x \div y) * y <= x
  BY Z3

(* The helpers that stand for machine arithmetic return naturals, and a    *)
(* saturating subtraction is the difference or zero.                       *)
LEMMA MachineArithmetic ==
  /\ \A a, b \in Nat : SatSub(a, b) \in Nat /\ (a >= b => SatSub(a, b) = a - b)
                       /\ (a < b => SatSub(a, b) = 0)
  /\ \A a, b \in Nat : WrapSub(a, b) \in Nat
  /\ \A n \in Int : AtLeast1(n) \in Nat
  BY ScaleAssumption DEF SatSub, WrapSub, AtLeast1

LEMMA DivAtLeast1 ==
  ASSUME NEW x \in Nat, NEW y \in Nat \ {0}
  PROVE  AtLeast1(x \div y) \in Nat
  <1>1. x \div y \in Nat
    BY DivNat
  <1> QED BY <1>1, MachineArithmetic

LEMMA CeilDivNat ==
  ASSUME NEW a \in Nat, NEW b \in Nat \ {0}
  PROVE  CeilDiv(a, b) \in Nat
  <1>1. a + b - 1 \in Nat
    OBVIOUS
  <1> QED BY <1>1, DivNat DEF CeilDiv

(* Min of FiniteSetsExt is the least element of a set of naturals. *)
LEMMA MinIsLeast ==
  ASSUME NEW S \in SUBSET Nat, S # {}
  PROVE  Min(S) \in S /\ \A y \in S : Min(S) <= y
  <1>1. IsWellFoundedOn(OpToRel(<, Nat), Nat)
    BY NatLessThanWellFounded
  <1>2. PICK x \in S : \A y \in S : ~(<<y, x>> \in OpToRel(<, Nat))
    BY <1>1, WFMin
  <1>3. \A y \in S : ~(y < x)
    BY <1>2 DEF OpToRel
  <1>4. \A y \in S : x <= y
    BY <1>3
  <1> QED BY <1>4 DEF Min

(***************************************************************************)
(* The shape of a key's state survives an evaluation, and the state stays  *)
(* within the configured capacity.                                         *)
(***************************************************************************)

(* Draining keeps a suffix of the deque. *)
LEMMA DrainShape ==
  ASSUME NEW ts \in Seq(Nat), NEW cutoff \in Nat
  PROVE  /\ DrainStale(ts, cutoff) \in Seq(Nat)
         /\ Len(DrainStale(ts, cutoff)) <= Len(ts)
  <1> DEFINE fresh == {i \in DOMAIN ts : ts[i] > cutoff}
  <1>1. CASE fresh = {}
    BY <1>1, EmptySeq DEF DrainStale
  <1>2. CASE fresh # {}
    <2>1. fresh \in SUBSET Nat
      BY LenProperties
    <2>2. Min(fresh) \in fresh
      BY <1>2, <2>1, MinIsLeast
    <2>3. Min(fresh) \in 1..Len(ts) /\ Len(ts) \in Nat
      BY <2>2, LenProperties
    <2>4. \A i \in Min(fresh)..Len(ts) : ts[i] \in Nat
      BY <2>3, ElementOfSeq
    <2>5. DrainStale(ts, cutoff) = SubSeq(ts, Min(fresh), Len(ts))
      BY <1>2 DEF DrainStale
    <2> HIDE DEF fresh
    <2>6. /\ SubSeq(ts, Min(fresh), Len(ts)) \in Seq(Nat)
          /\ Len(SubSeq(ts, Min(fresh), Len(ts))) = Len(ts) - Min(fresh) + 1
      BY <2>3, <2>4, SubSeqProperties
    <2> QED BY <2>3, <2>5, <2>6
  <1> QED BY <1>1, <1>2

LEMMA FixedWindowShape ==
  ASSUME NEW st \in FixedWindowState, NEW limit \in Nat \ {0},
         NEW window \in Nat \ {0}, NEW t \in Nat, NEW unix \in Nat,
         st.count <= limit
  PROVE  LET ev == FixedWindow(st, limit, window, t, unix)
         IN /\ ev.state \in FixedWindowState
            /\ ev.state.count <= limit
            /\ ev.result \in DimResults
  <1> DEFINE s == IF WindowElapsed(st, window, t)
                  THEN [count |-> 0, start |-> t, startUnix |-> unix]
                  ELSE st
             reset == s.startUnix + AtLeast1(window \div NanosPerSec)
  <1>1. s \in FixedWindowState /\ s.count <= limit
    BY DEF FixedWindowState
  <1> HIDE DEF s
  <1>2. reset \in Int
    <2>1. AtLeast1(window \div NanosPerSec) \in Nat
      BY DivAtLeast1, ScaleAssumption
    <2> QED BY <1>1, <2>1 DEF FixedWindowState
  <1>3. FixedRetry(s, window, t) \in Nat
    <2>1. SatSub(window, WrapSub(t, s.start)) \in Nat
      BY <1>1, MachineArithmetic DEF FixedWindowState
    <2> QED BY <2>1, DivAtLeast1, ScaleAssumption DEF FixedRetry
  <1> HIDE DEF reset
  <1>4. CASE s.count < limit
    <2>1. FixedWindow(st, limit, window, t, unix)
            = [state |-> [s EXCEPT !.count = @ + 1],
               result |-> Allowed(limit, limit - (s.count + 1), reset)]
      BY <1>4, Zenon DEF s, reset, FixedWindow, UnderQuota
    <2> QED BY <1>1, <1>2, <1>4, <2>1
        DEF Allowed, FixedWindowState, DimResults, NoRetry
  <1>5. CASE ~(s.count < limit)
    <2>1. FixedWindow(st, limit, window, t, unix)
            = [state |-> s,
               result |-> Blocked(limit, reset, FixedRetry(s, window, t))]
      BY <1>5, Zenon DEF s, reset, FixedWindow, UnderQuota
    <2> QED BY <1>1, <1>2, <1>3, <2>1 DEF Blocked, FixedWindowState, DimResults
  <1> QED BY <1>4, <1>5

LEMMA SlidingWindowShape ==
  ASSUME NEW st \in SlidingWindowState, NEW limit \in Nat \ {0},
         NEW window \in Nat \ {0}, NEW t \in Nat, NEW unix \in Nat,
         Len(st.timestamps) <= limit
  PROVE  LET ev == SlidingWindow(st, limit, window, t, unix)
         IN /\ ev.state \in SlidingWindowState
            /\ Len(ev.state.timestamps) <= limit
            /\ ev.result \in DimResults
  <1> DEFINE ts == DrainStale(st.timestamps, SatSub(t, window))
             left == UntilOldestExpires(ts, window, t) \div NanosPerSec
             reset == IF ts # << >> THEN unix + left
                      ELSE unix + window \div NanosPerSec
             retry == IF ts # << >> THEN left ELSE 1
  <1>1. ts \in Seq(Nat) /\ Len(ts) <= limit /\ Len(ts) \in Nat
    <2>1. st.timestamps \in Seq(Nat) /\ SatSub(t, window) \in Nat
      BY MachineArithmetic DEF SlidingWindowState
    <2>2. ts \in Seq(Nat) /\ Len(ts) <= Len(st.timestamps)
      BY <2>1, DrainShape
    <2> QED BY <2>1, <2>2, LenProperties
  <1> HIDE DEF ts
  <1>2. ts # << >> => left \in Nat
    <2> SUFFICES ASSUME ts # << >>
                 PROVE  left \in Nat
      OBVIOUS
    <2>1. ts[1] \in Nat
      BY <1>1, ElementOfSeq, EmptySeq
    <2>2. UntilOldestExpires(ts, window, t) \in Nat
      BY <2>1 DEF UntilOldestExpires, SatSub
    <2> QED BY <2>2, DivNat, ScaleAssumption
  <1>3. window \div NanosPerSec \in Nat
    BY DivNat, ScaleAssumption
  <1> HIDE DEF left
  <1>4. reset \in Int /\ AtLeast1(retry) \in Nat
    BY <1>2, <1>3 DEF AtLeast1
  <1> HIDE DEF reset, retry
  <1>5. CASE Len(ts) < limit
    <2>1. SlidingWindow(st, limit, window, t, unix)
            = [state |-> [timestamps |-> Append(ts, t)],
               result |-> Allowed(limit, limit - Len(ts) - 1, reset)]
      BY <1>5, Zenon DEF ts, left, reset, SlidingWindow, UnderQuota
    <2>2. Append(ts, t) \in Seq(Nat) /\ Len(Append(ts, t)) = Len(ts) + 1
      BY <1>1, AppendProperties
    <2>3. limit - Len(ts) - 1 \in Nat
      BY <1>1, <1>5
    <2> HIDE DEF ts
    <2> QED BY <1>1, <1>4, <1>5, <2>1, <2>2, <2>3
        DEF Allowed, SlidingWindowState, DimResults, NoRetry
  <1>6. CASE ~(Len(ts) < limit)
    <2>1. SlidingWindow(st, limit, window, t, unix)
            = [state |-> [timestamps |-> ts],
               result |-> Blocked(limit, reset, AtLeast1(retry))]
      BY <1>6, Zenon DEF ts, left, reset, retry, SlidingWindow, UnderQuota
    <2> QED BY <1>1, <1>4, <2>1 DEF Blocked, SlidingWindowState, DimResults
  <1> QED BY <1>5, <1>6

(* Refilling keeps the bucket within its capacity, moves its clock to t    *)
(* unless it is ahead of t, and adds at most what the configured rate      *)
(* allows for the time that passed.                                        *)
LEMMA RefillBounds ==
  ASSUME NEW st \in TokenBucketState, NEW limit \in Nat \ {0},
         NEW window \in Nat \ {0}, NEW t \in Nat,
         st.tokens <= limit * Milli
  PROVE  LET s == Refill(st, limit, window, t)
         IN /\ s \in TokenBucketState
            /\ s.tokens <= limit * Milli
            /\ s.lastRefill = IF t > st.lastRefill THEN t ELSE st.lastRefill
            /\ s.tokens * window
                 <= st.tokens * window
                      + (limit * Milli) * (s.lastRefill - st.lastRefill)
  <1> DEFINE elapsed == SatSub(t, st.lastRefill)
             added == TokensToAdd(limit, elapsed, window)
             filled == st.tokens + added
             cap == limit * Milli
  <1>0. /\ st.tokens \in Nat /\ st.lastRefill \in Nat
        /\ cap \in Nat /\ Milli \in Nat
    BY ScaleAssumption DEF TokenBucketState
  <1>1. CASE ~(t > st.lastRefill)
    <2>1. elapsed = 0
      BY <1>0, <1>1 DEF SatSub
    <2>2. Refill(st, limit, window, t) = st
      BY <2>1 DEF Refill
    <2> QED BY <1>0, <1>1, <2>2
  <1>2. CASE t > st.lastRefill
    <2>1. elapsed = t - st.lastRefill /\ elapsed \in Nat /\ elapsed > 0
      BY <1>0, <1>2 DEF SatSub
    <2>2. added \in Nat /\ added * window <= cap * elapsed
      <3>1. cap * elapsed \in Nat
        BY <1>0, <2>1
      <3> QED BY <3>1, DivNat DEF TokensToAdd
    <2> DEFINE new == IF filled <= cap THEN filled ELSE cap
    <2>3. Refill(st, limit, window, t) = [tokens |-> new, lastRefill |-> t]
      BY <2>1 DEF Refill
    <2> HIDE DEF added, elapsed, cap
    <2>4. new \in Nat /\ new <= cap /\ new <= filled /\ filled \in Nat
      BY <1>0, <2>2
    <2> HIDE DEF new
    <2>5. new * window <= filled * window
      BY <2>4
    <2>6. filled * window = st.tokens * window + added * window
      BY <1>0, <2>2
    <2>7. new * window <= st.tokens * window + cap * (t - st.lastRefill)
      <3> HIDE DEF filled
      <3>1. /\ new * window \in Int /\ filled * window \in Int
            /\ st.tokens * window \in Int /\ added * window \in Int
            /\ cap * elapsed \in Int
        BY <1>0, <2>1, <2>2, <2>4
      <3> QED BY <2>1, <2>2, <2>5, <2>6, <3>1
    <2> QED BY <1>2, <2>3, <2>4, <2>7 DEF TokenBucketState, cap
  <1> QED BY <1>1, <1>2

LEMMA TokenRetryNat ==
  ASSUME NEW tokens \in Nat, NEW limit \in Nat \ {0}, NEW window \in Nat \ {0},
         tokens < Milli
  PROVE  TokenRetry(tokens, limit, window) \in Nat
  <1> DEFINE nanos == AtLeast1(((Milli - tokens) * window) \div (limit * Milli))
  <1>1. (Milli - tokens) * window \in Nat /\ limit * Milli \in Nat \ {0}
    BY ScaleAssumption
  <1>2. nanos \in Nat
    BY <1>1, DivAtLeast1
  <1> HIDE DEF nanos
  <1>3. CeilDiv(nanos, NanosPerSec) \in Nat
    BY <1>2, CeilDivNat, ScaleAssumption
  <1>4. AtLeast1(CeilDiv(nanos, NanosPerSec)) \in Nat
    BY <1>3 DEF AtLeast1
  <1> QED BY <1>4, Zenon DEF TokenRetry, nanos

(* An evaluation of a bucket is a refill, followed by the removal of one   *)
(* token exactly when the answer is yes.                                   *)
LEMMA TokenBucketShape ==
  ASSUME NEW st \in TokenBucketState, NEW limit \in Nat \ {0},
         NEW window \in Nat \ {0}, NEW t \in Nat, NEW unix \in Nat,
         st.tokens <= limit * Milli
  PROVE  LET ev == TokenBucket(st, limit, window, t, unix)
             s == Refill(st, limit, window, t)
         IN /\ ev.state \in TokenBucketState
            /\ ev.state.tokens <= limit * Milli
            /\ ev.state.lastRefill = s.lastRefill
            /\ ev.result \in DimResults
            /\ ev.state.tokens = IF ev.result.allowed THEN s.tokens - Milli
                                ELSE s.tokens
  <1> DEFINE s == Refill(st, limit, window, t)
             left == s.tokens - Milli
             needed == limit * Milli - left
             refillSecs == IF needed = 0 THEN 0
                           ELSE AtLeast1(((needed * window) \div (limit * Milli))
                                           \div NanosPerSec)
             retry == TokenRetry(s.tokens, limit, window)
  <1>1. /\ s \in TokenBucketState /\ s.tokens \in Nat /\ s.lastRefill \in Nat
        /\ s.tokens <= limit * Milli
    BY RefillBounds DEF TokenBucketState
  <1>2. Milli \in Nat \ {0} /\ limit * Milli \in Nat \ {0}
    BY ScaleAssumption
  <1> HIDE DEF s
  <1>3. CASE s.tokens >= Milli
    <2>1. left \in Nat /\ needed \in Nat /\ left <= limit * Milli
      BY <1>1, <1>2, <1>3
    <2>2. refillSecs \in Nat
      <3> HIDE DEF needed
      <3>1. needed * window \in Nat
        BY <2>1
      <3>2. (needed * window) \div (limit * Milli) \in Nat
        BY <1>2, <3>1, DivNat
      <3> QED BY <3>2, DivAtLeast1, ScaleAssumption
    <2> HIDE DEF refillSecs
    <2>3. left \div Milli \in Nat
      BY <1>2, <2>1, DivNat
    <2>4. TokenBucket(st, limit, window, t, unix)
            = [state |-> [s EXCEPT !.tokens = left],
               result |-> Allowed(limit, left \div Milli, unix + refillSecs)]
      BY <1>3, Zenon DEF s, left, needed, refillSecs, TokenBucket
    <2> QED BY <1>1, <2>1, <2>2, <2>3, <2>4
        DEF s, Allowed, TokenBucketState, DimResults, NoRetry
  <1>4. CASE ~(s.tokens >= Milli)
    <2>1. retry \in Nat
      BY <1>1, <1>2, <1>4, TokenRetryNat
    <2> HIDE DEF retry
    <2>2. TokenBucket(st, limit, window, t, unix)
            = [state |-> s, result |-> Blocked(limit, unix + retry, retry)]
      BY <1>4, Zenon DEF s, retry, TokenBucket
    <2> QED BY <1>1, <2>1, <2>2 DEF s, Blocked, TokenBucketState, DimResults
  <1> QED BY <1>3, <1>4

(* The three algorithms together. *)
LEMMA EvaluateShape ==
  ASSUME NEW algorithm \in Algorithms, NEW st \in StatesOf(algorithm),
         NEW limit \in Nat \ {0}, NEW window \in Nat \ {0},
         NEW t \in Nat, NEW unix \in Nat, WithinLimit(algorithm, st, limit)
  PROVE  LET ev == Evaluate(algorithm, st, limit, window, t, unix)
         IN /\ ev.state \in StatesOf(algorithm)
            /\ WithinLimit(algorithm, ev.state, limit)
            /\ ev.result \in DimResults
  <1>1. CASE algorithm = "fixed_window"
    <2>1. st \in FixedWindowState /\ st.count <= limit
      BY <1>1 DEF StatesOf, WithinLimit
    <2> QED BY <1>1, <2>1, FixedWindowShape DEF Evaluate, StatesOf, WithinLimit
  <1>2. CASE algorithm = "sliding_window"
    <2>1. st \in SlidingWindowState /\ Len(st.timestamps) <= limit
      BY <1>2 DEF StatesOf, WithinLimit
    <2> QED BY <1>2, <2>1, SlidingWindowShape DEF Evaluate, StatesOf, WithinLimit
  <1>3. CASE algorithm = "token_bucket"
    <2>1. st \in TokenBucketState /\ st.tokens <= limit * Milli
      BY <1>3 DEF StatesOf, WithinLimit
    <2> QED BY <1>3, <2>1, TokenBucketShape DEF Evaluate, StatesOf, WithinLimit
  <1> QED BY <1>1, <1>2, <1>3 DEF Algorithms

(* A new key, and a key the sweep leaves behind, have that shape too. *)
LEMMA NewKeyShape ==
  ASSUME NEW algorithm \in Algorithms, NEW limit \in Nat \ {0},
         NEW t \in Nat, NEW unix \in Nat
  PROVE  LET st == NewKeyState(algorithm, limit, t, unix)
         IN st \in StatesOf(algorithm) /\ WithinLimit(algorithm, st, limit)
  <1>1. limit * Milli \in Nat
    BY ScaleAssumption
  <1>2. << >> \in Seq(Nat) /\ Len(<< >>) = 0
    BY EmptySeq
  <1>3. CASE algorithm = "fixed_window"
    BY <1>3 DEF NewKeyState, StatesOf, WithinLimit, FixedWindowState
  <1>4. CASE algorithm = "sliding_window"
    BY <1>2, <1>4 DEF NewKeyState, StatesOf, WithinLimit, SlidingWindowState
  <1>5. CASE algorithm = "token_bucket"
    BY <1>1, <1>5 DEF NewKeyState, StatesOf, WithinLimit, TokenBucketState
  <1> QED BY <1>3, <1>4, <1>5 DEF Algorithms

LEMMA SweptShape ==
  ASSUME NEW algorithm \in Algorithms, NEW st \in StatesOf(algorithm),
         NEW limit \in Nat \ {0}, NEW window \in Nat \ {0}, NEW t \in Nat,
         WithinLimit(algorithm, st, limit)
  PROVE  LET s == SweptState(algorithm, st, window, t)
         IN s \in StatesOf(algorithm) /\ WithinLimit(algorithm, s, limit)
  <1>1. CASE algorithm = "sliding_window"
    <2> DEFINE ts == DrainStale(st.timestamps, SatSub(t, window))
    <2>1. st.timestamps \in Seq(Nat) /\ Len(st.timestamps) <= limit
      BY <1>1 DEF StatesOf, WithinLimit, SlidingWindowState
    <2>2. SatSub(t, window) \in Nat
      BY DEF SatSub
    <2>3. ts \in Seq(Nat) /\ Len(ts) <= Len(st.timestamps)
      BY <2>1, <2>2, DrainShape
    <2>4. SweptState(algorithm, st, window, t) = [timestamps |-> ts]
      BY <1>1 DEF SweptState
    <2> HIDE DEF ts
    <2>5. Len(ts) \in Nat /\ Len(st.timestamps) \in Nat
      BY <2>1, <2>3, LenProperties
    <2> QED BY <1>1, <2>1, <2>3, <2>4, <2>5
        DEF StatesOf, WithinLimit, SlidingWindowState
  <1>2. CASE algorithm # "sliding_window"
    BY <1>2 DEF SweptState
  <1> QED BY <1>1, <1>2

(***************************************************************************)
(* Verdicts: what an evaluation decides, and the state it leaves.          *)
(***************************************************************************)
LEMMA DivReaches ==
  ASSUME NEW x \in Nat, NEW y \in Nat \ {0}, NEW q \in Nat, q * y <= x
  PROVE  x \div y >= q
  BY Z3

(* A quotient that is at least 1 is rounded up by less than the divisor.   *)
LEMMA RoundedUp ==
  ASSUME NEW x \in Nat, NEW y \in Nat \ {0}
  PROVE  AtLeast1(x \div y) \in Nat /\ x < AtLeast1(x \div y) * y + y
  <1>1. x \div y \in Nat /\ x < (x \div y) * y + y
    BY Z3
  <1> DEFINE q == x \div y
  <1>2. q \in Nat /\ x < q * y + y
    BY <1>1
  <1> HIDE DEF q
  <1>3. AtLeast1(q) \in Nat /\ q <= AtLeast1(q)
    BY <1>2 DEF AtLeast1
  <1> DEFINE r == AtLeast1(q)
  <1>4. r \in Nat /\ q <= r
    BY <1>3
  <1> HIDE DEF r
  <1>5. q * y <= r * y
    BY <1>2, <1>4, Z3
  <1>6. q * y \in Nat /\ r * y \in Nat
    BY <1>2, <1>4
  <1>7. r \in Nat /\ x < r * y + y
    BY <1>2, <1>4, <1>5, <1>6
  <1> QED BY <1>7 DEF r, q

(* A sequence of naturals and its extensions. *)
LEMMA LogFacts ==
  ASSUME NEW log \in Seq(Nat)
  PROVE  /\ Len(log) \in Nat /\ \A i \in 1..Len(log) : log[i] \in Nat
         /\ \A t \in Nat : /\ Append(log, t) \in Seq(Nat)
                           /\ Len(Append(log, t)) = Len(log) + 1
                           /\ \A i \in 1..Len(log) : Append(log, t)[i] = log[i]
                           /\ Append(log, t)[Len(log) + 1] = t
  <1>1. Len(log) \in Nat /\ \A i \in 1..Len(log) : log[i] \in Nat
    BY LenProperties, ElementOfSeq
  <1>2. ASSUME NEW t \in Nat
        PROVE  /\ Append(log, t) \in Seq(Nat)
               /\ Len(Append(log, t)) = Len(log) + 1
               /\ \A i \in 1..Len(log) : Append(log, t)[i] = log[i]
               /\ Append(log, t)[Len(log) + 1] = t
    BY AppendProperties
  <1> QED BY <1>1, <1>2

(* Draining drops stale entries from the front, up to the first fresh one. *)
LEMMA DrainExact ==
  ASSUME NEW ts \in Seq(Nat), NEW cutoff \in Nat
  PROVE  LET d == DrainStale(ts, cutoff)
             gone == Len(ts) - Len(d)
         IN /\ d \in Seq(Nat) /\ Len(d) \in 0..Len(ts)
            /\ \A i \in 1..Len(d) : d[i] = ts[gone + i]
            /\ \A i \in 1..gone : ts[i] <= cutoff
            /\ Len(d) > 0 => d[1] > cutoff
  <1> DEFINE fresh == {i \in DOMAIN ts : ts[i] > cutoff}
             d == DrainStale(ts, cutoff)
             gone == Len(ts) - Len(d)
             n == Len(ts)
  <1>1. DOMAIN ts = 1..n /\ n \in Nat /\ \A i \in 1..n : ts[i] \in Nat
    BY LenProperties, ElementOfSeq
  <1>2. CASE fresh = {}
    <2>1. d = << >>
      BY <1>2 DEF DrainStale
    <2>2. Len(d) = 0 /\ d \in Seq(Nat)
      BY <2>1, EmptySeq
    <2>3. \A i \in 1..n : ts[i] <= cutoff
      BY <1>1, <1>2
    <2> HIDE DEF d, n, fresh
    <2> QED BY <1>1, <2>2, <2>3 DEF d, n
  <1>3. CASE fresh # {}
    <2> DEFINE m == Min(fresh)
    <2>1. fresh \in SUBSET Nat
      BY <1>1
    <2>2. m \in fresh /\ \A i \in fresh : m <= i
      BY <1>3, <2>1, MinIsLeast
    <2>3. m \in 1..n /\ ts[m] > cutoff
      BY <1>1, <2>2
    <2>4. ASSUME NEW i \in 1..(m - 1) PROVE ts[i] <= cutoff
      <3>1. i \in 1..n /\ ~(m <= i)
        BY <1>1, <2>3
      <3>2. i \notin fresh
        BY <2>2, <3>1
      <3> HIDE DEF m
      <3> QED BY <1>1, <3>1, <3>2
    <2>5. d = SubSeq(ts, m, n)
      BY <1>3 DEF DrainStale
    <2> HIDE DEF m, fresh, d
    <2>6. \A i \in m..n : ts[i] \in Nat
      BY <1>1, <2>3
    <2>7. /\ d \in Seq(Nat) /\ Len(d) = n - m + 1
          /\ \A i \in 1..(n - m + 1) : d[i] = ts[m + i - 1]
      BY <1>1, <2>3, <2>5, <2>6, SubSeqProperties
    <2>8. gone = m - 1 /\ Len(d) \in 0..n /\ Len(d) > 0
      BY <1>1, <2>3, <2>7
    <2> HIDE DEF n, gone
    <2>9. ASSUME NEW i \in 1..Len(d) PROVE d[i] = ts[gone + i]
      <3>1. i \in 1..(n - m + 1) /\ m + i - 1 = gone + i
        BY <1>1, <2>3, <2>7, <2>8
      <3> QED BY <2>7, <3>1
    <2>10. d[1] > cutoff
      <3>1. 1 \in 1..(n - m + 1) /\ m + 1 - 1 = m
        BY <1>1, <2>3
      <3> QED BY <2>3, <2>7, <3>1
    <2> QED BY <2>4, <2>7, <2>8, <2>9, <2>10 DEF gone, d, n
  <1> QED BY <1>2, <1>3

LEMMA DrainNothing ==
  ASSUME NEW cutoff \in Nat
  PROVE  DrainStale(<< >>, cutoff) = << >>
  <1>1. << >> \in Seq(Nat) /\ Len(<< >>) = 0
    BY EmptySeq
  <1>2. Len(DrainStale(<< >>, cutoff)) \in 0..Len(<< >>)
        /\ DrainStale(<< >>, cutoff) \in Seq(Nat)
    BY <1>1, DrainExact
  <1> HIDE DEF DrainStale
  <1>3. Len(DrainStale(<< >>, cutoff)) = 0
    BY <1>1, <1>2
  <1> QED BY <1>2, <1>3, EmptySeq

(* What is drained at one cutoff is drained at every later one. *)
LEMMA DrainedStaysDrained ==
  ASSUME NEW ts \in Seq(Nat), NEW cutoff \in Nat, NEW later \in Nat,
         cutoff <= later, DrainStale(ts, cutoff) = << >>
  PROVE  DrainStale(ts, later) = << >>
  <1>1. Len(ts) \in Nat /\ \A i \in 1..Len(ts) : ts[i] \in Nat
    BY LogFacts
  <1>2. \A i \in 1..(Len(ts) - 0) : ts[i] <= cutoff
    <2>1. Len(DrainStale(ts, cutoff)) = 0
      BY EmptySeq
    <2>2. \A i \in 1..(Len(ts) - Len(DrainStale(ts, cutoff))) : ts[i] <= cutoff
      BY DrainExact
    <2> QED BY <2>1, <2>2
  <1>3. \A i \in 1..Len(ts) : ~(ts[i] > later)
    BY <1>1, <1>2
  <1>4. DOMAIN ts = 1..Len(ts)
    BY LenProperties
  <1> QED BY <1>3, <1>4 DEF DrainStale

(* The fixed window that an evaluation finds: the one that was open, or    *)
(* one that starts with the caller's reading.                              *)
OpenCount(st, window, t) == IF t >= st.start + window THEN 0 ELSE st.count
OpenStart(st, window, t) == IF t >= st.start + window THEN t ELSE st.start

LEMMA FixedVerdict ==
  ASSUME NEW st \in FixedWindowState, NEW limit \in Nat \ {0},
         NEW window \in Nat \ {0}, NEW t \in Nat, NEW unix \in Nat
  PROVE  LET ev == FixedWindow(st, limit, window, t, unix)
             count == OpenCount(st, window, t)
         IN /\ ev.state.start = OpenStart(st, window, t)
            /\ count < limit => /\ ev.result.allowed
                                /\ ev.state.count = count + 1
            /\ ~(count < limit) =>
                 /\ ~ev.result.allowed
                 /\ ev.state.count = count
                 /\ ev.result.retry
                      = AtLeast1(SatSub(window, WrapSub(t, OpenStart(st, window, t)))
                                   \div NanosPerSec)
  <1> DEFINE s == IF WindowElapsed(st, window, t)
                  THEN [count |-> 0, start |-> t, startUnix |-> unix] ELSE st
             ev == FixedWindow(st, limit, window, t, unix)
             count == OpenCount(st, window, t)
             start == OpenStart(st, window, t)
  <1>1. s.count = count /\ s.start = start /\ s \in FixedWindowState
    BY DEF WindowElapsed, FixedWindowState, OpenCount, OpenStart
  <1>2. CASE s.count < limit
    <2>1. ev.state = [s EXCEPT !.count = @ + 1] /\ ev.result.allowed
      BY <1>2 DEF FixedWindow, UnderQuota, Allowed
    <2> HIDE DEF s, ev
    <2>2. ev.state.count = s.count + 1 /\ ev.state.start = s.start
      BY <1>1, <2>1 DEF FixedWindowState
    <2> HIDE DEF count, start
    <2> QED BY <1>1, <1>2, <2>1, <2>2 DEF count, start, ev
  <1>3. CASE ~(s.count < limit)
    <2>1. ev.state = s /\ ~ev.result.allowed
          /\ ev.result.retry = AtLeast1(SatSub(window, WrapSub(t, s.start)) \div NanosPerSec)
      BY <1>3 DEF FixedWindow, UnderQuota, Blocked, FixedRetry
    <2> HIDE DEF s, ev, count, start
    <2> QED BY <1>1, <1>3, <2>1 DEF count, start, ev
  <1> QED BY <1>2, <1>3

LEMMA FixedDecides ==
  ASSUME NEW st \in FixedWindowState, NEW limit \in Nat \ {0},
         NEW window \in Nat \ {0}, NEW t \in Nat, NEW unix \in Nat,
         NEW ev, ev = FixedWindow(st, limit, window, t, unix)
  PROVE  LET count == OpenCount(st, window, t)
         IN /\ ev.state.start = OpenStart(st, window, t)
            /\ count < limit => ev.result.allowed /\ ev.state.count = count + 1
            /\ ~(count < limit) => ~ev.result.allowed /\ ev.state.count = count
  BY FixedVerdict

(* A token bucket after an evaluation. *)
LEMMA TokenVerdict ==
  ASSUME NEW st \in TokenBucketState, NEW limit \in Nat \ {0},
         NEW window \in Nat \ {0}, NEW t \in Nat, NEW unix \in Nat,
         st.tokens <= limit * Milli
  PROVE  LET ev == TokenBucket(st, limit, window, t, unix)
             s == Refill(st, limit, window, t)
         IN /\ ev.state.lastRefill = IF t > st.lastRefill THEN t ELSE st.lastRefill
            /\ ev.result.allowed = (s.tokens >= Milli)
            /\ s.tokens < Milli => /\ ev.state = s
                                   /\ ev.result.retry = TokenRetry(s.tokens, limit, window)
  <1> DEFINE ev == TokenBucket(st, limit, window, t, unix)
             s == Refill(st, limit, window, t)
  <1>1. /\ s \in TokenBucketState
        /\ s.lastRefill = IF t > st.lastRefill THEN t ELSE st.lastRefill
    BY RefillBounds
  <1>2. TokenBucket(st, limit, window, t, unix).state.lastRefill
          = Refill(st, limit, window, t).lastRefill
    <2> HIDE DEF s, ev
    <2> QED BY TokenBucketShape
  <1>3. s.tokens \in Nat /\ Milli \in Nat
    BY <1>1, ScaleAssumption DEF TokenBucketState
  <1>4. CASE s.tokens >= Milli
    <2>1. ev.result.allowed = TRUE
      BY <1>4 DEF TokenBucket, Allowed
    <2> HIDE DEF s, ev
    <2>2. (s.tokens >= Milli) = TRUE
      BY <1>4
    <2>3. ev.result.allowed = (s.tokens >= Milli)
      BY <2>1, <2>2, Zenon
    <2>4. ~(s.tokens < Milli)
      BY <1>3, <1>4
    <2> QED BY <1>1, <1>2, <2>3, <2>4 DEF ev, s
  <1>5. CASE ~(s.tokens >= Milli)
    <2>1. ev.result.allowed = FALSE /\ ev.state = s
          /\ ev.result.retry = TokenRetry(s.tokens, limit, window)
      BY <1>5 DEF TokenBucket, Blocked
    <2> HIDE DEF s, ev
    <2>2. (s.tokens >= Milli) = FALSE
      BY <1>5
    <2>3. ev.result.allowed = (s.tokens >= Milli)
      BY <2>1, <2>2, Zenon
    <2> QED BY <1>1, <1>2, <2>1, <2>3 DEF ev, s
  <1> QED BY <1>4, <1>5

(* The verdict of a sliding window. *)
LEMMA SlidingVerdict ==
  ASSUME NEW st \in SlidingWindowState, NEW limit \in Nat \ {0},
         NEW window \in Nat \ {0}, NEW t \in Nat, NEW unix \in Nat
  PROVE  LET ts == DrainStale(st.timestamps, SatSub(t, window))
             ev == SlidingWindow(st, limit, window, t, unix)
         IN /\ Len(ts) < limit => /\ ev.result.allowed
                                  /\ ev.state.timestamps = Append(ts, t)
            /\ ~(Len(ts) < limit) =>
                 /\ ~ev.result.allowed
                 /\ ev.state.timestamps = ts
                 /\ ts # << >> =>
                      ev.result.retry
                        = AtLeast1(UntilOldestExpires(ts, window, t) \div NanosPerSec)
  BY DEF SlidingWindow, UnderQuota, Allowed, Blocked
=============================================================================
