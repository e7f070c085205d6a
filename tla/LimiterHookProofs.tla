------------------------- MODULE LimiterHookProofs -------------------------
(***************************************************************************)
(* Theorems about LimiterHook, for every configuration the operator can    *)
(* write, any set of requests and any number of calls.                     *)
(***************************************************************************)
EXTENDS LimiterHook, RateAlgorithmsProofs, FiniteSetTheorems

(***************************************************************************)
(* What a key's state has to do with the calls that were granted.  granted *)
(* says for every moment how many calls were granted at that moment or     *)
(* later.                                                                  *)
(***************************************************************************)
IsLog(granted, t) ==
  /\ granted \in [Nat -> Nat]
  /\ \A a, b \in Nat : a <= b => granted[b] <= granted[a]
  /\ \A a \in Nat : a > t => granted[a] = 0

Grant(granted, t) == [a \in Nat |-> IF a <= t THEN granted[a] + 1 ELSE granted[a]]

(* The window counts what was granted since it started, and the window     *)
(* before it was within the limit.                                         *)
FixedLog(st, limit, window, granted) ==
  /\ granted[st.start] = st.count
  /\ granted[st.start + window] = 0
  /\ granted[st.start - window + 1] <= limit + st.count
  /\ window < st.start

(* Wherever the deque is cut, the newer part holds as many calls as were   *)
(* granted since: for every moment that no call has forgotten.             *)
SlidingLog(st, window, granted, t) ==
  LET ts == st.timestamps
  IN /\ \A i \in 1..Len(ts) : ts[i] <= t
     /\ \A a \in Nat, n \in 0..Len(ts) :
          /\ a + window > t
          /\ n = 0 \/ ts[n] < a
          /\ n = Len(ts) \/ ts[n + 1] >= a
          => granted[a] = Len(ts) - n

(* What was granted since any moment and what the bucket holds are paid    *)
(* for by its capacity and the refill since.                               *)
TokenLog(st, limit, window, granted) ==
  /\ granted[st.lastRefill + 1] = 0
  /\ \A a \in Nat :
       a <= st.lastRefill =>
         granted[a] * (Milli * window) + st.tokens * window
           <= (limit * Milli) * window + (limit * Milli) * (st.lastRefill - a)

NotAhead(algorithm, st, t) ==
  /\ algorithm = "fixed_window" => st.start <= t
  /\ algorithm = "token_bucket" => st.lastRefill <= t

KeyLog(algorithm, st, limit, window, granted, t) ==
  /\ st \in StatesOf(algorithm) /\ WithinLimit(algorithm, st, limit)
  /\ NotAhead(algorithm, st, t)
  /\ IsLog(granted, t)
  /\ algorithm = "fixed_window" => FixedLog(st, limit, window, granted)
  /\ algorithm = "sliding_window" => SlidingLog(st, window, granted, t)
  /\ algorithm = "token_bucket" => TokenLog(st, limit, window, granted)

(* What a verdict at t says of the window that ends at t.                  *)
Burst(algorithm) == IF algorithm = "sliding_window" THEN 1 ELSE 2
Admits(algorithm, limit, window, granted, t) ==
  granted[t - window + 1] <= limit * Burst(algorithm)
UsedUp(limit, window, granted, t) == granted[t - window + 1] >= limit

LEMMA GrantedLog ==
  ASSUME NEW t \in Nat, NEW granted, IsLog(granted, t)
  PROVE  /\ IsLog(Grant(granted, t), t)
         /\ \A a \in Nat : /\ granted[a] \in Nat
                           /\ a <= t => Grant(granted, t)[a] = granted[a] + 1
                           /\ a > t => Grant(granted, t)[a] = 0
  <1>1. /\ granted \in [Nat -> Nat]
        /\ \A a, b \in Nat : a <= b => granted[b] <= granted[a]
        /\ \A a \in Nat : a > t => granted[a] = 0
    BY DEF IsLog
  <1>2. Grant(granted, t) \in [Nat -> Nat]
    BY <1>1 DEF Grant
  <1>3. \A a \in Nat : /\ a <= t => Grant(granted, t)[a] = granted[a] + 1
                       /\ a > t => Grant(granted, t)[a] = 0
    BY <1>1 DEF Grant
  <1>4. ASSUME NEW a \in Nat, NEW b \in Nat, a <= b
        PROVE  Grant(granted, t)[b] <= Grant(granted, t)[a]
    <2>1. granted[b] <= granted[a] /\ granted[a] \in Nat /\ granted[b] \in Nat
      BY <1>1, <1>4
    <2>2. CASE b <= t
      <3>1. Grant(granted, t)[b] = granted[b] + 1 /\ Grant(granted, t)[a] = granted[a] + 1
        BY <1>3, <1>4, <2>2
      <3> QED BY <2>1, <3>1
    <2>3. CASE b > t
      <3>1. Grant(granted, t)[b] = 0 /\ Grant(granted, t)[a] \in Nat
        BY <1>2, <1>3, <2>3
      <3> QED BY <3>1
    <2> QED BY <2>2, <2>3
  <1>5. IsLog(Grant(granted, t), t)
    BY <1>2, <1>3, <1>4 DEF IsLog
  <1> QED BY <1>1, <1>3, <1>5

(* A fixed window keeps its log, admits at most twice its limit in the     *)
(* window that ends now, and refuses only after as many as its limit.      *)
LEMMA FixedKeepsLog ==
  ASSUME NEW st \in FixedWindowState, NEW limit \in Nat \ {0}, NEW window \in Nat \ {0},
         NEW t \in Nat, NEW unix \in Nat, st.count <= limit, st.start <= t,
         NEW granted, IsLog(granted, t), FixedLog(st, limit, window, granted),
         NEW ev, ev = FixedWindow(st, limit, window, t, unix)
  PROVE  /\ ev.state.start <= t
         /\ ev.result.allowed =>
              /\ FixedLog(ev.state, limit, window, Grant(granted, t))
              /\ Admits("fixed_window", limit, window, Grant(granted, t), t)
         /\ ~ev.result.allowed =>
              /\ FixedLog(ev.state, limit, window, granted)
              /\ UsedUp(limit, window, granted, t)
  <1> DEFINE start == OpenStart(st, window, t)
             count == OpenCount(st, window, t)
             later == Grant(granted, t)
             first == start - window + 1
             next == start + window
             back == t - window + 1
  <1>1. /\ ev.state.start = start
        /\ count < limit => ev.result.allowed /\ ev.state.count = count + 1
        /\ ~(count < limit) => ~ev.result.allowed /\ ev.state.count = count
    BY FixedDecides
  <1>2. st.count \in Nat /\ st.start \in Nat
    BY DEF FixedWindowState
  <1>3. /\ start \in Nat /\ count \in Nat /\ count <= limit
        /\ start <= t /\ t < start + window /\ window < start
        /\ granted[start] = count
        /\ granted[next] = 0
        /\ granted[first] <= limit + count
    <2>1. CASE t >= st.start + window
      <3>1. start = t /\ count = 0
        BY <2>1, <1>2 DEF OpenStart, OpenCount
      <3>2. granted[t] = 0 /\ granted[t + window] = 0
        <4>1. granted[st.start + window] = 0
          BY DEF FixedLog
        <4>2. granted[t] <= granted[st.start + window] /\ granted[t] \in Nat
          BY <1>2, <2>1 DEF IsLog
        <4>3. granted[t + window] = 0
          BY DEF IsLog
        <4> QED BY <4>1, <4>2, <4>3
      <3>3. granted[t - window + 1] <= limit
        <4>1. granted[st.start] = st.count
          BY DEF FixedLog
        <4>2. granted[t - window + 1] <= granted[st.start]
          BY <1>2, <2>1 DEF IsLog
        <4>3. granted[t - window + 1] \in Nat
          BY <1>2, <2>1 DEF IsLog
        <4> QED BY <4>1, <4>2, <4>3, <1>2
      <3> QED BY <2>1, <1>2, <3>1, <3>2, <3>3 DEF FixedLog
    <2>2. CASE t < st.start + window
      <3>1. start = st.start /\ count = st.count
        BY <2>2, <1>2 DEF OpenStart, OpenCount
      <3> QED BY <2>2, <1>2, <3>1 DEF FixedLog
    <2> QED BY <1>2, <2>1, <2>2
  <1> HIDE DEF start, count
  <1>4. /\ back \in Nat /\ first \in Nat /\ next \in Nat
        /\ first <= back /\ back <= start /\ first <= t /\ next > t /\ back <= t
    BY <1>3
  <1> HIDE DEF first, next, back
  <1>5. /\ granted[back] <= granted[first] /\ granted[start] <= granted[back]
        /\ granted[back] \in Nat /\ granted[first] \in Nat
    BY <1>3, <1>4 DEF IsLog
  <1>6. /\ later[start] = granted[start] + 1
        /\ later[first] = granted[first] + 1
        /\ later[next] = 0
        /\ later[back] = granted[back] + 1
    BY <1>3, <1>4, GrantedLog
  <1> HIDE DEF later
  <1>7. CASE count < limit
    <2>1. ev.result.allowed /\ ev.state.count = count + 1
      BY <1>1, <1>7
    <2>2. later[start] = count + 1 /\ later[first] <= limit + (count + 1)
      BY <1>3, <1>5, <1>6
    <2>3. later[back] <= limit * 2
      BY <1>3, <1>5, <1>6, <1>7
    <2>4. FixedLog(ev.state, limit, window, later)
      BY <1>1, <1>3, <1>6, <2>1, <2>2 DEF FixedLog, first, next
    <2>5. Admits("fixed_window", limit, window, later, t)
      BY <2>3 DEF Admits, Burst, back
    <2> QED BY <1>1, <1>3, <2>1, <2>4, <2>5 DEF later
  <1>8. CASE ~(count < limit)
    <2>1. ~ev.result.allowed /\ ev.state.count = count
      BY <1>1, <1>8
    <2>2. granted[back] >= limit
      BY <1>3, <1>5, <1>8
    <2>3. UsedUp(limit, window, granted, t)
      BY <2>2 DEF UsedUp, back
    <2>4. FixedLog(ev.state, limit, window, granted)
      BY <1>1, <1>3, <2>1 DEF FixedLog, first, next
    <2> QED BY <1>1, <1>3, <2>1, <2>3, <2>4
  <1> QED BY <1>7, <1>8

(* A sliding window keeps its log, admits at most its limit in the window  *)
(* that ends now, and refuses only after as many.                          *)
LEMMA SlidingKeepsLog ==
  ASSUME NEW st \in SlidingWindowState, NEW limit \in Nat \ {0}, NEW window \in Nat \ {0},
         NEW t \in Nat, NEW unix \in Nat, window < t,
         NEW granted, IsLog(granted, t), SlidingLog(st, window, granted, t),
         NEW ev, ev = SlidingWindow(st, limit, window, t, unix)
  PROVE  /\ ev.result.allowed =>
              /\ SlidingLog(ev.state, window, Grant(granted, t), t)
              /\ Admits("sliding_window", limit, window, Grant(granted, t), t)
         /\ ~ev.result.allowed =>
              /\ SlidingLog(ev.state, window, granted, t)
              /\ UsedUp(limit, window, granted, t)
  <1> DEFINE ts == st.timestamps
             cutoff == SatSub(t, window)
             d == DrainStale(ts, cutoff)
             gone == Len(ts) - Len(d)
             later == Grant(granted, t)
             back == t - window + 1
  <1>1. /\ Len(d) < limit => /\ ev.result.allowed
                             /\ ev.state.timestamps = Append(d, t)
        /\ ~(Len(d) < limit) => /\ ~ev.result.allowed
                                /\ ev.state.timestamps = d
    BY DEF SlidingWindow, UnderQuota, Allowed, Blocked
  <1>2. ts \in Seq(Nat) /\ cutoff \in Nat /\ cutoff = t - window
    BY MachineArithmetic DEF SlidingWindowState
  <1>3. back \in Nat /\ back = cutoff + 1 /\ back <= t
    BY <1>2
  <1>4. /\ \A i \in 1..Len(ts) : ts[i] <= t
        /\ \A a \in Nat, n \in 0..Len(ts) :
             /\ a + window > t
             /\ n = 0 \/ ts[n] < a
             /\ n = Len(ts) \/ ts[n + 1] >= a
             => granted[a] = Len(ts) - n
    BY DEF SlidingLog
  <1> HIDE DEF ts
  <1>5. /\ d \in Seq(Nat) /\ Len(d) \in 0..Len(ts)
        /\ \A i \in 1..Len(d) : d[i] = ts[gone + i]
        /\ \A i \in 1..gone : ts[i] <= cutoff
        /\ Len(d) > 0 => d[1] > cutoff
    BY <1>2, DrainExact, SMTT(30)
  <1> HIDE DEF d, cutoff, back
  <1>6. Len(ts) \in Nat /\ Len(d) \in Nat /\ gone \in Nat /\ gone + Len(d) = Len(ts)
        /\ (\A i \in 1..Len(ts) : ts[i] \in Nat) /\ (\A i \in 1..Len(d) : d[i] \in Nat)
    BY <1>2, <1>5, LogFacts, SMTT(30)
  <1> HIDE DEF gone
  <1>7. ASSUME NEW i \in 1..Len(d)
        PROVE  d[i] <= t
    <2>1. gone + i \in 1..Len(ts) /\ d[i] = ts[gone + i]
      BY <1>5, <1>6
    <2> QED BY <1>4, <2>1
  (* The deque after the drain. *)
  <1>8. ASSUME NEW a \in Nat, NEW n \in 0..Len(d), a + window > t,
               n = 0 \/ d[n] < a, n = Len(d) \/ d[n + 1] >= a
        PROVE  granted[a] = Len(d) - n
    <2>1. gone + n \in 0..Len(ts) /\ n \in Nat
      BY <1>6
    <2>2. gone + n = 0 \/ ts[gone + n] < a
      <3>1. CASE n = 0 /\ gone > 0
        <4>1. ts[gone] <= cutoff /\ ts[gone] \in Nat
          BY <1>5, <1>6, <3>1
        <4> QED BY <1>2, <1>8, <3>1, <4>1, <1>6
      <3>2. CASE n = 0 /\ gone = 0
        BY <3>2
      <3>3. CASE n # 0
        <4>1. d[n] = ts[gone + n]
          BY <1>5, <2>1, <3>3
        <4> QED BY <1>8, <3>3, <4>1
      <3> QED BY <1>6, <3>1, <3>2, <3>3
    <2>3. gone + n = Len(ts) \/ ts[(gone + n) + 1] >= a
      <3>1. CASE n = Len(d)
        BY <1>6, <3>1
      <3>2. CASE n # Len(d)
        <4>1. n + 1 \in 1..Len(d) /\ gone + (n + 1) = (gone + n) + 1
          BY <1>6, <2>1, <3>2
        <4>2. d[n + 1] = ts[gone + (n + 1)]
          BY <1>5, <4>1
        <4> QED BY <1>8, <3>2, <4>1, <4>2
      <3> QED BY <3>1, <3>2
    <2>4. granted[a] = Len(ts) - (gone + n)
      BY <1>4, <1>8, <2>1, <2>2, <2>3
    <2> QED BY <1>6, <2>1, <2>4
  <1>9. granted[back] = Len(d)
    <2>1. back + window > t /\ 0 \in 0..Len(d)
      BY <1>2, <1>3, <1>6
    <2>2. 0 = Len(d) \/ d[0 + 1] >= back
      BY <1>2, <1>3, <1>5, <1>6
    <2>3. granted[back] = Len(d) - 0
      BY <1>3, <1>8, <2>1, <2>2
    <2> QED BY <1>6, <2>3
  <1>10. CASE Len(d) < limit
    <2> DEFINE e == Append(d, t)
    <2>1. /\ e \in Seq(Nat) /\ Len(e) = Len(d) + 1 /\ e[Len(d) + 1] = t
          /\ \A i \in 1..Len(d) : e[i] = d[i]
      BY <1>5, LogFacts
    <2> HIDE DEF e
    <2>2. ev.result.allowed /\ ev.state.timestamps = e
      BY <1>1, <1>10 DEF e
    <2>3. ASSUME NEW i \in 1..Len(e)
          PROVE  e[i] <= t
      <3>1. CASE i = Len(d) + 1
        BY <2>1, <3>1
      <3>2. CASE i # Len(d) + 1
        <4>1. i \in 1..Len(d)
          BY <1>6, <2>1, <3>2
        <4> QED BY <1>7, <2>1, <4>1
      <3> QED BY <3>1, <3>2
    <2>4. ASSUME NEW a \in Nat, NEW n \in 0..Len(e), a + window > t,
                 n = 0 \/ e[n] < a, n = Len(e) \/ e[n + 1] >= a
          PROVE  later[a] = Len(e) - n
      <3>1. CASE a > t
        <4>1. later[a] = 0
          BY <3>1, GrantedLog
        <4>2. n = Len(e)
          <5> SUFFICES ASSUME n # Len(e) PROVE FALSE
            OBVIOUS
          <5>1. n + 1 \in 1..Len(e) /\ e[n + 1] >= a
            BY <1>6, <2>1, <2>4
          <5>2. e[n + 1] <= t /\ e[n + 1] \in Nat
            BY <2>1, <2>3, <5>1, LogFacts
          <5> QED BY <3>1, <5>1, <5>2
        <4> QED BY <1>6, <2>1, <4>1, <4>2
      <3>2. CASE a <= t
        <4>1. later[a] = granted[a] + 1
          BY <3>2, GrantedLog
        <4>2. n \in 0..Len(d)
          <5>1. n # Len(d) + 1
            BY <1>6, <2>1, <2>4, <3>2
          <5> QED BY <1>6, <2>1, <5>1
        <4>3. n = 0 \/ d[n] < a
          BY <2>1, <2>4, <4>2
        <4>4. n = Len(d) \/ d[n + 1] >= a
          <5> SUFFICES ASSUME n # Len(d) PROVE d[n + 1] >= a
            OBVIOUS
          <5>1. n + 1 \in 1..Len(d) /\ n # Len(e)
            BY <1>6, <2>1, <4>2
          <5> QED BY <2>1, <2>4, <5>1
        <4>5. granted[a] = Len(d) - n
          BY <1>8, <2>4, <4>2, <4>3, <4>4
        <4> QED BY <1>6, <2>1, <4>1, <4>5
      <3> QED BY <3>1, <3>2
    <2>5. SlidingLog(ev.state, window, later, t)
      <3> HIDE DEF later
      <3> QED BY <2>2, <2>3, <2>4 DEF SlidingLog
    <2>6. later[back] <= limit * 1
      <3>1. later[back] = granted[back] + 1
        BY <1>3, GrantedLog
      <3> QED BY <1>6, <1>9, <1>10, <3>1
    <2>7. Admits("sliding_window", limit, window, later, t)
      BY <2>6 DEF Admits, Burst, back
    <2> QED BY <2>2, <2>5, <2>7
  <1>11. CASE ~(Len(d) < limit)
    <2>1. ~ev.result.allowed /\ ev.state.timestamps = d
      BY <1>1, <1>11
    <2>2. SlidingLog(ev.state, window, granted, t)
      BY <1>7, <1>8, <2>1 DEF SlidingLog
    <2>3. UsedUp(limit, window, granted, t)
      BY <1>6, <1>9, <1>11 DEF UsedUp, back
    <2> QED BY <2>1, <2>2, <2>3
  <1> QED BY <1>10, <1>11

(* A token bucket keeps its log, and admits in the window that ends now at *)
(* most twice its limit: its capacity and the refill.                      *)
LEMMA TokenKeepsLog ==
  ASSUME NEW st \in TokenBucketState, NEW limit \in Nat \ {0}, NEW window \in Nat \ {0},
         NEW t \in Nat, NEW unix \in Nat, window < t,
         st.tokens <= limit * Milli, st.lastRefill <= t,
         NEW granted, IsLog(granted, t), TokenLog(st, limit, window, granted),
         NEW ev, ev = TokenBucket(st, limit, window, t, unix)
  PROVE  /\ ev.state.lastRefill <= t
         /\ ev.result.allowed =>
              /\ TokenLog(ev.state, limit, window, Grant(granted, t))
              /\ Admits("token_bucket", limit, window, Grant(granted, t), t)
         /\ ~ev.result.allowed => TokenLog(ev.state, limit, window, granted)
  <1> DEFINE s == Refill(st, limit, window, t)
             later == Grant(granted, t)
             back == t - window + 1
             cap == limit * Milli
             price == Milli * window
  <1>1. /\ s \in TokenBucketState /\ s.tokens <= cap
        /\ s.lastRefill = IF t > st.lastRefill THEN t ELSE st.lastRefill
        /\ s.tokens * window <= st.tokens * window + cap * (s.lastRefill - st.lastRefill)
    BY RefillBounds
  <1>2. /\ ev.state.lastRefill = s.lastRefill
        /\ ev.state.tokens = IF ev.result.allowed THEN s.tokens - Milli ELSE s.tokens
    BY TokenBucketShape
  <1>3. /\ cap \in Nat /\ price \in Nat \ {0} /\ Milli \in Nat \ {0}
    BY ScaleAssumption
  <1>4. /\ st.tokens \in Nat /\ st.lastRefill \in Nat
        /\ s.tokens \in Nat /\ s.lastRefill \in Nat
    BY <1>1 DEF TokenBucketState
  <1>5. s.lastRefill = t
    BY <1>1, <1>4
  <1>6. /\ granted[st.lastRefill + 1] = 0
        /\ \A a \in Nat : a <= st.lastRefill =>
             granted[a] * price + st.tokens * window
               <= cap * window + cap * (st.lastRefill - a)
    BY DEF TokenLog
  <1> HIDE DEF s, cap, price
  <1>7. ASSUME NEW a \in Nat, a <= t
        PROVE  granted[a] * price + s.tokens * window <= cap * window + cap * (t - a)
    <2>1. granted[a] \in Nat
      BY DEF IsLog
    <2>2. CASE a <= st.lastRefill
      <3>1. granted[a] * price + st.tokens * window
              <= cap * window + cap * (st.lastRefill - a)
        BY <1>6, <2>2
      <3>2. s.tokens * window <= st.tokens * window + cap * (t - st.lastRefill)
        BY <1>1, <1>5
      <3>3. cap * (st.lastRefill - a) + cap * (t - st.lastRefill) = cap * (t - a)
        BY <1>3, <1>4, Z3
      <3>4. /\ granted[a] * price \in Int /\ st.tokens * window \in Int
            /\ cap * window \in Int /\ s.tokens * window \in Int
            /\ cap * (st.lastRefill - a) \in Int
            /\ cap * (t - st.lastRefill) \in Int /\ cap * (t - a) \in Int
        <4>1. /\ window \in Int /\ st.lastRefill - a \in Int
              /\ t - st.lastRefill \in Int /\ t - a \in Int
          BY <1>4
        <4>2. \A m, n \in Int : m * n \in Int
          OBVIOUS
        <4> QED BY <1>3, <1>4, <2>1, <4>1, <4>2
      <3>5. \A x, y, z, w, p, q, r \in Int :
              x + y <= z + p /\ w <= y + q /\ p + q = r => x + w <= z + r
        OBVIOUS
      <3> QED BY <3>1, <3>2, <3>3, <3>4, <3>5
    <2>3. CASE a > st.lastRefill
      <3>1. granted[a] = 0
        <4>1. granted[a] <= granted[st.lastRefill + 1]
          BY <1>4, <2>3 DEF IsLog
        <4> QED BY <1>6, <2>1, <4>1
      <3>2. s.tokens * window <= cap * window
        BY <1>1, <1>3, <1>4, Z3
      <3>3. cap * (t - a) >= 0
        BY <1>3, <1>7, Z3
      <3>4. granted[a] * price = 0
        BY <1>3, <3>1
      <3>5. PICK x \in Int, w \in Int, z \in Int, r \in Int :
              /\ x = granted[a] * price /\ w = s.tokens * window
              /\ z = cap * window /\ r = cap * (t - a)
        BY <1>3, <1>4, <2>1
      <3>6. x + w <= z + r
        BY <3>2, <3>3, <3>4, <3>5
      <3> QED BY <3>5, <3>6
    <2> QED BY <1>4, <2>2, <2>3
  <1>8. granted[t + 1] = 0
    BY DEF IsLog
  <1>9. CASE ev.result.allowed
    <2>1. ev.state.tokens = s.tokens - Milli
      BY <1>2, <1>9
    <2>2. later[t + 1] = 0
      BY GrantedLog
    <2>3. ASSUME NEW a \in Nat, a <= t
          PROVE  later[a] * price + ev.state.tokens * window <= cap * window + cap * (t - a)
      <3>1. granted[a] \in Nat /\ later[a] = granted[a] + 1
        BY <2>3, GrantedLog
      <3>2. (granted[a] + 1) * price + (s.tokens - Milli) * window
              = granted[a] * price + s.tokens * window
        <4>1. (granted[a] + 1) * price = granted[a] * price + price
          BY <1>3, <3>1, Z3
        <4>2. (s.tokens - Milli) * window = s.tokens * window - price
          BY <1>3, <1>4, Z3 DEF price
        <4>3. PICK x \in Int, y \in Int : x = granted[a] * price /\ y = s.tokens * window
          BY <1>3, <1>4, <3>1
        <4> QED BY <1>3, <4>1, <4>2, <4>3
      <3> QED BY <1>7, <2>1, <2>3, <3>1, <3>2
    <2>4. TokenLog(ev.state, limit, window, later)
      BY <1>2, <1>5, <2>2, <2>3 DEF TokenLog, cap, price
    <2>5. later[back] <= limit * 2
      <3>1. back \in Nat /\ back <= t /\ t - back = window - 1
        OBVIOUS
      <3>2. granted[back] \in Nat /\ later[back] = granted[back] + 1
        BY <3>1, GrantedLog
      <3>3. s.tokens >= Milli
        <4>1. s.tokens < Milli => ev.result = Blocked(limit, unix + TokenRetry(s.tokens, limit, window),
                                                   TokenRetry(s.tokens, limit, window))
          BY <1>3, <1>4 DEF TokenBucket, s
        <4> QED BY <1>3, <1>4, <1>9, <4>1 DEF Blocked
      <3>4. s.tokens * window >= price
        BY <1>3, <1>4, <3>3, Z3 DEF price
      <3>5. granted[back] * price + s.tokens * window <= cap * window + cap * (window - 1)
        BY <1>7, <3>1
      <3>6. cap * window = limit * price
        BY <1>3, Z3 DEF cap, price
      <3>7. cap * (window - 1) <= limit * price
        BY <1>3, Z3 DEF cap, price
      <3>8. (granted[back] + 1) * price <= (limit * 2) * price
        <4>1. PICK x \in Int, y \in Int, z \in Int, q \in Int :
                /\ x = granted[back] * price /\ y = s.tokens * window
                /\ z = limit * price /\ q = cap * (window - 1)
          BY <1>3, <1>4, <3>2
        <4>2. (granted[back] + 1) * price = x + price
          BY <1>3, <3>2, <4>1, Z3
        <4>3. (limit * 2) * price = z + z
          BY <1>3, <4>1, Z3
        <4> QED BY <1>3, <3>4, <3>5, <3>6, <3>7, <4>1, <4>2, <4>3
      <3>9. granted[back] + 1 <= limit * 2
        <4>1. PICK n \in Nat, m \in Nat, p \in Nat \ {0} :
                n = granted[back] + 1 /\ m = limit * 2 /\ p = price /\ n * p <= m * p
          BY <1>3, <3>2, <3>8
        <4>2. n <= m
          BY <4>1, Z3
        <4> QED BY <4>1, <4>2
      <3> QED BY <3>2, <3>9
    <2>6. Admits("token_bucket", limit, window, later, t)
      BY <2>5 DEF Admits, Burst
    <2> QED BY <1>2, <1>5, <1>9, <2>4, <2>6
  <1>10. CASE ~ev.result.allowed
    <2>1. ev.state.tokens = s.tokens
      BY <1>2, <1>10
    <2>2. TokenLog(ev.state, limit, window, granted)
      BY <1>2, <1>5, <1>7, <1>8, <2>1 DEF TokenLog, cap, price
    <2> QED BY <1>2, <1>5, <1>10, <2>2
  <1> QED BY <1>9, <1>10

(***************************************************************************)
(* The three algorithms together.                                          *)
(***************************************************************************)
LEMMA LogAges ==
  ASSUME NEW algorithm, NEW st, NEW limit, NEW window \in Nat, NEW granted,
         NEW t \in Nat, NEW u \in Nat, t <= u, algorithm \in Algorithms,
         KeyLog(algorithm, st, limit, window, granted, t)
  PROVE  KeyLog(algorithm, st, limit, window, granted, u)
  <1>1. IsLog(granted, u)
    BY DEF KeyLog, IsLog
  <1>2. NotAhead(algorithm, st, u)
    BY DEF KeyLog, NotAhead, StatesOf, FixedWindowState, TokenBucketState
  <1>3. algorithm = "sliding_window" => SlidingLog(st, window, granted, u)
    <2> SUFFICES ASSUME algorithm = "sliding_window"
                 PROVE  SlidingLog(st, window, granted, u)
      OBVIOUS
    <2>1. st.timestamps \in Seq(Nat) /\ SlidingLog(st, window, granted, t)
      BY DEF KeyLog, StatesOf, SlidingWindowState
    <2>2. \A i \in 1..Len(st.timestamps) : st.timestamps[i] <= u
      <3>1. \A i \in 1..Len(st.timestamps) : st.timestamps[i] \in Nat /\ st.timestamps[i] <= t
        BY <2>1, LogFacts DEF SlidingLog
      <3> QED BY <3>1
    <2>3. \A a \in Nat : a + window > u => a + window > t
      OBVIOUS
    <2> QED BY <2>1, <2>2, <2>3, SMTT(30) DEF SlidingLog
  <1> QED BY <1>1, <1>2, <1>3 DEF KeyLog

(* A new key's log is empty.                                               *)
LEMMA LogStarts ==
  ASSUME NEW algorithm \in Algorithms, NEW limit \in Nat \ {0}, NEW window \in Nat \ {0},
         NEW t \in Nat, NEW unix \in Nat, window < t,
         NEW granted \in [Nat -> Nat], \A a \in Nat : granted[a] = 0
  PROVE  KeyLog(algorithm, NewKeyState(algorithm, limit, t, unix), limit, window, granted, t)
  <1> DEFINE st == NewKeyState(algorithm, limit, t, unix)
  <1>1. st \in StatesOf(algorithm) /\ WithinLimit(algorithm, st, limit)
    BY NewKeyShape
  <1>2. IsLog(granted, t)
    BY DEF IsLog
  <1>3. CASE algorithm = "fixed_window"
    <2>1. st = [count |-> 0, start |-> t, startUnix |-> unix]
      BY <1>3 DEF NewKeyState
    <2>2. st.count = 0 /\ st.start = t
      BY <2>1
    <2>3. t - window + 1 \in Nat /\ t + window \in Nat
      OBVIOUS
    <2>4. FixedLog(st, limit, window, granted)
      <3> HIDE DEF st
      <3> QED BY <2>2, <2>3 DEF FixedLog
    <2> HIDE DEF st
    <2> QED BY <1>1, <1>2, <1>3, <2>2, <2>4 DEF KeyLog, NotAhead, st
  <1>4. CASE algorithm = "sliding_window"
    <2>1. st.timestamps = << >>
      BY <1>4 DEF NewKeyState
    <2>2. SlidingLog(st, window, granted, t)
      <3> HIDE DEF st
      <3>1. Len(st.timestamps) = 0
        BY <2>1
      <3> QED BY <3>1 DEF SlidingLog
    <2> HIDE DEF st
    <2> QED BY <1>1, <1>2, <1>4, <2>2 DEF KeyLog, NotAhead, st
  <1>5. CASE algorithm = "token_bucket"
    <2>1. st.tokens = limit * Milli /\ st.lastRefill = t
      BY <1>5 DEF NewKeyState
    <2>2. TokenLog(st, limit, window, granted)
      <3> HIDE DEF st
      <3>1. limit * Milli \in Nat /\ Milli * window \in Nat
        BY ScaleAssumption
      <3>2. ASSUME NEW a \in Nat, a <= t
            PROVE  granted[a] * (Milli * window) + st.tokens * window
                     <= (limit * Milli) * window + (limit * Milli) * (t - a)
        <4>1. granted[a] * (Milli * window) = 0
          BY <3>1
        <4>2. \A x, y \in Nat : x * y \in Nat
          OBVIOUS
        <4>3. (limit * Milli) * (t - a) \in Nat /\ (limit * Milli) * window \in Nat
          <5>1. t - a \in Nat
            BY <3>2
          <5> QED BY <3>1, <4>2, <5>1
        <4> QED BY <2>1, <4>1, <4>3
      <3> QED BY <2>1, <3>2 DEF TokenLog
    <2> HIDE DEF st
    <2> QED BY <1>1, <1>2, <1>5, <2>1, <2>2 DEF KeyLog, NotAhead, st
  <1> QED BY <1>3, <1>4, <1>5 DEF Algorithms

(* An evaluation keeps the log and decides by it.                          *)
LEMMA LogKept ==
  ASSUME NEW algorithm \in Algorithms, NEW st, NEW limit \in Nat \ {0},
         NEW window \in Nat \ {0}, NEW t \in Nat, NEW unix \in Nat, window < t,
         NEW granted, KeyLog(algorithm, st, limit, window, granted, t),
         NEW ev, ev = Evaluate(algorithm, st, limit, window, t, unix)
  PROVE  /\ ev.result \in DimResults
         /\ ev.result.allowed =>
              /\ KeyLog(algorithm, ev.state, limit, window, Grant(granted, t), t)
              /\ Admits(algorithm, limit, window, Grant(granted, t), t)
         /\ ~ev.result.allowed =>
              /\ KeyLog(algorithm, ev.state, limit, window, granted, t)
              /\ algorithm # "token_bucket" => UsedUp(limit, window, granted, t)
  <1>1. /\ st \in StatesOf(algorithm) /\ WithinLimit(algorithm, st, limit)
        /\ NotAhead(algorithm, st, t) /\ IsLog(granted, t)
    BY DEF KeyLog
  <1>2. /\ ev.state \in StatesOf(algorithm) /\ WithinLimit(algorithm, ev.state, limit)
        /\ ev.result \in DimResults
    BY <1>1, EvaluateShape
  <1>3. IsLog(Grant(granted, t), t)
    BY <1>1, GrantedLog
  <1>4. CASE algorithm = "fixed_window"
    <2>1. /\ st \in FixedWindowState /\ st.count <= limit /\ st.start <= t
          /\ FixedLog(st, limit, window, granted)
          /\ ev = FixedWindow(st, limit, window, t, unix)
      BY <1>1, <1>4 DEF KeyLog, StatesOf, WithinLimit, NotAhead, Evaluate
    <2>2. /\ ev.state.start <= t
          /\ ev.result.allowed =>
               /\ FixedLog(ev.state, limit, window, Grant(granted, t))
               /\ Admits(algorithm, limit, window, Grant(granted, t), t)
          /\ ~ev.result.allowed =>
               /\ FixedLog(ev.state, limit, window, granted)
               /\ UsedUp(limit, window, granted, t)
      BY <1>1, <1>4, <2>1, FixedKeepsLog
    <2> QED BY <1>1, <1>2, <1>3, <1>4, <2>2 DEF KeyLog, NotAhead
  <1>5. CASE algorithm = "sliding_window"
    <2>1. /\ st \in SlidingWindowState /\ SlidingLog(st, window, granted, t)
          /\ ev = SlidingWindow(st, limit, window, t, unix)
      BY <1>1, <1>5 DEF KeyLog, StatesOf, Evaluate
    <2>2. /\ ev.result.allowed =>
               /\ SlidingLog(ev.state, window, Grant(granted, t), t)
               /\ Admits(algorithm, limit, window, Grant(granted, t), t)
          /\ ~ev.result.allowed =>
               /\ SlidingLog(ev.state, window, granted, t)
               /\ UsedUp(limit, window, granted, t)
      BY <1>1, <1>5, <2>1, SlidingKeepsLog
    <2> QED BY <1>1, <1>2, <1>3, <1>5, <2>2 DEF KeyLog, NotAhead
  <1>6. CASE algorithm = "token_bucket"
    <2>1. /\ st \in TokenBucketState /\ st.tokens <= limit * Milli /\ st.lastRefill <= t
          /\ TokenLog(st, limit, window, granted)
          /\ ev = TokenBucket(st, limit, window, t, unix)
      BY <1>1, <1>6 DEF KeyLog, StatesOf, WithinLimit, NotAhead, Evaluate
    <2>2. /\ ev.state.lastRefill <= t
          /\ ev.result.allowed =>
               /\ TokenLog(ev.state, limit, window, Grant(granted, t))
               /\ Admits(algorithm, limit, window, Grant(granted, t), t)
          /\ ~ev.result.allowed => TokenLog(ev.state, limit, window, granted)
      BY <1>1, <1>6, <2>1, TokenKeepsLog
    <2> QED BY <1>1, <1>2, <1>3, <1>6, <2>2 DEF KeyLog, NotAhead
  <1> QED BY <1>4, <1>5, <1>6 DEF Algorithms

(***************************************************************************)
(* The room that a key leaves: how many calls it would still admit at a    *)
(* moment.                                                                 *)
(***************************************************************************)
Room(algorithm, st, limit, window, t) ==
  CASE algorithm = "fixed_window" ->
         IF WindowElapsed(st, window, t) THEN limit ELSE limit - st.count
    [] algorithm = "sliding_window" ->
         limit - Len(DrainStale(st.timestamps, SatSub(t, window)))
    [] algorithm = "token_bucket" -> Refill(st, limit, window, t).tokens \div Milli

(* A state that an evaluation at t may meet.                               *)
Met(algorithm, st, limit, t) ==
  st \in StatesOf(algorithm) /\ WithinLimit(algorithm, st, limit) /\ NotAhead(algorithm, st, t)

LEMMA DivMonotone ==
  ASSUME NEW x \in Nat, NEW y \in Nat, x <= y, NEW d \in Nat \ {0}
  PROVE  x \div d <= y \div d
  <1>1. x \div d \in Nat /\ (x \div d) * d <= x
    BY DivNat
  <1>2. (x \div d) * d <= y
    BY <1>1, Z3
  <1> QED BY <1>1, <1>2, DivReaches

LEMMA DrainsMore ==
  ASSUME NEW ts \in Seq(Nat), NEW c \in Nat, NEW e \in Nat, c <= e
  PROVE  Len(DrainStale(ts, e)) <= Len(DrainStale(ts, c))
  <1> DEFINE d == DrainStale(ts, c)
             f == DrainStale(ts, e)
  <1>1. /\ Len(d) \in 0..Len(ts) /\ Len(ts) \in Nat
        /\ \A i \in 1..(Len(ts) - Len(d)) : ts[i] <= c
    BY DrainExact, LogFacts
  <1>2. /\ Len(f) \in 0..Len(ts) /\ f \in Seq(Nat)
        /\ \A i \in 1..Len(f) : f[i] = ts[Len(ts) - Len(f) + i]
        /\ Len(f) > 0 => f[1] > e
    BY DrainExact
  <1> HIDE DEF d, f
  <1>3. ASSUME Len(d) < Len(f) PROVE FALSE
    <2> DEFINE i == Len(ts) - Len(f) + 1
    <2>1. i \in 1..(Len(ts) - Len(d)) /\ 1 \in 1..Len(f)
      BY <1>1, <1>2, <1>3
    <2>2. ts[i] <= c /\ ts[i] = f[1] /\ f[1] > e
      BY <1>1, <1>2, <1>3, <2>1
    <2>3. ts[i] \in Nat
      BY <1>1, <2>1, LogFacts
    <2> HIDE DEF i
    <2> QED BY <2>2, <2>3
  <1> QED BY <1>1, <1>2, <1>3 DEF d, f

(* Time takes no room away.                                                *)
LEMMA RoomGrows ==
  ASSUME NEW algorithm \in Algorithms, NEW st, NEW limit \in Nat \ {0},
         NEW window \in Nat \ {0}, NEW t \in Nat, NEW u \in Nat, t <= u,
         Met(algorithm, st, limit, t)
  PROVE  Room(algorithm, st, limit, window, t) <= Room(algorithm, st, limit, window, u)
  <1>1. CASE algorithm = "fixed_window"
    <2>1. st \in FixedWindowState /\ st.count <= limit
      BY <1>1 DEF Met, StatesOf, WithinLimit
    <2>2. WindowElapsed(st, window, t) => WindowElapsed(st, window, u)
      BY <2>1 DEF WindowElapsed, FixedWindowState
    <2> QED BY <1>1, <2>1, <2>2 DEF Room, FixedWindowState
  <1>2. CASE algorithm = "sliding_window"
    <2>1. st.timestamps \in Seq(Nat)
      BY <1>2 DEF Met, StatesOf, SlidingWindowState
    <2>2. SatSub(t, window) \in Nat /\ SatSub(u, window) \in Nat
          /\ SatSub(t, window) <= SatSub(u, window)
      BY DEF SatSub
    <2> DEFINE c == SatSub(t, window)
               e == SatSub(u, window)
    <2> HIDE DEF c, e
    <2>3. Len(DrainStale(st.timestamps, e)) <= Len(DrainStale(st.timestamps, c))
      BY <2>1, <2>2, DrainsMore DEF c, e
    <2>4. Len(DrainStale(st.timestamps, e)) \in Nat /\ Len(DrainStale(st.timestamps, c)) \in Nat
      BY <2>1, <2>2, DrainShape, LogFacts DEF c, e
    <2>5. /\ Room(algorithm, st, limit, window, t) = limit - Len(DrainStale(st.timestamps, c))
          /\ Room(algorithm, st, limit, window, u) = limit - Len(DrainStale(st.timestamps, e))
      BY <1>2 DEF Room, c, e
    <2> QED BY <2>3, <2>4, <2>5
  <1>3. CASE algorithm = "token_bucket"
    <2>1. st \in TokenBucketState /\ st.tokens <= limit * Milli /\ st.lastRefill <= t
      BY <1>3 DEF Met, StatesOf, WithinLimit, NotAhead
    <2>2. st.tokens \in Nat /\ st.lastRefill \in Nat /\ limit * Milli \in Nat
      BY <2>1, ScaleAssumption DEF TokenBucketState
    <2> DEFINE a == Refill(st, limit, window, t)
               b == Refill(st, limit, window, u)
    <2>3. a.tokens \in Nat /\ b.tokens \in Nat
      BY <2>1, RefillBounds DEF TokenBucketState
    <2>4. a.tokens <= b.tokens
      <3> DEFINE x == SatSub(t, st.lastRefill)
                 y == SatSub(u, st.lastRefill)
                 cap == limit * Milli
      <3>1. x \in Nat /\ y \in Nat /\ x <= y /\ (x > 0 => y > 0)
        BY <2>1, <2>2 DEF SatSub
      <3> HIDE DEF x, y
      <3>2. cap * x \in Nat /\ cap * y \in Nat /\ cap * x <= cap * y
        <4> HIDE DEF cap
        <4>1. cap \in Nat
          BY <2>2 DEF cap
        <4> QED BY <3>1, <4>1, Z3
      <3>3. (cap * x) \div window <= (cap * y) \div window
        BY <3>2, DivMonotone
      <3>4. (cap * x) \div window \in Nat /\ (cap * y) \div window \in Nat
        BY <3>2, DivNat
      <3>5. /\ a.tokens = IF x > 0
                          THEN IF st.tokens + (cap * x) \div window <= cap
                               THEN st.tokens + (cap * x) \div window ELSE cap
                          ELSE st.tokens
            /\ b.tokens = IF y > 0
                          THEN IF st.tokens + (cap * y) \div window <= cap
                               THEN st.tokens + (cap * y) \div window ELSE cap
                          ELSE st.tokens
        BY DEF Refill, TokensToAdd, x, y
      <3> DEFINE p == (cap * x) \div window
                 q == (cap * y) \div window
      <3>6. p \in Nat /\ q \in Nat /\ p <= q /\ cap \in Nat /\ st.tokens <= cap
        BY <2>1, <2>2, <3>3, <3>4
      <3> HIDE DEF p, q, cap, a, b
      <3>7. /\ a.tokens = IF x > 0 THEN IF st.tokens + p <= cap THEN st.tokens + p ELSE cap
                          ELSE st.tokens
            /\ b.tokens = IF y > 0 THEN IF st.tokens + q <= cap THEN st.tokens + q ELSE cap
                          ELSE st.tokens
        BY <3>5 DEF p, q
      <3> QED BY <2>2, <3>1, <3>6, <3>7
    <2>5. a.tokens \div Milli <= b.tokens \div Milli
      BY <2>3, <2>4, DivMonotone, ScaleAssumption
    <2> QED BY <1>3, <2>5 DEF Room
  <1> QED BY <1>1, <1>2, <1>3 DEF Algorithms

(* An evaluation admits a call if there is room, takes one and says how    *)
(* much is left.                                                           *)
LEMMA FixedRoomSpent ==
  ASSUME NEW st, NEW limit \in Nat \ {0}, NEW window \in Nat \ {0},
         NEW t \in Nat, NEW unix \in Nat, Met("fixed_window", st, limit, t),
         NEW ev, ev = FixedWindow(st, limit, window, t, unix),
         NEW room, room = Room("fixed_window", st, limit, window, t)
  PROVE  /\ room \in Nat /\ (ev.result.allowed <=> room >= 1)
         /\ ev.result.allowed =>
              /\ ev.result.limit = limit /\ ev.result.remaining = room - 1
              /\ Room("fixed_window", ev.state, limit, window, t) = room - 1
  <1> DEFINE s == IF WindowElapsed(st, window, t)
                  THEN [count |-> 0, start |-> t, startUnix |-> unix]
                  ELSE st
             reset == s.startUnix + AtLeast1(window \div NanosPerSec)
  <1>0. st \in FixedWindowState /\ st.count <= limit
    BY DEF Met, StatesOf, WithinLimit
  <1>1. /\ s \in FixedWindowState /\ s.count <= limit /\ room = limit - s.count
        /\ ~WindowElapsed(s, window, t)
    BY <1>0 DEF Room, WindowElapsed, FixedWindowState
  <1>2. ev = IF UnderQuota(s.count, limit)
             THEN [state |-> [s EXCEPT !.count = @ + 1],
                   result |-> Allowed(limit, limit - (s.count + 1), reset)]
             ELSE [state |-> s,
                   result |-> Blocked(limit, reset, FixedRetry(s, window, t))]
    BY Zenon DEF FixedWindow
  <1> HIDE DEF s, reset
  <1>3. s.count \in Nat /\ s.start \in Nat /\ room \in Nat
    BY <1>1 DEF FixedWindowState
  <1>4. CASE s.count < limit
    <2>1. ev.state = [s EXCEPT !.count = @ + 1] /\ ev.result = Allowed(limit, limit - (s.count + 1), reset)
      BY <1>2, <1>4 DEF UnderQuota
    <2>2. ev.state.count = s.count + 1 /\ ev.state.start = s.start
      BY <1>1, <2>1 DEF FixedWindowState
    <2>3. ~WindowElapsed(ev.state, window, t)
      BY <1>1, <2>2 DEF WindowElapsed
    <2>4. Room("fixed_window", ev.state, limit, window, t) = limit - (s.count + 1)
      BY <2>2, <2>3 DEF Room
    <2> QED BY <1>1, <1>3, <1>4, <2>1, <2>4 DEF Allowed
  <1>5. CASE ~(s.count < limit)
    <2>1. ev.result = Blocked(limit, reset, FixedRetry(s, window, t))
      BY <1>2, <1>5 DEF UnderQuota
    <2> QED BY <1>1, <1>3, <1>5, <2>1 DEF Blocked
  <1> QED BY <1>4, <1>5

LEMMA SlidingRoomSpent ==
  ASSUME NEW st \in SlidingWindowState, NEW limit \in Nat \ {0}, Len(st.timestamps) <= limit,
         NEW window \in Nat \ {0}, NEW t \in Nat, NEW unix \in Nat, window < t,
         NEW ev, ev = SlidingWindow(st, limit, window, t, unix),
         NEW room, room = Room("sliding_window", st, limit, window, t)
  PROVE  /\ room \in Nat /\ (ev.result.allowed <=> room >= 1)
         /\ ev.result.allowed =>
              /\ ev.result.limit = limit /\ ev.result.remaining = room - 1
              /\ Room("sliding_window", ev.state, limit, window, t) = room - 1
  <1> DEFINE cutoff == SatSub(t, window)
             d == DrainStale(st.timestamps, cutoff)
             reset == IF d # << >>
                      THEN unix + UntilOldestExpires(d, window, t) \div NanosPerSec
                      ELSE unix + window \div NanosPerSec
             retry == IF d # << >>
                      THEN UntilOldestExpires(d, window, t) \div NanosPerSec
                      ELSE 1
  <1>1. ev = IF UnderQuota(Len(d), limit)
             THEN [state |-> [timestamps |-> Append(d, t)],
                   result |-> Allowed(limit, limit - Len(d) - 1, reset)]
             ELSE [state |-> [timestamps |-> d],
                   result |-> Blocked(limit, reset, AtLeast1(retry))]
    BY Zenon DEF SlidingWindow
  <1> HIDE DEF reset, retry
  <1>2. st.timestamps \in Seq(Nat) /\ cutoff \in Nat /\ cutoff < t
    BY DEF SlidingWindowState, SatSub
  <1>3. room = limit - Len(d)
    BY DEF Room
  <1> HIDE DEF cutoff
  <1>4. /\ d \in Seq(Nat) /\ Len(d) \in Nat /\ Len(d) <= Len(st.timestamps)
        /\ Len(d) > 0 => d[1] > cutoff
    <2>1. /\ d \in Seq(Nat) /\ Len(d) \in 0..Len(st.timestamps)
          /\ Len(d) > 0 => d[1] > cutoff
      BY <1>2, DrainExact
    <2>2. Len(st.timestamps) \in Nat
      BY <1>2, LogFacts
    <2> HIDE DEF d
    <2> QED BY <2>1, <2>2
  <1>5. room \in Nat
    <2>1. Len(st.timestamps) \in Nat
      BY <1>2, LogFacts
    <2> HIDE DEF d
    <2> QED BY <1>3, <1>4, <2>1
  <1> HIDE DEF d
  <1>6. CASE Len(d) < limit
    <2> DEFINE more == Append(d, t)
               f == DrainStale(more, cutoff)
    <2>1. ev.state.timestamps = Append(d, t) /\ ev.result = Allowed(limit, limit - Len(d) - 1, reset)
      BY <1>1, <1>6 DEF UnderQuota
    <2>2. /\ more \in Seq(Nat) /\ Len(more) = Len(d) + 1
          /\ \A i \in 1..Len(d) : more[i] = d[i]
          /\ more[Len(d) + 1] = t
      BY <1>4, LogFacts
    <2> HIDE DEF more
    <2>3. more[1] > cutoff
      <3>1. CASE Len(d) = 0
        <4>1. Len(d) + 1 = 1
          BY <3>1
        <4>2. more[1] = t
          BY <2>2, <4>1
        <4> QED BY <1>2, <4>2
      <3>2. CASE Len(d) > 0
        <4>1. 1 \in 1..Len(d) /\ d[1] > cutoff
          BY <1>4, <3>2
        <4>2. more[1] = d[1]
          BY <2>2, <4>1
        <4> QED BY <4>1, <4>2
      <3> QED BY <1>4, <3>1, <3>2
    <2>4. more[1] \in Nat
      BY <1>4, <2>2, LogFacts
    <2>5. /\ Len(f) \in 0..Len(more)
          /\ \A i \in 1..(Len(more) - Len(f)) : more[i] <= cutoff
      BY <1>2, <2>2, DrainExact
    <2> HIDE DEF f
    <2>6. Len(f) = Len(d) + 1
      <3>1. ASSUME Len(f) < Len(more) PROVE FALSE
        <4>1. 1 \in 1..(Len(more) - Len(f))
          BY <1>4, <2>2, <2>5, <3>1
        <4> QED BY <1>2, <2>3, <2>4, <2>5, <4>1
      <3> QED BY <1>4, <2>2, <2>5, <3>1
    <2>7. Room("sliding_window", ev.state, limit, window, t) = limit - Len(f)
      BY <2>1 DEF Room, f, more, cutoff
    <2> QED BY <1>3, <1>4, <1>5, <1>6, <2>1, <2>6, <2>7 DEF Allowed
  <1>7. CASE ~(Len(d) < limit)
    <2>1. ev.result = Blocked(limit, reset, AtLeast1(retry))
      BY <1>1, <1>7 DEF UnderQuota
    <2> QED BY <1>3, <1>4, <1>5, <1>7, <2>1 DEF Blocked
  <1> QED BY <1>6, <1>7

LEMMA TokenRoomSpent ==
  ASSUME NEW st \in TokenBucketState, NEW limit \in Nat \ {0}, st.tokens <= limit * Milli,
         NEW window \in Nat \ {0}, NEW t \in Nat, NEW unix \in Nat, st.lastRefill <= t,
         NEW ev, ev = TokenBucket(st, limit, window, t, unix),
         NEW room, room = Room("token_bucket", st, limit, window, t)
  PROVE  /\ room \in Nat /\ (ev.result.allowed <=> room >= 1)
         /\ ev.result.allowed =>
              /\ ev.result.limit = limit /\ ev.result.remaining = room - 1
              /\ Room("token_bucket", ev.state, limit, window, t) = room - 1
  <1> DEFINE s == Refill(st, limit, window, t)
             left == s.tokens - Milli
             needed == limit * Milli - left
             refillSecs == IF needed = 0 THEN 0
                           ELSE AtLeast1(((needed * window) \div (limit * Milli))
                                           \div NanosPerSec)
             retry == TokenRetry(s.tokens, limit, window)
  <1>1. ev = IF s.tokens >= Milli
             THEN [state |-> [s EXCEPT !.tokens = left],
                   result |-> Allowed(limit, left \div Milli, unix + refillSecs)]
             ELSE [state |-> s, result |-> Blocked(limit, unix + retry, retry)]
    BY Zenon DEF TokenBucket
  <1> HIDE DEF refillSecs, retry, needed
  <1>2. s \in TokenBucketState /\ s.lastRefill = t
    <2>1. /\ s \in TokenBucketState
          /\ s.lastRefill = IF t > st.lastRefill THEN t ELSE st.lastRefill
      BY RefillBounds
    <2>2. st.lastRefill \in Nat
      BY DEF TokenBucketState
    <2> HIDE DEF s
    <2> QED BY <2>1, <2>2
  <1>3. room = s.tokens \div Milli
    BY DEF Room
  <1> HIDE DEF s
  <1>4. s.tokens \in Nat /\ room \in Nat
    BY <1>2, <1>3, DivNat, ScaleAssumption DEF TokenBucketState
  <1>5. CASE s.tokens >= Milli
    <2>1. left \in Nat /\ left \div Milli = room - 1
      <3>1. \A x \in Nat, m \in Nat \ {0} : x >= m => (x - m) \div m = (x \div m) - 1
        BY Z3
      <3>2. (s.tokens - Milli) \div Milli = (s.tokens \div Milli) - 1
        BY <1>4, <1>5, <3>1, ScaleAssumption
      <3>3. s.tokens - Milli \in Nat
        BY <1>4, <1>5, ScaleAssumption
      <3> QED BY <1>3, <3>2, <3>3
    <2> HIDE DEF left
    <2>2. ev.state = [s EXCEPT !.tokens = left] /\ ev.result = Allowed(limit, left \div Milli, unix + refillSecs)
      BY <1>1, <1>5
    <2>3. ev.state.tokens = left /\ ev.state.lastRefill = t
      BY <1>2, <2>2 DEF TokenBucketState
    <2>4. Refill(ev.state, limit, window, t) = ev.state
      BY <2>3 DEF Refill, SatSub
    <2>5. Room("token_bucket", ev.state, limit, window, t) = left \div Milli
      BY <2>3, <2>4 DEF Room
    <2>6. room >= 1
      <3>1. left \div Milli \in Nat
        BY <2>1, DivNat, ScaleAssumption
      <3> QED BY <1>4, <2>1, <3>1
    <2> QED BY <1>4, <2>1, <2>2, <2>5, <2>6 DEF Allowed
  <1>6. CASE ~(s.tokens >= Milli)
    <2>1. ev.result = Blocked(limit, unix + retry, retry)
      BY <1>1, <1>6
    <2>2. room = 0
      <3>1. \A x \in Nat, m \in Nat \ {0} : x < m => x \div m = 0
        BY Z3
      <3> QED BY <1>3, <1>4, <1>6, <3>1, ScaleAssumption
    <2> QED BY <2>1, <2>2 DEF Blocked
  <1> QED BY <1>5, <1>6

LEMMA RoomSpent ==
  ASSUME NEW algorithm \in Algorithms, NEW st, NEW limit \in Nat \ {0},
         NEW window \in Nat \ {0}, NEW t \in Nat, NEW unix \in Nat, window < t,
         Met(algorithm, st, limit, t),
         NEW ev, ev = Evaluate(algorithm, st, limit, window, t, unix),
         NEW room, room = Room(algorithm, st, limit, window, t)
  PROVE  /\ room \in Nat /\ (ev.result.allowed <=> room >= 1)
         /\ ev.result.allowed =>
              /\ ev.result.limit = limit /\ ev.result.remaining = room - 1
              /\ Room(algorithm, ev.state, limit, window, t) = room - 1
  <1>1. CASE algorithm = "fixed_window"
    <2>1. ev = FixedWindow(st, limit, window, t, unix)
      BY <1>1 DEF Evaluate
    <2> QED BY <1>1, <2>1, FixedRoomSpent
  <1>2. CASE algorithm = "sliding_window"
    <2>1. st \in SlidingWindowState /\ Len(st.timestamps) <= limit
      BY <1>2 DEF Met, StatesOf, WithinLimit
    <2>2. ev = SlidingWindow(st, limit, window, t, unix)
      BY <1>2 DEF Evaluate
    <2> QED BY <1>2, <2>1, <2>2, SlidingRoomSpent, SMTT(30)
  <1>3. CASE algorithm = "token_bucket"
    <2>1. st \in TokenBucketState /\ st.tokens <= limit * Milli /\ st.lastRefill <= t
      BY <1>3 DEF Met, StatesOf, WithinLimit, NotAhead
    <2>2. ev = TokenBucket(st, limit, window, t, unix)
      BY <1>3 DEF Evaluate
    <2> QED BY <1>3, <2>1, <2>2, TokenRoomSpent
  <1> QED BY <1>1, <1>2, <1>3 DEF Algorithms

(***************************************************************************)
(* What the constructor built.                                             *)
(***************************************************************************)
Configured ==
  /\ deployment \in Deployments
  /\ engine.status = "built"
  /\ engine.config \in EngineConfigs(raw)

Applies(req) == {d \in Dimensions : RateOf(req, d) # NoRate}

(* A limit that is in force is one that the operator states, and a stated  *)
(* limit is in force.                                                      *)
LEMMA RateFacts ==
  ASSUME Configured, NEW req, NEW dim \in Dimensions
  PROVE  /\ RateOf(req, dim) # NoRate =>
              /\ RateOf(req, dim).count \in Nat \ {0}
              /\ Ticks(RateOf(req, dim)) \in Nat \ {0}
              /\ Ticks(RateOf(req, dim)) < StartTime
              /\ RateOf(req, dim) \in StatedRates(dim, req)
              /\ SharesQuota(dim, req, req)
         /\ SharesQuota(dim, req, req) /\ StatedRates(dim, req) # {} =>
              RateOf(req, dim) # NoRate
  <1> DEFINE c == engine.config
             one(v) == IF Readable(v) THEN {ParseRate(v.value)} ELSE {}
             Good(rate) == /\ rate.count \in Nat \ {0}
                           /\ Ticks(rate) \in Nat \ {0} /\ Ticks(rate) < StartTime
  <1>1. CountsUnsigned(raw)
    BY HookAssumption DEF Configured, raw
  <1>2. ASSUME NEW r, Parses(r), r.count \in Nat
        PROVE  Good(ParseRate(r)) /\ ParseRate(r) # NoRate
    <2>1. r.count \in Nat \ {0} /\ UnitSecs[r.unit] \in Nat \ {0}
          /\ UnitSecs[r.unit] * NanosPerSec < StartTime
      BY <1>2, HookAssumption DEF Parses
    <2>2. ParseRate(r).count = r.count /\ ParseRate(r).secs = UnitSecs[r.unit]
      BY DEF ParseRate
    <2>3. UnitSecs[r.unit] * NanosPerSec \in Nat \ {0}
      <3>1. \A x, y \in Nat \ {0} : x * y \in Nat \ {0}
        BY Z3
      <3> QED BY <2>1, <3>1, ScaleAssumption
    <2>4. NoRate.count = 0
      BY DEF NoRate
    <2> QED BY <2>1, <2>2, <2>3, <2>4 DEF Ticks
  <1>3. /\ \A v \in {raw.by_user, raw.by_user_per_server, raw.by_tenant} : LimitParses(v)
        /\ \A e \in ToolEntries(raw.by_tool) : Parses(e.rate)
        /\ c.by_user = Limit(raw.by_user)
        /\ c.by_user_per_server = Limit(raw.by_user_per_server)
        /\ c.by_tenant = Limit(raw.by_tenant)
        /\ c.by_tool \in ByTool(raw.by_tool)
    BY DEF Configured, EngineConfigs
  <1>4. ASSUME NEW v \in {raw.by_user, raw.by_user_per_server, raw.by_tenant}
        PROVE  /\ Limit(v) # NoRate => Good(Limit(v)) /\ Limit(v) \in one(v)
               /\ one(v) # {} => Limit(v) # NoRate
    <2>1. CASE Readable(v)
      <3>1. Parses(v.value) /\ v.value.count \in Nat
        BY <1>1, <1>3, <1>4, <2>1 DEF LimitParses, CountsUnsigned
      <3>2. Limit(v) = ParseRate(v.value) /\ one(v) = {ParseRate(v.value)}
        BY <2>1 DEF Limit
      <3> QED BY <1>2, <3>1, <3>2
    <2>2. CASE ~Readable(v)
      BY <2>2 DEF Limit
    <2> QED BY <2>1, <2>2
  <1>5. ASSUME NEW n
        PROVE  /\ n \in ToolNames(raw.by_tool) =>
                    /\ c.by_tool[n] \in StatedFor(raw.by_tool, n)
                    /\ Good(c.by_tool[n]) /\ c.by_tool[n] # NoRate
               /\ StatedFor(raw.by_tool, n) # {} => n \in ToolNames(raw.by_tool)
    <2>1. ASSUME n \in ToolNames(raw.by_tool)
          PROVE  /\ c.by_tool[n] \in StatedFor(raw.by_tool, n)
                 /\ Good(c.by_tool[n]) /\ c.by_tool[n] # NoRate
      <3>1. c.by_tool[n] \in StatedFor(raw.by_tool, n)
        BY <1>3, <2>1 DEF ByTool
      <3>2. PICK e \in ToolEntries(raw.by_tool) : c.by_tool[n] = ParseRate(e.rate)
        BY <3>1 DEF StatedFor
      <3>3. Parses(e.rate) /\ e.rate.count \in Nat
        BY <1>1, <1>3 DEF CountsUnsigned
      <3> QED BY <1>2, <3>1, <3>2, <3>3
    <2>2. ASSUME StatedFor(raw.by_tool, n) # {}
          PROVE  n \in ToolNames(raw.by_tool)
      BY <2>2 DEF StatedFor, ToolNames
    <2> QED BY <2>1, <2>2
  <1>6. DOMAIN c.by_tool = ToolNames(raw.by_tool)
    BY <1>3 DEF ByTool
  <1> HIDE DEF c, Good
  <1>7. CASE dim = "user"
    <2>1. RateOf(req, dim) = Limit(raw.by_user)
      BY <1>3, <1>7 DEF RateOf, c
    <2>2. StatedRates(dim, req) = one(raw.by_user)
      BY <1>7 DEF StatedRates
    <2>3. SharesQuota(dim, req, req)
      BY <1>7 DEF SharesQuota
    <2> HIDE DEF one
    <2> QED BY <1>4, <2>1, <2>2, <2>3 DEF Good
  <1>8. CASE dim = "server"
    <2>1. RateOf(req, dim) = IF req.hook = "tool" THEN Limit(raw.by_user_per_server) ELSE NoRate
      BY <1>3, <1>8 DEF RateOf, c
    <2>2. StatedRates(dim, req) = one(raw.by_user_per_server)
      BY <1>8 DEF StatedRates
    <2>3. SharesQuota(dim, req, req) <=> req.hook = "tool"
      BY <1>8 DEF SharesQuota
    <2> HIDE DEF one
    <2> QED BY <1>4, <2>1, <2>2, <2>3 DEF Good
  <1>9. CASE dim = "tenant"
    <2>1. RateOf(req, dim) = IF Attribute(req.tenant) = "none" THEN NoRate ELSE Limit(raw.by_tenant)
      BY <1>3, <1>9 DEF RateOf, c
    <2>2. StatedRates(dim, req) = one(raw.by_tenant)
      BY <1>9 DEF StatedRates
    <2>3. SharesQuota(dim, req, req) <=> Attribute(req.tenant) # "none"
      BY <1>9 DEF SharesQuota
    <2> HIDE DEF one
    <2> QED BY <1>4, <2>1, <2>2, <2>3 DEF Good
  <1>10. CASE dim = "tool"
    <2>1. RateOf(req, dim) = IF Named(req) \in ToolNames(raw.by_tool)
                             THEN c.by_tool[Named(req)] ELSE NoRate
      BY <1>6, <1>10 DEF RateOf, c
    <2>2. StatedRates(dim, req) = StatedFor(raw.by_tool, Named(req))
      BY <1>10 DEF StatedRates, Named
    <2>3. SharesQuota(dim, req, req)
      BY <1>10 DEF SharesQuota
    <2> QED BY <1>5, <2>1, <2>2, <2>3 DEF Good
  <1> QED BY <1>7, <1>8, <1>9, <1>10 DEF Dimensions

(* Requests that share a quota share its key and its limit, and a key is   *)
(* never shared by others.                                                 *)
LEMMA KeyFacts ==
  ASSUME NEW a, NEW b, NEW d \in Dimensions, NEW e \in Dimensions
  PROVE  /\ SharesQuota(d, a, b) =>
              KeyOf(a, d) = KeyOf(b, d) /\ RateOf(a, d) = RateOf(b, d)
         /\ KeyOf(a, d) = KeyOf(b, e) /\ d \in Applies(a) /\ e \in Applies(b) =>
              d = e /\ SharesQuota(d, a, b) /\ RateOf(a, d) = RateOf(b, e)
  <1>1. ASSUME SharesQuota(d, a, b)
        PROVE  KeyOf(a, d) = KeyOf(b, d) /\ RateOf(a, d) = RateOf(b, d)
    <2>1. CASE d = "user"
      BY <1>1, <2>1 DEF SharesQuota, KeyOf, Key, Prefix, RateOf
    <2>2. CASE d = "server"
      BY <1>1, <2>2 DEF SharesQuota, KeyOf, Key, Prefix, RateOf
    <2>3. CASE d = "tenant"
      BY <1>1, <2>3 DEF SharesQuota, KeyOf, Key, Prefix, RateOf
    <2>4. CASE d = "tool"
      BY <1>1, <2>4 DEF SharesQuota, KeyOf, Key, Prefix, RateOf, Named
    <2> QED BY <2>1, <2>2, <2>3, <2>4 DEF Dimensions
  <1>2. ASSUME KeyOf(a, d) = KeyOf(b, e), d \in Applies(a), e \in Applies(b)
        PROVE  d = e /\ SharesQuota(d, a, b)
    <2>1. Attribute(a.tenant) = Attribute(b.tenant) /\ d = e
      BY <1>2 DEF KeyOf, Key, Prefix
    <2>2. CASE d = "user"
      BY <1>2, <2>1, <2>2 DEF SharesQuota, KeyOf, Key, Prefix
    <2>3. CASE d = "server"
      <3>1. a.hook = "tool" /\ b.hook = "tool"
        BY <1>2, <2>1, <2>3 DEF Applies, RateOf
      <3>2. Identity(a.user) = Identity(b.user) /\ Attribute(a.server) = Attribute(b.server)
        BY <1>2, <2>1, <2>3 DEF KeyOf, Key, Prefix
      <3> QED BY <2>1, <2>3, <3>1, <3>2 DEF SharesQuota
    <2>4. CASE d = "tenant"
      <3>1. Attribute(a.tenant) # "none"
        BY <1>2, <2>1, <2>4 DEF Applies, RateOf
      <3> QED BY <2>1, <2>4, <3>1 DEF SharesQuota
    <2>5. CASE d = "tool"
      BY <1>2, <2>1, <2>5 DEF SharesQuota, KeyOf, Key, Prefix, Named
    <2> QED BY <2>1, <2>2, <2>3, <2>4, <2>5 DEF Dimensions
  <1> QED BY <1>1, <1>2

(***************************************************************************)
(* The answer of a check: it passes exactly if no dimension refuses.       *)
(***************************************************************************)
IsResults(dims) ==
  /\ DOMAIN dims \subseteq Dimensions
  /\ \A d \in DOMAIN dims : dims[d] \in DimResults

(* The first of the least is one of them.                                  *)
LEMMA FirstOfLeast ==
  ASSUME NEW D, D \subseteq Dimensions, D # {}, NEW val \in [D -> Nat]
  PROVE  LET I == {i \in DOMAIN Order :
                     Order[i] \in D /\ \A d \in D : val[Order[i]] <= val[d]}
         IN Order[Min(I)] \in D /\ \A d \in D : val[Order[Min(I)]] <= val[d]
  <1> DEFINE I == {i \in DOMAIN Order :
                     Order[i] \in D /\ \A d \in D : val[Order[i]] <= val[d]}
             S == {val[d] : d \in D}
  <1>1. S \in SUBSET Nat /\ S # {}
    OBVIOUS
  <1>2. Min(S) \in S /\ \A y \in S : Min(S) <= y
    BY <1>1, MinIsLeast
  <1>3. PICK d \in D : \A e \in D : val[d] <= val[e]
    BY <1>2
  <1>4. PICK i \in DOMAIN Order : Order[i] = d
    BY DEF Order, Dimensions
  <1>5. i \in I
    BY <1>3, <1>4
  <1>6. I \in SUBSET Nat
    BY DEF Order
  <1>7. Min(I) \in I
    BY <1>5, <1>6, MinIsLeast
  <1> QED BY <1>7

LEMMA LeastOfResults ==
  ASSUME NEW dims, IsResults(dims), DOMAIN dims # {}
  PROVE  /\ \E d \in DOMAIN dims :
              /\ MostRestrictive(dims) = dims[d]
              /\ \A e \in DOMAIN dims : dims[d].remaining <= dims[e].remaining
         /\ \E d \in DOMAIN dims : SoonestToOpen(dims) = dims[d]
  <1>1. /\ [d \in DOMAIN dims |-> dims[d].remaining] \in [DOMAIN dims -> Nat]
        /\ [d \in DOMAIN dims |-> dims[d].retry] \in [DOMAIN dims -> Nat]
    BY DEF IsResults, DimResults
  <1>2. \E d \in DOMAIN dims :
          /\ MostRestrictive(dims) = dims[d]
          /\ \A e \in DOMAIN dims : dims[d].remaining <= dims[e].remaining
    <2> DEFINE val == [d \in DOMAIN dims |-> dims[d].remaining]
               I == {i \in DOMAIN Order : Order[i] \in DOMAIN dims
                       /\ \A d \in DOMAIN dims : val[Order[i]] <= val[d]}
               J == {i \in DOMAIN Order : Order[i] \in DOMAIN dims
                       /\ \A d \in DOMAIN dims : dims[Order[i]].remaining <= dims[d].remaining}
    <2>1. /\ Order[Min(I)] \in DOMAIN dims
          /\ \A e \in DOMAIN dims : val[Order[Min(I)]] <= val[e]
      BY <1>1, FirstOfLeast DEF IsResults
    <2>2. I = J
      OBVIOUS
    <2>3. MostRestrictive(dims) = dims[Order[Min(J)]]
      BY DEF MostRestrictive, FirstLeast
    <2> HIDE DEF I, J
    <2> QED BY <2>1, <2>2, <2>3
  <1>3. \E d \in DOMAIN dims : SoonestToOpen(dims) = dims[d]
    <2> DEFINE val == [d \in DOMAIN dims |-> dims[d].retry]
               I == {i \in DOMAIN Order : Order[i] \in DOMAIN dims
                       /\ \A d \in DOMAIN dims : val[Order[i]] <= val[d]}
               J == {i \in DOMAIN Order : Order[i] \in DOMAIN dims
                       /\ \A d \in DOMAIN dims : dims[Order[i]].retry <= dims[d].retry}
    <2>1. Order[Min(I)] \in DOMAIN dims
      BY <1>1, FirstOfLeast DEF IsResults
    <2>2. I = J
      OBVIOUS
    <2>3. SoonestToOpen(dims) = dims[Order[Min(J)]]
      BY DEF SoonestToOpen, FirstLeast
    <2> QED BY <2>1, <2>2, <2>3
  <1> QED BY <1>2, <1>3

LEMMA AnswerFacts ==
  ASSUME NEW req, NEW dims, IsResults(dims)
  PROVE  LET code == PrehookResult(req, dims).code
         IN /\ code \in {"pass", "RATE_LIMIT"}
            /\ code = "pass" => Refusals(dims) = {}
            /\ code = "RATE_LIMIT" => Refusals(dims) # {}
  <1> DEFINE result == PrehookResult(req, dims)
             eval == FromDims(dims)
  <1>1. CASE DOMAIN dims = {}
    BY <1>1 DEF PrehookResult, LetThrough, Answer, Refusals
  <1>2. ASSUME DOMAIN dims # {}
        PROVE  /\ eval.allowed => result.code = "pass"
               /\ ~eval.allowed => result.code = "RATE_LIMIT"
    BY <1>2 DEF PrehookResult, Violation, Answer
  <1>3. CASE Refusals(dims) # {}
    <2> DEFINE refused == Restrict(dims, Refusals(dims))
    <2>1. DOMAIN refused = Refusals(dims) /\ \A d \in Refusals(dims) : refused[d] = dims[d]
      BY DEF Restrict
    <2>2. IsResults(refused)
      BY <2>1 DEF IsResults, Refusals
    <2> HIDE DEF refused
    <2>3. PICK d \in Refusals(dims) : SoonestToOpen(refused) = dims[d]
      BY <1>3, <2>1, <2>2, LeastOfResults
    <2>4. eval = [SoonestToOpen(refused) EXCEPT !.remaining = 0]
      BY <1>3 DEF FromDims, refused
    <2>5. dims[d] \in DimResults /\ ~dims[d].allowed
      BY DEF IsResults, Refusals
    <2>6. ~eval.allowed
      <3> HIDE DEF eval
      <3> QED BY <2>3, <2>4, <2>5 DEF DimResults
    <2>7. DOMAIN dims # {}
      BY <1>3 DEF Refusals
    <2> QED BY <1>2, <1>3, <2>6, <2>7
  <1>4. CASE Refusals(dims) = {} /\ DOMAIN dims # {}
    <2>1. PICK d \in DOMAIN dims : eval = dims[d]
      BY <1>4, LeastOfResults DEF FromDims
    <2>2. eval.allowed
      BY <1>4, <2>1 DEF Refusals
    <2> QED BY <1>2, <1>4, <2>2
  <1> QED BY <1>1, <1>3, <1>4

(***************************************************************************)
(* The inductive invariant.                                                *)
(***************************************************************************)
IsSequence(s) == \E S : s \in Seq(S)

Common ==
  /\ deployment \in Deployments
  /\ now \in Nat /\ StartTime <= now
  /\ engine.status # "built" => calls = << >> /\ DOMAIN store = {}
  /\ engine.status = "built" =>
       engine.config \in EngineConfigs(raw) /\ engine.backend \in Backends(raw)
  /\ IsSequence(calls)
  /\ \A j \in DOMAIN calls : calls[j].at \in Nat /\ calls[j].at <= now

(* A call was counted in every dimension that applies to it, or in none,   *)
(* and passed only if none refused.                                        *)
Judged(j) ==
  LET call == calls[j]
  IN /\ DOMAIN call.dims \subseteq Applies(call.req)
     /\ DOMAIN call.dims # {} => Counted(j)
     /\ Counted(j) => DOMAIN call.dims = Applies(call.req)
     /\ Counted(j) /\ Passed(j) => \A d \in DOMAIN call.dims : call.dims[d].allowed

(* The calls that the key of some dimension was granted, and how many of   *)
(* them since each moment.                                                 *)
Grants(k) ==
  {j \in DOMAIN calls :
     \E d \in DOMAIN calls[j].dims : /\ KeyOf(calls[j].req, d) = k
                                     /\ calls[j].dims[d].allowed}
GrantsSince(k, a) == {j \in Grants(k) : calls[j].at >= a}
Granted(k) == [a \in Nat |-> Cardinality(GrantsSince(k, a))]

Logged(req, d) ==
  LET k == KeyOf(req, d)
      rate == RateOf(req, d)
  IN IF k \in DOMAIN store
     THEN KeyLog(engine.config.algorithm, store[k], rate.count, Ticks(rate), Granted(k), now)
     ELSE Grants(k) = {}

(* What the two properties say of call i.                                  *)
QuotaAt(i) ==
  \A dim \in Dimensions :
    Counted(i) /\ Passed(i) /\ SharesQuota(dim, calls[i].req, calls[i].req)
      /\ StatedRates(dim, calls[i].req) # {} =>
      \E rate \in StatedRates(dim, calls[i].req) :
        Cardinality({j \in Recent(dim, rate, i) : Passed(j)})
          <= rate.count * Burst(engine.config.algorithm)

RefusalAt(i) ==
  engine.config.algorithm # "token_bucket" /\ Refused(i) =>
    \E dim \in Dimensions : \E rate \in StatedRates(dim, calls[i].req) :
      /\ SharesQuota(dim, calls[i].req, calls[i].req)
      /\ Cardinality(Recent(dim, rate, i) \ {i}) >= rate.count

HookInv ==
  OnMemory =>
    /\ \A j \in DOMAIN calls : Judged(j) /\ QuotaAt(j) /\ RefusalAt(j)
    /\ \A req \in deployment.requests : \A d \in Applies(req) : Logged(req, d)

(***************************************************************************)
(* A call is added to the history.                                         *)
(***************************************************************************)
LEMMA AppendedCall ==
  ASSUME NEW s, IsSequence(s), NEW call
  PROVE  /\ IsSequence(Append(s, call))
         /\ Len(s) \in Nat /\ DOMAIN s = 1..Len(s)
         /\ DOMAIN Append(s, call) = 1..(Len(s) + 1)
         /\ \A j \in DOMAIN s : Append(s, call)[j] = s[j]
         /\ Append(s, call)[Len(s) + 1] = call
  <1>1. PICK S : s \in Seq(S)
    BY DEF IsSequence
  <1> DEFINE T == S \union {call}
  <1>2. s \in Seq(T) /\ call \in T
    BY <1>1, SeqDef
  <1> HIDE DEF T
  <1>3. /\ Append(s, call) \in Seq(T)
        /\ Len(Append(s, call)) = Len(s) + 1
        /\ \A i \in 1..Len(s) : Append(s, call)[i] = s[i]
        /\ Append(s, call)[Len(s) + 1] = call
    BY <1>2, AppendProperties
  <1>4. Len(s) \in Nat /\ DOMAIN s = 1..Len(s)
        /\ DOMAIN Append(s, call) = 1..Len(Append(s, call))
    BY <1>2, <1>3, LenProperties
  <1> QED BY <1>3, <1>4 DEF IsSequence

Adds(call) ==
  /\ calls' = Append(calls, call)
  /\ call.at = now
  /\ UNCHANGED <<deployment, engine, now>>

LEMMA CallsGrow ==
  ASSUME Common, NEW call, Adds(call)
  PROVE  LET n == Len(calls) + 1
         IN /\ n \in Nat /\ n \notin DOMAIN calls /\ DOMAIN calls = 1..(n - 1)
            /\ DOMAIN calls' = DOMAIN calls \union {n}
            /\ IsSequence(calls')
            /\ \A j \in DOMAIN calls : calls'[j] = calls[j]
            /\ calls'[n] = call
  <1>1. IsSequence(calls) /\ calls' = Append(calls, call)
    BY DEF Common, Adds
  <1> QED BY <1>1, AppendedCall

LEMMA CommonGrows ==
  ASSUME Common, NEW call, Adds(call), engine.status = "built"
  PROVE  Common'
  <1>1. /\ IsSequence(calls')
        /\ \A j \in DOMAIN calls' : calls'[j].at \in Nat /\ calls'[j].at <= now
    <2>1. ASSUME NEW j \in DOMAIN calls'
          PROVE  calls'[j].at \in Nat /\ calls'[j].at <= now
      <3>1. CASE j \in DOMAIN calls
        BY <3>1, CallsGrow DEF Common
      <3>2. CASE j = Len(calls) + 1
        <4>1. calls'[j] = call /\ call.at = now /\ now \in Nat
          BY <3>2, CallsGrow DEF Common, Adds
        <4> QED BY <4>1
      <3> QED BY <3>1, <3>2, CallsGrow
    <2> QED BY <2>1, CallsGrow
  <1> QED BY <1>1 DEF Common, Adds, raw

(* What was said of the calls before stays true.                           *)
LEMMA OldCallsKeep ==
  ASSUME Common, NEW call, Adds(call), NEW i \in DOMAIN calls,
         Judged(i), QuotaAt(i), RefusalAt(i)
  PROVE  Judged(i)' /\ QuotaAt(i)' /\ RefusalAt(i)'
  <1>1. /\ \A j \in DOMAIN calls : calls'[j] = calls[j]
        /\ i \in DOMAIN calls' /\ 1..i \subseteq DOMAIN calls
    BY CallsGrow
  <1>2. engine' = engine /\ deployment' = deployment /\ raw' = raw
    BY DEF Adds, raw
  <1>3. \A j \in DOMAIN calls : /\ Counted(j)' <=> Counted(j)
                                /\ Passed(j)' <=> Passed(j)
                                /\ Refused(j)' <=> Refused(j)
    BY <1>1 DEF Counted, Passed, Refused
  <1>4. \A req : Applies(req)' = Applies(req)
    BY <1>2 DEF Applies, RateOf
  <1>5. Judged(i)'
    BY <1>1, <1>3, <1>4 DEF Judged
  <1>6. \A dim, rate : /\ Recent(dim, rate, i)' = Recent(dim, rate, i)
                       /\ {j \in Recent(dim, rate, i) : Passed(j)}'
                            = {j \in Recent(dim, rate, i) : Passed(j)}
    <2> TAKE dim, rate
    <2>1. Recent(dim, rate, i)' = Recent(dim, rate, i)
      BY <1>1, <1>3 DEF Recent
    <2>2. Recent(dim, rate, i) \subseteq DOMAIN calls
      BY <1>1 DEF Recent
    <2> QED BY <1>3, <2>1, <2>2
  <1>7. \A dim : StatedRates(dim, calls[i].req)' = StatedRates(dim, calls[i].req)
    BY <1>1, <1>2 DEF StatedRates
  <1>8. QuotaAt(i)'
    BY <1>1, <1>2, <1>3, <1>6, <1>7 DEF QuotaAt
  <1>9. RefusalAt(i)'
    BY <1>1, <1>2, <1>3, <1>6, <1>7 DEF RefusalAt
  <1> QED BY <1>5, <1>8, <1>9

(***************************************************************************)
(* The calls granted to a key.                                             *)
(***************************************************************************)
LEMMA GrantsFinite ==
  ASSUME Common, NEW k
  PROVE  /\ IsFiniteSet(Grants(k))
         /\ \A a \in Nat : /\ IsFiniteSet(GrantsSince(k, a))
                           /\ Cardinality(GrantsSince(k, a)) \in Nat
         /\ Granted(k) \in [Nat -> Nat]
         /\ Grants(k) = {} => \A a \in Nat : Granted(k)[a] = 0
  <1>1. DOMAIN calls = 1..Len(calls) /\ Len(calls) \in Nat
    BY AppendedCall DEF Common
  <1>2. IsFiniteSet(DOMAIN calls)
    BY <1>1, FS_Interval
  <1>3. IsFiniteSet(Grants(k))
    BY <1>2, FS_Subset DEF Grants
  <1>4. ASSUME NEW a \in Nat
        PROVE  IsFiniteSet(GrantsSince(k, a)) /\ Cardinality(GrantsSince(k, a)) \in Nat
    <2>1. IsFiniteSet(GrantsSince(k, a))
      BY <1>3, FS_Subset DEF GrantsSince
    <2> QED BY <2>1, FS_CardinalityType
  <1>5. Granted(k) \in [Nat -> Nat] /\ \A a \in Nat : Granted(k)[a] = Cardinality(GrantsSince(k, a))
    BY <1>4 DEF Granted
  <1>6. ASSUME Grants(k) = {}, NEW a \in Nat
        PROVE  Granted(k)[a] = 0
    <2>1. GrantsSince(k, a) = {}
      BY <1>6 DEF GrantsSince
    <2>2. Granted(k)[a] = Cardinality(GrantsSince(k, a))
      BY <1>5
    <2> QED BY <2>1, <2>2, FS_EmptySet
  <1>7. Grants(k) = {} => \A a \in Nat : Granted(k)[a] = 0
    BY <1>6
  <1> QED BY <1>3, <1>4, <1>5, <1>7

GrantsKey(call, k) ==
  \E d \in DOMAIN call.dims : KeyOf(call.req, d) = k /\ call.dims[d].allowed

LEMMA GrantsGrow ==
  ASSUME Common, NEW call, Adds(call), NEW k
  PROVE  /\ GrantsKey(call, k) => /\ Grants(k)' = Grants(k) \union {Len(calls) + 1}
                                  /\ Granted(k)' = Grant(Granted(k), now)
         /\ ~GrantsKey(call, k) => /\ Grants(k)' = Grants(k)
                                   /\ Granted(k)' = Granted(k)
  <1> DEFINE n == Len(calls) + 1
  <1>1. /\ n \in Nat /\ n \notin DOMAIN calls
        /\ DOMAIN calls' = DOMAIN calls \union {n}
        /\ \A j \in DOMAIN calls : calls'[j] = calls[j]
        /\ calls'[n] = call /\ call.at = now /\ now \in Nat
    BY CallsGrow DEF Adds, Common
  <1> HIDE DEF n
  <1>2. Grants(k) \subseteq DOMAIN calls
    BY DEF Grants
  <1>3. CASE GrantsKey(call, k)
    <2>1. Grants(k)' = Grants(k) \union {n}
      BY <1>1, <1>3 DEF Grants, GrantsKey
    <2>2. ASSUME NEW a \in Nat
          PROVE  Cardinality(GrantsSince(k, a)')
                   = IF a <= now THEN Cardinality(GrantsSince(k, a)) + 1
                     ELSE Cardinality(GrantsSince(k, a))
      <3>1. IsFiniteSet(GrantsSince(k, a)) /\ n \notin GrantsSince(k, a)
        BY <1>1, <1>2, GrantsFinite DEF GrantsSince
      <3>2. CASE a <= now
        <4>1. GrantsSince(k, a)' = GrantsSince(k, a) \union {n}
          BY <1>1, <1>2, <2>1, <3>2 DEF GrantsSince
        <4> QED BY <3>1, <3>2, <4>1, FS_AddElement
      <3>3. CASE ~(a <= now)
        <4>1. GrantsSince(k, a)' = GrantsSince(k, a)
          BY <1>1, <1>2, <2>1, <3>3 DEF GrantsSince
        <4> QED BY <3>3, <4>1
      <3> QED BY <3>2, <3>3
    <2>3. Granted(k)' = Grant(Granted(k), now)
      BY <2>2 DEF Granted, Grant
    <2> QED BY <1>3, <2>1, <2>3 DEF n
  <1>4. CASE ~GrantsKey(call, k)
    <2>1. Grants(k)' = Grants(k)
      BY <1>1, <1>4 DEF Grants, GrantsKey
    <2>2. \A a \in Nat : GrantsSince(k, a)' = GrantsSince(k, a)
      BY <1>1, <1>2, <2>1 DEF GrantsSince
    <2>3. Granted(k)' = Granted(k)
      BY <2>2 DEF Granted
    <2> QED BY <1>4, <2>1, <2>3
  <1> QED BY <1>3, <1>4

(***************************************************************************)
(* A check evaluates the key of each dimension that applies, and nothing   *)
(* else.                                                                   *)
(***************************************************************************)
State(k, rate) ==
  IF k \in DOMAIN store THEN store[k]
  ELSE NewKeyState(engine.config.algorithm, rate.count, now, Unix)

Verdict(req, d) ==
  LET rate == RateOf(req, d)
  IN Evaluate(engine.config.algorithm, State(KeyOf(req, d), rate), rate.count,
              Ticks(rate), now, Unix)

LEMMA CheckEffect ==
  ASSUME NEW req, Check(req)
  PROVE  /\ \A k : k \in DOMAIN store'
                     <=> k \in DOMAIN store \/ \E d \in Applies(req) : KeyOf(req, d) = k
         /\ \A d \in Applies(req) : store'[KeyOf(req, d)] = Verdict(req, d).state
         /\ \A k \in DOMAIN store :
              (\A d \in Applies(req) : KeyOf(req, d) # k) => store'[k] = store[k]
         /\ \E dims : /\ DOMAIN dims = Applies(req)
                      /\ \A d \in Applies(req) : dims[d] = Verdict(req, d).result
                      /\ Answered(req, dims, PrehookResult(req, dims))
  <1> DEFINE checks == Checks(req)
             evals == [d \in DOMAIN checks |-> CheckAndIncrement(checks[d])]
             at(k) == CHOOSE d \in DOMAIN checks : checks[d].key = k
             keys == {checks[d].key : d \in DOMAIN checks}
             dims == [d \in DOMAIN checks |-> evals[d].result]
  <1>1. /\ store' = [k \in DOMAIN store \union keys |->
                       IF k \in keys THEN evals[at(k)].state ELSE store[k]]
        /\ Answered(req, dims, PrehookResult(req, dims))
    BY DEF Check
  <1>2. /\ DOMAIN checks = Applies(req)
        /\ \A d \in Applies(req) : checks[d] = [key |-> KeyOf(req, d), rate |-> RateOf(req, d)]
    BY DEF Checks, Applies
  <1> HIDE DEF checks
  <1>3. \A d \in Applies(req) : evals[d] = Verdict(req, d)
    <2> TAKE d \in Applies(req)
    <2>1. evals[d] = CheckAndIncrement(checks[d])
      BY <1>2
    <2>2. checks[d].key = KeyOf(req, d) /\ checks[d].rate = RateOf(req, d)
      BY <1>2
    <2> HIDE DEF evals
    <2> QED BY <2>1, <2>2 DEF CheckAndIncrement, Verdict, State
  <1>4. DOMAIN evals = Applies(req)
    BY <1>2
  <1> HIDE DEF evals
  <1>5. \A d \in Applies(req) : checks[d].key = KeyOf(req, d)
    BY <1>2
  <1>6. \A d \in Applies(req) : at(KeyOf(req, d)) = d
    <2> TAKE d \in Applies(req)
    <2>1. at(KeyOf(req, d)) \in Applies(req) /\ KeyOf(req, at(KeyOf(req, d))) = KeyOf(req, d)
      <3> DEFINE e == at(KeyOf(req, d))
      <3>1. e \in DOMAIN checks /\ checks[e].key = KeyOf(req, d)
        BY <1>2, <1>5
      <3> HIDE DEF e
      <3>2. e \in Applies(req) /\ KeyOf(req, e) = KeyOf(req, d)
        BY <1>2, <1>5, <3>1
      <3> QED BY <3>2 DEF e
    <2> QED BY <2>1, KeyFacts DEF Applies
  <1> HIDE DEF at
  <1>7. \A k : k \in keys <=> \E d \in Applies(req) : KeyOf(req, d) = k
    BY <1>2, <1>5
  <1> HIDE DEF keys
  <1>8. \A d \in Applies(req) : store'[KeyOf(req, d)] = Verdict(req, d).state
    BY <1>1, <1>3, <1>6, <1>7
  <1>9. /\ DOMAIN dims = Applies(req)
        /\ \A d \in Applies(req) : dims[d] = Verdict(req, d).result
    BY <1>2, <1>3
  <1> HIDE DEF dims
  <1> QED BY <1>1, <1>7, <1>8, <1>9

(***************************************************************************)
(* A check keeps the invariant.                                            *)
(***************************************************************************)
Algo == engine.config.algorithm

LEMMA Running ==
  ASSUME Common, OnMemory
  PROVE  /\ Configured /\ Algo \in Algorithms
         /\ now \in Nat /\ Unix \in Nat /\ StartTime <= now /\ StartTime \in Nat
  <1>1. Configured
    BY DEF Common, OnMemory, Configured
  <1>2. Algo \in Algorithms
    BY <1>1 DEF Configured, EngineConfigs, AlgorithmNames, Algorithms, Algo
  <1>3. now \in Nat /\ StartTime <= now /\ StartTime \in Nat
    BY HookAssumption DEF Common
  <1>4. Unix \in Nat
    BY <1>3, DivNat, ScaleAssumption DEF Unix
  <1> QED BY <1>1, <1>2, <1>3, <1>4

(* What a check meets at a key.                                            *)
LEMMA KeyReady ==
  ASSUME Common, HookInv, OnMemory, NEW req \in deployment.requests, NEW d \in Applies(req),
         NEW k, k = KeyOf(req, d), NEW rate, rate = RateOf(req, d)
  PROVE  /\ rate.count \in Nat \ {0} /\ Ticks(rate) \in Nat \ {0} /\ Ticks(rate) < now
         /\ KeyLog(Algo, State(k, rate), rate.count, Ticks(rate), Granted(k), now)
         /\ Verdict(req, d) = Evaluate(Algo, State(k, rate), rate.count, Ticks(rate), now, Unix)
  <1>1. /\ Algo \in Algorithms /\ now \in Nat /\ Unix \in Nat /\ StartTime <= now
        /\ rate.count \in Nat \ {0} /\ Ticks(rate) \in Nat \ {0} /\ Ticks(rate) < StartTime
        /\ StartTime \in Nat
    BY Running, RateFacts DEF Applies
  <1>2. Ticks(rate) < now
    BY <1>1
  <1>3. Logged(req, d)
    BY DEF HookInv
  <1>4. KeyLog(Algo, State(k, rate), rate.count, Ticks(rate), Granted(k), now)
    <2>1. CASE k \in DOMAIN store
      BY <1>3, <2>1 DEF Logged, State, Algo
    <2>2. CASE k \notin DOMAIN store
      <3>1. State(k, rate) = NewKeyState(Algo, rate.count, now, Unix)
        BY <2>2 DEF State, Algo
      <3>2. Grants(k) = {}
        BY <1>3, <2>2 DEF Logged
      <3>3. Granted(k) \in [Nat -> Nat] /\ \A a \in Nat : Granted(k)[a] = 0
        BY <3>2, GrantsFinite
      <3> QED BY <1>1, <1>2, <3>1, <3>3, LogStarts
    <2> QED BY <2>1, <2>2
  <1>5. Verdict(req, d) = Evaluate(Algo, State(k, rate), rate.count, Ticks(rate), now, Unix)
    BY DEF Verdict, Algo
  <1> QED BY <1>1, <1>2, <1>4, <1>5

LEMMA KeyEvaluated ==
  ASSUME Common, HookInv, OnMemory, NEW req \in deployment.requests, NEW d \in Applies(req)
  PROVE  LET k == KeyOf(req, d)
             limit == RateOf(req, d).count
             window == Ticks(RateOf(req, d))
             v == Verdict(req, d)
         IN /\ v.result \in DimResults
            /\ v.result.allowed =>
                 /\ KeyLog(Algo, v.state, limit, window, Grant(Granted(k), now), now)
                 /\ Admits(Algo, limit, window, Grant(Granted(k), now), now)
            /\ ~v.result.allowed =>
                 /\ KeyLog(Algo, v.state, limit, window, Granted(k), now)
                 /\ Algo # "token_bucket" => UsedUp(limit, window, Granted(k), now)
  <1>1. PICK k, rate : k = KeyOf(req, d) /\ rate = RateOf(req, d)
    OBVIOUS
  <1>2. Algo \in Algorithms /\ now \in Nat /\ Unix \in Nat
    BY Running
  <1> QED BY <1>1, <1>2, KeyReady, LogKept

(* What a check adds to the history.                                       *)
Checked(req, call) ==
  /\ Adds(call) /\ call.req = req
  /\ DOMAIN call.dims = Applies(req)
  /\ \A d \in Applies(req) : call.dims[d] = Verdict(req, d).result
  /\ call.answer = PrehookResult(req, call.dims)

LEMMA KeysKept ==
  ASSUME Common, HookInv, OnMemory, NEW req \in deployment.requests,
         Check(req), NEW call, Checked(req, call),
         NEW r \in deployment.requests, NEW e \in Applies(r)
  PROVE  Logged(r, e)'
  <1> DEFINE k == KeyOf(r, e)
             rate == RateOf(r, e)
  <1>1. /\ engine' = engine /\ now' = now /\ Adds(call)
        /\ Logged(r, e)
    BY DEF Checked, Adds, HookInv
  <1>2. RateOf(r, e)' = RateOf(r, e)
    BY <1>1 DEF RateOf
  <1>3. CASE \E d \in Applies(req) : KeyOf(req, d) = k
    <2>1. PICK d \in Applies(req) : KeyOf(req, d) = k
      BY <1>3
    <2>2. d = e /\ RateOf(req, d) = rate
      BY <2>1, KeyFacts DEF Applies
    <2> DEFINE v == Verdict(req, d)
    <2>3. k \in DOMAIN store' /\ store'[k] = v.state
      BY <2>1, CheckEffect
    <2>4. GrantsKey(call, k) <=> v.result.allowed
      <3>1. \A x \in Applies(req) : KeyOf(req, x) = k => x = d
        BY <2>1, KeyFacts, SMTT(30) DEF Applies
      <3>2. DOMAIN call.dims = Applies(req) /\ call.dims[d] = v.result /\ call.req = req
        BY DEF Checked
      <3> HIDE DEF k, v
      <3> QED BY <2>1, <3>1, <3>2 DEF GrantsKey
    <2>5. /\ v.result.allowed => KeyLog(Algo, v.state, rate.count, Ticks(rate), Grant(Granted(k), now), now)
          /\ ~v.result.allowed => KeyLog(Algo, v.state, rate.count, Ticks(rate), Granted(k), now)
      BY <2>1, <2>2, KeyEvaluated
    <2>6. KeyLog(Algo, v.state, rate.count, Ticks(rate), Granted(k)', now)
      <3>1. CASE v.result.allowed
        BY <1>1, <2>4, <2>5, <3>1, GrantsGrow
      <3>2. CASE ~v.result.allowed
        BY <1>1, <2>4, <2>5, <3>2, GrantsGrow
      <3> QED BY <3>1, <3>2
    <2> HIDE DEF v
    <2> QED BY <1>1, <1>2, <2>3, <2>6 DEF Logged, Algo
  <1>4. CASE ~\E d \in Applies(req) : KeyOf(req, d) = k
    <2>1. /\ k \in DOMAIN store' <=> k \in DOMAIN store
          /\ k \in DOMAIN store => store'[k] = store[k]
      BY <1>4, CheckEffect
    <2>2. ~GrantsKey(call, k)
      BY <1>4 DEF GrantsKey, Checked
    <2>3. Grants(k)' = Grants(k) /\ Granted(k)' = Granted(k)
      BY <1>1, <2>2, GrantsGrow
    <2> QED BY <1>1, <1>2, <2>1, <2>3 DEF Logged
  <1> QED BY <1>3, <1>4

LEMMA NewCallJudged ==
  ASSUME Common, HookInv, OnMemory, NEW req \in deployment.requests, ~Escapes(req),
         NEW call, Checked(req, call), NEW n, n = Len(calls) + 1
  PROVE  /\ Judged(n)' /\ Counted(n)' /\ n \in Nat
         /\ n \in DOMAIN calls' /\ calls'[n] = call
         /\ Passed(n)' => \A d \in Applies(req) : Verdict(req, d).result.allowed
         /\ Refused(n)' => \E d \in Applies(req) : ~Verdict(req, d).result.allowed
  <1>1. n \in Nat /\ n \in DOMAIN calls' /\ calls'[n] = call
    BY CallsGrow DEF Checked
  <1>2. engine' = engine
    BY DEF Checked, Adds
  <1>3. Applies(req)' = Applies(req)
    BY <1>2 DEF Applies, RateOf
  <1>4. IsResults(call.dims)
    BY KeyEvaluated DEF Checked, IsResults, Applies
  <1>5. /\ call.answer.code \in {"pass", "RATE_LIMIT"}
        /\ call.answer.code = "pass" => Refusals(call.dims) = {}
        /\ call.answer.code = "RATE_LIMIT" => Refusals(call.dims) # {}
    BY <1>4, AnswerFacts DEF Checked
  <1>6. Counted(n)'
    BY <1>1, <1>5 DEF Counted, Passed, Refused, Checked
  <1>7. Passed(n)' => \A d \in Applies(req) : Verdict(req, d).result.allowed
    BY <1>1, <1>5 DEF Passed, Refusals, Checked
  <1>8. Refused(n)' => \E d \in Applies(req) : ~Verdict(req, d).result.allowed
    BY <1>1, <1>5 DEF Refused, Refusals, Checked
  <1>9. Judged(n)'
    BY <1>1, <1>3, <1>6, <1>7 DEF Judged, Checked
  <1> QED BY <1>1, <1>6, <1>7, <1>8, <1>9

(* Whoever shares a quota with the new call and passed was granted by its  *)
(* key.                                                                    *)
LEMMA SharersGranted ==
  ASSUME Common, HookInv, OnMemory, NEW req \in deployment.requests, ~Escapes(req),
         NEW call, Checked(req, call), NEW n, n = Len(calls) + 1,
         NEW dim \in Applies(req), NEW back \in Nat,
         NEW rate, rate = RateOf(req, dim), back = now - Ticks(rate) + 1
  PROVE  /\ {j \in Recent(dim, rate, n) : Passed(j)}' \subseteq GrantsSince(KeyOf(req, dim), back)'
         /\ IsFiniteSet(GrantsSince(KeyOf(req, dim), back)')
  <1>1. /\ Judged(n)' /\ n \in Nat /\ calls'[n] = call
        /\ now \in Nat /\ Ticks(rate) \in Nat /\ rate # NoRate /\ dim \in Dimensions
    BY NewCallJudged, Running, RateFacts DEF Applies
  <1>2. engine' = engine /\ call.at = now /\ call.req = req /\ Adds(call)
    BY DEF Checked, Adds
  <1>3. /\ DOMAIN calls = 1..(n - 1) /\ DOMAIN calls' = DOMAIN calls \union {n}
        /\ \A j \in DOMAIN calls : calls'[j] = calls[j]
    BY <1>2, CallsGrow
  <1>4. ASSUME NEW j \in 1..n
        PROVE  j \in DOMAIN calls' /\ Judged(j)' /\ calls'[j].at \in Nat
    <2>1. CASE j \in DOMAIN calls
      <3>1. Judged(j) /\ QuotaAt(j) /\ RefusalAt(j)
        BY <2>1 DEF HookInv
      <3>2. Judged(j)'
        BY <1>2, <2>1, <3>1, OldCallsKeep
      <3> QED BY <1>3, <2>1, <3>2 DEF Common
    <2>2. CASE j = n
      BY <1>1, <1>2, <1>3, <2>2
    <2> QED BY <1>1, <1>3, <2>1, <2>2
  <1>5. ASSUME NEW j \in 1..n, Counted(j)', Passed(j)',
               SharesQuota(dim, calls'[n].req, calls'[j].req),
               calls'[j].at > calls'[n].at - Ticks(rate)
        PROVE  j \in GrantsSince(KeyOf(req, dim), back)'
    <2>1. PICK r : r = calls'[j].req
      OBVIOUS
    <2>2. SharesQuota(dim, req, r) /\ calls'[j].at > now - Ticks(rate)
      BY <1>1, <1>2, <1>5, <2>1
    <2>3. calls'[j].at >= back
      <3>1. calls'[j].at \in Nat
        BY <1>4
      <3> QED BY <1>1, <2>2, <3>1
    <2>4. KeyOf(r, dim) = KeyOf(req, dim) /\ RateOf(r, dim) # NoRate
      BY <1>1, <2>2, KeyFacts
    <2>5. dim \in Applies(r)'
      BY <1>1, <1>2, <2>4 DEF Applies, RateOf
    <2>6. dim \in DOMAIN calls'[j].dims /\ calls'[j].dims[dim].allowed
      BY <1>4, <1>5, <2>1, <2>5 DEF Judged
    <2> QED BY <1>4, <2>1, <2>3, <2>4, <2>6 DEF GrantsSince, Grants
  <1>6. {j \in Recent(dim, rate, n) : Passed(j)}' \subseteq GrantsSince(KeyOf(req, dim), back)'
    BY <1>5 DEF Recent
  <1>7. IsFiniteSet(GrantsSince(KeyOf(req, dim), back)')
    <2>1. PICK k : k = KeyOf(req, dim)
      OBVIOUS
    <2>2. IsFiniteSet(Grants(k) \union {n})
      BY GrantsFinite, FS_AddElement
    <2>3. Grants(k)' \subseteq Grants(k) \union {n}
      BY <1>2, GrantsGrow
    <2>4. GrantsSince(k, back)' \subseteq Grants(k) \union {n}
      BY <2>3 DEF GrantsSince
    <2>5. IsFiniteSet(GrantsSince(k, back)')
      BY <2>2, <2>4, FS_Subset
    <2> QED BY <2>1, <2>5
  <1> QED BY <1>6, <1>7

LEMMA NewCallWithinQuota ==
  ASSUME Common, HookInv, OnMemory, NEW req \in deployment.requests, ~Escapes(req),
         NEW call, Checked(req, call), NEW n, n = Len(calls) + 1
  PROVE  QuotaAt(n)'
  <1>1. /\ calls'[n] = call
        /\ Passed(n)' => \A d \in Applies(req) : Verdict(req, d).result.allowed
    BY NewCallJudged
  <1>2. /\ engine' = engine /\ deployment' = deployment /\ raw' = raw
        /\ call.at = now /\ call.req = req /\ Adds(call)
    BY DEF Checked, Adds, raw
  <1>3. ASSUME NEW dim \in Dimensions, Passed(n)', SharesQuota(dim, req, req),
               StatedRates(dim, req) # {}
        PROVE  \E rate \in StatedRates(dim, req) :
                 Cardinality({j \in Recent(dim, rate, n) : Passed(j)}')
                   <= rate.count * Burst(Algo)
    <2>1. /\ dim \in Applies(req) /\ RateOf(req, dim) \in StatedRates(dim, req)
          /\ RateOf(req, dim).count \in Nat \ {0} /\ Ticks(RateOf(req, dim)) \in Nat \ {0}
          /\ Ticks(RateOf(req, dim)) < StartTime
      BY <1>3, Running, RateFacts DEF Applies
    <2>2. PICK rate : rate = RateOf(req, dim)
      OBVIOUS
    <2>3. PICK back \in Nat : back = now - Ticks(rate) + 1
      BY <2>1, <2>2, Running
    <2>4. PICK k : k = KeyOf(req, dim)
      OBVIOUS
    <2>5. Verdict(req, dim).result.allowed
      BY <1>1, <1>3, <2>1
    <2>6. Grant(Granted(k), now)[back] <= rate.count * Burst(Algo)
      BY <2>1, <2>2, <2>3, <2>4, <2>5, KeyEvaluated DEF Admits
    <2>7. GrantsKey(call, k)
      BY <2>1, <2>4, <2>5 DEF GrantsKey, Checked
    <2>8. Granted(k)' = Grant(Granted(k), now)
      BY <1>2, <2>7, GrantsGrow
    <2>9. Granted(k)'[back] = Cardinality(GrantsSince(k, back)')
      BY DEF Granted
    <2> DEFINE A == {j \in Recent(dim, rate, n) : Passed(j)}'
               B == GrantsSince(k, back)'
    <2>10. A \subseteq B /\ IsFiniteSet(B)
      BY <2>1, <2>2, <2>3, <2>4, SharersGranted
    <2>11. /\ Cardinality(A) <= Cardinality(B)
           /\ Cardinality(A) \in Nat /\ Cardinality(B) \in Nat
      <3> HIDE DEF A, B
      <3> QED BY <2>10, FS_Subset, FS_CardinalityType
    <2>12. Cardinality(B) <= rate.count * Burst(Algo)
      BY <2>6, <2>8, <2>9
    <2>13. rate.count * Burst(Algo) \in Nat
      BY <2>1, <2>2 DEF Burst
    <2>14. Cardinality(A) <= rate.count * Burst(Algo)
      <3> HIDE DEF A, B
      <3> QED BY <2>11, <2>12, <2>13
    <2> QED BY <2>1, <2>2, <2>14
  <1>4. \A dim : StatedRates(dim, req)' = StatedRates(dim, req)
    BY <1>2 DEF StatedRates
  <1> QED BY <1>1, <1>2, <1>3, <1>4 DEF QuotaAt, Algo

(* Whoever a full key granted shares the quota that refuses.               *)
LEMMA NewCallRefusedInScope ==
  ASSUME Common, HookInv, OnMemory, NEW req \in deployment.requests, ~Escapes(req),
         NEW call, Checked(req, call), NEW n, n = Len(calls) + 1
  PROVE  RefusalAt(n)'
  <1>1. /\ n \in Nat /\ calls'[n] = call
        /\ Refused(n)' => \E d \in Applies(req) : ~Verdict(req, d).result.allowed
    BY NewCallJudged
  <1>2. /\ engine' = engine /\ deployment' = deployment /\ raw' = raw
        /\ call.at = now /\ call.req = req /\ Adds(call)
    BY DEF Checked, Adds, raw
  <1>3. /\ n \notin DOMAIN calls /\ DOMAIN calls = 1..(n - 1)
        /\ \A j \in DOMAIN calls : calls'[j] = calls[j]
    BY <1>2, CallsGrow
  <1>4. ASSUME Refused(n)', Algo # "token_bucket"
        PROVE  \E dim \in Dimensions : \E rate \in StatedRates(dim, req) :
                 /\ SharesQuota(dim, req, req)
                 /\ Cardinality(Recent(dim, rate, n)' \ {n}) >= rate.count
    <2>1. PICK dim \in Applies(req) : ~Verdict(req, dim).result.allowed
      BY <1>1, <1>4
    <2>2. PICK rate : rate = RateOf(req, dim)
      OBVIOUS
    <2>3. /\ dim \in Dimensions /\ rate \in StatedRates(dim, req) /\ SharesQuota(dim, req, req)
          /\ rate.count \in Nat \ {0} /\ Ticks(rate) \in Nat \ {0} /\ Ticks(rate) < StartTime
          /\ now \in Nat
      BY <2>2, Running, RateFacts DEF Applies
    <2>4. PICK back \in Nat : back = now - Ticks(rate) + 1
      BY <2>3, Running
    <2>5. PICK k : k = KeyOf(req, dim)
      OBVIOUS
    <2>6. Granted(k)[back] >= rate.count
      BY <1>4, <2>1, <2>2, <2>4, <2>5, KeyEvaluated DEF UsedUp
    <2> DEFINE A == GrantsSince(k, back)
               B == Recent(dim, rate, n)' \ {n}
    <2>7. Cardinality(A) >= rate.count
      BY <2>6 DEF Granted
    <2>8. ASSUME NEW j \in A
          PROVE  j \in B
      <3>1. /\ j \in DOMAIN calls /\ calls[j].at >= back /\ calls[j].at \in Nat
            /\ Judged(j) /\ j \in 1..n /\ j # n
        BY <1>1, <1>3, <2>8 DEF GrantsSince, Grants, HookInv, Common
      <3>2. PICK d \in DOMAIN calls[j].dims : KeyOf(calls[j].req, d) = k
        BY <2>8 DEF GrantsSince, Grants
      <3>3. d \in Applies(calls[j].req) /\ Counted(j)
        BY <3>1, <3>2 DEF Judged
      <3>4. SharesQuota(dim, req, calls[j].req)
        BY <2>1, <2>5, <3>2, <3>3, KeyFacts DEF Applies
      <3>5. calls[j].at > now - Ticks(rate)
        BY <2>3, <2>4, <3>1
      <3>6. Counted(j)' /\ calls'[j] = calls[j]
        BY <1>3, <3>1, <3>3 DEF Counted, Passed, Refused
      <3> QED BY <1>1, <1>2, <3>1, <3>4, <3>5, <3>6 DEF Recent
    <2>9. IsFiniteSet(B)
      <3>1. B \subseteq 1..n
        BY DEF Recent
      <3>2. IsFiniteSet(1..n)
        BY <1>1, FS_Interval
      <3> QED BY <3>1, <3>2, FS_Subset
    <2>10. Cardinality(A) <= Cardinality(B)
           /\ Cardinality(A) \in Nat /\ Cardinality(B) \in Nat
      <3> HIDE DEF A, B
      <3> QED BY <2>8, <2>9, FS_Subset, FS_CardinalityType
    <2>11. Cardinality(B) >= rate.count
      <3> HIDE DEF A, B
      <3> QED BY <2>3, <2>7, <2>10
    <2> QED BY <2>3, <2>11
  <1>5. \A dim : StatedRates(dim, req)' = StatedRates(dim, req)
    BY <1>2 DEF StatedRates
  <1> QED BY <1>1, <1>2, <1>4, <1>5 DEF RefusalAt, Algo

Passing(call) == call.answer.code = "pass"
Refusing(call) == call.answer.code = "RATE_LIMIT"

(* A call that the engine never judged is counted nowhere.                 *)
LEMMA EarlyReturnKeeps ==
  ASSUME Common, HookInv, engine.status = "built", store' = store, NEW call, Adds(call),
         DOMAIN call.dims = {}, ~Refusing(call), Escapes(call.req) \/ ~Passing(call)
  PROVE  Common' /\ HookInv'
  <1>1. Common'
    BY CommonGrows
  <1>2. ASSUME OnMemory'
        PROVE  /\ \A j \in DOMAIN calls' : Judged(j)' /\ QuotaAt(j)' /\ RefusalAt(j)'
               /\ \A req \in deployment'.requests : \A d \in Applies(req)' : Logged(req, d)'
    <2>1. engine' = engine /\ deployment' = deployment /\ now' = now
      BY DEF Adds
    <2>2. /\ \A j \in DOMAIN calls : Judged(j) /\ QuotaAt(j) /\ RefusalAt(j)
          /\ \A req \in deployment.requests : \A d \in Applies(req) : Logged(req, d)
      BY <1>2, <2>1 DEF HookInv, OnMemory
    <2>3. PICK n : n = Len(calls) + 1
      OBVIOUS
    <2>4. DOMAIN calls' = DOMAIN calls \union {n} /\ calls'[n] = call
      BY <2>3, CallsGrow
    <2>5. ~Counted(n)' /\ ~Refused(n)'
      BY <2>4 DEF Counted, Refused, Passed, Refusing, Passing
    <2>6. Judged(n)' /\ QuotaAt(n)' /\ RefusalAt(n)'
      BY <2>4, <2>5 DEF Judged, QuotaAt, RefusalAt
    <2>7. \A j \in DOMAIN calls' : Judged(j)' /\ QuotaAt(j)' /\ RefusalAt(j)'
      BY <2>2, <2>4, <2>6, OldCallsKeep
    <2>8. \A k : Grants(k)' = Grants(k) /\ Granted(k)' = Granted(k)
      <3> TAKE k
      <3>1. ~GrantsKey(call, k)
        BY DEF GrantsKey
      <3> QED BY <3>1, GrantsGrow
    <2>9. ASSUME NEW req \in deployment.requests, NEW d \in Applies(req)'
          PROVE  Logged(req, d)'
      <3>1. RateOf(req, d)' = RateOf(req, d) /\ d \in Applies(req)
        BY <2>1 DEF Applies, RateOf
      <3>2. Logged(req, d)
        BY <2>2, <3>1
      <3> QED BY <2>1, <2>8, <3>1, <3>2 DEF Logged
    <2> QED BY <2>1, <2>7, <2>9
  <1> QED BY <1>1, <1>2 DEF HookInv

(* A check adds one call, judged as the invariant says.                    *)
LEMMA CheckKeeps ==
  ASSUME Common, HookInv, engine.status = "built", NEW req \in deployment.requests,
         ~Escapes(req), Check(req), UNCHANGED <<deployment, engine, now>>
  PROVE  Common' /\ HookInv'
  <1>1. OnMemory
    BY DEF Check, OnMemory
  <1>2. PICK dims : /\ DOMAIN dims = Applies(req)
                    /\ \A d \in Applies(req) : dims[d] = Verdict(req, d).result
                    /\ Answered(req, dims, PrehookResult(req, dims))
    BY CheckEffect
  <1>3. PICK call : call = [req |-> req, at |-> now, dims |-> dims,
                            answer |-> PrehookResult(req, dims)]
    OBVIOUS
  <1>4. Checked(req, call)
    BY <1>2, <1>3 DEF Checked, Adds, Answered
  <1>5. Adds(call)
    BY <1>4 DEF Checked
  <1>6. Common'
    BY <1>5, CommonGrows
  <1>7. PICK n : n = Len(calls) + 1
    OBVIOUS
  <1>8. Judged(n)' /\ QuotaAt(n)' /\ RefusalAt(n)'
    BY <1>1, <1>4, <1>7, NewCallJudged, NewCallWithinQuota, NewCallRefusedInScope
  <1>9. DOMAIN calls' = DOMAIN calls \union {n}
    BY <1>5, <1>7, CallsGrow
  <1>10. \A j \in DOMAIN calls : Judged(j) /\ QuotaAt(j) /\ RefusalAt(j)
    BY <1>1 DEF HookInv
  <1>11. \A j \in DOMAIN calls' : Judged(j)' /\ QuotaAt(j)' /\ RefusalAt(j)'
    BY <1>5, <1>8, <1>9, <1>10, OldCallsKeep
  <1>12. ASSUME NEW r \in deployment'.requests, NEW e \in Applies(r)'
         PROVE  Logged(r, e)'
    <2>1. r \in deployment.requests /\ e \in Applies(r)
      BY DEF Applies, RateOf
    <2> QED BY <1>1, <1>4, <2>1, KeysKept
  <1> QED BY <1>6, <1>11, <1>12 DEF HookInv

(* With Redis nothing is counted here.                                     *)
LEMMA RedisKeeps ==
  ASSUME Common, NEW call, Adds(call), engine.status = "built",
         engine.backend.kind = "redis"
  PROVE  Common' /\ HookInv'
  <1>1. Common'
    BY CommonGrows
  <1>2. ~OnMemory'
    BY DEF Adds, OnMemory
  <1> QED BY <1>1, <1>2 DEF HookInv

(* What holds of the calls depends on nothing but the calls, the           *)
(* configuration and the engine.                                           *)
LEMMA SameCallsKeep ==
  ASSUME UNCHANGED <<deployment, engine, calls>>
  PROVE  /\ raw' = raw /\ (OnMemory' <=> OnMemory)
         /\ \A j : /\ Judged(j) => Judged(j)'
                   /\ QuotaAt(j) => QuotaAt(j)'
                   /\ RefusalAt(j) => RefusalAt(j)'
         /\ \A req, d : RateOf(req, d)' = RateOf(req, d) /\ Applies(req)' = Applies(req)
         /\ \A k : Grants(k)' = Grants(k) /\ Granted(k)' = Granted(k)
  <1>1. deployment' = deployment /\ engine' = engine /\ calls' = calls
    OBVIOUS
  <1>2. raw' = raw
    BY <1>1 DEF raw
  <1>3. \A k : (Counted(k)' <=> Counted(k)) /\ (Passed(k)' <=> Passed(k))
              /\ (Refused(k)' <=> Refused(k))
    BY <1>1 DEF Counted, Passed, Refused
  <1>4. \A req, d : RateOf(req, d)' = RateOf(req, d) /\ Applies(req)' = Applies(req)
    BY <1>1 DEF RateOf, Applies
  <1>5. \A dim, rate, j : /\ Recent(dim, rate, j)' = Recent(dim, rate, j)
                          /\ {k \in Recent(dim, rate, j) : Passed(k)}'
                               = {k \in Recent(dim, rate, j) : Passed(k)}
    BY <1>1, <1>3 DEF Recent
  <1>6. \A dim, req : StatedRates(dim, req)' = StatedRates(dim, req)
    BY <1>2 DEF StatedRates
  <1>7. \A k : Grants(k)' = Grants(k) /\ Granted(k)' = Granted(k)
    BY <1>1 DEF Grants, Granted, GrantsSince
  <1>8. \A j : /\ Judged(j) => Judged(j)'
               /\ QuotaAt(j) => QuotaAt(j)'
               /\ RefusalAt(j) => RefusalAt(j)'
    <2> TAKE j
    <2>1. Judged(j) => Judged(j)'
      BY <1>1, <1>3, <1>4 DEF Judged
    <2>2. QuotaAt(j) => QuotaAt(j)'
      BY <1>1, <1>3, <1>5, <1>6 DEF QuotaAt
    <2>3. RefusalAt(j) => RefusalAt(j)'
      BY <1>1, <1>3, <1>5, <1>6 DEF RefusalAt
    <2> QED BY <2>1, <2>2, <2>3
  <1>9. OnMemory' <=> OnMemory
    BY <1>1 DEF OnMemory
  <1> QED BY <1>2, <1>4, <1>7, <1>8, <1>9

LEMMA TickKeeps ==
  ASSUME Common, HookInv, Tick
  PROVE  Common' /\ HookInv'
  <1>1. /\ now' = now + 1 /\ now \in Nat /\ now' \in Nat /\ now <= now' /\ StartTime <= now
        /\ engine' = engine /\ deployment' = deployment /\ store' = store /\ calls' = calls
        /\ raw' = raw
    BY DEF Tick, Common, raw
  <1>2. Common'
    <2>1. StartTime <= now' /\ \A j \in DOMAIN calls' : calls'[j].at \in Nat /\ calls'[j].at <= now'
      BY <1>1, HookAssumption DEF Common
    <2> QED BY <1>1, <2>1 DEF Common
  <1>3. ASSUME OnMemory'
        PROVE  /\ \A j \in DOMAIN calls' : Judged(j)' /\ QuotaAt(j)' /\ RefusalAt(j)'
               /\ \A req \in deployment'.requests : \A d \in Applies(req)' : Logged(req, d)'
    <2>1. OnMemory
      BY <1>1, <1>3 DEF OnMemory
    <2>2. /\ \A j \in DOMAIN calls : Judged(j) /\ QuotaAt(j) /\ RefusalAt(j)
          /\ \A req \in deployment.requests : \A d \in Applies(req) : Logged(req, d)
      BY <2>1 DEF HookInv
    <2>3. \A j \in DOMAIN calls' : Judged(j)' /\ QuotaAt(j)' /\ RefusalAt(j)'
      BY <1>1, <2>2, SameCallsKeep
    <2>4. ASSUME NEW req \in deployment.requests, NEW d \in Applies(req)
          PROVE  Logged(req, d)'
      <3>1. PICK k : k = KeyOf(req, d)
        OBVIOUS
      <3>2. PICK rate : rate = RateOf(req, d)
        OBVIOUS
      <3>3. RateOf(req, d)' = rate /\ Granted(k)' = Granted(k) /\ Grants(k)' = Grants(k)
        BY <1>1, <3>2, SameCallsKeep
      <3>4. Logged(req, d)
        BY <2>2
      <3>5. CASE k \in DOMAIN store
        <4>1. KeyLog(Algo, store[k], rate.count, Ticks(rate), Granted(k), now)
          BY <3>1, <3>2, <3>4, <3>5 DEF Logged, Algo
        <4>2. Ticks(rate) \in Nat /\ Algo \in Algorithms
          BY <2>1, <3>2, Running, RateFacts DEF Applies
        <4>3. KeyLog(Algo, store[k], rate.count, Ticks(rate), Granted(k), now')
          BY <1>1, <4>1, <4>2, LogAges
        <4> QED BY <1>1, <3>1, <3>3, <3>5, <4>3 DEF Logged, Algo
      <3>6. CASE k \notin DOMAIN store
        BY <1>1, <3>1, <3>3, <3>4, <3>6 DEF Logged
      <3> QED BY <3>5, <3>6
    <2> QED BY <1>1, <2>3, <2>4, SameCallsKeep
  <1> QED BY <1>2, <1>3 DEF HookInv

LEMMA InitKeeps ==
  ASSUME Init
  PROVE  Common /\ HookInv
  <1>1. engine.status = "new" /\ calls = << >> /\ DOMAIN store = {}
    BY DEF Init, NotBuilt
  <1>2. IsSequence(calls)
    <2>1. << >> \in Seq({})
      OBVIOUS
    <2> QED BY <1>1, <2>1 DEF IsSequence
  <1>3. deployment \in Deployments /\ now = StartTime /\ StartTime \in Nat
    BY HookAssumption DEF Init
  <1>4. ~OnMemory
    BY <1>1 DEF OnMemory
  <1> QED BY <1>1, <1>2, <1>3, <1>4 DEF Common, HookInv

LEMMA ConstructKeeps ==
  ASSUME Common, Construct \/ ConstructFails
  PROVE  Common' /\ HookInv'
  <1>1. engine.status = "new" /\ engine.status # "built"
    BY DEF Construct, ConstructFails, NotBuilt
  <1>2. /\ calls = << >> /\ DOMAIN store = {} /\ calls' = calls /\ store' = store
        /\ deployment' = deployment /\ now' = now /\ raw' = raw
    BY <1>1 DEF Construct, ConstructFails, Common, raw
  <1>3. Common'
    <2>1. engine'.status = "built" =>
            engine'.config \in EngineConfigs(raw) /\ engine'.backend \in Backends(raw)
      BY DEF Construct, ConstructFails, Rejected
    <2> QED BY <1>2, <2>1 DEF Common
  <1>4. HookInv'
    <2>1. DOMAIN calls' = {} /\ DOMAIN store' = {}
      BY <1>2
    <2>2. \A k : Grants(k)' = {}
      BY <2>1 DEF Grants
    <2>3. \A req, d : Logged(req, d)'
      BY <2>1, <2>2 DEF Logged
    <2> QED BY <2>1, <2>3 DEF HookInv
  <1> QED BY <1>3, <1>4

LEMMA CallKeeps ==
  ASSUME Common, HookInv, NEW req \in deployment.requests,
         \/ CallEscapes(req) \/ RefuseWithoutServer(req)
         \/ ToolPreInvoke(req) \/ PromptPreFetch(req)
  PROVE  Common' /\ HookInv'
  <1>1. engine.status = "built" /\ UNCHANGED <<deployment, engine, now>>
    BY DEF CallEscapes, RefuseWithoutServer, ToolPreInvoke, PromptPreFetch, Serving
  <1>2. CASE CallEscapes(req)
    <2>1. PICK call : call = [req |-> req, at |-> now, dims |-> << >>, answer |-> LetThrough]
      OBVIOUS
    <2>2. Adds(call) /\ store' = store /\ Escapes(call.req)
      BY <1>1, <1>2, <2>1 DEF CallEscapes, Answered, Adds
    <2>3. DOMAIN call.dims = {} /\ ~Refusing(call)
      BY <2>1 DEF Refusing, LetThrough, Answer
    <2> QED BY <1>1, <2>2, <2>3, EarlyReturnKeeps
  <1>3. CASE RefuseWithoutServer(req)
    <2>1. PICK call : call = [req |-> req, at |-> now, dims |-> << >>, answer |-> ContextMissing]
      OBVIOUS
    <2>2. Adds(call) /\ store' = store
      BY <1>1, <1>3, <2>1 DEF RefuseWithoutServer, Answered, Adds
    <2>3. DOMAIN call.dims = {} /\ ~Refusing(call) /\ ~Passing(call)
      BY <2>1 DEF Refusing, Passing, ContextMissing, Answer
    <2> QED BY <1>1, <2>2, <2>3, EarlyReturnKeeps
  <1>4. CASE ToolPreInvoke(req) \/ PromptPreFetch(req)
    <2>1. ~Escapes(req) /\ (Check(req) \/ CheckAsync(req) \/ CheckAsyncFails(req))
      BY <1>4 DEF ToolPreInvoke, PromptPreFetch, EvaluateRequest
    <2>2. CASE Check(req)
      BY <1>1, <2>1, <2>2, CheckKeeps
    <2>3. CASE CheckAsync(req)
      <3>1. PICK dims \in RedisReplies(Checks(req)) : Answered(req, dims, PrehookResult(req, dims))
        BY <2>3 DEF CheckAsync
      <3>2. PICK call : call = [req |-> req, at |-> now, dims |-> dims,
                                answer |-> PrehookResult(req, dims)]
        OBVIOUS
      <3>3. Adds(call)
        BY <1>1, <3>1, <3>2 DEF Answered, Adds
      <3> QED BY <1>1, <2>3, <3>3, RedisKeeps DEF CheckAsync
    <2>4. CASE CheckAsyncFails(req)
      <3>1. PICK call : call = [req |-> req, at |-> now, dims |-> << >>, answer |-> BackendError]
        OBVIOUS
      <3>2. Adds(call)
        BY <1>1, <2>4, <3>1 DEF CheckAsyncFails, Answered, Adds
      <3> QED BY <1>1, <2>4, <3>2, RedisKeeps DEF CheckAsyncFails
    <2> QED BY <2>1, <2>2, <2>3, <2>4
  <1> QED BY <1>2, <1>3, <1>4

LEMMA StutterKeeps ==
  ASSUME Common, HookInv, UNCHANGED vars
  PROVE  Common' /\ HookInv'
  <1>1. /\ deployment' = deployment /\ engine' = engine /\ store' = store
        /\ now' = now /\ calls' = calls
    BY DEF vars
  <1>2. Common'
    BY <1>1 DEF Common, raw
  <1>3. \A req, d : Logged(req, d) => Logged(req, d)'
    BY <1>1, SameCallsKeep DEF Logged
  <1>4. HookInv'
    BY <1>1, <1>3, SameCallsKeep DEF HookInv
  <1> QED BY <1>2, <1>4

LEMMA HookInvariant == Spec => [](Common /\ HookInv)
  <1>1. Init => Common /\ HookInv
    BY InitKeeps
  <1>2. Common /\ HookInv /\ [Next]_vars => Common' /\ HookInv'
    <2> SUFFICES ASSUME Common, HookInv, [Next]_vars
                 PROVE  Common' /\ HookInv'
      OBVIOUS
    <2>1. CASE Construct \/ ConstructFails
      BY <2>1, ConstructKeeps
    <2>2. CASE Tick
      BY <2>2, TickKeeps
    <2>3. CASE \E req \in deployment.requests :
                 \/ CallEscapes(req) \/ RefuseWithoutServer(req)
                 \/ ToolPreInvoke(req) \/ PromptPreFetch(req)
      BY <2>3, CallKeeps
    <2>4. CASE UNCHANGED vars
      BY <2>4, StutterKeeps
    <2> QED BY <2>1, <2>2, <2>3, <2>4 DEF Next
  <1> QED BY <1>1, <1>2, PTL DEF Spec

(***************************************************************************)
(* The remaining quota.  A second invariant, over the first: as long as a  *)
(* call is repeated and nothing else is called, each of its keys leaves    *)
(* room for what is left of the quota it advertised, and one key, as long  *)
(* as no time passes, for no more.                                         *)
(***************************************************************************)
Served(req) == ~Escapes(req) /\ (req.hook = "tool" => ServerValid(req))

RoomOf(req, d) ==
  LET rate == RateOf(req, d)
  IN Room(Algo, store[KeyOf(req, d)], rate.count, Ticks(rate), now)

Advertised(i) == Passed(i) /\ calls[i].answer.limit > 0
Left(i) == calls[i].answer.remaining - (Len(calls) - i)

RoomLeft(i) ==
  \E req \in deployment.requests :
    /\ req = calls[i].req /\ Served(req)
    /\ calls[i].answer.remaining \in Nat
    /\ Repeats(i, Len(calls)) /\ Left(i) >= 0 =>
         /\ \A d \in Applies(req) :
              KeyOf(req, d) \in DOMAIN store /\ RoomOf(req, d) >= Left(i)
         /\ calls[i].at = now => \E d \in Applies(req) : RoomOf(req, d) = Left(i)

HonestAt(i, j) ==
  Repeats(i, j) =>
    /\ j - i <= calls[i].answer.remaining => Passed(j)
    /\ j - i = calls[i].answer.remaining + 1 /\ calls[j].at = calls[i].at => Refused(j)

RoomInv ==
  OnMemory =>
    \A i \in DOMAIN calls : Advertised(i) =>
      RoomLeft(i) /\ \A j \in i + 1..Len(calls) : HonestAt(i, j)

(* What a check does to the room of a dimension.                           *)
LEMMA RoomTaken ==
  ASSUME Common, HookInv, OnMemory, NEW req \in deployment.requests, Check(req),
         UNCHANGED <<deployment, engine, now>>, NEW d \in Applies(req),
         NEW k, k = KeyOf(req, d), NEW rate, rate = RateOf(req, d),
         NEW room, room = Room(Algo, State(k, rate), rate.count, Ticks(rate), now)
  PROVE  /\ room \in Nat
         /\ Verdict(req, d).result.allowed <=> room >= 1
         /\ k \in DOMAIN store'
         /\ Verdict(req, d).result.allowed =>
              RoomOf(req, d)' = room - 1 /\ Verdict(req, d).result.remaining = room - 1
         /\ k \in DOMAIN store => room = RoomOf(req, d)
  <1>1. /\ rate.count \in Nat \ {0} /\ Ticks(rate) \in Nat \ {0} /\ Ticks(rate) < now
        /\ KeyLog(Algo, State(k, rate), rate.count, Ticks(rate), Granted(k), now)
        /\ Verdict(req, d) = Evaluate(Algo, State(k, rate), rate.count, Ticks(rate), now, Unix)
    BY KeyReady
  <1>2. Algo \in Algorithms /\ now \in Nat /\ Unix \in Nat
    BY Running
  <1>3. Met(Algo, State(k, rate), rate.count, now)
    BY <1>1 DEF KeyLog, Met
  <1>4. PICK ev : ev = Verdict(req, d)
    OBVIOUS
  <1>5. /\ room \in Nat /\ (ev.result.allowed <=> room >= 1)
        /\ ev.result.allowed =>
             /\ ev.result.limit = rate.count /\ ev.result.remaining = room - 1
             /\ Room(Algo, ev.state, rate.count, Ticks(rate), now) = room - 1
    BY <1>1, <1>2, <1>3, <1>4, RoomSpent
  <1>6. k \in DOMAIN store' /\ store'[k] = ev.state
    BY <1>4, CheckEffect
  <1>7. RoomOf(req, d)' = Room(Algo, store'[k], rate.count, Ticks(rate), now)
    BY DEF RoomOf, RateOf, Algo
  <1>8. k \in DOMAIN store => room = RoomOf(req, d)
    BY DEF State, RoomOf
  <1> QED BY <1>4, <1>5, <1>6, <1>7, <1>8

(* An answer with a limit tells what the tightest dimension leaves.        *)
LEMMA RemainingFacts ==
  ASSUME NEW req, NEW dims, IsResults(dims),
         PrehookResult(req, dims).code = "pass", PrehookResult(req, dims).limit > 0
  PROVE  \E d \in DOMAIN dims :
           /\ PrehookResult(req, dims).remaining = dims[d].remaining
           /\ \A e \in DOMAIN dims : dims[d].remaining <= dims[e].remaining
  <1>1. DOMAIN dims # {}
    BY DEF PrehookResult, LetThrough, Answer
  <1>2. Refusals(dims) = {}
    BY AnswerFacts
  <1>3. PICK d \in DOMAIN dims :
          /\ MostRestrictive(dims) = dims[d]
          /\ \A e \in DOMAIN dims : dims[d].remaining <= dims[e].remaining
    BY <1>1, LeastOfResults
  <1>4. FromDims(dims) = dims[d] /\ dims[d].allowed
    BY <1>2, <1>3 DEF FromDims, Refusals
  <1>5. PrehookResult(req, dims) = Answer("pass", dims[d].limit, dims[d].remaining, NoRetry)
    BY <1>1, <1>4 DEF PrehookResult
  <1> QED BY <1>3, <1>5 DEF Answer

(* Requests are served and judged alike while the engine is the same.      *)
LEMMA SameEngine ==
  ASSUME UNCHANGED engine
  PROVE  /\ \A req : Served(req)' <=> Served(req)
         /\ \A req, d : RateOf(req, d)' = RateOf(req, d)
         /\ \A req : Applies(req)' = Applies(req)
  BY DEF Served, ServerValid, ServerNeeded, RateOf, Applies

LEMMA CallsCounted ==
  ASSUME Common, NEW call, Adds(call), NEW n, n = Len(calls) + 1
  PROVE  /\ n \in Nat \ {0} /\ Len(calls) = n - 1 /\ Len(calls') = n
         /\ DOMAIN calls = 1..(n - 1) /\ DOMAIN calls' = DOMAIN calls \union {n}
         /\ \A j \in DOMAIN calls : calls'[j] = calls[j]
         /\ calls'[n] = call
  <1>1. Len(calls) \in Nat /\ n \in Nat \ {0} /\ Len(calls) = n - 1
    <2>1. Len(calls) \in Nat
      BY AppendedCall DEF Common
    <2> QED BY <2>1
  <1>2. Len(calls') = n
    <2>1. calls' = Append(calls, call)
      BY DEF Adds
    <2>2. PICK S : calls \in Seq(S)
      BY DEF Common, IsSequence
    <2>3. calls \in Seq(S \union {call}) /\ call \in S \union {call}
      BY <2>2, SeqDef
    <2> QED BY <2>1, <2>3, AppendProperties
  <1> QED BY <1>1, <1>2, CallsGrow

(* A call that is added changes nothing about the calls before it, and     *)
(* continues a repetition only with the same request.                      *)
LEMMA OldAdvertised ==
  ASSUME Common, NEW call, Adds(call), NEW n, n = Len(calls) + 1, NEW i \in DOMAIN calls
  PROVE  /\ n \in Nat /\ i \in 1..(n - 1) /\ Len(calls') = n
         /\ calls'[i] = calls[i] /\ calls'[n] = call
         /\ Advertised(i)' <=> Advertised(i)
         /\ Repeats(i, n)' => call.req = calls[i].req /\ Repeats(i, Len(calls))
         /\ \A j \in i + 1..Len(calls) : HonestAt(i, j) => HonestAt(i, j)'
  <1>1. /\ n \in Nat /\ DOMAIN calls = 1..(n - 1) /\ DOMAIN calls' = DOMAIN calls \union {n}
        /\ \A j \in DOMAIN calls : calls'[j] = calls[j]
        /\ calls'[n] = call
    BY CallsCounted
  <1>2. Len(calls) \in Nat /\ DOMAIN calls = 1..Len(calls)
    BY CallsCounted
  <1>3. Len(calls') = n
    BY CallsCounted
  <1>4. i \in 1..(n - 1) /\ i \in Nat /\ calls'[i] = calls[i]
    BY <1>1
  <1>5. \A k \in i..Len(calls) : k \in DOMAIN calls /\ calls'[k] = calls[k]
    BY <1>1, <1>2, <1>4
  <1>6. Repeats(i, n)' => call.req = calls[i].req /\ Repeats(i, Len(calls))
    <2> SUFFICES ASSUME Repeats(i, n)'
                 PROVE  call.req = calls[i].req /\ Repeats(i, Len(calls))
      OBVIOUS
    <2>1. \A k \in i..n : calls'[k].req = calls'[i].req
      BY DEF Repeats
    <2>2. n \in i..n /\ \A k \in i..Len(calls) : k \in i..n
      BY <1>1, <1>2, <1>4
    <2> QED BY <1>1, <1>4, <1>5, <2>1, <2>2 DEF Repeats
  <1>7. ASSUME NEW j \in i + 1..Len(calls), HonestAt(i, j)
        PROVE  HonestAt(i, j)'
    <2>1. j \in i..Len(calls) /\ \A k \in i..j : k \in i..Len(calls)
      BY <1>2, <1>4
    <2>2. calls'[j] = calls[j] /\ \A k \in i..j : calls'[k] = calls[k]
      BY <1>5, <2>1
    <2>3. Repeats(i, j)' => Repeats(i, j)
      BY <1>4, <2>2 DEF Repeats
    <2> QED BY <1>4, <1>7, <2>2, <2>3 DEF HonestAt, Passed, Refused
  <1> QED BY <1>1, <1>3, <1>4, <1>6, <1>7 DEF Advertised, Passed

(* A check repeats an advertised call while something is left of it, and   *)
(* then, without time passing, is refused.                                 *)
LEMMA OldRoomChecked ==
  ASSUME Common, HookInv, OnMemory, NEW req \in deployment.requests, Served(req), Check(req),
         NEW call, Checked(req, call), NEW n, n = Len(calls) + 1,
         NEW i \in DOMAIN calls, Advertised(i), RoomLeft(i)
  PROVE  HonestAt(i, n)' /\ RoomLeft(i)'
  <1>1. Adds(call) /\ call.req = req /\ UNCHANGED <<deployment, engine, now>> /\ call.at = now
    BY DEF Checked, Adds
  <1>2. /\ n \in Nat /\ i \in 1..(n - 1) /\ Len(calls') = n
        /\ calls'[i] = calls[i] /\ calls'[n] = call
        /\ Repeats(i, n)' => call.req = calls[i].req /\ Repeats(i, Len(calls))
    BY <1>1, OldAdvertised
  <1>3. PICK left : left = Left(i)
    OBVIOUS
  <1>4. PICK rem : rem = calls[i].answer.remaining
    OBVIOUS
  <1>5. PICK r \in deployment.requests :
          /\ r = calls[i].req /\ Served(r) /\ rem \in Nat
          /\ Repeats(i, Len(calls)) /\ left >= 0 =>
               /\ \A d \in Applies(r) :
                    KeyOf(r, d) \in DOMAIN store /\ RoomOf(r, d) >= left
               /\ calls[i].at = now => \E d \in Applies(r) : RoomOf(r, d) = left
    BY <1>3, <1>4 DEF RoomLeft
  <1>6. left = rem - ((n - 1) - i) /\ Left(i)' = rem - (n - i) /\ left \in Int
    <2>1. Len(calls) = n - 1
      BY <1>1, CallsCounted
    <2>2. left = rem - ((n - 1) - i)
      BY <1>3, <1>4, <2>1 DEF Left
    <2>3. Left(i)' = rem - (n - i)
      BY <1>2, <1>4 DEF Left
    <2> QED BY <1>2, <1>5, <2>2, <2>3
  (* The rooms that this check leaves. *)
  <1>7. ASSUME Repeats(i, n)', left >= 0
        PROVE  /\ calls[i].req = req
               /\ \A d \in Applies(req) :
                    /\ RoomOf(req, d) \in Nat /\ RoomOf(req, d) >= left
                    /\ call.dims[d].allowed <=> RoomOf(req, d) >= 1
                    /\ KeyOf(req, d) \in DOMAIN store'
                    /\ call.dims[d].allowed => RoomOf(req, d)' = RoomOf(req, d) - 1
               /\ calls[i].at = now => \E d \in Applies(req) : RoomOf(req, d) = left
    <2>1. calls[i].req = req /\ r = req
      BY <1>1, <1>2, <1>5, <1>7
    <2>2. /\ \A d \in Applies(req) : KeyOf(req, d) \in DOMAIN store /\ RoomOf(req, d) >= left
          /\ calls[i].at = now => \E d \in Applies(req) : RoomOf(req, d) = left
      BY <1>2, <1>5, <1>7, <2>1
    <2>3. ASSUME NEW d \in Applies(req)
          PROVE  /\ RoomOf(req, d) \in Nat /\ RoomOf(req, d) >= left
                 /\ call.dims[d].allowed <=> RoomOf(req, d) >= 1
                 /\ KeyOf(req, d) \in DOMAIN store'
                 /\ call.dims[d].allowed => RoomOf(req, d)' = RoomOf(req, d) - 1
      <3>1. PICK k : k = KeyOf(req, d)
        OBVIOUS
      <3>2. PICK rate : rate = RateOf(req, d)
        OBVIOUS
      <3>3. PICK room : room = Room(Algo, State(k, rate), rate.count, Ticks(rate), now)
        OBVIOUS
      <3>4. k \in DOMAIN store /\ RoomOf(req, d) >= left
        BY <2>2, <3>1
      <3>5. /\ room \in Nat
            /\ Verdict(req, d).result.allowed <=> room >= 1
            /\ k \in DOMAIN store'
            /\ Verdict(req, d).result.allowed => RoomOf(req, d)' = room - 1
            /\ room = RoomOf(req, d)
        BY <1>1, <3>1, <3>2, <3>3, <3>4, RoomTaken
      <3>6. call.dims[d] = Verdict(req, d).result
        BY DEF Checked
      <3> QED BY <3>1, <3>4, <3>5, <3>6
    <2> QED BY <2>1, <2>2, <2>3
  <1>8. /\ IsResults(call.dims) /\ DOMAIN call.dims = Applies(req)
        /\ call.answer = PrehookResult(req, call.dims)
    <2>1. DOMAIN call.dims = Applies(req) /\ Applies(req) \subseteq Dimensions
      BY DEF Checked, Applies
    <2>2. \A d \in Applies(req) : call.dims[d] \in DimResults
      BY KeyEvaluated DEF Checked
    <2> QED BY <2>1, <2>2 DEF IsResults, Checked
  <1>9. /\ call.answer.code \in {"pass", "RATE_LIMIT"}
        /\ (\A d \in Applies(req) : call.dims[d].allowed) => call.answer.code = "pass"
        /\ (\E d \in Applies(req) : ~call.dims[d].allowed) => call.answer.code = "RATE_LIMIT"
    BY <1>8, AnswerFacts DEF Refusals
  <1>10. HonestAt(i, n)'
    <2> SUFFICES ASSUME Repeats(i, n)'
                 PROVE  /\ n - i <= rem => call.answer.code = "pass"
                        /\ n - i = rem + 1 /\ call.at = calls[i].at
                             => call.answer.code = "RATE_LIMIT"
      BY <1>2, <1>4 DEF HonestAt, Passed, Refused
    <2>1. ASSUME n - i <= rem
          PROVE  call.answer.code = "pass"
      <3>1. left >= 1
        BY <1>2, <1>5, <1>6, <2>1
      <3>2. \A d \in Applies(req) : call.dims[d].allowed
        BY <1>6, <1>7, <3>1
      <3> QED BY <1>9, <3>2
    <2>2. ASSUME n - i = rem + 1, call.at = calls[i].at
          PROVE  call.answer.code = "RATE_LIMIT"
      <3>1. left = 0
        BY <1>2, <1>5, <1>6, <2>2
      <3>2. PICK d \in Applies(req) : RoomOf(req, d) = left
        BY <1>1, <1>7, <2>2, <3>1
      <3>3. ~call.dims[d].allowed
        BY <1>7, <3>1, <3>2
      <3> QED BY <1>9, <3>3
    <2> QED BY <2>1, <2>2
  <1>11. RoomLeft(i)'
    <2>1. /\ r \in deployment'.requests /\ r = calls'[i].req /\ Served(r)'
          /\ calls'[i].answer.remaining \in Nat
      BY <1>1, <1>2, <1>4, <1>5, SameEngine
    <2>2. ASSUME Repeats(i, n)', Left(i)' >= 0
          PROVE  /\ r = req
                 /\ \A d \in Applies(req) :
                      KeyOf(req, d) \in DOMAIN store' /\ RoomOf(req, d)' >= Left(i)'
                 /\ calls[i].at = now => \E d \in Applies(req) : RoomOf(req, d)' = Left(i)'
      <3>1. left >= 1 /\ Left(i)' = left - 1
        BY <1>2, <1>5, <1>6, <2>2
      <3>2. /\ calls[i].req = req
            /\ \A d \in Applies(req) :
                 /\ RoomOf(req, d) \in Nat /\ RoomOf(req, d) >= left
                 /\ RoomOf(req, d)' = RoomOf(req, d) - 1
                 /\ KeyOf(req, d) \in DOMAIN store'
            /\ calls[i].at = now => \E d \in Applies(req) : RoomOf(req, d) = left
        BY <1>6, <1>7, <2>2, <3>1
      <3>3. \A d \in Applies(req) : /\ RoomOf(req, d)' >= Left(i)'
                                    /\ RoomOf(req, d) = left => RoomOf(req, d)' = Left(i)'
        BY <1>6, <3>1, <3>2
      <3> QED BY <1>5, <3>2, <3>3
    <2>3. Applies(req)' = Applies(req)
      BY <1>1, SameEngine
    <2> QED BY <1>1, <1>2, <2>1, <2>2, <2>3 DEF RoomLeft
  <1> QED BY <1>10, <1>11

(* A call that a check lets through advertises the room it leaves.         *)
LEMMA NewRoomChecked ==
  ASSUME Common, HookInv, OnMemory, NEW req \in deployment.requests, Served(req), Check(req),
         NEW call, Checked(req, call), NEW n, n = Len(calls) + 1, Advertised(n)'
  PROVE  RoomLeft(n)'
  <1>1. Adds(call) /\ call.req = req /\ UNCHANGED <<deployment, engine, now>> /\ call.at = now
    BY DEF Checked, Adds
  <1>2. n \in Nat /\ Len(calls') = n /\ calls'[n] = call
    BY <1>1, CallsCounted
  <1>3. call.answer.code = "pass" /\ call.answer.limit > 0
    BY <1>2 DEF Advertised, Passed
  <1>4. /\ IsResults(call.dims) /\ DOMAIN call.dims = Applies(req)
        /\ call.answer = PrehookResult(req, call.dims)
    <2>1. DOMAIN call.dims = Applies(req) /\ Applies(req) \subseteq Dimensions
      BY DEF Checked, Applies
    <2>2. \A d \in Applies(req) : call.dims[d] \in DimResults
      BY KeyEvaluated DEF Checked
    <2> QED BY <2>1, <2>2 DEF IsResults, Checked
  <1>5. PICK dims : dims = call.dims
    OBVIOUS
  <1>6. PICK d \in Applies(req) :
          /\ call.answer.remaining = dims[d].remaining
          /\ \A e \in Applies(req) : dims[d].remaining <= dims[e].remaining
    BY <1>3, <1>4, <1>5, RemainingFacts
  <1>7. \A e \in Applies(req) : dims[e].allowed
    BY <1>3, <1>4, <1>5, AnswerFacts DEF Refusals
  <1>8. ASSUME NEW e \in Applies(req)
        PROVE  /\ dims[e].remaining \in Nat
               /\ KeyOf(req, e) \in DOMAIN store'
               /\ RoomOf(req, e)' = dims[e].remaining
    <2>1. PICK k : k = KeyOf(req, e)
      OBVIOUS
    <2>2. PICK rate : rate = RateOf(req, e)
      OBVIOUS
    <2>3. PICK room : room = Room(Algo, State(k, rate), rate.count, Ticks(rate), now)
      OBVIOUS
    <2>4. /\ room \in Nat
          /\ Verdict(req, e).result.allowed <=> room >= 1
          /\ k \in DOMAIN store'
          /\ Verdict(req, e).result.allowed =>
               RoomOf(req, e)' = room - 1 /\ Verdict(req, e).result.remaining = room - 1
      BY <1>1, <2>1, <2>2, <2>3, RoomTaken
    <2>5. dims[e] = Verdict(req, e).result /\ dims[e].allowed
      BY <1>5, <1>7 DEF Checked
    <2> QED BY <2>1, <2>4, <2>5
  <1>9. PICK rem : rem = call.answer.remaining
    OBVIOUS
  <1>10. /\ rem \in Nat
         /\ \A e \in Applies(req) : KeyOf(req, e) \in DOMAIN store' /\ RoomOf(req, e)' >= rem
         /\ RoomOf(req, d)' = rem
    BY <1>6, <1>8, <1>9
  <1>11. Left(n)' = rem
    <2>1. Left(n)' = rem - (n - n)
      BY <1>2, <1>9 DEF Left
    <2> QED BY <1>2, <1>10, <2>1
  <1>12. Served(req)' /\ Applies(req)' = Applies(req)
    BY <1>1, SameEngine
  <1> QED BY <1>1, <1>2, <1>6, <1>9, <1>10, <1>11, <1>12 DEF RoomLeft

LEMMA CheckKeepsRoom ==
  ASSUME Common, HookInv, RoomInv, engine.status = "built", NEW req \in deployment.requests,
         Served(req), Check(req), UNCHANGED <<deployment, engine, now>>
  PROVE  RoomInv'
  <1>1. OnMemory
    BY DEF OnMemory, Check
  <1>2. PICK dims : /\ DOMAIN dims = Applies(req)
                    /\ \A d \in Applies(req) : dims[d] = Verdict(req, d).result
                    /\ Answered(req, dims, PrehookResult(req, dims))
    BY CheckEffect
  <1>3. PICK call : call = [req |-> req, at |-> now, dims |-> dims,
                            answer |-> PrehookResult(req, dims)]
    OBVIOUS
  <1>4. Checked(req, call) /\ Adds(call)
    BY <1>2, <1>3 DEF Checked, Adds, Answered
  <1>5. PICK n : n = Len(calls) + 1
    OBVIOUS
  <1>6. /\ n \in Nat /\ DOMAIN calls = 1..(n - 1) /\ Len(calls) = n - 1
        /\ DOMAIN calls' = DOMAIN calls \union {n} /\ Len(calls') = n
    BY <1>4, <1>5, CallsCounted
  <1>7. ASSUME NEW i \in DOMAIN calls, Advertised(i)'
        PROVE  RoomLeft(i)' /\ \A j \in i + 1..n : HonestAt(i, j)'
    <2>1. /\ Advertised(i)' <=> Advertised(i)
          /\ \A j \in i + 1..Len(calls) : HonestAt(i, j) => HonestAt(i, j)'
      BY <1>4, <1>5, OldAdvertised
    <2>2. RoomLeft(i) /\ \A j \in i + 1..Len(calls) : HonestAt(i, j)
      BY <1>1, <1>7, <2>1 DEF RoomInv
    <2>3. HonestAt(i, n)' /\ RoomLeft(i)'
      BY <1>1, <1>4, <1>5, <1>7, <2>1, <2>2, OldRoomChecked
    <2>4. \A j \in i + 1..n : j = n \/ j \in i + 1..Len(calls)
      BY <1>6
    <2> QED BY <2>1, <2>2, <2>3, <2>4
  <1>8. Advertised(n)' => RoomLeft(n)' /\ \A j \in n + 1..n : HonestAt(n, j)'
    <2>1. Advertised(n)' => RoomLeft(n)'
      BY <1>1, <1>4, <1>5, NewRoomChecked
    <2>2. n + 1..n = {}
      BY <1>6
    <2> QED BY <2>1, <2>2
  <1>9. \A i \in DOMAIN calls' : Advertised(i)' =>
           RoomLeft(i)' /\ \A j \in i + 1..Len(calls') : HonestAt(i, j)'
    BY <1>6, <1>7, <1>8
  <1> QED BY <1>9 DEF RoomInv

(* A call that is not served advertises nothing and repeats nothing.       *)
LEMMA EarlyReturnKeepsRoom ==
  ASSUME Common, RoomInv, engine.status = "built", UNCHANGED store,
         NEW call, Adds(call), ~Served(call.req), ~(call.answer.limit > 0)
  PROVE  RoomInv'
  <1>1. UNCHANGED <<deployment, engine, now>>
    BY DEF Adds
  <1>2. PICK n : n = Len(calls) + 1
    OBVIOUS
  <1>3. /\ n \in Nat /\ DOMAIN calls = 1..(n - 1) /\ DOMAIN calls' = DOMAIN calls \union {n}
        /\ calls'[n] = call
    BY <1>2, CallsCounted
  <1>4. Len(calls') = n /\ Len(calls) = n - 1
    BY <1>2, CallsCounted
  <1>5. ~Advertised(n)'
    BY <1>3 DEF Advertised
  <1>6. ASSUME OnMemory', NEW i \in DOMAIN calls, Advertised(i)'
        PROVE  RoomLeft(i)' /\ \A j \in i + 1..n : HonestAt(i, j)'
    <2>1. /\ Advertised(i)' <=> Advertised(i)
          /\ calls'[i] = calls[i]
          /\ Repeats(i, n)' => call.req = calls[i].req /\ Repeats(i, Len(calls))
          /\ \A j \in i + 1..Len(calls) : HonestAt(i, j) => HonestAt(i, j)'
      BY <1>2, OldAdvertised
    <2>2. RoomLeft(i) /\ \A j \in i + 1..Len(calls) : HonestAt(i, j)
      BY <1>1, <1>6, <2>1 DEF RoomInv, OnMemory
    <2>3. PICK r \in deployment.requests :
            r = calls[i].req /\ Served(r) /\ calls[i].answer.remaining \in Nat
      BY <2>2 DEF RoomLeft
    <2>4. ~Repeats(i, n)'
      BY <2>1, <2>3
    <2>5. Served(r)'
      BY <1>1, <2>3, SameEngine
    <2>6. RoomLeft(i)'
      BY <1>1, <1>4, <2>1, <2>3, <2>4, <2>5 DEF RoomLeft
    <2>7. HonestAt(i, n)'
      BY <2>4 DEF HonestAt
    <2>8. \A j \in i + 1..n : j = n \/ j \in i + 1..Len(calls)
      BY <1>3, <1>4
    <2> QED BY <2>1, <2>2, <2>6, <2>7, <2>8
  <1>7. OnMemory' => \A i \in DOMAIN calls' : Advertised(i)' =>
          RoomLeft(i)' /\ \A j \in i + 1..Len(calls') : HonestAt(i, j)'
    BY <1>3, <1>4, <1>5, <1>6
  <1> QED BY <1>7 DEF RoomInv

LEMMA RedisKeepsRoom ==
  ASSUME UNCHANGED engine, engine.backend.kind = "redis"
  PROVE  RoomInv'
  BY DEF RoomInv, OnMemory

(* Time only makes room.                                                   *)
LEMMA TickKeepsRoom ==
  ASSUME Common, HookInv, RoomInv, Tick
  PROVE  RoomInv'
  <1>1. /\ now' = now + 1 /\ now \in Nat /\ now' \in Nat
        /\ engine' = engine /\ deployment' = deployment /\ store' = store /\ calls' = calls
    BY DEF Tick, Common
  <1>2. ASSUME OnMemory, NEW i \in DOMAIN calls, RoomLeft(i)
        PROVE  RoomLeft(i)'
    <2>1. PICK left : left = Left(i)
      OBVIOUS
    <2>2. PICK req \in deployment.requests :
            /\ req = calls[i].req /\ Served(req)
            /\ calls[i].answer.remaining \in Nat
            /\ Repeats(i, Len(calls)) /\ left >= 0 =>
                 \A d \in Applies(req) : KeyOf(req, d) \in DOMAIN store /\ RoomOf(req, d) >= left
      BY <1>2, <2>1 DEF RoomLeft
    <2>3. left \in Int
      <3>1. i \in Nat /\ Len(calls) \in Nat
        BY AppendedCall DEF Common
      <3> QED BY <2>1, <2>2, <3>1 DEF Left
    <2>4. ASSUME NEW d \in Applies(req), KeyOf(req, d) \in DOMAIN store, RoomOf(req, d) >= left
          PROVE  RoomOf(req, d)' >= left
      <3>1. PICK k : k = KeyOf(req, d)
        OBVIOUS
      <3>2. PICK rate : rate = RateOf(req, d)
        OBVIOUS
      <3>3. PICK st : st = store[k]
        OBVIOUS
      <3>4. PICK algorithm : algorithm = Algo
        OBVIOUS
      <3>5. PICK window : window = Ticks(rate)
        OBVIOUS
      <3>6. /\ rate.count \in Nat \ {0} /\ window \in Nat \ {0} /\ window < now
            /\ KeyLog(algorithm, st, rate.count, window, Granted(k), now)
        BY <1>2, <2>4, <3>1, <3>2, <3>3, <3>4, <3>5, KeyReady DEF State
      <3>7. algorithm \in Algorithms
        BY <1>2, <3>4, Running
      <3>8. PICK old : old = Room(algorithm, st, rate.count, window, now)
        OBVIOUS
      <3>9. PICK new : new = Room(algorithm, st, rate.count, window, now')
        OBVIOUS
      <3>10. PICK later : later = now'
        OBVIOUS
      <3>11. Met(algorithm, st, rate.count, now)
        BY <3>6 DEF KeyLog, Met
      <3>12. Met(algorithm, st, rate.count, later)
        <4>1. KeyLog(algorithm, st, rate.count, window, Granted(k), later)
          BY <1>1, <3>6, <3>7, <3>10, LogAges
        <4> QED BY <4>1 DEF KeyLog, Met
      <3>13. old \in Nat
        BY <1>1, <3>6, <3>7, <3>8, <3>11, RoomSpent
      <3>14. new \in Nat
        BY <1>1, <3>6, <3>7, <3>9, <3>10, <3>12, RoomSpent
      <3>15. old <= new
        BY <1>1, <3>6, <3>7, <3>8, <3>9, <3>11, RoomGrows
      <3>16. RoomOf(req, d) = old
        BY <3>1, <3>2, <3>3, <3>4, <3>5, <3>8 DEF RoomOf
      <3>17. RoomOf(req, d)' = new
        <4>1. RateOf(req, d)' = rate /\ Algo' = algorithm
          BY <1>1, <3>2, <3>4, SameEngine DEF Algo
        <4> QED BY <1>1, <3>1, <3>3, <3>5, <3>9, <4>1 DEF RoomOf
      <3> QED BY <2>3, <2>4, <3>13, <3>14, <3>15, <3>16, <3>17
    <2>5. /\ Left(i)' = left /\ (Repeats(i, Len(calls))' <=> Repeats(i, Len(calls)))
          /\ calls'[i] = calls[i]
      BY <1>1, <2>1 DEF Left, Repeats
    <2>6. calls[i].at # now'
      <3>1. calls[i].at \in Nat /\ calls[i].at <= now
        BY DEF Common
      <3> QED BY <1>1, <3>1
    <2>7. Served(req)' /\ Applies(req)' = Applies(req)
      BY <1>1, <2>2, SameEngine
    <2> QED BY <1>1, <2>2, <2>4, <2>5, <2>6, <2>7 DEF RoomLeft
  <1>3. ASSUME NEW i
        PROVE  /\ Advertised(i)' <=> Advertised(i)
               /\ \A j : HonestAt(i, j) => HonestAt(i, j)'
    BY <1>1 DEF Advertised, Passed, HonestAt, Refused, Repeats
  <1>4. OnMemory' => OnMemory
    BY <1>1 DEF OnMemory
  <1> QED BY <1>1, <1>2, <1>3, <1>4 DEF RoomInv

LEMMA CallKeepsRoom ==
  ASSUME Common, HookInv, RoomInv, NEW req \in deployment.requests,
         \/ CallEscapes(req) \/ RefuseWithoutServer(req)
         \/ ToolPreInvoke(req) \/ PromptPreFetch(req)
  PROVE  RoomInv'
  <1>1. engine.status = "built" /\ UNCHANGED <<deployment, engine, now>>
    BY DEF CallEscapes, RefuseWithoutServer, ToolPreInvoke, PromptPreFetch, Serving
  <1>2. CASE CallEscapes(req)
    <2>1. PICK call : call = [req |-> req, at |-> now, dims |-> << >>, answer |-> LetThrough]
      OBVIOUS
    <2>2. Adds(call) /\ store' = store
      BY <1>1, <1>2, <2>1 DEF CallEscapes, Answered, Adds
    <2>3. ~Served(call.req) /\ ~(call.answer.limit > 0)
      BY <1>2, <2>1 DEF CallEscapes, Served, LetThrough, Answer
    <2> QED BY <1>1, <2>2, <2>3, EarlyReturnKeepsRoom
  <1>3. CASE RefuseWithoutServer(req)
    <2>1. PICK call : call = [req |-> req, at |-> now, dims |-> << >>, answer |-> ContextMissing]
      OBVIOUS
    <2>2. Adds(call) /\ store' = store
      BY <1>1, <1>3, <2>1 DEF RefuseWithoutServer, Answered, Adds
    <2>3. ~Served(call.req) /\ ~(call.answer.limit > 0)
      BY <1>3, <2>1 DEF RefuseWithoutServer, Served, ContextMissing, Answer
    <2> QED BY <1>1, <2>2, <2>3, EarlyReturnKeepsRoom
  <1>4. CASE ToolPreInvoke(req) \/ PromptPreFetch(req)
    <2>1. Served(req) /\ (Check(req) \/ CheckAsync(req) \/ CheckAsyncFails(req))
      BY <1>4 DEF ToolPreInvoke, PromptPreFetch, EvaluateRequest, Served
    <2>2. CASE Check(req)
      BY <1>1, <2>1, <2>2, CheckKeepsRoom
    <2>3. CASE CheckAsync(req) \/ CheckAsyncFails(req)
      BY <1>1, <2>3, RedisKeepsRoom DEF CheckAsync, CheckAsyncFails
    <2> QED BY <2>1, <2>2, <2>3
  <1> QED BY <1>2, <1>3, <1>4

LEMMA RoomInvariant == Spec => []RoomInv
  <1>1. Init => RoomInv
    BY DEF Init, NotBuilt, RoomInv, OnMemory
  <1>2. Common /\ HookInv /\ RoomInv /\ [Next]_vars => RoomInv'
    <2> SUFFICES ASSUME Common, HookInv, RoomInv, [Next]_vars
                 PROVE  RoomInv'
      OBVIOUS
    <2>1. CASE Construct \/ ConstructFails
      <3>1. engine.status # "built" /\ calls' = calls
        BY <2>1 DEF Construct, ConstructFails, NotBuilt
      <3>2. DOMAIN calls' = {}
        BY <3>1 DEF Common
      <3> QED BY <3>2 DEF RoomInv
    <2>2. CASE Tick
      BY <2>2, TickKeepsRoom
    <2>3. CASE \E req \in deployment.requests :
                 \/ CallEscapes(req) \/ RefuseWithoutServer(req)
                 \/ ToolPreInvoke(req) \/ PromptPreFetch(req)
      BY <2>3, CallKeepsRoom
    <2>4. CASE UNCHANGED vars
      <3>1. /\ deployment' = deployment /\ engine' = engine /\ store' = store
            /\ now' = now /\ calls' = calls
        BY <2>4 DEF vars
      <3>2. ASSUME NEW i
            PROVE  /\ Advertised(i)' <=> Advertised(i)
                   /\ RoomLeft(i) => RoomLeft(i)'
                   /\ \A j : HonestAt(i, j) => HonestAt(i, j)'
        <4>1. \A req, d : RoomOf(req, d)' = RoomOf(req, d)
          BY <3>1, SameEngine DEF RoomOf, Algo
        <4>2. RoomLeft(i) => RoomLeft(i)'
          BY <3>1, <4>1, SameEngine DEF RoomLeft, Left, Repeats
        <4> QED BY <3>1, <4>2 DEF Advertised, Passed, HonestAt, Refused, Repeats
      <3> QED BY <3>1, <3>2 DEF RoomInv, OnMemory
    <2> QED BY <2>1, <2>2, <2>3, <2>4 DEF Next
  <1> QED BY <1>1, <1>2, HookInvariant, PTL DEF Spec

(* A client that is built at all uses every file that is named.            *)
LEMMA ClientUsesConfiguration ==
  ASSUME NEW tls, NEW c \in RedisClients(tls)
  PROVE  /\ Knobs(tls) => c.trust # "plain"
         /\ tls.check_hostname /\ tls.ca # "unset" => c.trust = "ca"
         /\ {tls.cert, tls.key} # {"unset"} => c.presents
  <1>1. CASE ~Knobs(tls)
    <2>1. tls.check_hostname /\ tls.ca = "unset" /\ {tls.cert, tls.key} = {"unset"}
      BY <1>1 DEF Knobs
    <2> QED BY <1>1, <2>1
  <1>2. CASE Knobs(tls)
    <2>1. Paired(tls) /\ c \in (IF tls.check_hostname THEN VerifyingClients(tls)
                                ELSE InsecureClients(tls))
      BY <1>2 DEF RedisClients
    <2>2. {tls.cert, tls.key} # {"unset"} => Presents(tls)
      BY <2>1 DEF Paired, Presents
    <2>3. CASE tls.check_hostname
      <3>1. c = Client(IF tls.ca = "unset" THEN "os" ELSE "ca", Presents(tls))
        BY <2>1, <2>3 DEF VerifyingClients
      <3> QED BY <2>2, <3>1 DEF Client
    <2>4. CASE ~tls.check_hostname
      <3>1. c = Client("any", Presents(tls))
        BY <2>1, <2>4 DEF InsecureClients
      <3> QED BY <2>2, <2>4, <3>1 DEF Client
    <2> QED BY <2>3, <2>4
  <1> QED BY <1>1, <1>2

(***************************************************************************)
(* The theorems.                                                           *)
(***************************************************************************)

(* README.md "Configuration reference", engine.rs:432-468.  However users, *)
(* servers, tenants and tools share calls, no quota lets more through in   *)
(* any window than the operator states for it (twice that for the          *)
(* algorithms that burst).                                                 *)
THEOREM QuotaPerScopeHolds == Spec => []QuotaPerScope
  <1>1. Common /\ HookInv => QuotaPerScope
    BY DEF HookInv, QuotaAt, QuotaPerScope, Burst
  <1> QED BY <1>1, HookInvariant, PTL

(* engine.rs:432-468.  A call is refused only by a quota of its own that   *)
(* the calls sharing it used up within the last window.                    *)
THEOREM RefusedOnlyInScopeHolds == Spec => []RefusedOnlyInScope
  <1>1. Common /\ HookInv => RefusedOnlyInScope
    BY DEF HookInv, RefusalAt, RefusedOnlyInScope
  <1> QED BY <1>1, HookInvariant, PTL

(* types.rs:129, README.md "Response headers".  What X-RateLimit-Remaining *)
(* says is left is there: whichever of the dimensions set it, the same     *)
(* request passes that often, and once more at the same moment is refused. *)
THEOREM RemainingHonestHolds == Spec => []RemainingHonest
  <1>1. RoomInv => RemainingHonest
    BY DEF RoomInv, Advertised, HonestAt, RemainingHonest
  <1> QED BY <1>1, RoomInvariant, PTL

(* redis_backend.rs:197-206, 241-262.  Whatever TLS files the operator     *)
(* names, the client that was built uses them.                             *)
THEOREM TlsInForceHolds == Spec => []TlsInForce
  <1>1. Common => TlsInForce
    <2> SUFFICES ASSUME Common, engine.status = "built", engine.backend.kind = "redis"
                 PROVE  TlsInForce
      BY DEF TlsInForce
    <2>1. PICK c \in RedisClients(raw.tls) : engine.backend = [kind |-> "redis", client |-> c]
      BY DEF Common, Backends, Memory
    <2>2. PICK tls : tls = raw.tls
      OBVIOUS
    <2>3. /\ Knobs(tls) => c.trust # "plain"
          /\ tls.check_hostname /\ tls.ca # "unset" => c.trust = "ca"
          /\ {tls.cert, tls.key} # {"unset"} => c.presents
      BY <2>1, <2>2, ClientUsesConfiguration
    <2> QED BY <2>1, <2>2, <2>3 DEF TlsInForce
  <1> QED BY <1>1, HookInvariant, PTL
=============================================================================
