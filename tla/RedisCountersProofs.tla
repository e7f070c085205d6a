------------------------ MODULE RedisCountersProofs ------------------------
(***************************************************************************)
(* Theorems about RedisCounters, for any number of replicas and calls,     *)
(* every limit, window, scale of the clock, skew and lag.                  *)
(***************************************************************************)
EXTENDS RedisCountersPromise, SequenceTheorems, FiniteSetTheorems, WellFoundedInduction, TLAPS

(***************************************************************************)
(* What holds of every deployment.  A call that waits for its script was   *)
(* issued at most a lag ago.                                               *)
(***************************************************************************)
Prompt == \A r \in Replicas : call[r].pc = "sent" =>
  call[r].issued <= now /\ now <= call[r].issued + MaxLag

Log == admitted \in Seq(Nat) /\ \A i \in 1..Len(admitted) : admitted[i] <= now

Types ==
  /\ deployment \in Deployments
  /\ now \in Nat
  /\ memberCtr \in [Replicas -> Nat]
  /\ DOMAIN call = Replicas
  /\ \A r \in Replicas :
       /\ "pc" \in DOMAIN call[r] /\ "allowed" \in DOMAIN call[r] /\ "retry" \in DOMAIN call[r]
       /\ call[r].pc = "sent" => call[r].issued \in Nat /\ call[r].ctr \in Nat

Common == Types /\ Prompt /\ Log

(***************************************************************************)
(* Arithmetic and clocks.                                                  *)
(***************************************************************************)
LEMMA DivBounds ==
  ASSUME NEW x \in Nat, NEW y \in Nat \ {0}
  PROVE  /\ x \div y \in Nat
         /\ (x \div y) * y <= x
         /\ x < (x \div y) * y + y
  BY Z3

LEMMA CeilDivBounds ==
  ASSUME NEW x \in Nat, NEW y \in Nat \ {0}
  PROVE  /\ CeilDiv(x, y) \in Nat
         /\ x <= CeilDiv(x, y) * y
         /\ x # 0 => CeilDiv(x, y) >= 1
  <1> DEFINE d == (x + y - 1) \div y
  <1>1. x + y - 1 \in Nat
    OBVIOUS
  <1>2. d \in Nat /\ x + y - 1 < d * y + y
    BY <1>1, DivBounds
  <1> HIDE DEF d
  <1>3. d * y \in Int
    BY <1>2
  <1>4. x <= d * y
    BY <1>2, <1>3
  <1>5. d = 0 => d * y = 0
    OBVIOUS
  <1> QED
    BY <1>2, <1>4, <1>5 DEF CeilDiv, d

LEMMA ProductMonotone ==
  ASSUME NEW x \in Int, NEW y \in Int, NEW f \in Nat, x <= y
  PROVE  x * f <= y * f
  OBVIOUS

(* What the assumptions say of the deployment in use. *)
LEMMA DeploymentFacts ==
  ASSUME deployment \in Deployments
  PROVE  /\ Algorithm \in {"fixed_window", "sliding_window", "token_bucket"}
         /\ MaxLag \in Nat /\ MaxSkew \in Nat
         /\ \A r \in Replicas : deployment.skew[r] \in Nat /\ deployment.skew[r] <= MaxSkew
  <1> DEFINE skews == {deployment.skew[r] : r \in Replicas}
  <1>1. /\ Algorithm \in {"fixed_window", "sliding_window", "token_bucket"}
        /\ MaxLag \in Nat
        /\ deployment.skew \in [Replicas -> Nat]
    BY CounterAssumption DEF Algorithm, MaxLag
  <1>2. PICK most \in Replicas : \A r \in Replicas : deployment.skew[r] <= deployment.skew[most]
    BY CounterAssumption
  <1>3. \E x \in skews : \A y \in skews : x >= y
    BY <1>1, <1>2
  <1>4. MaxSkew \in skews /\ \A y \in skews : MaxSkew >= y
    BY <1>3 DEF MaxSkew, Max
  <1> QED
    BY <1>1, <1>4

LEMMA Scales ==
  /\ TicksPerSec \in Nat \ {0} /\ Limit \in Nat \ {0} /\ Window \in Nat \ {0}
  /\ WindowTicks \in Nat \ {0} /\ WindowTicks = Window * TicksPerSec
  /\ StartTime \in Nat
  <1>1. Window * TicksPerSec \in Nat \ {0}
    BY ScriptAssumption
  <1> QED
    BY <1>1, ScriptAssumption, CounterAssumption DEF WindowTicks

(* A replica reads at most its skew ahead, and loses at most the fraction  *)
(* of a second and the lag.                                                *)
Back == MaxLag + TicksPerSec - 1

LEMMA ReadingBounds ==
  ASSUME Common, NEW r \in Replicas, call[r].pc = "sent"
  PROVE  LET q == Reading(r, call[r].issued)
         IN /\ q \in Nat /\ q * TicksPerSec \in Nat
            /\ q * TicksPerSec <= now + MaxSkew
            /\ now <= q * TicksPerSec + Back
  <1> DEFINE t == call[r].issued + deployment.skew[r]
             q == t \div TicksPerSec
  <1>1. /\ call[r].issued \in Nat /\ now \in Nat
        /\ call[r].issued <= now /\ now <= call[r].issued + MaxLag
    BY DEF Common, Types, Prompt
  <1>2. /\ deployment.skew[r] \in Nat /\ deployment.skew[r] <= MaxSkew
        /\ MaxSkew \in Nat /\ MaxLag \in Nat
    BY DeploymentFacts DEF Common, Types
  <1>3. t \in Nat
    BY <1>1, <1>2
  <1> HIDE DEF t
  <1>4. q \in Nat /\ q * TicksPerSec <= t /\ t < q * TicksPerSec + TicksPerSec
    BY <1>3, Scales, DivBounds
  <1> HIDE DEF q
  <1>5. q * TicksPerSec \in Nat /\ TicksPerSec \in Nat
    BY <1>4, Scales
  <1>6. q * TicksPerSec <= now + MaxSkew /\ now <= q * TicksPerSec + Back
    BY <1>1, <1>2, <1>4, <1>5 DEF t, Back
  <1> QED
    BY <1>4, <1>5, <1>6 DEF Reading, q, t

(***************************************************************************)
(* The actions, as far as the invariants look.                             *)
(***************************************************************************)
LEMMA InitCommon == Init => Common
  <1> SUFFICES ASSUME Init PROVE Common
    OBVIOUS
  <1>1. Types
    BY Scales DEF Init, Types, Idle
  <1>2. Prompt
    BY DEF Init, Prompt, Idle
  <1>3. admitted = << >> /\ << >> \in Seq(Nat) /\ Len(<< >>) = 0
    BY EmptySeq DEF Init
  <1>4. Log
    BY <1>3 DEF Log
  <1> QED
    BY <1>1, <1>2, <1>4 DEF Common

LEMMA SameDeployment ==
  ASSUME [Next]_vars
  PROVE  /\ deployment' = deployment /\ Algorithm' = Algorithm
         /\ MaxLag' = MaxLag /\ MaxSkew' = MaxSkew
  BY DEF Next, Send, Run, Return, Tick, vars, Algorithm, MaxLag, MaxSkew

LEMMA CallEffect ==
  ASSUME Common, NEW r \in Replicas, Send(r) \/ Run(r) \/ Return(r)
  PROVE  /\ DOMAIN call' = Replicas
         /\ \A d \in Replicas : d # r => call'[d] = call[d]
         /\ "pc" \in DOMAIN call'[r] /\ "allowed" \in DOMAIN call'[r] /\ "retry" \in DOMAIN call'[r]
         /\ call'[r].pc = "sent" <=> Send(r)
         /\ UNCHANGED <<deployment, now>>
  <1>1. CASE Send(r)
    <2>1. /\ call' = [call EXCEPT ![r] =
                [Idle EXCEPT !.pc = "sent", !.issued = now, !.ctr = memberCtr[r]]]
          /\ UNCHANGED <<deployment, now>>
      BY <1>1 DEF Send
    <2> QED
      BY <1>1, <2>1 DEF Common, Types, Idle
  <1>2. CASE Run(r)
    <2>1. PICK out :
            call' = [call EXCEPT ![r] =
              [call[r] EXCEPT !.pc = "answered", !.allowed = out.allowed, !.retry = out.retry]]
      BY <1>2 DEF Run
    <2>2. UNCHANGED <<deployment, now>> /\ call[r].pc = "sent"
      BY <1>2 DEF Run
    <2>3. ~Send(r)
      BY <2>2 DEF Send
    <2>4. /\ DOMAIN call' = Replicas
          /\ \A d \in Replicas : d # r => call'[d] = call[d]
          /\ "pc" \in DOMAIN call'[r] /\ "allowed" \in DOMAIN call'[r]
          /\ "retry" \in DOMAIN call'[r] /\ call'[r].pc = "answered"
      BY <2>1 DEF Common, Types
    <2> QED
      BY <2>2, <2>3, <2>4
  <1>3. CASE Return(r)
    <2>1. call' = [call EXCEPT ![r] = Idle] /\ UNCHANGED <<deployment, now>>
      BY <1>3 DEF Return
    <2>2. ~Send(r)
      BY <1>3 DEF Send, Return
    <2> QED
      BY <2>1, <2>2 DEF Common, Types, Idle
  <1> QED
    BY <1>1, <1>2, <1>3

(* What a script leaves and decides; the log takes the admitted calls.     *)
Answer(r) == Script(entry, r, now, Reading(r, call[r].issued), call[r].ctr)

LEMMA RunEffect ==
  ASSUME NEW r \in Replicas, Run(r)
  PROVE  /\ call[r].pc = "sent"
         /\ entry' = Answer(r).entry
         /\ Answer(r).allowed => admitted' = Append(admitted, now)
         /\ ~Answer(r).allowed => admitted' = admitted
         /\ UNCHANGED <<deployment, now, memberCtr>>
  BY DEF Run, Answer

LEMMA AppendedLog ==
  ASSUME Log, now \in Nat
  PROVE  LET n == Len(admitted)
             longer == Append(admitted, now)
         IN /\ n \in Nat /\ longer \in Seq(Nat) /\ Len(longer) = n + 1
            /\ DOMAIN longer = 1..(n + 1) /\ DOMAIN admitted = 1..n
            /\ longer[n + 1] = now
            /\ \A i \in 1..n : longer[i] = admitted[i] /\ admitted[i] \in Nat
  <1>1. admitted \in Seq(Nat)
    BY DEF Log
  <1>2. Len(admitted) \in Nat /\ DOMAIN admitted = 1..Len(admitted)
    BY <1>1, LenProperties
  <1>3. \A i \in 1..Len(admitted) : admitted[i] \in Nat
    BY <1>1, ElementOfSeq
  <1>4. /\ Append(admitted, now) \in Seq(Nat)
        /\ Len(Append(admitted, now)) = Len(admitted) + 1
        /\ \A i \in 1..Len(admitted) : Append(admitted, now)[i] = admitted[i]
        /\ Append(admitted, now)[Len(admitted) + 1] = now
    BY <1>1, AppendProperties
  <1>5. DOMAIN Append(admitted, now) = 1..(Len(admitted) + 1)
    BY <1>4, LenProperties
  <1> QED
    BY <1>2, <1>3, <1>4, <1>5

LEMMA CommonStep ==
  ASSUME Common, [Next]_vars
  PROVE  Common'
  <1>0. MaxLag' = MaxLag /\ now \in Nat /\ Len(admitted) \in Nat
    BY SameDeployment, AppendedLog DEF Common, Types
  <1>1. ASSUME NEW r \in Replicas, Send(r) \/ Run(r) \/ Return(r)
        PROVE  Types' /\ Prompt'
    <2>1. memberCtr' \in [Replicas -> Nat]
      <3>1. CASE Send(r)
        <4>1. memberCtr' = [memberCtr EXCEPT ![r] = @ + 1] \/ memberCtr' = memberCtr
          BY <3>1 DEF Send
        <4> QED
          BY <4>1 DEF Common, Types
      <3>2. CASE ~Send(r)
        BY <1>1, <3>2 DEF Run, Return, Common, Types
      <3> QED
        BY <3>1, <3>2
    <2>2. Send(r) => call'[r].issued = now /\ call'[r].ctr = memberCtr[r]
      BY DEF Send, Idle, Common, Types
    <2>3. memberCtr[r] \in Nat
      BY DEF Common, Types
    <2>4. Types'
      BY <1>0, <1>1, <2>1, <2>2, <2>3, CallEffect DEF Common, Types
    <2>5. MaxLag \in Nat
      BY DeploymentFacts DEF Common, Types
    <2>6. Prompt'
      BY <1>0, <1>1, <2>2, <2>5, CallEffect DEF Common, Prompt
    <2> QED
      BY <2>4, <2>6
  <1>2. ASSUME NEW r \in Replicas, Send(r) \/ Return(r)
        PROVE  Log'
    BY <1>2 DEF Send, Return, Common, Log
  <1>3. ASSUME NEW r \in Replicas, Run(r)
        PROVE  Log'
    <2>1. admitted' = admitted \/ admitted' = Append(admitted, now)
      BY <1>3, RunEffect
    <2>2. now' = now
      BY <1>3, RunEffect
    <2>3. CASE admitted' = admitted
      BY <2>2, <2>3 DEF Common, Log
    <2>4. CASE admitted' = Append(admitted, now)
      <3>1. Log
        BY DEF Common
      <3>2. /\ admitted' \in Seq(Nat) /\ Len(admitted') = Len(admitted) + 1
            /\ \A i \in 1..Len(admitted) : admitted'[i] = admitted[i]
            /\ admitted'[Len(admitted) + 1] = now
        BY <1>0, <2>4, <3>1, AppendedLog
      <3>3. ASSUME NEW i \in 1..(Len(admitted) + 1)
            PROVE  admitted'[i] <= now
        <4>1. CASE i = Len(admitted) + 1
          BY <1>0, <3>2, <4>1
        <4>2. CASE i \in 1..Len(admitted)
          BY <3>1, <3>2, <4>2 DEF Log
        <4> QED
          BY <1>0, <4>1, <4>2
      <3> QED
        BY <2>2, <3>2, <3>3, SMTT(30) DEF Log
    <2> QED
      BY <2>1, <2>3, <2>4
  <1>4. ASSUME Tick
        PROVE  Common'
    <2>1. now' = now + 1 /\ UNCHANGED <<deployment, memberCtr, call, admitted>>
      BY <1>4 DEF Tick
    <2>2. Types'
      BY <1>0, <2>1 DEF Common, Types
    <2>3. Prompt'
      <3>1. \A r \in Replicas : call[r].pc = "sent" => now + 1 - call[r].issued <= MaxLag
        BY <1>4 DEF Tick
      <3>2. MaxLag \in Nat
        BY DeploymentFacts DEF Common, Types
      <3> QED
        BY <1>0, <2>1, <3>1, <3>2 DEF Common, Types, Prompt
    <2>4. Log'
      BY <1>0, <2>1, AppendedLog DEF Common, Log
    <2> QED
      BY <2>2, <2>3, <2>4 DEF Common
  <1>5. CASE UNCHANGED vars
    BY <1>0, <1>5 DEF vars, Common, Types, Prompt, Log
  <1> QED
    BY <1>1, <1>2, <1>3, <1>4, <1>5 DEF Next, Common

(***************************************************************************)
(* The rate of the token bucket.  For the i-th admitted call, the calls    *)
(* admitted since and the units left in the bucket are paid for by the     *)
(* capacity and the refill of a span: the time up to the last reading, and *)
(* what k expired keys forgot (BucketPaid).  A key that is gone has had    *)
(* the time to fill up, by the clock of Redis (BucketRepaid).              *)
(***************************************************************************)
Paid(n, units, span) ==
  n * WindowTicks + units * TicksPerSec + WindowTicks
    <= Limit * WindowTicks + Limit * span

Repaid(n, span) == n * WindowTicks + WindowTicks <= Limit * span

(* The time to fill up, counted from the clock that is the most ahead.     *)
FillsBeforeExpiry(units, start, expires) ==
  Limit * (start + TicksPerSec) + (Capacity - units) * TicksPerSec <= Limit * expires

(* k keys have expired in a span of ticks, at two seconds a life.          *)
Lives(k, ticks) == k * (2 * TicksPerSec) <= ticks

(* What is known of the i-th admitted call.                                *)
CallPaid(i, n, units, last, expires) == \E k \in Nat :
  /\ Lives(k, now - admitted[i])
  /\ Lives(k, expires - 2 * TicksPerSec - admitted[i])
  /\ Paid(n - i, units, last * TicksPerSec - admitted[i] + Back + k * Regained)

BucketPaid ==
  /\ "value" \in DOMAIN entry /\ "expires" \in DOMAIN entry
  /\ entry.expires \in Nat /\ now < entry.expires
  /\ "tokens" \in DOMAIN entry.value /\ "last" \in DOMAIN entry.value
  /\ entry.value.tokens \in Int /\ entry.value.last \in Nat
  /\ FillsBeforeExpiry(entry.value.tokens,
       entry.value.last * TicksPerSec - MaxSkew, entry.expires)
  /\ \A i \in 1..Len(admitted) :
       CallPaid(i, Len(admitted), entry.value.tokens, entry.value.last, entry.expires)

BucketRepaid ==
  /\ entry = NoEntry
  /\ \A i \in 1..Len(admitted) : \E k \in Nat :
       /\ Lives(k, now - admitted[i])
       /\ Repaid(Len(admitted) - i, now - admitted[i] + k * Regained)

Rated == \A i, j \in 1..Len(admitted) :
  LET apart == admitted[j] - admitted[i]
  IN i <= j =>
       (j - i + 1) * WindowTicks
         <= Limit * WindowTicks + Limit * (apart + Slack + Expiries(apart) * Regained)

TokenInv == Algorithm = "token_bucket" => (BucketPaid \/ BucketRepaid) /\ Rated

(* The books of a bucket.                                                  *)
LEMMA CapacityTicks == Capacity \in Nat /\ Capacity * TicksPerSec = Limit * WindowTicks
  <1>1. Capacity = Limit * Window /\ WindowTicks = Window * TicksPerSec
    BY DEF Capacity, WindowTicks
  <1> QED
    BY <1>1, Scales

LEMMA Refills ==
  ASSUME NEW n \in Int, NEW units \in Int, NEW more \in Int, NEW span \in Int, NEW d \in Int,
         Paid(n, units, span), more <= units + d * Limit
  PROVE  Paid(n, more, span + d * TicksPerSec)
  <1> DEFINE T == TicksPerSec
             L == Limit
  <1>1. T \in Nat \ {0} /\ L \in Nat \ {0} /\ WindowTicks \in Nat
    BY Scales
  <1>2. n * WindowTicks + units * T + WindowTicks <= L * WindowTicks + L * span
    BY DEF Paid
  <1> HIDE DEF T, L
  <1>3. more * T <= (units + d * L) * T
    BY <1>1, ProductMonotone DEF L
  <1>4. (units + d * L) * T = units * T + L * (d * T)
    BY <1>1, Z3
  <1>5. L * (span + d * T) = L * span + L * (d * T)
    BY <1>1, Z3
  <1>6. /\ n * WindowTicks \in Int /\ units * T \in Int /\ L * WindowTicks \in Int
        /\ L * span \in Int /\ L * (d * T) \in Int /\ more * T \in Int
    BY <1>1
  <1>7. n * WindowTicks + more * T + WindowTicks <= L * WindowTicks + L * (span + d * T)
    BY <1>1, <1>2, <1>3, <1>4, <1>5, <1>6
  <1> QED
    BY <1>7 DEF Paid, T, L

LEMMA Widen ==
  ASSUME NEW n \in Int, NEW span \in Int, NEW wider \in Int, span <= wider, Repaid(n, span)
  PROVE  Repaid(n, wider)
  <1>1. Limit \in Nat /\ WindowTicks \in Nat
    BY Scales
  <1>2. Limit * span <= Limit * wider
    BY <1>1, Z3
  <1>3. n * WindowTicks \in Int /\ Limit * span \in Int /\ Limit * wider \in Int
    BY <1>1
  <1> QED
    BY <1>1, <1>2, <1>3 DEF Repaid

LEMMA GrantPays ==
  ASSUME NEW n \in Int, NEW units \in Int, NEW span \in Int, Paid(n, units, span)
  PROVE  Paid(n + 1, units - Window, span)
  <1>1. /\ TicksPerSec \in Nat /\ Window \in Nat /\ WindowTicks \in Nat
        /\ WindowTicks = Window * TicksPerSec
    BY Scales
  <1>2. (units - Window) * TicksPerSec = units * TicksPerSec - WindowTicks
    BY <1>1, Z3
  <1>3. (n + 1) * WindowTicks = n * WindowTicks + WindowTicks
    BY <1>1, Z3
  <1>4. units * TicksPerSec \in Int /\ n * WindowTicks \in Int
    BY <1>1
  <1>5. (n + 1) * WindowTicks + (units - Window) * TicksPerSec
          = n * WindowTicks + units * TicksPerSec
    BY <1>1, <1>2, <1>3, <1>4
  <1> QED
    BY <1>5 DEF Paid

(* A bucket that starts full pays for its first call, and for those before *)
(* it that are repaid.                                                     *)
LEMMA FullBucketPays ==
  ASSUME NEW n \in Int, NEW span \in Nat, NEW x \in Int, x <= Capacity - Window
  PROVE  /\ Paid(0, x, span)
         /\ Repaid(n, span) => Paid(n + 1, Capacity - Window, span)
  <1>1. /\ TicksPerSec \in Nat /\ Window \in Nat /\ WindowTicks \in Nat /\ Limit \in Nat
        /\ WindowTicks = Window * TicksPerSec
        /\ Capacity \in Nat /\ Capacity * TicksPerSec = Limit * WindowTicks
    BY Scales, CapacityTicks
  <1>2. (Capacity - Window) * TicksPerSec = Capacity * TicksPerSec - WindowTicks
    BY <1>1, Z3
  <1>3. (n + 1) * WindowTicks = n * WindowTicks + WindowTicks
    BY <1>1, Z3
  <1>4. n * WindowTicks \in Int /\ Limit * WindowTicks \in Int
    BY <1>1
  <1>5. Limit * span \in Nat
    BY <1>1
  <1>6. 0 * WindowTicks = 0
    BY <1>1
  <1>7. x * TicksPerSec <= (Capacity - Window) * TicksPerSec /\ x * TicksPerSec \in Int
    BY <1>1, ProductMonotone
  <1> QED
    BY <1>1, <1>2, <1>3, <1>4, <1>5, <1>6, <1>7 DEF Paid, Repaid

LEMMA ExpiryRepays ==
  ASSUME NEW n \in Int, NEW units \in Int, NEW span \in Int, NEW start \in Int,
         NEW expires \in Int,
         Paid(n, units, span), FillsBeforeExpiry(units, start, expires)
  PROVE  Repaid(n, span + expires - start - TicksPerSec)
  <1> DEFINE L == Limit
             T == TicksPerSec
  <1>1. T \in Nat /\ WindowTicks \in Nat /\ L \in Nat /\ Capacity \in Nat
    BY Scales, CapacityTicks
  <1>2. n * WindowTicks + units * T + WindowTicks <= L * WindowTicks + L * span
    BY DEF Paid
  <1>3. L * (start + T) + (Capacity - units) * T <= L * expires
    BY DEF FillsBeforeExpiry
  <1>4. Capacity * T = L * WindowTicks
    BY CapacityTicks
  <1> HIDE DEF L, T
  <1>5. (Capacity - units) * T = Capacity * T - units * T
    BY <1>1, Z3
  <1>6. L * (span + expires - start - T) = L * span + L * expires - L * (start + T)
    BY <1>1, Z3
  <1>7. /\ n * WindowTicks \in Int /\ units * T \in Int /\ Capacity * T \in Int
        /\ L * span \in Int /\ L * expires \in Int /\ L * (start + T) \in Int
    BY <1>1
  <1>8. n * WindowTicks + WindowTicks <= L * (span + expires - start - T)
    BY <1>1, <1>2, <1>3, <1>4, <1>5, <1>6, <1>7
  <1> QED
    BY <1>8 DEF Repaid, L, T

(* A write leaves time to fill up, and two seconds at least.               *)
LEMMA WriteFills ==
  ASSUME NEW x \in Int, NEW c \in Nat, c >= 1, Capacity - x <= c * Limit,
         NEW q \in Nat, NEW t \in Nat, NEW ahead \in Nat, q * TicksPerSec <= t + ahead
  PROVE  LET expires == t + (c + 1) * TicksPerSec
         IN /\ expires \in Nat /\ t + 2 * TicksPerSec <= expires
            /\ FillsBeforeExpiry(x, q * TicksPerSec - ahead, expires)
  <1> DEFINE T == TicksPerSec
             L == Limit
             start == q * T - ahead
  <1>1. T \in Nat \ {0} /\ L \in Nat \ {0} /\ Capacity \in Nat
    BY Scales, CapacityTicks
  <1>2. start \in Int /\ start <= t
    BY <1>1
  <1>3. Capacity - x <= c * L
    OBVIOUS
  <1> HIDE DEF T, L, start
  <1>4. (c + 1) * T = c * T + T /\ c * T \in Nat /\ 1 * T <= c * T
    BY <1>1, ProductMonotone
  <1>5. t + (c + 1) * T \in Nat /\ t + 2 * T <= t + (c + 1) * T
    BY <1>1, <1>4
  <1>6. L * (start + T) <= L * (t + T)
    BY <1>1, <1>2, Z3
  <1>7. (Capacity - x) * T <= (c * L) * T
    BY <1>1, <1>3, ProductMonotone
  <1>8. L * (t + (c + 1) * T) = L * (t + T) + (c * L) * T
    BY <1>1, Z3
  <1>9. /\ L * (start + T) \in Int /\ L * (t + T) \in Int /\ (c * L) * T \in Int
        /\ (Capacity - x) * T \in Int
    BY <1>1, <1>2
  <1>10. L * (start + T) + (Capacity - x) * T <= L * (t + (c + 1) * T)
    BY <1>6, <1>7, <1>8, <1>9
  <1> QED
    BY <1>5, <1>10 DEF FillsBeforeExpiry, T, L, start

LEMMA SpanFacts ==
  ASSUME Common
  PROVE  Back \in Nat /\ Slack = Back + MaxSkew /\ Slack \in Nat
         /\ Regained \in Nat /\ Slack - TicksPerSec <= Regained
  <1>1. MaxLag \in Nat /\ MaxSkew \in Nat /\ TicksPerSec \in Nat \ {0}
    BY DeploymentFacts, Scales DEF Common, Types
  <1>2. Back \in Nat /\ Slack = Back + MaxSkew /\ Slack \in Nat
    BY <1>1 DEF Back, Slack
  <1> QED
    BY <1>1, <1>2 DEF Regained, Larger

LEMMA SameSpans ==
  ASSUME [Next]_vars
  PROVE  Back' = Back /\ Slack' = Slack /\ Regained' = Regained
  BY SameDeployment DEF Back, Slack, Regained

(* What a token script leaves, and when it admits.                         *)
LEMMA TokenAnswer ==
  ASSUME Common, Algorithm = "token_bucket", BucketPaid \/ BucketRepaid,
         NEW r \in Replicas, call[r].pc = "sent"
  PROVE  LET q == Reading(r, call[r].issued)
         IN \E x \in Int, c \in Nat :
              /\ c >= 1 /\ Capacity - x <= c * Limit
              /\ Answer(r).entry = [value |-> [tokens |-> x, last |-> q],
                                    expires |-> now + (c + 1) * TicksPerSec]
              /\ Answer(r).allowed => x >= 0 /\ x <= Capacity - Window
              /\ BucketRepaid => Answer(r).allowed /\ x = Capacity - Window
              /\ BucketPaid => \E units \in Int :
                   /\ units <= entry.value.tokens + (q - entry.value.last) * Limit
                   /\ Answer(r).allowed => x = units - Window
                   /\ ~Answer(r).allowed =>
                        x = units /\ Answer(r).retry = Larger(SecondsToOneToken(x), 1)
  <1> DEFINE q == Reading(r, call[r].issued)
  <1>0. q \in Nat
    BY ReadingBounds
  <1>1. Answer(r) = TokenScript(entry, now, q)
    BY DEF Answer, Script
  <1>2. Window \in Nat \ {0} /\ Limit \in Nat \ {0} /\ Capacity \in Nat /\ Window <= Capacity
    BY Scales, CapacityTicks DEF Capacity
  <1>3. now \in Nat
    BY DEF Common, Types
  <1>4. ASSUME NEW x \in Int, x < Capacity
        PROVE  /\ CeilDiv(Capacity - x, Limit) \in Nat /\ CeilDiv(Capacity - x, Limit) >= 1
               /\ Capacity - x <= CeilDiv(Capacity - x, Limit) * Limit
    <2>1. Capacity - x \in Nat /\ Capacity - x # 0
      BY <1>2, <1>4
    <2> QED
      BY <1>2, <2>1, CeilDivBounds
  <1> HIDE DEF q
  <1>5. CASE BucketRepaid
    <2>1. ~Live(entry, now) /\ ~BucketPaid
      BY <1>3, <1>5 DEF BucketRepaid, BucketPaid, NoEntry, Live, Never
    <2>2. Answer(r) = Outcome(Entry([tokens |-> Capacity - Window, last |-> q], now,
                                    CeilDiv(Capacity, Limit) + 1), TRUE, 0)
      BY <1>1, <2>1 DEF TokenScript
    <2> DEFINE c == CeilDiv(Capacity, Limit)
    <2>3. 0 < Capacity /\ Capacity - 0 = Capacity
      BY <1>2
    <2>4. c \in Nat /\ c >= 1 /\ Capacity <= c * Limit
      BY <1>4, <2>3
    <2>5. Answer(r).allowed
      BY <2>2 DEF Outcome
    <2>6. Answer(r).entry = [value |-> [tokens |-> Capacity - Window, last |-> q],
                             expires |-> now + (c + 1) * TicksPerSec]
      BY <2>2 DEF Outcome, Entry
    <2> HIDE DEF c
    <2>7. Capacity - Window \in Int /\ Capacity - Window >= 0
      BY <1>2
    <2>8. c * Limit \in Int /\ Capacity - (Capacity - Window) <= c * Limit
      BY <1>2, <2>4
    <2> QED
      BY <2>1, <2>4, <2>5, <2>6, <2>7, <2>8 DEF q
  <1>6. CASE BucketPaid
    <2> DEFINE units == Refill(entry.value, q)
    <2>1. Live(entry, now) /\ ~BucketRepaid
      BY <1>3, <1>6 DEF BucketRepaid, BucketPaid, NoEntry, Live, Never
    <2>2. entry.value.tokens \in Int /\ entry.value.last \in Nat
      BY <1>6 DEF BucketPaid
    <2>3. /\ units \in Int /\ units <= Capacity
          /\ units <= entry.value.tokens + (q - entry.value.last) * Limit
      BY <1>0, <1>2, <2>2 DEF Refill, Smaller
    <2>4. units >= Window =>
            Answer(r) = Outcome(Entry([tokens |-> units - Window, last |-> q], now,
                          CeilDiv(Capacity - (units - Window), Limit) + 1), TRUE, 0)
      BY <1>1, <2>1 DEF TokenScript
    <2>5. ~(units >= Window) =>
            Answer(r) = Outcome(Entry([tokens |-> units, last |-> q], now,
                          CeilDiv(Capacity - units, Limit) + 1), FALSE,
                          Larger(SecondsToOneToken(units), 1))
      BY <1>1, <2>1 DEF TokenScript
    <2> HIDE DEF units
    <2>6. CASE units >= Window
      <3> DEFINE c == CeilDiv(Capacity - (units - Window), Limit)
      <3>1. /\ units - Window \in Int /\ units - Window < Capacity
            /\ units - Window >= 0 /\ units - Window <= Capacity - Window
        BY <1>2, <2>3, <2>6
      <3>2. c \in Nat /\ c >= 1 /\ Capacity - (units - Window) <= c * Limit
        BY <1>4, <3>1
      <3>3. Answer(r).allowed
        BY <2>4, <2>6 DEF Outcome
      <3>4. Answer(r).entry = [value |-> [tokens |-> units - Window, last |-> q],
                               expires |-> now + (c + 1) * TicksPerSec]
        BY <2>4, <2>6 DEF Outcome, Entry
      <3> HIDE DEF c
      <3> QED
        BY <2>1, <2>3, <3>1, <3>2, <3>3, <3>4 DEF q
    <2>7. CASE ~(units >= Window)
      <3> DEFINE c == CeilDiv(Capacity - units, Limit)
      <3>1. units < Capacity
        BY <1>2, <2>3, <2>7
      <3>2. c \in Nat /\ c >= 1 /\ Capacity - units <= c * Limit
        BY <1>4, <2>3, <3>1
      <3>3. ~Answer(r).allowed /\ Answer(r).retry = Larger(SecondsToOneToken(units), 1)
        BY <2>5, <2>7 DEF Outcome
      <3>4. Answer(r).entry = [value |-> [tokens |-> units, last |-> q],
                               expires |-> now + (c + 1) * TicksPerSec]
        BY <2>5, <2>7 DEF Outcome, Entry
      <3> HIDE DEF c
      <3> QED
        BY <2>1, <2>3, <3>2, <3>3, <3>4 DEF q
    <2> QED
      BY <2>6, <2>7
  <1> QED
    BY <1>5, <1>6

(* A call that runs its script leaves a bucket that pays for every call.   *)
LEMMA RunPays ==
  ASSUME Common, Algorithm = "token_bucket", BucketPaid \/ BucketRepaid,
         NEW r \in Replicas, Run(r)
  PROVE  /\ BucketPaid'
         /\ entry'.value.last * TicksPerSec <= now + MaxSkew
         /\ Answer(r).allowed => entry'.value.tokens >= 0
  <1> DEFINE q == Reading(r, call[r].issued)
             n == Len(admitted)
             T == TicksPerSec
  <1>1. /\ call[r].pc = "sent" /\ entry' = Answer(r).entry
        /\ Answer(r).allowed => admitted' = Append(admitted, now)
        /\ ~Answer(r).allowed => admitted' = admitted
        /\ now' = now
    BY RunEffect
  <1>2. /\ q \in Nat /\ q * T \in Nat /\ q * T <= now + MaxSkew /\ now <= q * T + Back
    BY <1>1, ReadingBounds
  <1>3. /\ now \in Nat /\ MaxSkew \in Nat /\ T \in Nat /\ Back \in Nat /\ Regained \in Nat
        /\ Limit \in Nat /\ Window \in Nat
    BY DeploymentFacts, SpanFacts, Scales DEF Common, Types
  <1>4. MaxSkew' = MaxSkew /\ Back' = Back /\ Regained' = Regained
    BY SameDeployment, SameSpans DEF Next
  <1>5. /\ n \in Nat /\ \A i \in 1..n : admitted[i] \in Nat /\ admitted[i] <= now
    BY <1>3, AppendedLog DEF Common, Log
  <1>6. PICK x \in Int, c \in Nat :
          /\ c >= 1 /\ Capacity - x <= c * Limit
          /\ Answer(r).entry = [value |-> [tokens |-> x, last |-> q],
                                expires |-> now + (c + 1) * T]
          /\ Answer(r).allowed => x >= 0 /\ x <= Capacity - Window
          /\ BucketRepaid => Answer(r).allowed /\ x = Capacity - Window
          /\ BucketPaid => \E units \in Int :
               /\ units <= entry.value.tokens + (q - entry.value.last) * Limit
               /\ Answer(r).allowed => x = units - Window
               /\ ~Answer(r).allowed => x = units
    BY <1>1, TokenAnswer
  <1> DEFINE expires == now + (c + 1) * T
  <1>7. /\ expires \in Nat /\ now + 2 * T <= expires
        /\ FillsBeforeExpiry(x, q * T - MaxSkew, expires)
    BY <1>2, <1>3, <1>6, WriteFills
  <1>8. /\ "value" \in DOMAIN entry' /\ "expires" \in DOMAIN entry'
        /\ entry'.expires = expires
        /\ "tokens" \in DOMAIN entry'.value /\ "last" \in DOMAIN entry'.value
        /\ entry'.value.tokens = x /\ entry'.value.last = q
    BY <1>1, <1>6
  <1>9. now < expires
    <2>1. T >= 1
      BY Scales
    <2> HIDE DEF expires, T
    <2> QED
      BY <1>3, <1>7, <2>1
  <1> HIDE DEF expires, T, q, n
  <1>10. ASSUME NEW i \in 1..n
         PROVE  \E k \in Nat :
                  /\ Lives(k, now - admitted[i])
                  /\ Answer(r).allowed =>
                       Paid(n - i + 1, x, q * T - admitted[i] + Back + k * Regained)
                  /\ ~Answer(r).allowed =>
                       Paid(n - i, x, q * T - admitted[i] + Back + k * Regained)
    <2> DEFINE a == admitted[i]
    <2>1. a \in Nat /\ n - i \in Int /\ i \in Nat
      BY <1>5
    <2> HIDE DEF a
    <2>2. CASE BucketRepaid
      <3>1. PICK k \in Nat : Lives(k, now - a) /\ Repaid(n - i, now - a + k * Regained)
        BY <2>2 DEF BucketRepaid, a, n
      <3>2. k * Regained \in Nat
        BY <1>3
      <3>3. /\ now - a + k * Regained \in Int /\ q * T - a + Back + k * Regained \in Int
            /\ now - a + k * Regained <= q * T - a + Back + k * Regained
        BY <1>2, <1>3, <2>1, <3>2
      <3>4. Repaid(n - i, q * T - a + Back + k * Regained)
        BY <2>1, <3>1, <3>3, Widen
      <3>5. q * T - a + Back + k * Regained \in Nat
        <4>1. a <= now
          BY <1>5 DEF a
        <4> QED
          BY <1>2, <1>3, <2>1, <3>2, <4>1
      <3>6. Paid(n - i + 1, x, q * T - a + Back + k * Regained)
        BY <1>6, <2>1, <2>2, <3>4, <3>5, FullBucketPays
      <3> QED
        BY <1>6, <2>2, <3>1, <3>6 DEF a
    <2>3. CASE BucketPaid
      <3> DEFINE last == entry.value.last
                 tokens == entry.value.tokens
      <3>1. last \in Nat /\ tokens \in Int
        BY <2>3 DEF BucketPaid
      <3>2. PICK k \in Nat :
              /\ Lives(k, now - a)
              /\ Paid(n - i, tokens, last * T - a + Back + k * Regained)
        BY <2>3 DEF BucketPaid, CallPaid, a, n, T
      <3>3. PICK units \in Int :
              /\ units <= tokens + (q - last) * Limit
              /\ Answer(r).allowed => x = units - Window
              /\ ~Answer(r).allowed => x = units
        BY <1>6, <2>3
      <3> HIDE DEF last, tokens
      <3> DEFINE span == last * T - a + Back + k * Regained
                 wider == q * T - a + Back + k * Regained
      <3>4. last * T \in Int /\ k * Regained \in Int /\ q - last \in Int /\ span \in Int
        BY <1>2, <1>3, <2>1, <3>1
      <3>5. span + (q - last) * TicksPerSec = wider
        <4>1. (q - last) * T = q * T - last * T
          BY <1>2, <1>3, <3>1
        <4>2. (q - last) * TicksPerSec = q * T - last * T
          BY <4>1 DEF T
        <4> QED
          BY <1>2, <1>3, <2>1, <3>4, <4>2
      <3>6. wider \in Int
        BY <1>2, <1>3, <2>1, <3>4
      <3>7. Paid(n - i, tokens, span)
        BY <3>2
      <3> HIDE DEF span, wider
      <3>8. Paid(n - i, units, wider)
        <4>1. Paid(n - i, units, span + (q - last) * TicksPerSec)
          BY <2>1, <3>1, <3>3, <3>4, <3>7, Refills
        <4> QED
          BY <3>5, <4>1
      <3>9. Paid(n - i + 1, units - Window, wider)
        BY <2>1, <3>6, <3>8, GrantPays
      <3> QED
        BY <3>2, <3>3, <3>8, <3>9 DEF a, wider
    <2> QED
      BY <2>2, <2>3
  <1>11. ASSUME NEW k \in Nat, NEW a \in Nat, Lives(k, now - a)
         PROVE  Lives(k, expires - 2 * T - a)
    <2>1. k * (2 * T) \in Int
      BY <1>3
    <2> QED
      BY <1>3, <1>7, <1>11, <2>1 DEF Lives, T
  <1>12. ASSUME NEW m \in Nat, NEW i \in 1..m, m = Len(admitted')
         PROVE  \E k \in Nat :
                  /\ Lives(k, now - admitted'[i])
                  /\ Lives(k, expires - 2 * T - admitted'[i])
                  /\ Paid(m - i, x, q * T - admitted'[i] + Back + k * Regained)
    <2>1. CASE ~Answer(r).allowed
      <3>1. admitted' = admitted /\ m = n
        BY <1>1, <1>12, <2>1 DEF n
      <3> QED
        BY <1>5, <1>10, <1>11, <2>1, <3>1
    <2>2. CASE Answer(r).allowed
      <3>1. /\ m = n + 1 /\ admitted'[n + 1] = now
            /\ \A d \in 1..n : admitted'[d] = admitted[d]
        BY <1>1, <1>3, <1>12, <2>2, AppendedLog DEF Common, n
      <3>2. CASE i \in 1..n
        <4>1. m - i = n - i + 1
          BY <1>5, <3>1, <3>2
        <4> QED
          BY <1>5, <1>10, <1>11, <2>2, <3>1, <3>2, <4>1
      <3>3. CASE i = n + 1
        <4>1. m - i = 0 /\ admitted'[i] = now
          BY <1>5, <3>1, <3>3
        <4>2. 0 * (2 * TicksPerSec) = 0 /\ 0 * Regained = 0 /\ now - now = 0
          BY <1>3, Scales
        <4>3. Lives(0, now - now)
          BY <4>2 DEF Lives
        <4>4. q * T - now + Back + 0 * Regained \in Nat
          BY <1>2, <1>3, <4>2
        <4>5. Paid(0, x, q * T - now + Back + 0 * Regained)
          BY <1>6, <2>2, <4>4, FullBucketPays
        <4> QED
          BY <1>3, <1>11, <4>1, <4>3, <4>5
      <3> QED
        BY <1>5, <3>1, <3>2, <3>3
    <2> QED
      BY <2>1, <2>2
  <1>13. Len(admitted') \in Nat
    <2>1. CASE Answer(r).allowed
      BY <1>1, <1>3, <1>5, <2>1, AppendedLog DEF Common, n
    <2>2. CASE ~Answer(r).allowed
      BY <1>1, <1>5, <2>2 DEF n
    <2> QED
      BY <2>1, <2>2
  <1>14. \A i \in 1..Len(admitted') :
           CallPaid(i, Len(admitted), entry.value.tokens, entry.value.last, entry.expires)'
    BY <1>1, <1>4, <1>8, <1>12, <1>13 DEF CallPaid, T
  <1>15. BucketPaid'
    BY <1>1, <1>2, <1>4, <1>7, <1>8, <1>9, <1>14 DEF BucketPaid, T
  <1> QED
    BY <1>2, <1>6, <1>8, <1>15 DEF T

(* Every admitted call is paid for, so the rate holds up to the last one.  *)
LEMMA RunRates ==
  ASSUME Common, Algorithm = "token_bucket", BucketPaid \/ BucketRepaid, Rated,
         NEW r \in Replicas, Run(r)
  PROVE  Rated'
  <1> DEFINE n == Len(admitted)
             T == TicksPerSec
  <1>1. /\ Answer(r).allowed => admitted' = Append(admitted, now)
        /\ ~Answer(r).allowed => admitted' = admitted
        /\ now' = now
    BY RunEffect
  <1>2. MaxSkew' = MaxSkew /\ Back' = Back /\ Regained' = Regained /\ Slack' = Slack
    BY SameDeployment, SameSpans DEF Next
  <1>3. CASE ~Answer(r).allowed
    BY <1>1, <1>2, <1>3 DEF Rated, Expiries
  <1>4. CASE Answer(r).allowed
    <2>1. /\ now \in Nat /\ MaxSkew \in Nat /\ T \in Nat \ {0} /\ Back \in Nat
          /\ Regained \in Nat /\ Limit \in Nat /\ WindowTicks \in Nat
          /\ Slack = Back + MaxSkew /\ Slack \in Nat
      BY DeploymentFacts, SpanFacts, Scales DEF Common, Types
    <2>2. /\ n \in Nat /\ Len(admitted') = n + 1 /\ admitted'[n + 1] = now
          /\ \A i \in 1..n : admitted'[i] = admitted[i] /\ admitted[i] \in Nat
          /\ \A i \in 1..n : admitted[i] <= now
      BY <1>1, <1>4, <2>1, AppendedLog DEF Common, Log
    <2>3. BucketPaid' /\ entry'.value.last * T <= now + MaxSkew /\ entry'.value.tokens >= 0
      BY <1>4, RunPays
    <2> DEFINE last == entry'.value.last
               units == entry'.value.tokens
    <2>4. /\ last \in Nat /\ units \in Int /\ units >= 0 /\ last * T <= now + MaxSkew
          /\ \A i \in 1..(n + 1) : \E k \in Nat :
               /\ Lives(k, now - admitted'[i])
               /\ Paid(n + 1 - i, units, last * TicksPerSec - admitted'[i] + Back + k * Regained)
      BY <1>1, <1>2, <2>2, <2>3 DEF BucketPaid, CallPaid
    <2> HIDE DEF last, units
    <2>5. ASSUME NEW i \in 1..(n + 1)
          PROVE  LET apart == now - admitted'[i]
                 IN (n + 1 - i + 1) * WindowTicks
                      <= Limit * WindowTicks + Limit * (apart + Slack + Expiries(apart) * Regained)
      <3> DEFINE apart == now - admitted'[i]
                 e == Expiries(apart)
                 m == n + 1 - i
      <3>1. admitted'[i] \in Nat /\ admitted'[i] <= now /\ apart \in Nat /\ m \in Int
        <4>1. CASE i \in 1..n
          BY <2>1, <2>2, <4>1
        <4>2. CASE i = n + 1
          BY <2>1, <2>2, <4>2
        <4> QED
          BY <2>2, <4>1, <4>2
      <3>2. PICK k \in Nat :
              Lives(k, apart) /\ Paid(m, units, last * T - admitted'[i] + Back + k * Regained)
        BY <2>4
      <3> HIDE DEF apart, m, T
      <3>3. 2 * T \in Nat \ {0} /\ k * (2 * T) <= apart
        BY <2>1, <3>2 DEF Lives, T
      <3>4. e \in Nat /\ apart < e * (2 * T) + 2 * T
        BY <3>1, <3>3, DivBounds DEF Expiries, T
      <3> HIDE DEF e
      <3>5. k <= e
        <4>1. CASE k >= e + 1
          <5>1. (e + 1) * (2 * T) <= k * (2 * T)
            BY <3>3, <3>4, <4>1, ProductMonotone
          <5>2. (e + 1) * (2 * T) = e * (2 * T) + 2 * T
            BY <3>3, <3>4
          <5>3. e * (2 * T) \in Int /\ k * (2 * T) \in Int
            BY <3>3, <3>4
          <5> QED
            BY <3>1, <3>3, <3>4, <5>1, <5>2, <5>3
        <4> QED
          BY <3>4, <4>1
      <3>6. k * Regained <= e * Regained /\ k * Regained \in Int /\ e * Regained \in Int
        BY <2>1, <3>4, <3>5, ProductMonotone
      <3> DEFINE span == last * T - admitted'[i] + Back + k * Regained
                 wider == apart + Slack + e * Regained
      <3>7. span \in Int /\ wider \in Int /\ span <= wider
        <4>1. last * T \in Int /\ last * T <= now + MaxSkew
          BY <2>1, <2>4 DEF T
        <4>2. apart = now - admitted'[i]
          BY DEF apart
        <4> DEFINE b == last * T
                   f == k * Regained
                   g == e * Regained
                   a == admitted'[i]
        <4>3. /\ b \in Int /\ f \in Int /\ g \in Int /\ a \in Nat /\ f <= g
              /\ b <= now + MaxSkew /\ apart = now - a
          BY <3>1, <3>6, <4>1, <4>2
        <4> HIDE DEF a, b, f, g
        <4>4. /\ b - a + Back + f \in Int /\ apart + Slack + g \in Int
              /\ b - a + Back + f <= apart + Slack + g
          BY <2>1, <4>3
        <4> QED
          BY <4>4 DEF a, b, f, g
      <3>8. m * WindowTicks + units * T + WindowTicks <= Limit * WindowTicks + Limit * span
        BY <3>2 DEF Paid, T
      <3> HIDE DEF span, wider
      <3>9. Limit * span <= Limit * wider
        BY <2>1, <3>7, Z3
      <3>10. units * T \in Nat
        BY <2>1, <2>4
      <3>11. (m + 1) * WindowTicks = m * WindowTicks + WindowTicks
        BY <2>1, <3>1
      <3>12. /\ m * WindowTicks \in Int /\ Limit * WindowTicks \in Int
             /\ Limit * span \in Int /\ Limit * wider \in Int
        BY <2>1, <3>1, <3>7
      <3>13. (m + 1) * WindowTicks <= Limit * WindowTicks + Limit * wider
        BY <2>1, <3>8, <3>9, <3>10, <3>11, <3>12
      <3> QED
        BY <3>13 DEF m, wider, e, apart
    <2>6. ASSUME NEW i \in 1..(n + 1), NEW j \in 1..(n + 1), i <= j
          PROVE  LET apart == admitted'[j] - admitted'[i]
                 IN (j - i + 1) * WindowTicks
                      <= Limit * WindowTicks + Limit * (apart + Slack + Expiries(apart) * Regained)
      <3>1. CASE j = n + 1
        BY <2>2, <2>5, <3>1
      <3>2. CASE j \in 1..n
        <4>1. i \in 1..n
          BY <2>2, <2>6, <3>2
        <4>2. admitted'[j] = admitted[j] /\ admitted'[i] = admitted[i]
          BY <2>2, <3>2, <4>1
        <4> QED
          BY <2>6, <3>2, <4>1, <4>2 DEF Rated
      <3> QED
        BY <2>2, <3>1, <3>2
    <2> QED
      BY <1>2, <2>2, <2>6 DEF Rated, Expiries
  <1> QED
    BY <1>3, <1>4

(* Time passes: a bucket whose key expires has been repaid.                *)
LEMMA TickPays ==
  ASSUME Common, Algorithm = "token_bucket", BucketPaid \/ BucketRepaid, Tick
  PROVE  BucketPaid' \/ BucketRepaid'
  <1> DEFINE n == Len(admitted)
             T == TicksPerSec
  <1>1. /\ now' = now + 1 /\ admitted' = admitted
        /\ Live(entry, now + 1) => entry' = entry
        /\ ~Live(entry, now + 1) => entry' = NoEntry
    BY DEF Tick
  <1>2. /\ now \in Nat /\ MaxSkew \in Nat /\ T \in Nat \ {0} /\ Back \in Nat
        /\ Regained \in Nat /\ Slack = Back + MaxSkew /\ Slack - T <= Regained
    BY DeploymentFacts, SpanFacts, Scales DEF Common, Types
  <1>3. MaxSkew' = MaxSkew /\ Back' = Back /\ Regained' = Regained
    BY SameDeployment, SameSpans DEF Next
  <1>4. n \in Nat /\ \A i \in 1..n : admitted[i] \in Nat /\ admitted[i] <= now
    BY <1>2, AppendedLog DEF Common, Log
  <1>5. ASSUME NEW k \in Nat, NEW a \in Nat, Lives(k, now - a)
        PROVE  Lives(k, now + 1 - a)
    <2>1. k * (2 * T) \in Int
      BY <1>2
    <2> QED
      BY <1>2, <1>5, <2>1 DEF Lives, T
  <1>9. ASSUME entry' = NoEntry,
               \A i \in 1..n : \E k \in Nat :
                 /\ Lives(k, now + 1 - admitted[i])
                 /\ Repaid(n - i, now + 1 - admitted[i] + k * Regained)
        PROVE  BucketRepaid'
    <2>1. n = Len(admitted') /\ n = Len(admitted)
      BY <1>1
    <2>2. ASSUME NEW i \in 1..n
          PROVE  \E k \in Nat :
                   /\ Lives(k, now' - admitted'[i])
                   /\ Repaid(n - i, now' - admitted'[i] + k * Regained')
      <3> HIDE DEF n
      <3> DEFINE a == admitted[i]
      <3>1. a \in Nat /\ admitted'[i] = a /\ now \in Nat /\ now' = now + 1
        BY <1>1, <1>2, <1>4
      <3> HIDE DEF a
      <3>2. now' - a = now + 1 - a
        BY <3>1
      <3>3. now' - admitted'[i] = now + 1 - admitted[i]
        BY <3>1, <3>2 DEF a
      <3> QED
        BY <1>3, <1>9, <3>3
    <2> HIDE DEF n
    <2> QED
      BY <1>9, <2>1, <2>2 DEF BucketRepaid, NoEntry
  <1> HIDE DEF n
  <1>6. CASE BucketRepaid
    <2>1. NoEntry.expires = 0 /\ NoEntry' = NoEntry
      BY DEF NoEntry
    <2>2. entry' = NoEntry
      BY <1>1, <1>6 DEF BucketRepaid
    <2>3. ASSUME NEW i \in 1..n
          PROVE  \E k \in Nat :
                   /\ Lives(k, now + 1 - admitted[i])
                   /\ Repaid(n - i, now + 1 - admitted[i] + k * Regained)
      <3> DEFINE a == admitted[i]
      <3>1. PICK k \in Nat : Lives(k, now - a) /\ Repaid(n - i, now - a + k * Regained)
        BY <1>6 DEF BucketRepaid, n
      <3>2. a \in Nat /\ n - i \in Int /\ k * Regained \in Nat
        BY <1>2, <1>4
      <3> HIDE DEF a
      <3> DEFINE f == k * Regained
      <3> HIDE DEF f
      <3>3. f \in Nat /\ Repaid(n - i, now - a + f)
        BY <3>1, <3>2 DEF f
      <3>4. /\ now - a + f \in Int /\ now + 1 - a + f \in Int
            /\ now - a + f <= now + 1 - a + f
        BY <1>2, <3>2, <3>3
      <3>5. Repaid(n - i, now + 1 - a + f)
        BY <3>2, <3>3, <3>4, Widen
      <3> QED
        BY <1>5, <3>1, <3>2, <3>5 DEF a, f
    <2> QED
      BY <1>9, <2>2, <2>3
  <1>7. CASE BucketPaid /\ Live(entry, now + 1)
    <2>1. now + 1 < entry.expires /\ entry' = entry
      BY <1>1, <1>7 DEF BucketPaid, Live, Never
    <2>2. ASSUME NEW i \in 1..n
          PROVE  CallPaid(i, n, entry.value.tokens, entry.value.last, entry.expires)'
      <3>1. CallPaid(i, n, entry.value.tokens, entry.value.last, entry.expires)
        BY <1>7 DEF BucketPaid, n
      <3>2. admitted[i] \in Nat
        BY <1>4
      <3>3. PICK k \in Nat :
              /\ Lives(k, now - admitted[i])
              /\ Lives(k, entry.expires - 2 * TicksPerSec - admitted[i])
              /\ Paid(n - i, entry.value.tokens,
                      entry.value.last * TicksPerSec - admitted[i] + Back + k * Regained)
        BY <3>1 DEF CallPaid
      <3>4. Lives(k, now + 1 - admitted[i])
        BY <1>5, <3>2, <3>3
      <3>5. n' = n
        BY <1>1 DEF n
      <3>6. Lives(k, now' - admitted'[i])
        BY <1>1, <1>2, <3>2, <3>4
      <3> QED
        BY <1>1, <1>3, <2>1, <3>3, <3>5, <3>6 DEF CallPaid
    <2> QED
      BY <1>1, <1>3, <1>7, <2>1, <2>2 DEF BucketPaid, n
  <1>8. CASE BucketPaid /\ ~Live(entry, now + 1)
    <2> DEFINE expires == entry.expires
               units == entry.value.tokens
               last == entry.value.last
    <2>1. /\ expires \in Nat /\ units \in Int /\ last \in Nat
          /\ FillsBeforeExpiry(units, last * T - MaxSkew, expires)
          /\ now < expires /\ ~(now + 1 < expires)
      BY <1>8 DEF BucketPaid, Live
    <2>2. ASSUME NEW i \in 1..n
          PROVE  \E k \in Nat :
                   /\ Lives(k, now + 1 - admitted[i])
                   /\ Repaid(n - i, now + 1 - admitted[i] + k * Regained)
      <3> DEFINE a == admitted[i]
                 b == last * T
      <3>1. PICK k \in Nat : /\ Lives(k, expires - 2 * T - a)
                             /\ Paid(n - i, units, b - a + Back + k * Regained)
        BY <1>8 DEF BucketPaid, CallPaid, n
      <3>2. /\ a \in Nat /\ b \in Nat /\ n - i \in Int /\ k * Regained \in Nat
            /\ k * (2 * T) \in Nat /\ k * (2 * T) <= expires - 2 * T - a
        BY <1>2, <1>4, <2>1, <3>1 DEF Lives
      <3>3. FillsBeforeExpiry(units, b - MaxSkew, expires)
        BY <2>1
      <3>4. (k + 1) * Regained = k * Regained + Regained
        BY <1>2
      <3>5. (k + 1) * (2 * T) = k * (2 * T) + 2 * T
        BY <1>2
      <3> DEFINE f == k * Regained
                 l == k * (2 * T)
      <3> HIDE DEF a, b, expires, units, last, T, f, l
      <3>6. /\ f \in Nat /\ l \in Nat /\ l <= expires - 2 * T - a
            /\ Paid(n - i, units, b - a + Back + f)
        BY <3>1, <3>2 DEF f, l
      <3>7. l + 2 * T <= now + 1 - a
        BY <1>2, <2>1, <3>2, <3>6
      <3>8. Lives(k + 1, now + 1 - a)
        BY <3>5, <3>7 DEF Lives, l, T
      <3>9. b - a + Back + f \in Int /\ b - MaxSkew \in Int
        BY <1>2, <3>2, <3>6
      <3>10. Repaid(n - i, (b - a + Back + f) + expires - (b - MaxSkew) - T)
        BY <2>1, <3>2, <3>3, <3>6, <3>9, ExpiryRepays DEF T
      <3> DEFINE span == (b - a + Back + f) + expires - (b - MaxSkew) - T
                 wider == now + 1 - a + (f + Regained)
      <3>11. span \in Int /\ wider \in Int /\ span <= wider
        BY <1>2, <2>1, <3>2, <3>6
      <3>12. Repaid(n - i, span)
        BY <3>10
      <3> HIDE DEF span, wider
      <3>13. Repaid(n - i, wider)
        BY <3>2, <3>11, <3>12, Widen
      <3>14. wider = now + 1 - a + (k + 1) * Regained
        BY <3>4 DEF wider, f
      <3>15. Repaid(n - i, now + 1 - a + (k + 1) * Regained)
        BY <3>13, <3>14
      <3> QED
        BY <3>8, <3>15 DEF a
    <2>3. NoEntry' = NoEntry
      BY DEF NoEntry
    <2>4. BucketRepaid'
      BY <1>1, <1>8, <1>9, <2>2, <2>3
    <2> QED
      BY <2>4
  <1> QED
    BY <1>6, <1>7, <1>8

(* Paid and gone are the shapes a bucket may have.                         *)
LEMMA TokenStep ==
  ASSUME Common, TokenInv, [Next]_vars
  PROVE  TokenInv'
  <1> SUFFICES ASSUME Algorithm = "token_bucket"
               PROVE  (BucketPaid' \/ BucketRepaid') /\ Rated'
    BY SameDeployment DEF TokenInv
  <1>1. (BucketPaid \/ BucketRepaid) /\ Rated
    BY DEF TokenInv
  <1>2. /\ MaxSkew' = MaxSkew /\ Back' = Back /\ Slack' = Slack /\ Regained' = Regained
    BY SameDeployment, SameSpans
  <1>3. ASSUME NEW r \in Replicas, Run(r)
        PROVE  BucketPaid' /\ Rated'
    BY <1>1, <1>3, RunPays, RunRates
  <1>4. CASE Tick
    <2>1. BucketPaid' \/ BucketRepaid'
      BY <1>1, <1>4, TickPays
    <2>2. admitted' = admitted
      BY <1>4 DEF Tick
    <2> QED
      BY <1>1, <1>2, <2>1, <2>2 DEF Rated, Expiries
  <1>5. CASE UNCHANGED <<now, entry, admitted>>
    <2>1. NoEntry' = NoEntry
      BY DEF NoEntry
    <2>2. Rated'
      BY <1>1, <1>2, <1>5 DEF Rated, Expiries
    <2>3. CASE BucketRepaid
      BY <1>2, <1>5, <2>1, <2>2, <2>3 DEF BucketRepaid
    <2>4. CASE BucketPaid
      BY <1>2, <1>5, <2>2, <2>4 DEF BucketPaid, CallPaid
    <2> QED
      BY <1>1, <2>3, <2>4
  <1> QED
    BY <1>3, <1>4, <1>5 DEF Next, Send, Return, vars

LEMMA TokenInit == Init => TokenInv
  <1> SUFFICES ASSUME Init PROVE TokenInv
    OBVIOUS
  <1>1. entry = NoEntry /\ Len(admitted) = 0
    BY EmptySeq DEF Init
  <1>2. 1..0 = {}
    OBVIOUS
  <1> QED
    BY <1>1, <1>2 DEF TokenInv, BucketRepaid, Rated

(* redis_backend.rs:76-104.  Between any two admitted calls a shared      *)
(* bucket grants no more than its capacity, the refill, the slack of       *)
(* clocks that disagree, and what it regains whenever its key expires.     *)
THEOREM ClusterTokenRateHolds == Spec => []ClusterTokenRate
  <1>1. Init => Common /\ TokenInv
    BY InitCommon, TokenInit
  <1>2. Common /\ TokenInv /\ [Next]_vars => Common' /\ TokenInv'
    BY CommonStep, TokenStep
  <1>3. Common /\ TokenInv => ClusterTokenRate
    <2> SUFFICES ASSUME Common, TokenInv, Algorithm = "token_bucket"
                 PROVE  ClusterTokenRate
      BY DEF ClusterTokenRate
    <2>1. DOMAIN admitted = 1..Len(admitted)
      BY LenProperties DEF Common, Log
    <2> QED
      BY <2>1 DEF TokenInv, Rated, ClusterTokenRate
  <1> QED
    BY <1>1, <1>2, <1>3, PTL DEF Spec

(***************************************************************************)
(* The log, counted.                                                       *)
(***************************************************************************)
LEMMA SpanFinite ==
  ASSUME Common, NEW a \in Int, NEW d \in Int
  PROVE  /\ AdmittedIn(a, d) = {i \in 1..Len(admitted) : a <= admitted[i] /\ admitted[i] < a + d}
         /\ IsFiniteSet(AdmittedIn(a, d)) /\ Cardinality(AdmittedIn(a, d)) \in Nat
  <1>1. DOMAIN admitted = 1..Len(admitted) /\ Len(admitted) \in Nat
    BY LenProperties DEF Common, Log
  <1>2. AdmittedIn(a, d) = {i \in 1..Len(admitted) : a <= admitted[i] /\ admitted[i] < a + d}
    BY <1>1 DEF AdmittedIn
  <1>3. IsFiniteSet(1..Len(admitted))
    BY <1>1, FS_Interval
  <1>4. AdmittedIn(a, d) \subseteq 1..Len(admitted)
    BY <1>2
  <1>5. IsFiniteSet(AdmittedIn(a, d))
    BY <1>3, <1>4, FS_Subset
  <1> QED
    BY <1>2, <1>5, FS_CardinalityType

(* A span counts one more when a call is admitted in it, and else as many. *)
LEMMA SpanGrows ==
  ASSUME Common, NEW r \in Replicas, Run(r), NEW a \in Int, NEW d \in Int
  PROVE  /\ ~Answer(r).allowed \/ now < a \/ a + d <= now =>
              AdmittedIn(a, d)' = AdmittedIn(a, d)
         /\ AdmittedIn(a, d)' \subseteq AdmittedIn(a, d) \union {Len(admitted) + 1}
         /\ IsFiniteSet(AdmittedIn(a, d)')
         /\ Cardinality(AdmittedIn(a, d)') \in Nat
         /\ Cardinality(AdmittedIn(a, d)') <= Cardinality(AdmittedIn(a, d)) + 1
  <1> DEFINE n == Len(admitted)
  <1>1. /\ Answer(r).allowed => admitted' = Append(admitted, now)
        /\ ~Answer(r).allowed => admitted' = admitted
        /\ now' = now /\ now \in Nat
    BY RunEffect DEF Common, Types
  <1>2. /\ n \in Nat /\ DOMAIN admitted = 1..n
        /\ \A i \in 1..n : admitted[i] \in Nat
        /\ Answer(r).allowed =>
             /\ DOMAIN admitted' = 1..(n + 1) /\ admitted'[n + 1] = now
             /\ \A i \in 1..n : admitted'[i] = admitted[i]
    BY <1>1, AppendedLog DEF Common
  <1> HIDE DEF n
  <1>3. /\ AdmittedIn(a, d) = {i \in DOMAIN admitted : a <= admitted[i] /\ admitted[i] < a + d}
        /\ AdmittedIn(a, d)' = {i \in DOMAIN admitted' : a <= admitted'[i] /\ admitted'[i] < a + d}
    BY DEF AdmittedIn
  <1>4. \A i \in 1..(n + 1) : i \in 1..n \/ i = n + 1
    BY <1>2
  <1>5. \A i \in 1..n : i \in 1..(n + 1)
    BY <1>2
  <1>6. AdmittedIn(a, d)' \subseteq AdmittedIn(a, d) \union {n + 1}
    BY <1>1, <1>2, <1>3, <1>4
  <1>7. ~Answer(r).allowed => AdmittedIn(a, d)' = AdmittedIn(a, d)
    BY <1>1, <1>3
  <1>8. ASSUME Answer(r).allowed, now < a \/ a + d <= now
        PROVE  AdmittedIn(a, d)' = AdmittedIn(a, d)
    <2>1. ~(a <= now /\ now < a + d)
      BY <1>1, <1>8
    <2> QED
      BY <1>2, <1>3, <1>4, <1>5, <1>8, <2>1
  <1>9. /\ IsFiniteSet(AdmittedIn(a, d)')
        /\ Cardinality(AdmittedIn(a, d)') \in Nat
        /\ Cardinality(AdmittedIn(a, d)') <= Cardinality(AdmittedIn(a, d)) + 1
    <2> DEFINE S == AdmittedIn(a, d)
               B == AdmittedIn(a, d)'
    <2>1. IsFiniteSet(S) /\ Cardinality(S) \in Nat
      BY SpanFinite
    <2>2. B \subseteq S \union {n + 1}
      BY <1>6
    <2> HIDE DEF S, B
    <2>3. /\ IsFiniteSet(S \union {n + 1})
          /\ Cardinality(S \union {n + 1}) \in Nat
          /\ Cardinality(S \union {n + 1}) <= Cardinality(S) + 1
      <3>1. /\ IsFiniteSet(S \union {n + 1})
            /\ \/ Cardinality(S \union {n + 1}) = Cardinality(S)
               \/ Cardinality(S \union {n + 1}) = Cardinality(S) + 1
        BY <2>1, FS_AddElement
      <3> QED
        BY <2>1, <3>1
    <2>4. /\ IsFiniteSet(B) /\ Cardinality(B) \in Nat
          /\ Cardinality(B) <= Cardinality(S \union {n + 1})
      BY <2>2, <2>3, FS_Subset, FS_CardinalityType
    <2>5. Cardinality(B) <= Cardinality(S) + 1
      BY <2>1, <2>3, <2>4
    <2> QED
      BY <2>4, <2>5 DEF S, B
  <1> QED
    BY <1>6, <1>7, <1>8, <1>9 DEF n

(***************************************************************************)
(* The fixed window.  The counter has seen every call admitted since the   *)
(* window of the entry began; the window before it, and whatever ended     *)
(* with an entry that is gone, admitted at most the limit.                 *)
(***************************************************************************)
Admits(a) == Cardinality(AdmittedIn(a, WindowTicks))

FixedLive ==
  /\ "value" \in DOMAIN entry /\ "expires" \in DOMAIN entry
  /\ entry.value \in Nat
  /\ entry.expires \in Nat /\ now < entry.expires /\ entry.expires <= now + WindowTicks
  /\ \E start \in Int : \E before \in Int :
       /\ start + WindowTicks = entry.expires /\ before + WindowTicks = start
       /\ Admits(start) <= entry.value /\ Admits(start) <= Limit /\ Admits(before) <= Limit

FixedGone ==
  /\ entry = NoEntry
  /\ \A i \in 1..Len(admitted) : admitted[i] < now
  /\ \E before \in Int : before + WindowTicks = now /\ Admits(before) <= Limit

FixedSpans == \A a \in Int : Admits(a) <= 2 * Limit

FixedInv == Algorithm = "fixed_window" => (FixedLive \/ FixedGone) /\ FixedSpans

LEMMA FixedInit == Init => FixedInv
  <1> SUFFICES ASSUME Init PROVE FixedInv
    OBVIOUS
  <1>1. entry = NoEntry /\ Len(admitted) = 0 /\ DOMAIN admitted = {}
    BY EmptySeq DEF Init
  <1>2. \A a : Admits(a) = 0
    BY <1>1, FS_EmptySet DEF Admits, AdmittedIn
  <1>3. Limit \in Nat /\ 1..0 = {} /\ now \in Nat /\ WindowTicks \in Nat
    BY Scales DEF Init
  <1>4. now - WindowTicks \in Int /\ (now - WindowTicks) + WindowTicks = now
    BY <1>3
  <1> QED
    BY <1>1, <1>2, <1>3, <1>4 DEF FixedInv, FixedGone, FixedSpans

LEMMA FixedAnswer ==
  ASSUME Common, Algorithm = "fixed_window", FixedLive \/ FixedGone, NEW r \in Replicas
  PROVE  LET count == 1 + IF FixedLive THEN entry.value ELSE 0
             expires == IF FixedLive THEN entry.expires ELSE now + WindowTicks
         IN /\ Answer(r).entry = [value |-> count, expires |-> expires]
            /\ Answer(r).allowed <=> count <= Limit
  <1>1. Answer(r) = FixedScript(entry, now)
    BY DEF Answer, Script
  <1>2. now \in Nat
    BY DEF Common, Types
  <1>3. Live(entry, now) <=> FixedLive
    BY <1>2 DEF FixedLive, FixedGone, Live, NoEntry, Never
  <1> DEFINE count == 1 + IF FixedLive THEN entry.value ELSE 0
             expires == IF FixedLive THEN entry.expires ELSE now + WindowTicks
  <1>4. \E late : FixedScript(entry, now) =
                    Outcome([value |-> count, expires |-> expires], count <= Limit, late)
    <2>1. /\ expires = FixedExpiry(entry, now)
          /\ count = 1 + IF Live(entry, now) THEN entry.value ELSE 0
      BY <1>3 DEF FixedExpiry, WindowTicks
    <2> HIDE DEF count, expires
    <2>2. FixedScript(entry, now) =
            Outcome([value |-> count, expires |-> expires], count <= Limit,
                    RetryFromTtl(Ttl([value |-> count, expires |-> expires], now)))
      BY <2>1 DEF FixedScript, CountWithin
    <2> QED
      BY <2>2
  <1> HIDE DEF count, expires
  <1>5. Answer(r).entry = [value |-> count, expires |-> expires]
    BY <1>1, <1>4 DEF Outcome
  <1>6. Answer(r).allowed = (count <= Limit)
    BY <1>1, <1>4 DEF Outcome
  <1> QED
    BY <1>5, <1>6 DEF count, expires

LEMMA FixedRun ==
  ASSUME Common, Common', Algorithm = "fixed_window", FixedLive \/ FixedGone, FixedSpans,
         NEW r \in Replicas, Run(r)
  PROVE  FixedLive' /\ FixedSpans'
  <1> DEFINE W == WindowTicks
  <1>0. PICK count, expires, t :
          /\ count = 1 + IF FixedLive THEN entry.value ELSE 0
          /\ expires = IF FixedLive THEN entry.expires ELSE now + W
          /\ t = now
    OBVIOUS
  <1>1. /\ entry' = Answer(r).entry /\ now' = t /\ now = t
        /\ t \in Nat /\ W \in Nat \ {0} /\ Limit \in Nat \ {0}
    BY <1>0, RunEffect, Scales DEF Common, Types
  <1>2. /\ Answer(r).entry = [value |-> count, expires |-> expires]
        /\ Answer(r).allowed <=> count <= Limit
    BY <1>0, FixedAnswer
  <1>3. /\ "value" \in DOMAIN entry' /\ "expires" \in DOMAIN entry'
        /\ entry'.value = count /\ entry'.expires = expires
    BY <1>1, <1>2
  <1>4. /\ count \in Nat /\ count >= 1
        /\ expires \in Nat /\ t < expires /\ expires <= t + W
    BY <1>0, <1>1 DEF FixedLive
  <1>5. PICK start \in Int, before \in Int :
           start + W = expires /\ before + W = start
    <2>1. /\ expires - W \in Int /\ (expires - W) + W = expires
          /\ expires - W - W \in Int /\ (expires - W - W) + W = expires - W
      BY <1>1, <1>4
    <2> QED
      BY <2>1
  <1> DEFINE grown == IF Answer(r).allowed THEN 1 ELSE 0
  <1>6. start <= t /\ t < start + W /\ before + W <= t
    BY <1>1, <1>4, <1>5
  <1>7. ASSUME NEW a \in Int
        PROVE  /\ Admits(a) \in Nat /\ Admits(a)' \in Nat
               /\ Admits(a)' <= Admits(a) + grown
               /\ a + W <= t => Admits(a)' = Admits(a)
    <2>1. /\ ~Answer(r).allowed \/ t < a \/ a + W <= t => AdmittedIn(a, W)' = AdmittedIn(a, W)
          /\ Cardinality(AdmittedIn(a, W)') <= Cardinality(AdmittedIn(a, W)) + 1
          /\ Cardinality(AdmittedIn(a, W)') \in Nat
      BY <1>1, SpanGrows
    <2>2. Cardinality(AdmittedIn(a, W)) \in Nat
      BY <1>1, SpanFinite
    <2> QED
      BY <2>1, <2>2 DEF Admits
  <1>8. Admits(start)' <= count /\ Admits(start)' <= Limit /\ Admits(before)' <= Limit
    <2>1. /\ Admits(start)' <= Admits(start) + grown
          /\ Admits(start) \in Nat /\ Admits(start)' \in Nat
          /\ Admits(before)' = Admits(before)
      BY <1>6, <1>7
    <2>2. CASE FixedLive
      <3>1. count = 1 + entry.value /\ entry.value \in Nat /\ expires = entry.expires
        BY <1>0, <2>2 DEF FixedLive
      <3>2. PICK a \in Int, b \in Int :
              /\ a + W = entry.expires /\ b + W = a
              /\ Admits(a) <= entry.value /\ Admits(a) <= Limit /\ Admits(b) <= Limit
        BY <2>2 DEF FixedLive
      <3>3. a = start /\ b = before
        BY <1>1, <1>5, <3>1, <3>2
      <3>4. Admits(start) <= entry.value /\ Admits(start) <= Limit /\ Admits(before) <= Limit
        BY <3>2, <3>3
      <3>5. CASE Answer(r).allowed
        BY <1>1, <1>2, <1>4, <2>1, <3>1, <3>4, <3>5
      <3>6. CASE ~Answer(r).allowed
        BY <1>1, <1>2, <1>4, <2>1, <3>1, <3>4, <3>6
      <3> QED
        BY <3>5, <3>6
    <2>3. CASE ~FixedLive
      <3>1. /\ count = 1 /\ expires = t + W
            /\ \A i \in 1..Len(admitted) : admitted[i] < t
        BY <1>0, <1>1, <2>3 DEF FixedGone
      <3>2. PICK b \in Int : b + W = t /\ Admits(b) <= Limit
        BY <1>1, <2>3 DEF FixedGone
      <3>3. start = t /\ b = before
        BY <1>1, <1>5, <3>1, <3>2
      <3>4. AdmittedIn(t, W) = {}
        <4>1. AdmittedIn(t, W) = {i \in 1..Len(admitted) :
                                    t <= admitted[i] /\ admitted[i] < t + W}
          BY <1>1, AppendedLog DEF AdmittedIn, Common
        <4>2. \A i \in 1..Len(admitted) : admitted[i] \in Nat /\ admitted[i] < t
          BY <1>1, <3>1, AppendedLog DEF Common
        <4>3. \A i \in 1..Len(admitted) : ~(t <= admitted[i])
          BY <1>1, <4>2
        <4> QED
          BY <4>1, <4>3
      <3>5. Admits(start) = 0 /\ Admits(before) <= Limit
        BY <3>2, <3>3, <3>4, FS_EmptySet DEF Admits
      <3> QED
        BY <1>1, <2>1, <3>1, <3>5
    <2> QED
      BY <2>2, <2>3
  <1>9. FixedLive'
    BY <1>1, <1>3, <1>4, <1>8, <1>5 DEF FixedLive
  <1>10. ASSUME NEW a \in Int
        PROVE  Admits(a)' <= 2 * Limit
    <2>1. CASE a + W <= t
      BY <1>1, <1>7, <2>1 DEF FixedSpans
    <2>2. CASE t < a + W
      <3> DEFINE A == AdmittedIn(a, W)'
                 B == AdmittedIn(start, W)'
                 C == AdmittedIn(before, W)'
      <3>1. A \subseteq B \union C
        <4>1. /\ A = {i \in DOMAIN admitted' : a <= admitted'[i] /\ admitted'[i] < a + W}
              /\ B = {i \in DOMAIN admitted' : start <= admitted'[i] /\ admitted'[i] < start + W}
              /\ C = {i \in DOMAIN admitted' : before <= admitted'[i] /\ admitted'[i] < before + W}
          BY DEF AdmittedIn
        <4>2. \A i \in DOMAIN admitted' : admitted'[i] \in Nat /\ admitted'[i] <= t
          <5>1. DOMAIN admitted' = 1..Len(admitted') /\ Len(admitted') \in Nat
            BY LenProperties DEF Common, Log
          <5>2. \A i \in 1..Len(admitted') : admitted'[i] \in Nat
            BY ElementOfSeq DEF Common, Log
          <5> QED
            BY <1>1, <5>1, <5>2 DEF Common, Log
        <4> HIDE DEF A, B, C, W
        <4> QED
          BY <1>1, <1>6, <1>5, <2>2, <4>1, <4>2
      <3>2. /\ IsFiniteSet(A) /\ IsFiniteSet(B) /\ IsFiniteSet(C)
            /\ Cardinality(A) \in Nat /\ Cardinality(B) \in Nat /\ Cardinality(C) \in Nat
        <4>1. \A b \in Int : IsFiniteSet(AdmittedIn(b, W)')
                            /\ Cardinality(AdmittedIn(b, W)') \in Nat
          BY <1>1, SpanGrows
        <4> QED
          BY <4>1
      <3>3. Cardinality(B) <= Limit /\ Cardinality(C) <= Limit
        BY <1>8 DEF Admits
      <3> HIDE DEF A, B, C
      <3>4. /\ IsFiniteSet(B \union C) /\ Cardinality(B \union C) \in Nat
            /\ Cardinality(B \union C) <= Cardinality(B) + Cardinality(C)
        <4>1. /\ IsFiniteSet(B \union C)
              /\ Cardinality(B \union C)
                   = Cardinality(B) + Cardinality(C) - Cardinality(B \cap C)
          BY <3>2, FS_Union
        <4>2. Cardinality(B \cap C) \in Nat
          BY <3>2, FS_Subset, FS_CardinalityType
        <4>3. Cardinality(B \union C) \in Nat
          BY <4>1, FS_CardinalityType
        <4> QED
          BY <3>2, <4>1, <4>2, <4>3
      <3>5. Cardinality(A) <= Cardinality(B \union C)
        BY <3>1, <3>4, FS_Subset
      <3>6. Cardinality(A) <= 2 * Limit
        BY <1>1, <3>2, <3>3, <3>4, <3>5
      <3> QED
        BY <3>6 DEF Admits, A
    <2> QED
      BY <1>1, <2>1, <2>2
  <1> QED
    BY <1>9, <1>10 DEF FixedSpans

LEMMA FixedTick ==
  ASSUME Common, FixedLive \/ FixedGone, Tick
  PROVE  FixedLive' \/ FixedGone'
  <1> DEFINE W == WindowTicks
  <1>1. /\ now' = now + 1 /\ admitted' = admitted
        /\ Live(entry, now + 1) => entry' = entry
        /\ ~Live(entry, now + 1) => entry' = NoEntry
    BY DEF Tick
  <1>2. now \in Nat /\ W \in Nat \ {0} /\ Limit \in Nat
    BY Scales DEF Common, Types
  <1>3. \A i \in 1..Len(admitted) : admitted[i] \in Nat /\ admitted[i] <= now
    BY <1>2, AppendedLog DEF Common, Log
  <1>4. \A i \in 1..Len(admitted') : admitted'[i] < now'
    BY <1>1, <1>2, <1>3
  <1>0. \A a : Admits(a)' = Admits(a)
    BY <1>1 DEF Admits, AdmittedIn
  <1>5. ASSUME entry' = NoEntry, NEW b \in Int, b + W = now + 1, Admits(b) <= Limit
        PROVE  FixedGone'
    BY <1>0, <1>1, <1>4, <1>5 DEF FixedGone, NoEntry
  <1>6. CASE FixedLive /\ Live(entry, now + 1)
    <2>1. entry' = entry /\ now + 1 < entry.expires /\ entry.expires \in Nat
      BY <1>1, <1>6 DEF FixedLive, Live, Never
    <2>2. entry.expires <= now + 1 + W
      BY <1>2, <1>6, <2>1 DEF FixedLive
    <2> QED
      BY <1>0, <1>1, <1>2, <1>6, <2>1, <2>2 DEF FixedLive
  <1>7. CASE FixedLive /\ ~Live(entry, now + 1)
    <2>1. /\ entry' = NoEntry /\ entry.expires \in Nat
          /\ now < entry.expires /\ ~(now + 1 < entry.expires)
      BY <1>1, <1>7 DEF FixedLive, Live
    <2>2. entry.expires = now + 1
      BY <1>2, <2>1
    <2>3. PICK start \in Int : start + W = entry.expires /\ Admits(start) <= Limit
      BY <1>7 DEF FixedLive
    <2> QED
      BY <1>5, <2>1, <2>2, <2>3
  <1>8. CASE FixedGone
    <2>1. entry' = NoEntry /\ \A i \in 1..Len(admitted) : admitted[i] < now
      BY <1>1, <1>8 DEF FixedGone
    <2>2. PICK a \in Int : a + W = now /\ Admits(a) <= Limit
      BY <1>8 DEF FixedGone
    <2> DEFINE A == AdmittedIn(a + 1, W)
               B == AdmittedIn(a, W)
    <2>3. A \subseteq B
      <3>1. /\ A = {i \in 1..Len(admitted) : a + 1 <= admitted[i] /\ admitted[i] < a + 1 + W}
            /\ B = {i \in 1..Len(admitted) : a <= admitted[i] /\ admitted[i] < a + W}
        BY <1>2, AppendedLog DEF AdmittedIn, Common
      <3> HIDE DEF A, B
      <3> QED
        BY <1>2, <1>3, <2>1, <2>2, <3>1
    <2>4. IsFiniteSet(B) /\ Cardinality(B) \in Nat /\ Cardinality(B) <= Limit
      BY <1>2, <2>2, SpanFinite DEF Admits
    <2> HIDE DEF A, B
    <2>5. Cardinality(A) <= Cardinality(B) /\ Cardinality(A) \in Nat
      BY <2>3, <2>4, FS_Subset, FS_CardinalityType
    <2>6. Cardinality(A) <= Limit
      BY <1>2, <2>4, <2>5
    <2>7. Admits(a + 1) <= Limit
      BY <2>6 DEF A, Admits
    <2>8. a + 1 \in Int /\ (a + 1) + W = now + 1
      BY <1>2, <2>2
    <2> QED
      BY <1>5, <2>1, <2>7, <2>8
  <1> QED
    BY <1>6, <1>7, <1>8

LEMMA FixedStep ==
  ASSUME Common, Common', FixedInv, [Next]_vars
  PROVE  FixedInv'
  <1> SUFFICES ASSUME Algorithm = "fixed_window"
               PROVE  (FixedLive' \/ FixedGone') /\ FixedSpans'
    BY SameDeployment DEF FixedInv
  <1>1. (FixedLive \/ FixedGone) /\ FixedSpans
    BY DEF FixedInv
  <1>2. ASSUME NEW r \in Replicas, Run(r)
        PROVE  FixedLive' /\ FixedSpans'
    BY <1>1, <1>2, FixedRun
  <1>3. ASSUME admitted' = admitted
        PROVE  FixedSpans' /\ \A a : Admits(a)' = Admits(a)
    BY <1>1, <1>3 DEF FixedSpans, Admits, AdmittedIn
  <1>4. CASE Tick
    <2>1. FixedLive' \/ FixedGone'
      BY <1>1, <1>4, FixedTick
    <2>2. admitted' = admitted
      BY <1>4 DEF Tick
    <2> QED
      BY <1>3, <2>1, <2>2
  <1>5. CASE UNCHANGED <<now, entry, admitted>>
    <2>1. NoEntry' = NoEntry
      BY DEF NoEntry
    <2>2. CASE FixedLive
      BY <1>3, <1>5, <2>2 DEF FixedLive, Admits, AdmittedIn
    <2>3. CASE FixedGone
      BY <1>3, <1>5, <2>1, <2>3 DEF FixedGone, Admits, AdmittedIn
    <2> QED
      BY <1>1, <1>3, <1>5, <2>2, <2>3
  <1> QED
    BY <1>2, <1>4, <1>5 DEF Next, Send, Return, vars

(***************************************************************************)
(* The sliding window.  The sorted set never grows past the limit, and     *)
(* holds a member for every admitted call that a reading may still count.  *)
(***************************************************************************)
SetKept ==
  /\ "value" \in DOMAIN entry /\ "expires" \in DOMAIN entry
  /\ IsFiniteSet(entry.value) /\ Cardinality(entry.value) <= Limit
  /\ \A x \in entry.value : x.score \in Nat
  /\ entry = NoEntry \/ entry.expires = Never \/ (entry.expires \in Nat /\ now < entry.expires)

Taken(r) == UniqueMember(r, Reading(r, call[r].issued), call[r].ctr)

Lifetime == (Window + 1) * TicksPerSec

LEMMA SlidingAnswer ==
  ASSUME Common, Algorithm = "sliding_window", SetKept,
         NEW r \in Replicas, call[r].pc = "sent"
  PROVE  LET q == Reading(r, call[r].issued)
             members == Purged(entry.value, q)
         IN /\ members \subseteq entry.value /\ IsFiniteSet(members)
            /\ Cardinality(members) \in Nat /\ Cardinality(members) <= Limit
            /\ Full(members) =>
                 /\ ~Answer(r).allowed
                 /\ Answer(r).entry = [value |-> members, expires |-> now + Lifetime]
                 /\ Answer(r).retry = RetryFromOldest(members, q)
            /\ ~Full(members) =>
                 /\ Answer(r).allowed
                 /\ \E expires \in {Never, now + Lifetime} :
                      Answer(r).entry = [value |-> members \union {Taken(r)}, expires |-> expires]
  <1> DEFINE q == Reading(r, call[r].issued)
             members == Purged(entry.value, q)
  <1>1. Answer(r) = SlidingScript(entry, now, q, Taken(r))
    BY DEF Answer, Script, Taken
  <1>2. now \in Nat /\ Limit \in Nat
    BY Scales DEF Common, Types
  <1>3. (IF Live(entry, now) THEN entry.value ELSE {}) = entry.value
    BY <1>2 DEF SetKept, Live, NoEntry, Never
  <1>4. members \subseteq entry.value
    BY DEF Purged
  <1>5. IsFiniteSet(members) /\ Cardinality(members) <= Cardinality(entry.value)
    BY <1>4, FS_Subset DEF SetKept
  <1>6. Cardinality(members) \in Nat /\ Cardinality(entry.value) \in Nat
    BY <1>5, FS_CardinalityType DEF SetKept
  <1>7. Cardinality(members) <= Limit
    BY <1>2, <1>5, <1>6 DEF SetKept
  <1> HIDE DEF q
  <1>8. Purged(IF Live(entry, now) THEN entry.value ELSE {}, q) = members
    BY <1>3
  <1> HIDE DEF members
  <1>9. CASE Full(members)
    <2>1. Answer(r) = Outcome(Entry(members, now, Window + 1), FALSE, RetryFromOldest(members, q))
      BY <1>1, <1>8, <1>9 DEF SlidingScript
    <2>2. Answer(r).entry = [value |-> members, expires |-> now + Lifetime]
      BY <2>1 DEF Outcome, Entry, Lifetime
    <2>3. ~Answer(r).allowed /\ Answer(r).retry = RetryFromOldest(members, q)
      BY <2>1 DEF Outcome
    <2> QED
      BY <1>4, <1>5, <1>6, <1>7, <1>9, <2>2, <2>3 DEF q, members
  <1>10. CASE ~Full(members)
    <2> DEFINE left == [Entry(members \union {Taken(r)}, now, Window + 1) EXCEPT
                          !.expires = IF members = {} THEN Never ELSE @]
    <2>1. Answer(r) = Outcome(left, TRUE, 0)
      BY <1>1, <1>8, <1>10 DEF SlidingScript
    <2>2. \E expires \in {Never, now + Lifetime} :
            left = [value |-> members \union {Taken(r)}, expires |-> expires]
      <3>1. CASE members = {}
        BY <3>1 DEF Entry, Lifetime
      <3>2. CASE members # {}
        BY <3>2 DEF Entry, Lifetime
      <3> QED
        BY <3>1, <3>2
    <2> HIDE DEF left
    <2>3. Answer(r).entry = left /\ Answer(r).allowed
      BY <2>1 DEF Outcome
    <2> QED
      BY <1>4, <1>5, <1>6, <1>7, <1>10, <2>2, <2>3 DEF q, members
  <1> QED
    BY <1>9, <1>10

(* The set after a script: it is live, and no larger than the limit.       *)
LEMMA SlidingRun ==
  ASSUME Common, Algorithm = "sliding_window", SetKept, NEW r \in Replicas, Run(r)
  PROVE  LET members == Purged(entry.value, Reading(r, call[r].issued))
         IN /\ SetKept'
            /\ entry'.expires = Never \/ entry'.expires = now + Lifetime
            /\ members \subseteq entry'.value
            /\ Answer(r).allowed => Taken(r) \in entry'.value
            /\ ~Answer(r).allowed => entry'.value = members
  <1> DEFINE members == Purged(entry.value, Reading(r, call[r].issued))
  <1>1. /\ call[r].pc = "sent" /\ entry' = Answer(r).entry /\ now' = now /\ now \in Nat
        /\ Limit \in Nat
    BY RunEffect, Scales DEF Common, Types
  <1>2. Lifetime \in Nat /\ Lifetime >= 1
    <2>1. (Window + 1) * TicksPerSec = Window * TicksPerSec + TicksPerSec
      BY Scales
    <2> QED
      BY <2>1, Scales DEF Lifetime
  <1>3. /\ members \subseteq entry.value /\ IsFiniteSet(members) /\ Cardinality(members) \in Nat /\ Cardinality(members) <= Limit
        /\ Full(members) =>
             /\ ~Answer(r).allowed
             /\ Answer(r).entry = [value |-> members, expires |-> now + Lifetime]
        /\ ~Full(members) =>
             /\ Answer(r).allowed
             /\ \E expires \in {Never, now + Lifetime} :
                  Answer(r).entry = [value |-> members \union {Taken(r)}, expires |-> expires]
    BY <1>1, SlidingAnswer
  <1> HIDE DEF members
  <1>4. (\A x \in members : x.score \in Nat) /\ Taken(r).score \in Nat
    <2>1. Reading(r, call[r].issued) \in Nat
      BY <1>1, ReadingBounds
    <2> QED
      BY <1>3, <2>1 DEF SetKept, Taken, UniqueMember
  <1>5. now < now + Lifetime /\ now + Lifetime \in Nat
    BY <1>1, <1>2
  <1>6. CASE Full(members)
    <2>1. /\ "value" \in DOMAIN entry' /\ "expires" \in DOMAIN entry'
          /\ entry'.value = members /\ entry'.expires = now + Lifetime
      BY <1>1, <1>3, <1>6
    <2>2. SetKept'
      BY <1>1, <1>3, <1>5, <1>4, <2>1 DEF SetKept
    <2> QED
      BY <1>3, <1>6, <2>1, <2>2 DEF members
  <1>7. CASE ~Full(members)
    <2>1. PICK expires \in {Never, now + Lifetime} :
            Answer(r).entry = [value |-> members \union {Taken(r)}, expires |-> expires]
      BY <1>3, <1>7
    <2>2. /\ "value" \in DOMAIN entry' /\ "expires" \in DOMAIN entry'
          /\ entry'.value = members \union {Taken(r)} /\ entry'.expires = expires
      BY <1>1, <2>1
    <2>3. IsFiniteSet(entry'.value) /\ Cardinality(entry'.value) <= Limit
      <3>1. Cardinality(members) < Limit
        BY <1>1, <1>3, <1>7 DEF Full
      <3>2. /\ IsFiniteSet(members \union {Taken(r)})
            /\ \/ Cardinality(members \union {Taken(r)}) = Cardinality(members)
               \/ Cardinality(members \union {Taken(r)}) = Cardinality(members) + 1
        BY <1>3, FS_AddElement
      <3> QED
        BY <1>1, <1>3, <2>2, <3>1, <3>2
    <2>4. SetKept'
      BY <1>1, <1>5, <1>4, <2>2, <2>3 DEF SetKept, Never
    <2> QED
      BY <1>3, <1>7, <2>2, <2>4 DEF members
  <1> QED
    BY <1>6, <1>7

LEMMA SlidingTick ==
  ASSUME Common, SetKept, Tick
  PROVE  SetKept' /\ (entry' = entry \/ (entry' = NoEntry /\ ~Live(entry, now + 1)))
  <1>1. /\ now' = now + 1 /\ now \in Nat
        /\ Live(entry, now + 1) => entry' = entry
        /\ ~Live(entry, now + 1) => entry' = NoEntry
    BY DEF Tick, Common, Types
  <1>2. Limit \in Nat
    BY Scales
  <1>3. CASE entry' = NoEntry
    <2>1. /\ "value" \in DOMAIN NoEntry /\ "expires" \in DOMAIN NoEntry
          /\ IsFiniteSet(NoEntry.value) /\ Cardinality(NoEntry.value) <= Limit
      BY <1>2, FS_EmptySet DEF NoEntry
    <2> QED
      BY <1>1, <1>3, <2>1 DEF SetKept, NoEntry
  <1>4. CASE Live(entry, now + 1)
    BY <1>1, <1>4 DEF SetKept, Live, NoEntry, Never
  <1> QED
    BY <1>1, <1>3, <1>4

(* The members f of the log: whose reading they carry, that Redis has them *)
(* as long as no clock is past their window, and that none is used twice.  *)
Carries(x, t) ==
  /\ x.score \in Nat /\ x.score * TicksPerSec \in Nat
  /\ x.score * TicksPerSec <= t + MaxSkew /\ t <= x.score * TicksPerSec + Back

Counted(x) == now + MaxSkew < x.score * TicksPerSec + WindowTicks => x \in entry.value

OutlivedBy(t) ==
  entry = NoEntry \/ entry.expires = Never \/ t + Lifetime <= entry.expires

Spent(x) == \A r \in Replicas : deployment.pid[r] = x.pid =>
  /\ x.ctr \in Nat /\ x.ctr < memberCtr[r]
  /\ call[r].pc = "sent" => x.ctr # call[r].ctr

Booked(x, t) == Carries(x, t) /\ Counted(x) /\ OutlivedBy(t) /\ Spent(x)

Logged(f) ==
  /\ \A i \in 1..Len(admitted) : \E t \in Nat : t = admitted[i] /\ Booked(f[i], t)
  /\ \A i, j \in 1..Len(admitted) : f[i] = f[j] => i = j

CtrBelow == \A r \in Replicas : call[r].pc = "sent" => call[r].ctr < memberCtr[r]

(* A span in which no clock sees the first call leave the window.          *)
Sure == WindowTicks - Slack

SlidingSpans == \A a \in Int :
  a + Sure <= now => Cardinality(AdmittedIn(a, Sure)) <= Limit

SlidingInv == Algorithm = "sliding_window" =>
  SetKept /\ CtrBelow /\ (\E f : Logged(f)) /\ SlidingSpans

(* Every process has an id of its own.                                     *)
PidsApart == \A d \in Deployments : \A r1, r2 \in Replicas : d.pid[r1] = d.pid[r2] => r1 = r2

LEMMA SlidingInit == Init => SlidingInv
  <1> SUFFICES ASSUME Init PROVE SlidingInv
    OBVIOUS
  <1>1. /\ entry = NoEntry /\ Len(admitted) = 0 /\ DOMAIN admitted = {}
        /\ \A r \in Replicas : call[r].pc # "sent"
    BY EmptySeq DEF Init, Idle
  <1>2. Limit \in Nat /\ 1..0 = {}
    BY Scales
  <1>3. SetKept
    <2>1. /\ "value" \in DOMAIN NoEntry /\ "expires" \in DOMAIN NoEntry
          /\ IsFiniteSet(NoEntry.value) /\ Cardinality(NoEntry.value) <= Limit
          /\ \A x \in NoEntry.value : x.score \in Nat
      BY <1>2, FS_EmptySet DEF NoEntry
    <2> QED
      BY <1>1, <2>1 DEF SetKept
  <1>4. SlidingSpans
    <2>1. \A a : AdmittedIn(a, Sure) = {}
      BY <1>1 DEF AdmittedIn
    <2> QED
      BY <1>2, <2>1, FS_EmptySet DEF SlidingSpans
  <1>5. \A f : Logged(f)
    BY <1>1, <1>2 DEF Logged
  <1> QED
    BY <1>1, <1>3, <1>4, <1>5 DEF SlidingInv, CtrBelow

(* A send takes a counter that no member has; a return frees the caller.   *)
LEMMA SpentStep ==
  ASSUME Common, CtrBelow, NEW r \in Replicas, Send(r) \/ Run(r) \/ Return(r),
         Algorithm = "sliding_window"
  PROVE  CtrBelow' /\ \A x : Spent(x) => Spent(x)'
  <1>1. /\ DOMAIN call' = Replicas
        /\ \A d \in Replicas : d # r => call'[d] = call[d]
        /\ call'[r].pc = "sent" <=> Send(r)
        /\ deployment' = deployment
    BY CallEffect
  <1>2. memberCtr \in [Replicas -> Nat]
    BY DEF Common, Types
  <1>3. Send(r) => /\ call'[r].ctr = memberCtr[r]
                   /\ memberCtr' = [memberCtr EXCEPT ![r] = @ + 1]
    BY DEF Send, Idle, Common, Types
  <1>4. ~Send(r) => memberCtr' = memberCtr
    BY DEF Run, Return
  <1>5. ASSUME NEW d \in Replicas
        PROVE  /\ memberCtr[d] \in Nat /\ memberCtr'[d] \in Nat /\ memberCtr[d] <= memberCtr'[d]
               /\ call'[d].pc = "sent" /\ d # r => call[d].pc = "sent" /\ call'[d].ctr = call[d].ctr
               /\ call'[d].pc = "sent" /\ d = r =>
                    call'[d].ctr = memberCtr[d] /\ memberCtr'[d] = memberCtr[d] + 1
    BY <1>1, <1>2, <1>3, <1>4
  <1>6. CtrBelow'
    <2>1. ASSUME NEW d \in Replicas, call'[d].pc = "sent"
          PROVE  call'[d].ctr < memberCtr'[d]
      <3>1. CASE d = r
        BY <1>5, <2>1, <3>1
      <3>2. CASE d # r
        <4>1. call[d].ctr \in Nat /\ call[d].ctr < memberCtr[d]
          BY <1>5, <2>1, <3>2 DEF Common, Types, CtrBelow
        <4> QED
          BY <1>5, <2>1, <3>2, <4>1
      <3> QED
        BY <3>1, <3>2
    <2> QED
      BY <2>1 DEF CtrBelow
  <1>7. ASSUME NEW x, Spent(x)
        PROVE  Spent(x)'
    BY <1>1, <1>5, <1>7 DEF Spent
  <1> QED
    BY <1>6, <1>7

(* A script leaves what any clock may still count.                         *)
LEMMA KeptByRun ==
  ASSUME Common, Algorithm = "sliding_window", SetKept, CtrBelow, NEW r \in Replicas, Run(r),
         NEW x, NEW t \in Nat, t <= now, Carries(x, t), Counted(x), Spent(x)
  PROVE  Carries(x, t)' /\ Counted(x)' /\ OutlivedBy(t)' /\ Spent(x)'
  <1> DEFINE T == TicksPerSec
             W == WindowTicks
  <1>1. PICK q : q = Reading(r, call[r].issued)
    OBVIOUS
  <1>2. call[r].pc = "sent" /\ now' = now
    BY RunEffect
  <1>3. /\ now \in Nat /\ MaxSkew \in Nat /\ T \in Nat \ {0} /\ Window \in Nat
        /\ W = Window * T /\ W \in Nat
    BY DeploymentFacts, Scales DEF Common, Types
  <1>4. MaxSkew' = MaxSkew /\ Back' = Back
    BY SameDeployment, SameSpans DEF Next
  <1>5. q \in Nat /\ q * T \in Nat /\ q * T <= now + MaxSkew
    BY <1>1, <1>2, ReadingBounds
  <1>6. Purged(entry.value, q) \subseteq entry'.value
        /\ (entry'.expires = Never \/ entry'.expires = now + Lifetime)
    BY <1>1, SlidingRun
  <1>7. Lifetime \in Nat
    <2>1. (Window + 1) * TicksPerSec \in Nat
      BY Scales
    <2> QED
      BY <2>1 DEF Lifetime
  <1>8. x.score \in Nat /\ x.score * T \in Nat
    BY DEF Carries
  <1>9. Carries(x, t)'
    BY <1>4 DEF Carries
  <1>10. OutlivedBy(t)'
    BY <1>3, <1>6, <1>7 DEF OutlivedBy, Lifetime
  <1>11. Spent(x)'
    BY SpentStep
  <1>12. ASSUME now + MaxSkew < x.score * T + W
         PROVE  x \in entry'.value
    <2>1. x \in entry.value
      BY <1>12 DEF Counted
    <2> DEFINE s == x.score
    <2>2. s \in Nat /\ q * T < s * T + Window * T
      BY <1>3, <1>5, <1>8, <1>12
    <2> HIDE DEF s, T, W
    <2>3. CASE q >= s + Window
      <3>1. (s + Window) * T <= q * T
        BY <1>3, <1>5, <2>2, <2>3, ProductMonotone
      <3>2. (s + Window) * T = s * T + Window * T
        BY <1>3, <2>2
      <3>3. s * T \in Int /\ Window * T \in Int /\ q * T \in Int
        BY <1>3, <1>5, <2>2
      <3> QED
        BY <2>2, <3>1, <3>2, <3>3
    <2>4. CASE ~(q >= s + Window)
      <3>1. s > q - Window
        BY <1>3, <1>5, <2>2, <2>4
      <3>2. x \in Purged(entry.value, q)
        BY <2>1, <3>1 DEF Purged, s
      <3> QED
        BY <1>6, <3>2
    <2> QED
      BY <2>3, <2>4
  <1>13. Counted(x)'
    BY <1>2, <1>4, <1>12 DEF Counted
  <1> QED
    BY <1>9, <1>10, <1>11, <1>13

(* An admitted call puts a member of its own in the set.                   *)
LEMMA TakenByRun ==
  ASSUME Common, PidsApart, Algorithm = "sliding_window", SetKept, CtrBelow,
         NEW r \in Replicas, Run(r), Answer(r).allowed,
         NEW x, x = Taken(r), NEW t, t = now
  PROVE  /\ Carries(x, t)' /\ Counted(x)' /\ OutlivedBy(t)' /\ Spent(x)'
         /\ \A y : Spent(y) => y # x
  <1> DEFINE T == TicksPerSec
  <1>1. PICK q : q = Reading(r, call[r].issued)
    OBVIOUS
  <1>2. /\ call[r].pc = "sent" /\ UNCHANGED <<deployment, now, memberCtr>>
    BY RunEffect
  <1>3. x = [score |-> q, pid |-> deployment.pid[r], ctr |-> call[r].ctr]
    BY <1>1 DEF Taken, UniqueMember
  <1>4. /\ q \in Nat /\ q * T \in Nat /\ q * T <= now + MaxSkew /\ now <= q * T + Back
    BY <1>1, <1>2, ReadingBounds
  <1>5. MaxSkew' = MaxSkew /\ Back' = Back
    BY SameDeployment, SameSpans DEF Next
  <1>6. /\ now \in Nat /\ Lifetime \in Nat
    <2>1. (Window + 1) * TicksPerSec \in Nat
      BY Scales
    <2> QED
      BY <2>1 DEF Common, Types, Lifetime
  <1>7. /\ entry'.expires = Never \/ entry'.expires = now + Lifetime
        /\ x \in entry'.value
    BY SlidingRun
  <1>8. Carries(x, t)'
    BY <1>3, <1>4, <1>5 DEF Carries
  <1>9. Counted(x)'
    BY <1>7 DEF Counted
  <1>10. OutlivedBy(t)'
    BY <1>6, <1>7 DEF OutlivedBy, Lifetime
  <1>11. Spent(x)'
    <2>1. \A d \in Replicas : deployment.pid[d] = x.pid => d = r
      BY <1>3 DEF PidsApart, Common, Types
    <2>2. call'[r].pc # "sent"
      BY CallEffect, <1>2 DEF Send, Run
    <2>3. call[r].ctr \in Nat /\ call[r].ctr < memberCtr[r]
      BY <1>2 DEF Common, Types, CtrBelow
    <2> QED
      BY <1>2, <1>3, <2>1, <2>2, <2>3 DEF Spent
  <1>12. ASSUME NEW y, Spent(y), y = x
         PROVE  FALSE
    BY <1>2, <1>3, <1>12 DEF Spent
  <1> QED
    BY <1>8, <1>9, <1>10, <1>11, <1>12

LEMMA LoggedRun ==
  ASSUME Common, PidsApart, Algorithm = "sliding_window", SetKept, CtrBelow,
         NEW f, Logged(f), NEW r \in Replicas, Run(r)
  PROVE  \E g : Logged(g)'
  <1>1. PICK n, t : n = Len(admitted) /\ t = now
    OBVIOUS
  <1>2. /\ t \in Nat /\ n \in Nat /\ \A i \in 1..n : admitted[i] \in Nat /\ admitted[i] <= now
    BY <1>1, AppendedLog DEF Common, Types, Log
  <1>3. ASSUME NEW i \in 1..n
        PROVE  \E u \in Nat : u = admitted[i] /\ Booked(f[i], u) /\ Booked(f[i], u)'
    <2>1. PICK u \in Nat : u = admitted[i] /\ Booked(f[i], u)
      BY <1>1 DEF Logged
    <2>2. u <= now
      BY <1>2, <2>1
    <2>3. Carries(f[i], u) /\ Counted(f[i]) /\ Spent(f[i])
      BY <2>1 DEF Booked
    <2>4. Carries(f[i], u)' /\ Counted(f[i])' /\ OutlivedBy(u)' /\ Spent(f[i])'
      BY <2>2, <2>3, KeptByRun
    <2> QED
      BY <2>1, <2>4 DEF Booked
  <1>4. \A i, j \in 1..n : f[i] = f[j] => i = j
    BY <1>1 DEF Logged
  <1>5. CASE ~Answer(r).allowed
    <2>1. admitted' = admitted
      BY <1>5, RunEffect
    <2> QED
      BY <1>1, <1>3, <1>4, <2>1 DEF Logged
  <1>6. CASE Answer(r).allowed
    <2>1. PICK x : x = Taken(r)
      OBVIOUS
    <2>2. Booked(x, t)' /\ \A y : Spent(y) => y # x
      BY <1>1, <1>6, <2>1, TakenByRun DEF Booked
    <2>3. /\ Len(admitted') = n + 1 /\ admitted'[n + 1] = t
          /\ \A i \in 1..n : admitted'[i] = admitted[i]
      BY <1>1, <1>2, <1>6, RunEffect, AppendedLog DEF Common
    <2> DEFINE g == [i \in 1..(n + 1) |-> IF i = n + 1 THEN x ELSE f[i]]
    <2>4. /\ g[n + 1] = x /\ n + 1 \in 1..(n + 1)
          /\ \A i \in 1..n : g[i] = f[i] /\ i \in 1..(n + 1) /\ f[i] # x
          /\ \A i \in 1..(n + 1) : i = n + 1 \/ i \in 1..n
      <3>1. /\ n + 1 \in 1..(n + 1) /\ \A i \in 1..n : i \in 1..(n + 1) /\ i # n + 1
            /\ \A i \in 1..(n + 1) : i = n + 1 \/ i \in 1..n
        BY <1>2
      <3>2. \A i \in 1..n : f[i] # x
        BY <1>3, <2>2 DEF Booked
      <3> QED
        BY <3>1, <3>2
    <2> HIDE DEF g
    <2>5. ASSUME NEW i \in 1..(n + 1)
          PROVE  \E u \in Nat : u = admitted'[i] /\ Booked(g[i], u)'
      <3>1. CASE i = n + 1
        BY <1>2, <2>2, <2>3, <2>4, <3>1
      <3>2. CASE i \in 1..n
        <4>1. PICK u \in Nat : u = admitted[i] /\ Booked(f[i], u)'
          BY <1>3, <3>2
        <4>2. g[i] = f[i] /\ admitted'[i] = admitted[i]
          BY <2>3, <2>4, <3>2
        <4>3. Booked(g[i], u)'
          BY <4>1, <4>2
        <4> QED
          BY <4>1, <4>2, <4>3
      <3> QED
        BY <2>4, <3>1, <3>2
    <2>6. \A i, j \in 1..(n + 1) : g[i] = g[j] => i = j
      BY <1>4, <2>4
    <2> QED
      BY <2>3, <2>5, <2>6 DEF Logged
  <1> QED
    BY <1>5, <1>6

(* In a span that is sure, every admitted call still has its member.       *)
LEMMA SureSpan ==
  ASSUME Common, SetKept, NEW f, Logged(f), NEW a \in Int, now < a + Sure
  PROVE  Cardinality(AdmittedIn(a, Sure)) <= Limit
  <1> DEFINE T == TicksPerSec
             A == AdmittedIn(a, Sure)
             S == entry.value
  <1>1. /\ now \in Nat /\ MaxSkew \in Nat /\ Back \in Nat /\ WindowTicks \in Nat
        /\ Slack = Back + MaxSkew /\ Limit \in Nat
    BY DeploymentFacts, SpanFacts, Scales DEF Common, Types
  <1>2. Sure \in Int /\ Sure = WindowTicks - Back - MaxSkew
    BY <1>1 DEF Sure
  <1>3. A = {i \in 1..Len(admitted) : a <= admitted[i] /\ admitted[i] < a + Sure}
    BY <1>1, AppendedLog DEF AdmittedIn, Common
  <1> HIDE DEF A
  <1>4. ASSUME NEW i \in A
        PROVE  f[i] \in S
    <2>1. i \in 1..Len(admitted) /\ a <= admitted[i]
      BY <1>3
    <2>2. PICK t \in Nat : t = admitted[i] /\ Booked(f[i], t)
      BY <2>1 DEF Logged
    <2> DEFINE s == f[i].score * TicksPerSec
    <2>3. s \in Nat /\ t <= s + Back
      BY <2>2 DEF Booked, Carries
    <2>4. Counted(f[i])
      BY <2>2 DEF Booked
    <2> HIDE DEF s
    <2>5. now + MaxSkew < s + WindowTicks
      BY <1>1, <1>2, <2>1, <2>2, <2>3
    <2> QED
      BY <2>4, <2>5 DEF Counted, s
  <1> DEFINE m == [i \in A |-> f[i]]
  <1>5. m \in Injection(A, S)
    <2>1. m \in [A -> S]
      BY <1>4
    <2>2. \A i, j \in A : m[i] = m[j] => i = j
      BY <1>3 DEF Logged
    <2> QED
      BY <2>1, <2>2, Zenon DEF Injection, IsInjective
  <1> HIDE DEF m
  <1>6. IsFiniteSet(S) /\ Cardinality(S) <= Limit
    BY DEF SetKept
  <1> HIDE DEF S
  <1>7. IsFiniteSet(A) /\ Cardinality(A) <= Cardinality(S)
    BY <1>5, <1>6, FS_Injection
  <1>8. Cardinality(A) \in Nat /\ Cardinality(S) \in Nat
    BY <1>6, <1>7, FS_CardinalityType
  <1>9. Cardinality(A) <= Limit
    BY <1>1, <1>6, <1>7, <1>8
  <1> QED
    BY <1>9 DEF A

(* No key expires before every clock is past the window of its members.    *)
LEMMA BookedTick ==
  ASSUME Common, SetKept, Tick, NEW x, NEW t \in Nat, Booked(x, t)
  PROVE  Booked(x, t)'
  <1> DEFINE T == TicksPerSec
             s == x.score * T
  <1>1. /\ now' = now + 1 /\ UNCHANGED <<deployment, memberCtr, call>>
        /\ entry' = entry \/ (entry' = NoEntry /\ ~Live(entry, now + 1))
    BY SlidingTick DEF Tick
  <1>2. /\ now \in Nat /\ MaxSkew \in Nat /\ T \in Nat \ {0} /\ WindowTicks \in Nat
        /\ Lifetime = WindowTicks + T
    <2>1. (Window + 1) * TicksPerSec = Window * TicksPerSec + TicksPerSec
      BY Scales
    <2> QED
      BY <2>1, DeploymentFacts, Scales DEF Common, Types, Lifetime
  <1>3. MaxSkew' = MaxSkew /\ Back' = Back
    BY SameDeployment, SameSpans DEF Next
  <1>4. /\ Carries(x, t) /\ Counted(x) /\ OutlivedBy(t) /\ Spent(x)
        /\ s \in Nat /\ s <= t + MaxSkew
    BY DEF Booked, Carries
  <1>5. Carries(x, t)'
    BY <1>3, <1>4 DEF Carries
  <1>6. Spent(x)'
    BY <1>1, <1>4 DEF Spent
  <1>7. OutlivedBy(t)'
    BY <1>1, <1>4 DEF OutlivedBy, NoEntry, Lifetime
  <1> HIDE DEF s
  <1>8. ASSUME now + 1 + MaxSkew < s + WindowTicks
        PROVE  x \in entry'.value
    <2>1. now + MaxSkew < s + WindowTicks
      BY <1>2, <1>4, <1>8
    <2>2. x \in entry.value
      BY <1>4, <2>1 DEF Counted, s
    <2>3. CASE entry' # entry
      <3>1. ~Live(entry, now + 1) /\ entry # NoEntry
        BY <1>1, <2>3
      <3>2. entry.expires \in Nat /\ t + Lifetime <= entry.expires /\ ~(now + 1 < entry.expires)
        BY <1>4, <3>1 DEF OutlivedBy, SetKept, Live
      <3> QED
        BY <1>2, <1>4, <1>8, <3>2
    <2> QED
      BY <2>2, <2>3
  <1>9. Counted(x)'
    BY <1>1, <1>3, <1>8 DEF Counted, s
  <1> QED
    BY <1>5, <1>6, <1>7, <1>9 DEF Booked

LEMMA SlidingStep ==
  ASSUME PidsApart, Common, SlidingInv, [Next]_vars
  PROVE  SlidingInv'
  <1> SUFFICES ASSUME Algorithm = "sliding_window"
               PROVE  SetKept' /\ CtrBelow' /\ (\E f : Logged(f)') /\ SlidingSpans'
    BY SameDeployment DEF SlidingInv
  <1>1. SetKept /\ CtrBelow /\ SlidingSpans
    BY DEF SlidingInv
  <1>2. PICK f : Logged(f)
    BY DEF SlidingInv
  <1>3. /\ MaxSkew' = MaxSkew /\ Back' = Back /\ Sure' = Sure
        /\ Sure \in Int /\ now \in Nat /\ deployment' = deployment
    <2>1. Sure \in Int
      BY SpanFacts, Scales DEF Sure
    <2> QED
      BY <2>1, SameDeployment, SameSpans DEF Sure, Common, Types
  <1>4. ASSUME NEW r \in Replicas, Run(r)
        PROVE  SetKept' /\ CtrBelow' /\ (\E g : Logged(g)') /\ SlidingSpans'
    <2>1. SetKept' /\ CtrBelow'
      BY <1>1, <1>4, SlidingRun, SpentStep
    <2>2. \E g : Logged(g)'
      BY <1>1, <1>2, <1>4, LoggedRun
    <2>3. now' = now
      BY <1>4, RunEffect
    <2>4. ASSUME NEW a \in Int, a + Sure <= now
          PROVE  Cardinality(AdmittedIn(a, Sure)') <= Limit
      <3>1. PICK d \in Int : d = Sure
        BY <1>3
      <3>2. AdmittedIn(a, d)' = AdmittedIn(a, d)
        BY <1>4, <2>4, <3>1, SpanGrows
      <3>3. AdmittedIn(a, Sure)' = AdmittedIn(a, Sure)
        BY <1>3, <3>1, <3>2 DEF AdmittedIn
      <3> QED
        BY <1>1, <2>4, <3>3 DEF SlidingSpans
    <2>5. SlidingSpans'
      BY <1>3, <2>3, <2>4 DEF SlidingSpans
    <2> QED
      BY <2>1, <2>2, <2>5
  <1>5. CASE Tick
    <2>1. SetKept'
      BY <1>1, <1>5, SlidingTick
    <2>2. now' = now + 1 /\ UNCHANGED <<memberCtr, call, admitted>>
      BY <1>5 DEF Tick
    <2>3. CtrBelow'
      BY <1>1, <2>2 DEF CtrBelow
    <2>4. ASSUME NEW i \in 1..Len(admitted)
          PROVE  \E t \in Nat : t = admitted'[i] /\ Booked(f[i], t)'
      <3>1. PICK t \in Nat : t = admitted[i] /\ Booked(f[i], t)
        BY <1>2 DEF Logged
      <3>2. Booked(f[i], t)'
        BY <1>1, <1>5, <3>1, BookedTick
      <3> QED
        BY <2>2, <3>1, <3>2
    <2>5. Logged(f)'
      BY <1>2, <2>2, <2>4 DEF Logged
    <2>6. ASSUME NEW a \in Int, a + Sure <= now + 1
          PROVE  Cardinality(AdmittedIn(a, Sure)) <= Limit
      <3>1. CASE a + Sure <= now
        BY <1>1, <3>1 DEF SlidingSpans
      <3>2. CASE now < a + Sure
        BY <1>1, <1>2, <3>2, SureSpan
      <3> QED
        BY <1>3, <3>1, <3>2
    <2>7. SlidingSpans'
      BY <1>3, <2>2, <2>6 DEF SlidingSpans, AdmittedIn
    <2> QED
      BY <2>1, <2>3, <2>5, <2>7
  <1>6. ASSUME NEW r \in Replicas, Send(r) \/ Return(r)
        PROVE  SetKept' /\ CtrBelow' /\ (\E g : Logged(g)') /\ SlidingSpans'
    <2>1. UNCHANGED <<now, entry, admitted>>
      BY <1>6 DEF Send, Return
    <2>2. SetKept'
      BY <1>1, <2>1 DEF SetKept, NoEntry
    <2>3. CtrBelow' /\ \A x : Spent(x) => Spent(x)'
      BY <1>1, <1>6, SpentStep
    <2>4. ASSUME NEW i \in 1..Len(admitted)
          PROVE  \E t \in Nat : t = admitted'[i] /\ Booked(f[i], t)'
      <3>1. PICK t \in Nat : t = admitted[i] /\ Booked(f[i], t)
        BY <1>2 DEF Logged
      <3>2. Carries(f[i], t)' /\ Counted(f[i])' /\ OutlivedBy(t)'
        BY <1>3, <2>1, <3>1 DEF Booked, Carries, Counted, OutlivedBy, NoEntry, Lifetime
      <3>3. Spent(f[i])'
        BY <2>3, <3>1 DEF Booked
      <3> QED
        BY <2>1, <3>1, <3>2, <3>3 DEF Booked
    <2>5. Logged(f)'
      BY <1>2, <2>1, <2>4 DEF Logged
    <2>6. SlidingSpans'
      BY <1>1, <1>3, <2>1 DEF SlidingSpans, AdmittedIn
    <2> QED
      BY <2>2, <2>3, <2>5, <2>6
  <1>7. CASE UNCHANGED vars
    <2>1. UNCHANGED <<now, entry, admitted, memberCtr, call, deployment>>
      BY <1>7 DEF vars
    <2>2. SetKept' /\ CtrBelow'
      BY <1>1, <2>1 DEF SetKept, NoEntry, CtrBelow
    <2>3. ASSUME NEW i \in 1..Len(admitted)
          PROVE  \E t \in Nat : t = admitted'[i] /\ Booked(f[i], t)'
      <3>1. PICK t \in Nat : t = admitted[i] /\ Booked(f[i], t)
        BY <1>2 DEF Logged
      <3>2. Carries(f[i], t)' /\ Counted(f[i])' /\ OutlivedBy(t)'
        BY <1>3, <2>1, <3>1 DEF Booked, Carries, Counted, OutlivedBy, NoEntry, Lifetime
      <3>3. Spent(f[i])'
        BY <2>1, <3>1 DEF Booked, Spent
      <3> QED
        BY <2>1, <3>1, <3>2, <3>3 DEF Booked
    <2>4. Logged(f)'
      BY <1>2, <2>1, <2>3 DEF Logged
    <2>5. SlidingSpans'
      BY <1>1, <1>3, <2>1 DEF SlidingSpans, AdmittedIn
    <2> QED
      BY <2>2, <2>4, <2>5
  <1> QED
    BY <1>4, <1>5, <1>6, <1>7 DEF Next

(* The limit is cluster-wide: a sliding window sees no more than the limit *)
(* in any span, less what the clocks may be off, if every process has an   *)
(* id of its own; a fixed window no more than twice the limit.             *)
THEOREM ClusterWindowsHold ==
  ASSUME PidsApart
  PROVE  Spec => []ClusterWindows
  <1> DEFINE Inv == Common /\ FixedInv /\ SlidingInv
  <1>1. Init => Inv
    BY InitCommon, FixedInit, SlidingInit
  <1>2. Inv /\ [Next]_vars => Inv'
    BY CommonStep, FixedStep, SlidingStep
  <1>3. Inv => ClusterWindows
    <2> SUFFICES ASSUME Common, FixedInv, SlidingInv PROVE ClusterWindows
      OBVIOUS
    <2>1. \A a \in StartTime..now : a \in Int
      BY Scales DEF Common, Types
    <2>2. CASE Algorithm = "fixed_window"
      <3>1. \A a \in Int : Cardinality(AdmittedIn(a, WindowTicks)) <= 2 * Limit
        BY <2>2 DEF FixedInv, FixedSpans, Admits
      <3> QED
        BY <2>1, <2>2, <3>1 DEF ClusterWindows
    <2>3. CASE Algorithm = "sliding_window"
      <3>1. SetKept /\ SlidingSpans /\ \E f : Logged(f)
        BY <2>3 DEF SlidingInv
      <3>2. Sure \in Int /\ now \in Int
        BY SpanFacts, Scales DEF Sure, Common, Types
      <3>3. ASSUME NEW a \in Int
            PROVE  Cardinality(AdmittedIn(a, Sure)) <= Limit
        <4>1. CASE a + Sure <= now
          BY <3>1, <4>1 DEF SlidingSpans
        <4>2. CASE now < a + Sure
          BY <3>1, <4>2, SureSpan
        <4> QED
          BY <3>2, <4>1, <4>2
      <3> QED
        BY <2>1, <2>3, <3>3 DEF ClusterWindows, Sure
    <2> QED
      BY <2>2, <2>3 DEF ClusterWindows
  <1> HIDE DEF Inv
  <1> QED
    BY <1>1, <1>2, <1>3, PTL DEF Spec

(***************************************************************************)
(* The advertised wait.                                                    *)
(***************************************************************************)
LEMMA RunReply ==
  ASSUME Common, NEW r \in Replicas, Run(r)
  PROVE  call'[r].allowed = Answer(r).allowed /\ call'[r].retry = Answer(r).retry
  <1>1. call' = [call EXCEPT ![r] =
          [call[r] EXCEPT !.pc = "answered", !.allowed = Answer(r).allowed,
                          !.retry = Answer(r).retry]]
    BY DEF Run, Answer
  <1> QED
    BY <1>1 DEF Common, Types

(* A clock that reads k seconds later reads at least k more.               *)
LEMMA ReadingLater ==
  ASSUME Common, NEW r \in Replicas, call[r].pc = "sent", NEW k \in Nat
  PROVE  LET later == Reading(r, now + k * TicksPerSec)
         IN later \in Nat /\ later >= Reading(r, call[r].issued) + k
  <1> DEFINE T == TicksPerSec
             s == deployment.skew[r]
             x == call[r].issued + s
             y == now + k * T + s
             d == x \div T
             e == y \div T
  <1>1. /\ call[r].issued \in Nat /\ now \in Nat /\ call[r].issued <= now
        /\ s \in Nat /\ T \in Nat \ {0} /\ k * T \in Nat
    BY DeploymentFacts, Scales DEF Common, Types, Prompt
  <1>2. x \in Nat /\ y \in Nat /\ x + k * T <= y
    BY <1>1
  <1> HIDE DEF x, y
  <1>3. d \in Nat /\ e \in Nat /\ d * T <= x /\ y < e * T + T
    BY <1>1, <1>2, DivBounds
  <1> HIDE DEF d, e, T
  <1>4. ASSUME e + 1 <= d + k
        PROVE  FALSE
    <2>1. (e + 1) * T <= (d + k) * T
      BY <1>1, <1>3, <1>4, ProductMonotone
    <2>2. (e + 1) * T = e * T + T /\ (d + k) * T = d * T + k * T
      BY <1>1, <1>3
    <2>3. e * T \in Int /\ d * T \in Int /\ k * T \in Int
      BY <1>1, <1>3
    <2> QED
      BY <1>1, <1>2, <1>3, <2>1, <2>2, <2>3
  <1>5. e >= d + k
    BY <1>3, <1>4
  <1> QED
    BY <1>3, <1>5 DEF Reading, d, e, x, y, s, T

LEMMA FixedRetry ==
  ASSUME Common, Common', Algorithm = "fixed_window", FixedLive \/ FixedGone, FixedSpans,
         NEW r \in Replicas, Run(r), ~Answer(r).allowed, NEW reading, NEW n
  PROVE  Script(entry', r, now + (Answer(r).retry + 1) * TicksPerSec, reading, n).allowed
  <1> DEFINE T == TicksPerSec
             E == entry'.expires
             ttl == Ttl(entry', now)
             retry == Answer(r).retry
             t == now + (retry + 1) * T
  <1>1. /\ FixedLive' /\ now' = now /\ entry' = Answer(r).entry
    BY FixedRun, RunEffect
  <1>2. E \in Nat /\ now < E /\ now \in Nat /\ T \in Nat \ {0} /\ Limit \in Nat \ {0}
    BY <1>1, Scales DEF FixedLive, Common, Types
  <1>3. retry = Larger(ttl, 1)
    <2>1. Answer(r) = FixedScript(entry, now)
      BY DEF Answer, Script
    <2>2. \E left, ok : Answer(r) = Outcome(left, ok, RetryFromTtl(Ttl(left, now)))
      BY <2>1 DEF FixedScript
    <2>3. PICK left, ok : Answer(r) = Outcome(left, ok, RetryFromTtl(Ttl(left, now)))
      BY <2>2
    <2>4. entry' = left /\ retry = RetryFromTtl(Ttl(left, now))
      BY <1>1, <2>3 DEF Outcome
    <2> QED
      BY <2>4 DEF RetryFromTtl
  <1>4. ttl \in Nat /\ 2 * (E - now) + T < ttl * (2 * T) + 2 * T
    <2>1. 2 * (E - now) + T \in Nat /\ 2 * T \in Nat \ {0}
      BY <1>2
    <2> QED
      BY <2>1, DivBounds DEF Ttl
  <1> HIDE DEF ttl, E, retry
  <1>5. retry \in Nat /\ ttl <= retry
    BY <1>3, <1>4 DEF Larger
  <1> HIDE DEF T
  <1>6. ttl * T <= retry * T /\ ttl * T \in Int /\ retry * T \in Int
    BY <1>2, <1>4, <1>5, ProductMonotone
  <1>7. ttl * (2 * T) = 2 * (ttl * T) /\ (retry + 1) * T = retry * T + T
    BY <1>2, <1>4, <1>5
  <1>8. ~(t < E) /\ t \in Nat
    BY <1>2, <1>4, <1>6, <1>7
  <1> HIDE DEF t
  <1>9. ~Live(entry', t)
    BY <1>2, <1>8 DEF Live, Never, E
  <1>10. \E left, late : FixedScript(entry', t) = Outcome(left, CountWithin(1 + 0), late)
    BY <1>9 DEF FixedScript
  <1>11. CountWithin(1 + 0) = TRUE
    BY <1>2 DEF CountWithin
  <1>12. FixedScript(entry', t).allowed
    BY <1>10, <1>11 DEF Outcome
  <1> QED
    BY <1>12 DEF Script, t, retry, T

LEMMA SlidingRetry ==
  ASSUME Common, Algorithm = "sliding_window", SetKept, NEW r \in Replicas, Run(r),
         ~Answer(r).allowed, NEW n
  PROVE  /\ Answer(r).retry \in Nat
         /\ LET t == now + Answer(r).retry * TicksPerSec
            IN Script(entry', r, t, Reading(r, t), n).allowed
  <1> DEFINE retry == Answer(r).retry
             t == now + retry * TicksPerSec
             q == Reading(r, call[r].issued)
             later == Reading(r, t)
             S == entry'.value
             scores == {x.score : x \in S}
             oldest == CHOOSE s \in scores : \A x \in S : s <= x.score
  <1>1. /\ call[r].pc = "sent" /\ entry' = Answer(r).entry
        /\ Limit \in Nat \ {0} /\ Window \in Nat \ {0} /\ q \in Nat
    BY RunEffect, ReadingBounds, Scales
  <1>2. /\ SetKept' /\ S = Purged(entry.value, q)
    BY SlidingRun
  <1>3. /\ IsFiniteSet(S) /\ Cardinality(S) \in Nat /\ Cardinality(S) <= Limit
        /\ \A x \in S : x.score \in Nat
    BY <1>2, FS_CardinalityType DEF SetKept
  <1>4. Full(S) /\ retry = RetryFromOldest(S, q)
    BY <1>1, <1>2, SlidingAnswer
  <1>5. S # {}
    BY <1>1, <1>4, FS_EmptySet DEF Full
  <1> HIDE DEF S, q
  <1>6. scores \subseteq Nat /\ scores # {}
    BY <1>3, <1>5
  <1>7. PICK low \in scores : \A s \in scores : low <= s
    <2> HIDE DEF scores
    <2>1. IsWellFoundedOn(OpToRel(<, Nat), Nat)
      BY NatLessThanWellFounded
    <2>2. PICK low \in scores : \A s \in scores : ~(<<s, low>> \in OpToRel(<, Nat))
      BY <1>6, <2>1, WFMin
    <2>3. \A s \in scores : ~(s < low)
      BY <1>6, <2>2 DEF OpToRel
    <2> QED
      BY <1>6, <2>3
  <1>8. oldest \in scores /\ \A x \in S : oldest <= x.score
    BY <1>7
  <1>9. retry = Larger(oldest + Window - q, 1)
    BY <1>4 DEF RetryFromOldest
  <1> HIDE DEF oldest
  <1>10. oldest \in Nat
    BY <1>6, <1>8
  <1>11. retry \in Nat /\ q + retry >= oldest + Window
    BY <1>1, <1>9, <1>10 DEF Larger
  <1>12. PICK first \in S : first.score = oldest
    BY <1>8
  <1> HIDE DEF scores, retry
  <1>13. later \in Nat /\ later >= q + retry
    BY <1>1, <1>11, ReadingLater DEF q
  <1> HIDE DEF t, later
  <1>14. first \notin Purged(S, later)
    <2>1. ~(first.score > later - Window)
      BY <1>1, <1>10, <1>11, <1>12, <1>13
    <2> QED
      BY <2>1 DEF Purged
  <1>15. Cardinality(Purged(S, later)) < Limit
    <2> DEFINE P == Purged(S, later)
    <2>1. P \subseteq S \ {first}
      BY <1>14 DEF Purged
    <2>2. /\ IsFiniteSet(S \ {first})
          /\ Cardinality(S \ {first}) = Cardinality(S) - 1
      BY <1>3, <1>12, FS_RemoveElement
    <2> HIDE DEF P
    <2>3. Cardinality(P) <= Cardinality(S \ {first}) /\ Cardinality(P) \in Nat
      BY <2>1, <2>2, FS_Subset, FS_CardinalityType
    <2>4. Cardinality(P) < Limit
      BY <1>1, <1>3, <2>2, <2>3
    <2> QED
      BY <2>4 DEF P
  <1>16. Cardinality(Purged({}, later)) < Limit
    <2>1. Purged({}, later) = {}
      BY DEF Purged
    <2> QED
      BY <1>1, <2>1, FS_EmptySet
  <1> DEFINE live == IF Live(entry', t) THEN entry'.value ELSE {}
  <1>17. Cardinality(Purged(live, later)) < Limit
    BY <1>15, <1>16 DEF S
  <1>18. ~Full(Purged(live, later))
    <2>1. Cardinality(Purged(live, later)) \in Nat
      <3>1. IsFiniteSet(Purged(S, later)) /\ IsFiniteSet(Purged({}, later))
        <4>1. Purged(S, later) \subseteq S /\ Purged({}, later) = {}
          BY DEF Purged
        <4> QED
          BY <1>3, <4>1, FS_Subset, FS_EmptySet
      <3> QED
        BY <3>1, FS_CardinalityType DEF S
    <2> HIDE DEF live
    <2> QED
      BY <1>1, <1>17, <2>1 DEF Full
  <1>19. \E left : SlidingScript(entry', t, later, UniqueMember(r, later, n))
                     = Outcome(left, TRUE, 0)
    BY <1>18 DEF SlidingScript
  <1>20. SlidingScript(entry', t, later, UniqueMember(r, later, n)).allowed
    BY <1>19 DEF Outcome
  <1> QED
    BY <1>11, <1>20 DEF Script, later, t, retry

LEMMA TokenRetry ==
  ASSUME Common, Algorithm = "token_bucket", BucketPaid \/ BucketRepaid,
         NEW r \in Replicas, Run(r), ~Answer(r).allowed, NEW n
  PROVE  /\ Answer(r).retry \in Nat
         /\ LET t == now + Answer(r).retry * TicksPerSec
            IN Script(entry', r, t, Reading(r, t), n).allowed
  <1> DEFINE retry == Answer(r).retry
             t == now + retry * TicksPerSec
             q == Reading(r, call[r].issued)
             later == Reading(r, t)
  <1>1. /\ call[r].pc = "sent" /\ entry' = Answer(r).entry
        /\ Limit \in Nat \ {0} /\ Window \in Nat \ {0} /\ q \in Nat
        /\ Capacity \in Nat /\ Window <= Capacity
    BY RunEffect, ReadingBounds, Scales, CapacityTicks DEF Capacity
  <1>2. PICK x \in Int :
          /\ \E expires : Answer(r).entry = [value |-> [tokens |-> x, last |-> q],
                                             expires |-> expires]
          /\ retry = Larger(SecondsToOneToken(x), 1)
    BY <1>1, TokenAnswer
  <1>3. entry'.value.tokens = x /\ entry'.value.last = q
    BY <1>1, <1>2
  <1> HIDE DEF q
  <1>4. retry \in Nat /\ Window - x <= retry * Limit
    <2>1. CASE Window - x <= 0
      <3>1. SecondsToOneToken(x) \in Int
        <4>1. Window - x + Limit - 1 \in Int
          BY <1>1
        <4> QED
          BY <1>1, <4>1 DEF SecondsToOneToken, CeilDiv
      <3>2. retry \in Nat
        BY <1>2, <3>1 DEF Larger
      <3>3. retry * Limit \in Nat
        BY <1>1, <3>2
      <3> QED
        BY <1>1, <2>1, <3>2, <3>3
    <2>2. CASE Window - x > 0
      <3> DEFINE c == CeilDiv(Window - x, Limit)
      <3>1. Window - x \in Nat
        BY <1>1, <2>2
      <3>2. c \in Nat /\ Window - x <= c * Limit
        BY <1>1, <3>1, CeilDivBounds
      <3>3. retry = Larger(c, 1)
        BY <1>2 DEF SecondsToOneToken
      <3> HIDE DEF c, retry
      <3>4. retry \in Nat /\ c <= retry
        BY <3>2, <3>3 DEF Larger
      <3>5. c * Limit <= retry * Limit /\ c * Limit \in Int /\ retry * Limit \in Int
        BY <1>1, <3>2, <3>4, ProductMonotone
      <3> QED
        BY <1>1, <3>2, <3>4, <3>5
    <2> QED
      BY <1>1, <2>1, <2>2
  <1> HIDE DEF retry
  <1>5. later \in Nat /\ later >= q + retry
    BY <1>1, <1>4, ReadingLater DEF q
  <1> HIDE DEF t, later
  <1> DEFINE tokens == IF Live(entry', t) THEN Refill(entry'.value, later) ELSE Capacity
  <1>6. tokens >= Window
    <2>1. CASE Live(entry', t)
      <3> DEFINE more == (later - q) * Limit
      <3>1. retry * Limit <= more /\ more \in Int
        BY <1>1, <1>4, <1>5, ProductMonotone
      <3>2. retry * Limit \in Int
        BY <1>1, <1>4
      <3>3. tokens = Smaller(Capacity, x + more)
        BY <1>3, <2>1 DEF Refill
      <3> HIDE DEF more, tokens
      <3>4. x + more >= Window
        BY <1>1, <1>4, <3>1, <3>2
      <3> QED
        BY <1>1, <3>1, <3>3, <3>4 DEF Smaller
    <2>2. CASE ~Live(entry', t)
      BY <1>1, <2>2
    <2> QED
      BY <2>1, <2>2
  <1>7. \E left : TokenScript(entry', t, later) = Outcome(left, TRUE, 0)
    BY <1>6 DEF TokenScript
  <1>8. TokenScript(entry', t, later).allowed
    BY <1>7 DEF Outcome
  <1> QED
    BY <1>4, <1>8 DEF Script, later, t, retry

(* A refused replica that comes back after the advertised seconds, and     *)
(* finds that nobody has called since, is allowed.                         *)
THEOREM RetryWorksHolds == Spec => RetryWorks
  <1> DEFINE Inv == /\ Common /\ FixedInv /\ TokenInv
                    /\ Algorithm = "sliding_window" => SetKept
  <1>1. Init => Inv
    BY InitCommon, FixedInit, TokenInit, SlidingInit DEF SlidingInv
  <1>2. Inv /\ [Next]_vars => Inv'
    <2> SUFFICES ASSUME Inv, [Next]_vars PROVE Inv'
      OBVIOUS
    <2>1. Common' /\ FixedInv' /\ TokenInv'
      BY CommonStep, FixedStep, TokenStep
    <2>2. ASSUME Algorithm = "sliding_window"
          PROVE  SetKept'
      <3>1. CASE Tick
        BY <2>2, <3>1, SlidingTick
      <3>2. ASSUME NEW r \in Replicas, Run(r)
            PROVE  SetKept'
        BY <2>2, <3>2, SlidingRun
      <3>3. CASE UNCHANGED <<now, entry>>
        BY <2>2, <3>3 DEF SetKept, NoEntry
      <3> QED
        BY <3>1, <3>2, <3>3 DEF Next, Send, Return, vars
    <2> QED
      BY <2>1, <2>2, SameDeployment
  <1>3. Inv /\ Inv' /\ [Next]_vars =>
          [\A r \in Replicas :
             call'[r].pc = "answered" /\ call[r].pc = "sent" /\ ~call'[r].allowed =>
               LET grace == IF Algorithm = "fixed_window" THEN 1 ELSE 0
                   t == now + (call'[r].retry + grace) * TicksPerSec
               IN Script(entry', r, t, Reading(r, t), memberCtr'[r]).allowed]_vars
    <2> SUFFICES ASSUME Inv, Inv', [Next]_vars, NEW r \in Replicas,
                        call'[r].pc = "answered", call[r].pc = "sent", ~call'[r].allowed
                 PROVE  LET grace == IF Algorithm = "fixed_window" THEN 1 ELSE 0
                            t == now + (call'[r].retry + grace) * TicksPerSec
                        IN Script(entry', r, t, Reading(r, t), memberCtr'[r]).allowed
      OBVIOUS
    <2>1. Run(r)
      <3>1. ASSUME NEW d \in Replicas, Send(d) \/ Run(d) \/ Return(d), d # r
            PROVE  FALSE
        BY <3>1, CallEffect
      <3>2. ~Send(r) /\ ~Return(r)
        BY DEF Send, Return
      <3>3. ~Tick /\ ~UNCHANGED vars
        BY DEF Tick, vars
      <3> QED
        BY <3>1, <3>2, <3>3 DEF Next
    <2>2. call'[r].retry = Answer(r).retry /\ ~Answer(r).allowed
      BY <2>1, RunReply
    <2>3. CASE Algorithm = "fixed_window"
      BY <2>1, <2>2, <2>3, FixedRetry DEF FixedInv
    <2>4. CASE Algorithm = "sliding_window"
      <3>1. Answer(r).retry \in Nat
        BY <2>1, <2>2, <2>4, SlidingRetry
      <3>2. call'[r].retry + 0 = Answer(r).retry
        BY <2>2, <3>1
      <3> QED
        BY <2>1, <2>2, <2>4, <3>2, SlidingRetry
    <2>5. CASE Algorithm = "token_bucket"
      <3>1. Answer(r).retry \in Nat
        BY <2>1, <2>2, <2>5, TokenRetry DEF TokenInv
      <3>2. call'[r].retry + 0 = Answer(r).retry
        BY <2>2, <3>1
      <3> QED
        BY <2>1, <2>2, <2>5, <3>2, TokenRetry DEF TokenInv
    <2> QED
      BY <2>3, <2>4, <2>5, DeploymentFacts DEF Common, Types
  <1> HIDE DEF Inv
  <1> QED
    BY <1>1, <1>2, <1>3, PTL DEF Spec, RetryWorks

(***************************************************************************)
(* The sorted set keeps the promise of the log.  Where it is made, every   *)
(* member is that of an admitted call (Backs), and by Logged every         *)
(* admitted call that a reading may still count has a member: the two sets *)
(* that decide are equally large.                                          *)
(***************************************************************************)
Backs(h) ==
  /\ \A x \in entry.value : h[x] \in 1..Len(admitted) /\ x.score = Second(admitted[h[x]])
  /\ \A x, y \in entry.value : h[x] = h[y] => x = y

PromiseInv ==
  /\ Common /\ SlidingInv
  /\ PromiseMade => \E h : Backs(h)

LEMMA PromptReading ==
  ASSUME Common, PromiseMade, NEW r \in Replicas, call[r].pc = "sent"
  PROVE  Reading(r, call[r].issued) = Second(now)
  <1>1. MaxLag = 0 /\ MaxSkew = 0
    BY DEF PromiseMade
  <1>2. deployment.skew[r] \in Nat /\ deployment.skew[r] <= MaxSkew
    BY DeploymentFacts DEF Common, Types
  <1>3. /\ call[r].issued \in Nat /\ now \in Nat
        /\ call[r].issued <= now /\ now <= call[r].issued + MaxLag
    BY DEF Common, Types, Prompt
  <1>4. call[r].issued + deployment.skew[r] = now
    BY <1>1, <1>2, <1>3
  <1> QED
    BY <1>4 DEF Reading, Second

LEMMA BackedRun ==
  ASSUME Common, PromiseMade, SetKept, NEW r \in Replicas, Run(r), NEW h, Backs(h)
  PROVE  \E g : Backs(g)'
  <1> DEFINE n == Len(admitted)
             members == Purged(entry.value, Reading(r, call[r].issued))
  <1>1. call[r].pc = "sent" /\ entry' = Answer(r).entry /\ now \in Nat /\ n \in Nat
    BY RunEffect, AppendedLog DEF Common, Types
  <1>2. /\ members \subseteq entry.value
        /\ \/ ~Answer(r).allowed /\ entry'.value = members
           \/ Answer(r).allowed /\ entry'.value = members \union {Taken(r)}
    <2>1. /\ members \subseteq entry.value
          /\ Full(members) =>
               ~Answer(r).allowed /\ Answer(r).entry = [value |-> members, expires |-> now + Lifetime]
          /\ ~Full(members) =>
               /\ Answer(r).allowed
               /\ \E expires \in {Never, now + Lifetime} :
                    Answer(r).entry = [value |-> members \union {Taken(r)}, expires |-> expires]
      BY <1>1, SlidingAnswer DEF PromiseMade
    <2> HIDE DEF members
    <2>2. CASE Full(members)
      BY <1>1, <2>1, <2>2
    <2>3. CASE ~Full(members)
      BY <1>1, <2>1, <2>3
    <2> QED
      BY <2>1, <2>2, <2>3
  <1> HIDE DEF members
  <1>3. /\ \A x \in members : h[x] \in 1..n /\ x.score = Second(admitted[h[x]])
        /\ \A x, y \in members : h[x] = h[y] => x = y
    BY <1>2 DEF Backs
  <1>4. CASE ~Answer(r).allowed
    <2>1. admitted' = admitted /\ entry'.value = members
      BY <1>2, <1>4, RunEffect
    <2>2. Backs(h)'
      BY <1>3, <2>1 DEF Backs
    <2> QED
      BY <2>2
  <1>5. CASE Answer(r).allowed
    <2>1. PICK x : x = Taken(r)
      OBVIOUS
    <2>2. x.score = Second(now)
      BY <1>1, <2>1, PromptReading DEF Taken, UniqueMember
    <2>3. /\ Len(admitted') = n + 1 /\ admitted'[n + 1] = now
          /\ \A i \in 1..n : admitted'[i] = admitted[i]
      BY <1>1, <1>5, RunEffect, AppendedLog DEF Common
    <2>4. entry'.value = members \union {x}
      BY <1>2, <1>5, <2>1
    <2>5. PICK g : g[x] = n + 1 /\ \A y \in members : y # x => g[y] = h[y]
      <3> DEFINE g == [y \in members \union {x} |-> IF y = x THEN n + 1 ELSE h[y]]
      <3>1. g[x] = n + 1 /\ \A y \in members : y # x => g[y] = h[y]
        OBVIOUS
      <3> HIDE DEF g
      <3> QED
        BY <3>1
    <2> HIDE DEF n
    <2>6. /\ n + 1 \in 1..(n + 1)
          /\ \A i \in 1..n : i \in 1..(n + 1) /\ i # n + 1
      BY <1>1
    <2>7. ASSUME NEW y \in members \union {x}
          PROVE  g[y] \in 1..(n + 1) /\ y.score = Second(admitted'[g[y]])
      <3>1. CASE y = x
        BY <2>2, <2>3, <2>5, <2>6, <3>1
      <3>2. CASE y # x
        BY <1>3, <2>3, <2>5, <2>6, <3>2
      <3> QED
        BY <3>1, <3>2
    <2>8. ASSUME NEW y \in members \union {x}, NEW z \in members \union {x}, g[y] = g[z]
          PROVE  y = z
      BY <1>3, <2>5, <2>6, <2>8
    <2>9. Backs(g)'
      <3>1. \A y \in entry'.value : g[y] \in 1..Len(admitted') /\ y.score = Second(admitted'[g[y]])
        BY <2>3, <2>4, <2>7
      <3>2. \A y, z \in entry'.value : g[y] = g[z] => y = z
        BY <2>4, <2>8
      <3> QED
        BY <3>1, <3>2 DEF Backs
    <2> QED
      BY <2>9
  <1> QED
    BY <1>4, <1>5

LEMMA PromiseInvInit == Init => PromiseInv
  <1>1. Init => entry.value = {}
    BY DEF Init, NoEntry
  <1> QED
    BY <1>1, InitCommon, SlidingInit DEF PromiseInv, Backs

LEMMA SamePromise == ASSUME [Next]_vars PROVE PromiseMade' = PromiseMade
  BY SameDeployment DEF PromiseMade

LEMMA PromiseInvStep ==
  ASSUME PidsApart, PromiseInv, [Next]_vars
  PROVE  PromiseInv'
  <1>1. Common' /\ SlidingInv'
    BY CommonStep, SlidingStep DEF PromiseInv
  <1>2. ASSUME PromiseMade
        PROVE  \E h : Backs(h)'
    <2>1. PICK h : Backs(h)
      BY <1>2 DEF PromiseInv
    <2>2. Common /\ SetKept
      BY <1>2 DEF PromiseInv, SlidingInv, PromiseMade
    <2>3. ASSUME NEW r \in Replicas, Run(r)
          PROVE  \E g : Backs(g)'
      BY <1>2, <2>1, <2>2, <2>3, BackedRun
    <2>4. CASE entry' = entry /\ admitted' = admitted
      <3>1. Backs(h)'
        BY <2>1, <2>4 DEF Backs
      <3> QED
        BY <3>1
    <2>5. CASE Tick
      <3>1. admitted' = admitted /\ (entry' = entry \/ entry' = NoEntry)
        BY <2>5 DEF Tick
      <3>2. CASE entry' = NoEntry
        <4>1. entry'.value = {}
          BY <3>2 DEF NoEntry
        <4>2. Backs(h)'
          BY <4>1 DEF Backs
        <4> QED
          BY <4>2
      <3> QED
        BY <2>4, <3>1, <3>2
    <2> QED
      BY <2>3, <2>4, <2>5 DEF Next, Send, Return, vars
  <1> QED
    BY <1>1, <1>2, SamePromise DEF PromiseInv

(* A member is in the window of the log as long as the purge spares it.    *)
LEMMA SecondsApart ==
  ASSUME NEW s \in Nat, NEW q \in Nat, NEW t \in Nat, q = Second(t), s > q - Window
  PROVE  t < s * TicksPerSec + WindowTicks
  <1> DEFINE T == TicksPerSec
  <1>1. T \in Nat \ {0} /\ Window \in Nat /\ WindowTicks = Window * T
    BY Scales
  <1>2. t < q * T + T
    BY <1>1, DivBounds DEF Second
  <1>3. q + 1 <= s + Window
    BY <1>1
  <1> HIDE DEF T
  <1>4. (q + 1) * T <= (s + Window) * T
    BY <1>1, <1>3, ProductMonotone
  <1>5. /\ (q + 1) * T = q * T + T /\ (s + Window) * T = s * T + Window * T
        /\ q * T \in Nat /\ s * T \in Nat /\ Window * T \in Nat
    BY <1>1
  <1>6. t < s * T + Window * T
    BY <1>1, <1>2, <1>4, <1>5
  <1> QED
    BY <1>1, <1>6 DEF T

LEMMA SecondUnique ==
  ASSUME NEW s \in Nat, NEW t \in Nat, s * TicksPerSec <= t, t <= s * TicksPerSec + TicksPerSec - 1
  PROVE  s = Second(t)
  <1> DEFINE T == TicksPerSec
             d == t \div T
  <1>1. T \in Nat \ {0}
    BY Scales
  <1>2. d \in Nat /\ d * T <= t /\ t < d * T + T
    BY <1>1, DivBounds
  <1> HIDE DEF T, d
  <1>3. s * T <= t /\ t < s * T + T
    <2>1. s * T \in Nat
      BY <1>1
    <2> QED
      BY <1>1, <2>1 DEF T
  <1>4. /\ (s + 1) * T = s * T + T /\ (d + 1) * T = d * T + T
        /\ s * T \in Nat /\ d * T \in Nat
    BY <1>1, <1>2
  <1>5. ~(s + 1 <= d)
    <2> SUFFICES ASSUME s + 1 <= d PROVE FALSE
      OBVIOUS
    <2>1. (s + 1) * T <= d * T
      BY <1>1, <1>2, ProductMonotone
    <2> QED
      BY <1>1, <1>2, <1>3, <1>4, <2>1
  <1>6. ~(d + 1 <= s)
    <2> SUFFICES ASSUME d + 1 <= s PROVE FALSE
      OBVIOUS
    <2>1. (d + 1) * T <= s * T
      BY <1>1, <1>2, ProductMonotone
    <2> QED
      BY <1>1, <1>2, <1>3, <1>4, <2>1
  <1> QED
    BY <1>2, <1>5, <1>6 DEF Second, d, T

InTheWindow(q) == {i \in 1..Len(admitted) : Second(admitted[i]) > q - Window}

LEMMA MembersAreCalls ==
  ASSUME Common, PromiseMade, SetKept, NEW f, Logged(f), NEW h, Backs(h),
         NEW q, q = Second(now)
  PROVE  Cardinality(InTheWindow(q)) = Cardinality(Purged(entry.value, q))
  <1> DEFINE A == InTheWindow(q)
             P == Purged(entry.value, q)
             S == entry.value
  <1>1. now \in Nat /\ q \in Nat /\ Window \in Nat /\ TicksPerSec \in Nat \ {0}
    BY Scales, DivBounds DEF Second, Common, Types
  <1>2. IsFiniteSet(S) /\ \A x \in S : x.score \in Nat
    BY DEF SetKept
  <1>3. P = {x \in S : x.score > q - Window}
    BY DEF Purged
  <1>4. A = {i \in 1..Len(admitted) : Second(admitted[i]) > q - Window}
    BY DEF InTheWindow
  <1>5. ASSUME NEW i \in A
        PROVE  f[i] \in P
    <2>1. i \in 1..Len(admitted)
      BY <1>4
    <2>2. PICK t \in Nat : t = admitted[i] /\ Booked(f[i], t)
      BY <2>1 DEF Logged
    <2> DEFINE s == f[i].score
    <2>3. /\ s \in Nat /\ s * TicksPerSec \in Nat
          /\ s * TicksPerSec <= t + MaxSkew /\ t <= s * TicksPerSec + Back
      BY <2>2 DEF Booked, Carries
    <2>4. MaxSkew = 0 /\ Back = TicksPerSec - 1
      <3>1. MaxSkew = 0 /\ MaxLag = 0
        BY DEF PromiseMade
      <3> QED
        BY <1>1, <3>1 DEF Back
    <2>5. Counted(f[i])
      BY <2>2 DEF Booked
    <2> HIDE DEF s
    <2>6. s * TicksPerSec <= t /\ t <= s * TicksPerSec + TicksPerSec - 1
      BY <1>1, <2>2, <2>3, <2>4
    <2>7. s = Second(t)
      BY <2>2, <2>3, <2>6, SecondUnique
    <2>8. s > q - Window
      BY <1>4, <2>2, <2>7
    <2>9. now < s * TicksPerSec + WindowTicks
      BY <1>1, <2>3, <2>8, SecondsApart
    <2>10. f[i] \in S
      BY <1>1, <2>4, <2>5, <2>9 DEF Counted, s
    <2> QED
      BY <1>3, <2>8, <2>10 DEF s
  <1>6. ASSUME NEW x \in P
        PROVE  h[x] \in A
    BY <1>3, <1>4 DEF Backs
  <1>7. /\ \A i, j \in A : f[i] = f[j] => i = j
        /\ \A x, y \in P : h[x] = h[y] => x = y
    BY <1>3, <1>4 DEF Logged, Backs
  <1>8. IsFiniteSet(P)
    BY <1>2, <1>3, FS_Subset
  <1> HIDE DEF A, P, S
  <1> DEFINE m == [i \in A |-> f[i]]
             w == [x \in P |-> h[x]]
  <1>9. m \in Injection(A, P)
    <2>1. m \in [A -> P]
      BY <1>5
    <2>2. \A i, j \in A : m[i] = m[j] => i = j
      BY <1>7
    <2> QED
      BY <2>1, <2>2, Zenon DEF Injection, IsInjective
  <1>10. w \in Injection(P, A)
    <2>1. w \in [P -> A]
      BY <1>6
    <2>2. \A x, y \in P : w[x] = w[y] => x = y
      BY <1>7
    <2> QED
      BY <2>1, <2>2, Zenon DEF Injection, IsInjective
  <1> HIDE DEF m, w
  <1>11. IsFiniteSet(A) /\ Cardinality(A) <= Cardinality(P)
    BY <1>8, <1>9, FS_Injection
  <1>12. Cardinality(P) <= Cardinality(A)
    BY <1>10, <1>11, FS_Injection
  <1>13. Cardinality(A) \in Nat /\ Cardinality(P) \in Nat
    BY <1>8, <1>11, FS_CardinalityType
  <1>14. Cardinality(A) = Cardinality(P)
    BY <1>11, <1>12, <1>13
  <1> QED
    BY <1>14 DEF A, P

(* The log in seconds, one call longer.                                    *)
LEMMA LogAppended ==
  ASSUME Log, now \in Nat
  PROVE  LET longer == Append(admitted, now)
         IN [i \in DOMAIN longer |-> Second(longer[i])]
              = Append([i \in DOMAIN admitted |-> Second(admitted[i])], Second(now))
  <1> DEFINE n == Len(admitted)
             longer == Append(admitted, now)
             old == [i \in DOMAIN admitted |-> Second(admitted[i])]
             new == [i \in DOMAIN longer |-> Second(longer[i])]
             added == Append(old, Second(now))
  <1>1. /\ n \in Nat /\ DOMAIN longer = 1..(n + 1) /\ DOMAIN admitted = 1..n
        /\ longer[n + 1] = now
        /\ \A i \in 1..n : longer[i] = admitted[i] /\ admitted[i] \in Nat
    BY AppendedLog
  <1>2. \A t \in Nat : Second(t) \in Nat
    BY Scales, DivBounds DEF Second
  <1> HIDE DEF longer, n
  <1>3. old \in [1..n -> Nat]
    BY <1>1, <1>2
  <1>4. new \in [1..(n + 1) -> Nat]
    <2>1. \A i \in 1..(n + 1) : i = n + 1 \/ i \in 1..n
      BY <1>1
    <2>2. \A i \in 1..(n + 1) : longer[i] \in Nat
      BY <1>1, <2>1
    <2> QED
      BY <1>1, <1>2, <2>2
  <1>5. old \in Seq(Nat) /\ new \in Seq(Nat)
    BY <1>1, <1>3, <1>4, SeqDef
  <1>6. Len(old) = n /\ Len(new) = n + 1
    <2>1. DOMAIN old = 1..n /\ DOMAIN new = 1..(n + 1)
      BY <1>3, <1>4
    <2> QED
      BY <1>1, <1>5, <2>1, LenProperties
  <1>7. /\ added \in Seq(Nat) /\ Len(added) = n + 1
        /\ \A i \in 1..n : added[i] = old[i]
        /\ added[n + 1] = Second(now)
    <2> HIDE DEF old
    <2>1. Second(now) \in Nat
      BY <1>2
    <2> QED
      BY <1>5, <1>6, <2>1, AppendProperties
  <1>8. ASSUME NEW i \in 1..(n + 1)
        PROVE  new[i] = added[i]
    <2>1. new[i] = Second(longer[i])
      BY <1>1
    <2>2. CASE i = n + 1
      BY <1>1, <1>7, <2>1, <2>2
    <2>3. CASE i # n + 1
      <3>1. i \in 1..n
        BY <1>1, <2>3
      <3>2. old[i] = Second(admitted[i])
        BY <1>1, <3>1
      <3> QED
        BY <1>1, <1>7, <2>1, <3>1, <3>2
    <2> QED
      BY <2>2, <2>3
  <1> HIDE DEF new, added
  <1>9. new = added
    BY <1>5, <1>6, <1>7, <1>8, SeqEqual
  <1> QED
    BY <1>9 DEF new, added, longer

LEMMA OthersReplies ==
  ASSUME Common, PromiseMade' = PromiseMade, NEW r \in Replicas,
         Send(r) \/ Run(r) \/ Return(r)
  PROVE  PromiseVerdicts' = [PromiseVerdicts EXCEPT ![r] =
           IF PromiseMade /\ call'[r].pc = "answered" THEN <<call'[r].allowed>> ELSE << >>]
  <1> DEFINE Reply(c) == IF PromiseMade /\ c.pc = "answered" THEN <<c.allowed>> ELSE << >>
  <1>1. \A d \in Replicas : d # r => call'[d] = call[d]
    BY CallEffect
  <1>2. /\ PromiseVerdicts = [d \in Replicas |-> Reply(call[d])]
        /\ PromiseVerdicts' = [d \in Replicas |-> Reply(call'[d])]
    BY DEF PromiseVerdicts
  <1> HIDE DEF Reply
  <1>3. PromiseVerdicts' = [PromiseVerdicts EXCEPT ![r] = Reply(call'[r])]
    BY <1>1, <1>2
  <1> QED
    BY <1>3 DEF Reply

LEMMA PromiseStarts == Init => Promise!Init
  <1> SUFFICES ASSUME Init PROVE Promise!Init
    OBVIOUS
  <1>1. now = StartTime /\ DOMAIN admitted = {} /\ \A r \in Replicas : call[r].pc = "idle"
    BY DEF Init, Idle
  <1>2. [i \in DOMAIN admitted |-> Second(admitted[i])] = << >>
    BY <1>1
  <1>3. PromiseLog = [k \in {"key"} |-> << >>]
    BY <1>2, Zenon DEF PromiseLog
  <1>4. PromiseVerdicts = [r \in Replicas |-> << >>]
    BY <1>1 DEF PromiseVerdicts
  <1> QED
    BY <1>1, <1>3, <1>4 DEF Promise!Init

LEMMA RunDecides ==
  ASSUME PromiseInv, PromiseMade, PromiseMade' = PromiseMade, NEW r \in Replicas, Run(r)
  PROVE  Promise!Decide(r, "key")
  <1> DEFINE q == Second(now)
             allow == Answer(r).allowed
             log == [i \in DOMAIN admitted |-> Second(admitted[i])]
             members == Purged(entry.value, q)
             Keyed == [k \in {"key"} |-> Limit]
             Spans == [k \in {"key"} |-> Window]
  <1>1. /\ Common /\ SetKept
        /\ call[r].pc = "sent" /\ now' = now /\ now \in Nat
    BY RunEffect DEF PromiseInv, SlidingInv, PromiseMade, Common, Types
  <1>2. PICK f, h : Logged(f) /\ Backs(h)
    BY DEF PromiseInv, SlidingInv, PromiseMade
  <1>3. Reading(r, call[r].issued) = q
    BY <1>1, PromptReading
  <1>4. Cardinality(InTheWindow(q)) = Cardinality(members)
    BY <1>1, <1>2, MembersAreCalls
  <1>5. /\ Cardinality(members) \in Nat
        /\ Full(members) => ~allow
        /\ ~Full(members) => allow
    BY <1>1, <1>3, SlidingAnswer DEF PromiseMade
  <1>6. Limit \in Nat
    BY Scales
  <1> HIDE DEF allow, members
  <1>7. Full(members) \in BOOLEAN /\ (Full(members) <=> ~(Cardinality(members) < Limit))
    BY <1>5, <1>6 DEF Full
  <1>8. {i \in DOMAIN log : log[i] > q - Window} = InTheWindow(q)
    <2>1. DOMAIN admitted = 1..Len(admitted)
      BY <1>1, AppendedLog DEF Common
    <2> QED
      BY <2>1 DEF InTheWindow
  <1> DEFINE fewer == Cardinality({i \in DOMAIN log : log[i] > q - Window}) < Limit
  <1>9. allow <=> fewer
    BY <1>4, <1>5, <1>7, <1>8
  <1>10. call'[r].pc = "answered" /\ call'[r].allowed = fewer
    <2>1. call'[r].allowed = Answer(r).allowed
      BY <1>1, RunReply
    <2>2. call'[r].pc = "answered"
      BY <1>1 DEF Run, Common, Types
    <2>3. Answer(r).allowed \in BOOLEAN
      BY <1>1, <1>3 DEF Answer, Script, SlidingScript, Outcome, PromiseMade
    <2> QED
      BY <1>9, <2>1, <2>2, <2>3 DEF allow
  <1>11. PromiseLog["key"] = log /\ PromiseLog = [k \in {"key"} |-> log]
    BY DEF PromiseLog
  <1>12. allow => PromiseLog' = [PromiseLog EXCEPT !["key"] = Append(@, q)]
    <2> SUFFICES ASSUME allow PROVE PromiseLog' = [PromiseLog EXCEPT !["key"] = Append(@, q)]
      OBVIOUS
    <2>1. admitted' = Append(admitted, now)
      BY RunEffect DEF allow
    <2>2. [i \in DOMAIN admitted' |-> Second(admitted'[i])] = Append(log, q)
      BY <1>1, <2>1, LogAppended DEF Common
    <2>3. PromiseLog' = [k \in {"key"} |-> [i \in DOMAIN admitted' |-> Second(admitted'[i])]]
      BY DEF PromiseLog
    <2> HIDE DEF log, q
    <2> QED
      BY <1>11, <2>2, <2>3
  <1>13. ~allow => PromiseLog' = PromiseLog
    <2>1. ~allow => admitted' = admitted
      BY RunEffect DEF allow
    <2> QED
      BY <2>1 DEF PromiseLog
  <1>14. PromiseVerdicts[r] = << >>
    BY <1>1 DEF PromiseVerdicts
  <1>15. PromiseVerdicts' = [PromiseVerdicts EXCEPT ![r] = <<fewer>>]
    BY <1>1, <1>10, OthersReplies
  <1>16. PromiseVerdicts' = [PromiseVerdicts EXCEPT ![r] = Append(@, fewer)]
    <2>1. Append(<< >>, fewer) = <<fewer>>
      OBVIOUS
    <2> HIDE DEF fewer
    <2> QED
      BY <1>14, <1>15, <2>1
  <1>17. (Promise!InLastWindow("key") < Keyed["key"]) = fewer
    <2>1. ASSUME NEW S PROVE Cardinality(S) = Promise!Cardinality(S)
      BY DEF Cardinality, Promise!Cardinality
    <2>2. Spans["key"] = Window /\ Keyed["key"] = Limit
      OBVIOUS
    <2> HIDE DEF log
    <2> QED
      BY <1>11, <2>1, <2>2 DEF Promise!InLastWindow
  <1>18. Second(now)' = Second(now)
    BY <1>1 DEF Second
  <1> HIDE DEF fewer, log, q
  <1>19. PromiseLog' = IF fewer THEN [PromiseLog EXCEPT !["key"] = Append(@, q)]
                               ELSE PromiseLog
    BY <1>9, <1>12, <1>13
  <1> QED
    BY <1>16, <1>17, <1>18, <1>19, Zenon DEF Promise!Decide, q

LEMMA ReplicaImplements ==
  ASSUME PromiseInv, PromiseMade' = PromiseMade, NEW r \in Replicas,
         Send(r) \/ Run(r) \/ Return(r)
  PROVE  [Promise!Next]_(Promise!vars)
  <1>1. Common /\ now' = now
    BY CallEffect DEF PromiseInv
  <1>2. Second(now)' = Second(now)
    BY <1>1 DEF Second
  <1>3. CASE Run(r) /\ PromiseMade
    <2>1. Promise!Decide(r, "key")
      BY <1>3, RunDecides
    <2> QED
      BY <2>1 DEF Promise!Next
  <1>4. CASE ~PromiseMade
    <2>1. PromiseLog' = PromiseLog /\ PromiseVerdicts' = PromiseVerdicts
      BY <1>4 DEF PromiseLog, PromiseVerdicts
    <2> QED
      BY <1>2, <2>1 DEF Promise!vars
  <1>5. CASE Send(r) \/ Return(r)
    <2>1. admitted' = admitted /\ call'[r].pc # "answered"
      <3>1. CASE Send(r)
        BY <1>1, <3>1, CallEffect DEF Send
      <3>2. CASE Return(r)
        BY <1>1, <3>2 DEF Return, Idle, Common, Types
      <3> QED
        BY <1>5, <3>1, <3>2
    <2>2. PromiseLog' = PromiseLog
      BY <2>1 DEF PromiseLog
    <2>3. PromiseVerdicts' = [PromiseVerdicts EXCEPT ![r] = << >>]
      BY <1>1, <2>1, OthersReplies
    <2>4. Promise!Answer(r)
      BY <1>2, <2>2, <2>3 DEF Promise!Answer
    <2> QED
      BY <2>4 DEF Promise!Next
  <1> QED
    BY <1>3, <1>4, <1>5

LEMMA StepsImplement ==
  ASSUME PromiseInv, [Next]_vars
  PROVE  [Promise!Next]_(Promise!vars)
  <1>1. PromiseMade' = PromiseMade
    BY SamePromise
  <1>2. ASSUME admitted' = admitted, call' = call
        PROVE  PromiseLog' = PromiseLog /\ PromiseVerdicts' = PromiseVerdicts
    BY <1>1, <1>2 DEF PromiseLog, PromiseVerdicts
  <1>3. CASE Tick
    <2>1. now' = now + 1 /\ admitted' = admitted /\ call' = call
      BY <1>3 DEF Tick
    <2>2. now \in Nat
      BY DEF PromiseInv, Common, Types
    <2>3. Second(now)' = Second(now) \/ Second(now)' = Second(now) + 1
      <3> DEFINE T == TicksPerSec
                 d == now \div T
                 e == (now + 1) \div T
      <3>1. T \in Nat \ {0}
        BY Scales
      <3>2. /\ d \in Nat /\ d * T <= now /\ now < d * T + T
            /\ e \in Nat /\ e * T <= now + 1 /\ now + 1 < e * T + T
        BY <2>2, <3>1, DivBounds
      <3> HIDE DEF T, d, e
      <3>3. d <= e
        <4> SUFFICES ASSUME e + 1 <= d PROVE FALSE
          BY <3>2
        <4>1. (e + 1) * T <= d * T /\ (e + 1) * T = e * T + T /\ e * T \in Nat /\ d * T \in Nat
          BY <3>1, <3>2, ProductMonotone
        <4> QED
          BY <2>2, <3>1, <3>2, <4>1
      <3>4. e <= d + 1
        <4> SUFFICES ASSUME d + 2 <= e PROVE FALSE
          BY <3>2
        <4>1. (d + 2) * T <= e * T /\ (d + 2) * T = d * T + T + T /\ e * T \in Nat /\ d * T \in Nat
          BY <3>1, <3>2, ProductMonotone
        <4> QED
          BY <2>2, <3>1, <3>2, <4>1
      <3>5. Second(now) = d /\ Second(now)' = e
        BY <2>1 DEF Second, d, e, T
      <3> QED
        BY <3>2, <3>3, <3>4, <3>5
    <2>4. PromiseLog' = PromiseLog /\ PromiseVerdicts' = PromiseVerdicts
      BY <1>2, <2>1
    <2> QED
      BY <2>3, <2>4 DEF Promise!vars, Promise!Next, Promise!Tick
  <1>4. CASE UNCHANGED vars
    <2>1. now' = now /\ admitted' = admitted /\ call' = call
      BY <1>4 DEF vars
    <2>2. Second(now)' = Second(now)
      BY <2>1 DEF Second
    <2> QED
      BY <1>2, <2>1, <2>2 DEF Promise!vars
  <1> QED
    BY <1>1, <1>3, <1>4, ReplicaImplements DEF Next

(* Replicas whose clocks agree, whose calls take no time and which have    *)
(* process ids of their own keep the promise of the log in whole seconds:  *)
(* a call is allowed exactly when fewer than the limit were admitted in    *)
(* the last window, whatever the purge dropped and the expiry forgot.      *)
THEOREM ClusterPromiseImplemented ==
  ASSUME PidsApart
  PROVE  Spec => ImplementsPromise
  <1>1. PromiseInv /\ [Next]_vars => [Promise!Next]_(Promise!vars)
    BY StepsImplement
  <1>2. PromiseInv /\ [Next]_vars => PromiseInv'
    BY PromiseInvStep
  <1> QED
    BY <1>1, <1>2, PromiseInvInit, PromiseStarts, PTL DEF Spec, ImplementsPromise, Promise!Spec
=============================================================================
