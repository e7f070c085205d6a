---------------------------- MODULE MemoryStore ----------------------------
(***************************************************************************)
(* The in-process store of the rate limiter (rate_limiter/src/memory.rs)   *)
(* under concurrent calls of RateLimiterEngine::check (engine.rs).         *)
(*                                                                         *)
(* A caller reads the clocks once, before any lock, then evaluates its     *)
(* dimension keys one after the other.  Each evaluation is the fast path   *)
(* (outer read lock and the key's write lock), or a miss followed by the   *)
(* slow path (outer write lock); after it the caller counts the call with  *)
(* an atomic and, every SweepInterval calls, sweeps the whole map under    *)
(* the outer write lock.  Those critical sections are the atomic steps     *)
(* here; callers interleave between them, and time passes.                 *)
(***************************************************************************)
EXTENDS RateAlgorithms

CONSTANTS
  Callers,        \* threads that call check()
  Keys,           \* dimension keys
  Limit,          \* [Keys -> Nat]: configured count
  Window,         \* [Keys -> Nat]: configured window in ticks
  Limiters,       \* configurations an engine is built from
  SweepInterval,  \* SWEEP_INTERVAL
  StartTime,      \* first reading of the clock, which counts from 1970
  MaxTime         \* bound: last tick of the clock, per limiter

(* A limiter has one algorithm, the sequences of keys that build_checks()  *)
(* can produce for it, and a bound on the ticks a call of it may take      *)
(* after it read the clock.                                                *)
ASSUME StoreAssumption ==
  /\ Limit \in [Keys -> Nat \ {0}]
  /\ Window \in [Keys -> Nat \ {0}]
  /\ Limiters \subseteq
       [algorithm: Algorithms, requests: SUBSET Seq(Keys), lag: Nat]
  /\ SweepInterval \in Nat \ {0}
  /\ StartTime \in Nat
  /\ MaxTime \in [Limiters -> Nat]

(* clock.rs:42 anchors the monotonic clock at the nanoseconds since 1970,  *)
(* so it is far past any window of at most one hour.                       *)
ASSUME ClockAssumption ==
  \A k \in Keys : \A l \in Limiters : Window[k] + l.lag < StartTime

VARIABLES
  limiter,    \* the configuration of the engine, fixed when it is built
  now,        \* the monotonic clock
  store,      \* the map: a function whose domain is the set of present keys
  callCount,  \* call_count: 0, then 1..SweepInterval over and over
  caller,     \* what each thread is doing
  admitted    \* history: per key, the clock readings of admitted calls

vars == <<limiter, now, store, callCount, caller, admitted>>

Algorithm == limiter.algorithm
MaxLag == limiter.lag

PCs == {"idle", "lookup", "insert", "count", "sweep", "respond"}

CallerState ==
  [pc: PCs, todo: Seq(Keys), stamp: Nat, unix: Nat, dims: Seq(DimResults)]

Idle == [pc |-> "idle", todo |-> << >>, stamp |-> 0, unix |-> 0, dims |-> << >>]

Active(c) == caller[c].pc # "idle"

Init ==
  /\ limiter \in Limiters
  /\ now = StartTime
  /\ store = [k \in {} |-> Idle]
  /\ callCount = 0
  /\ caller = [c \in Callers |-> Idle]
  /\ admitted = [k \in Keys |-> << >>]

(***************************************************************************)
(* Actions.                                                                *)
(***************************************************************************)

(* check() reads the clocks and the list of dimension keys.                *)
Check(c) ==
  /\ caller[c].pc = "idle"
  /\ \E checks \in limiter.requests :
       caller' = [caller EXCEPT ![c] =
         [pc |-> IF checks = << >> THEN "respond" ELSE "lookup",
          todo |-> checks, stamp |-> now, unix |-> now \div NanosPerSec,
          dims |-> << >>]]
  /\ UNCHANGED <<limiter, now, store, callCount, admitted>>

(* The evaluation of key k in state st, inside the key's critical section. *)
EvaluateKey(c, k, st) ==
  LET ev == Evaluate(Algorithm, st, Limit[k], Window[k],
                     caller[c].stamp, caller[c].unix)
  IN /\ store' = [x \in DOMAIN store \union {k} |->
                    IF x = k THEN ev.state ELSE store[x]]
     /\ admitted' = IF ev.result.allowed
                    THEN [admitted EXCEPT ![k] = Append(@, caller[c].stamp)]
                    ELSE admitted
     /\ caller' = [caller EXCEPT ![c] =
                     [caller[c] EXCEPT !.pc = "count", !.dims = Append(@, ev.result)]]
     /\ UNCHANGED <<limiter, now, callCount>>

(* Fast path: the key exists. *)
LookupHit(c) ==
  /\ caller[c].pc = "lookup"
  /\ LET k == Head(caller[c].todo)
     IN /\ k \in DOMAIN store
        /\ EvaluateKey(c, k, store[k])

(* The key is missing; the read lock is dropped before the slow path. *)
LookupMiss(c) ==
  /\ caller[c].pc = "lookup"
  /\ Head(caller[c].todo) \notin DOMAIN store
  /\ caller' = [caller EXCEPT ![c].pc = "insert"]
  /\ UNCHANGED <<limiter, now, store, callCount, admitted>>

(* Slow path: entry().or_insert_with(): another caller may have inserted   *)
(* the key in the meantime, and then its state is the one evaluated.       *)
EntryOrInsert(c, k) ==
  IF k \in DOMAIN store THEN store[k]
  ELSE NewKeyState(Algorithm, Limit[k], caller[c].stamp, caller[c].unix)

Insert(c) ==
  /\ caller[c].pc = "insert"
  /\ LET k == Head(caller[c].todo)
     IN EvaluateKey(c, k, EntryOrInsert(c, k))

(* The next dimension of a caller, or the answer once none is left. *)
NextDim(c, rest) == IF rest = << >> THEN "respond" ELSE "lookup"

(* fetch_add on call_count: the value read decides whether this caller     *)
(* sweeps.  The counter is kept modulo SweepInterval, apart from the       *)
(* initial 0, which never sweeps.                                          *)
CountCall(c) ==
  /\ caller[c].pc = "count"
  /\ LET rest == Tail(caller[c].todo)
     IN caller' = [caller EXCEPT ![c] =
                     [caller[c] EXCEPT !.todo = rest,
                               !.pc = IF callCount = SweepInterval THEN "sweep"
                                      ELSE NextDim(c, rest)]]
  /\ callCount' = IF callCount = SweepInterval THEN 1 ELSE callCount + 1
  /\ UNCHANGED <<limiter, now, store, admitted>>

(* sweep() holds the outer write lock, so no key lock is contended. *)
Sweep(c) ==
  /\ caller[c].pc = "sweep"
  /\ LET kept == {k \in DOMAIN store :
                    SweepKeeps(Algorithm, store[k], Window[k], caller[c].stamp)}
     IN store' = [k \in kept |->
                    SweptState(Algorithm, store[k], Window[k], caller[c].stamp)]
  /\ caller' = [caller EXCEPT ![c].pc = NextDim(c, caller[c].todo)]
  /\ UNCHANGED <<limiter, now, callCount, admitted>>

(* The answer is built from the DimResults and returned. *)
Respond(c) ==
  /\ caller[c].pc = "respond"
  /\ caller' = [caller EXCEPT ![c] = Idle]
  /\ UNCHANGED <<limiter, now, store, callCount, admitted>>

(* The monotonic clock advances.  A call in flight is at most MaxLag ticks *)
(* behind it.                                                              *)
Tick ==
  /\ now < MaxTime[limiter]
  /\ \A c \in Callers : Active(c) => now + 1 - caller[c].stamp <= MaxLag
  /\ now' = now + 1
  /\ UNCHANGED <<limiter, store, callCount, caller, admitted>>

Next ==
  \/ \E c \in Callers :
       \/ Check(c) \/ LookupHit(c) \/ LookupMiss(c) \/ Insert(c)
       \/ CountCall(c) \/ Sweep(c) \/ Respond(c)
  \/ Tick

Spec == Init /\ [][Next]_vars

(***************************************************************************)
(* Properties.                                                             *)
(***************************************************************************)

(* Every variable keeps its shape, and no key ever holds more than its     *)
(* configured limit (memory.rs:285, 333, 375), whoever evaluates it.       *)
TypeOK ==
  /\ limiter \in Limiters
  /\ now \in Nat
  /\ DOMAIN store \subseteq Keys
  /\ \A k \in DOMAIN store :
       /\ store[k] \in StatesOf(Algorithm)
       /\ WithinLimit(Algorithm, store[k], Limit[k])
  /\ callCount \in 0..SweepInterval
  /\ caller \in [Callers -> CallerState]
  /\ admitted \in [Keys -> Seq(Nat)]

(* The admitted calls of k whose clock reading lies in the span of d ticks *)
(* that starts at a.                                                       *)
AdmittedIn(k, a, d) ==
  {i \in DOMAIN admitted[k] : a <= admitted[k][i] /\ admitted[k][i] < a + d}

(* memory.rs:262 fixed_window.  Admitted calls at most a window less twice *)
(* the lag apart are at most twice the limit: the boundary burst that the  *)
(* documentation admits to and no more, although a caller may evaluate     *)
(* with a reading from before the window's reset, and restart an evicted   *)
(* key in the past.                                                        *)
FixedWindowBurst ==
  Algorithm = "fixed_window" => \A k \in Keys : \A a \in StartTime..now :
    Cardinality(AdmittedIn(k, a, Window[k] - 2 * MaxLag + 1)) <= 2 * Limit[k]

(* memory.rs:310 sliding_window.  No span of a window less the lag holds   *)
(* more admitted calls than the limit, although readings are pushed in the *)
(* order of the lock and not of time, and a caller or a sweep with a newer *)
(* reading drains before one with an older reading counts.                 *)
SlidingWindowSpan ==
  Algorithm = "sliding_window" => \A k \in Keys : \A a \in StartTime..now :
    Cardinality(AdmittedIn(k, a, Window[k] - MaxLag)) <= Limit[k]

(* Both bounds, whichever window is in use: they are what late readings,   *)
(* evictions and racing insertions may cost, and no more.                  *)
StoreWindows == FixedWindowBurst /\ SlidingWindowSpan

(* memory.rs:361 token_bucket.  Between any two admitted calls, the i-th   *)
(* and the j-th, the bucket grants at most its capacity and what refills   *)
(* at the configured rate in the time between them, evictions, lost        *)
(* refills and late callers included.                                      *)
TokenRate ==
  Algorithm = "token_bucket" => \A k \in Keys : \A i, j \in DOMAIN admitted[k] :
    i <= j =>
      (j - i + 1) * Window[k]
        <= Limit[k] * Window[k]
           + Limit[k] * (admitted[k][j] + MaxLag - admitted[k][i])

(* memory.rs:92 sweep.  Evicting a key loses nothing: whoever asks from    *)
(* now on gets from a fresh key the answer the evicted state would give.   *)
EvictionTransparent ==
  [][\A k \in DOMAIN store \ DOMAIN store' : \A t \in now..(now + Window[k]) :
       LET Answer(st) == Evaluate(Algorithm, st, Limit[k], Window[k],
                                  t, t \div NanosPerSec).result
       IN Answer(store[k])
            = Answer(NewKeyState(Algorithm, Limit[k], t, t \div NanosPerSec))]_vars

(* The evaluation of a step that ends in a refusal, and the key it refused *)
RefusedNow(c) ==
  /\ caller'[c].pc = "count"
  /\ caller[c].pc \in {"lookup", "insert"}
  /\ ~caller'[c].dims[Len(caller'[c].dims)].allowed

AllowedAfter(c, ticks) ==
  LET k == Head(caller[c].todo)
      t == now + ticks
  IN Evaluate(Algorithm, store'[k], Limit[k], Window[k],
              t, t \div NanosPerSec).result.allowed

RetryTicks(c) == caller'[c].dims[Len(caller'[c].dims)].retry * NanosPerSec

RoundedDown == IF Algorithm = "token_bucket" THEN 0 ELSE NanosPerSec

(* types.rs:24, README.md:93.  A refused caller that comes back after the  *)
(* advertised number of seconds, and finds nobody else has called since,   *)
(* is allowed: the token bucket rounds the wait up, the windows round it   *)
(* down by less than a second.  For a fixed window it takes a caller whose *)
(* reading is not older than the window's start, from which memory.rs:300  *)
(* subtracts it.                                                           *)
RetryHonest ==
  [][(MaxLag = 0 \/ Algorithm # "fixed_window") =>
       \A c \in Callers :
         RefusedNow(c) => AllowedAfter(c, RetryTicks(c) + RoundedDown)]_vars

=============================================================================
