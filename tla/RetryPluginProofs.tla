------------------------- MODULE RetryPluginProofs -------------------------
(***************************************************************************)
(* Theorems about RetryPlugin, for every set of instances and requests,    *)
(* every budget, backoff, TTL and scan interval.                           *)
(***************************************************************************)
EXTENDS RetryPlugin, TLAPS

(***************************************************************************)
(* Type correctness.                                                       *)
(***************************************************************************)
LEMMA TypeInit == Init => TypeOK
  BY RetryAssumption DEF Init, TypeOK, NewRequest, RequestState

LEMMA KeptIsKnown ==
  ASSUME NEW i
  PROVE  Kept(i) \subseteq DOMAIN states
  BY DEF Kept, KeepsRecent

LEMMA DelayBounded ==
  ASSUME NEW attempt, NEW delay \in Delays(attempt)
  PROVE  delay \in 0..MaxBackoff /\ delay \in Nat
  BY RetryAssumption DEF Delays

(* A step of one request leaves the others alone. *)
LEMMA FailureTyped ==
  ASSUME TypeOK, NEW r \in Requests, NEW result, PostFailure(r, result)
  PROVE  TypeOK'
  <1> DEFINE kept == Kept(Of[r])
             failures == (IF r \in kept THEN states[r].failures ELSE 0) + 1
  <1>1. kept \subseteq DOMAIN states /\ kept \subseteq Requests
    BY KeptIsKnown DEF TypeOK
  <1>2. failures \in Nat /\ failures >= 1
    BY <1>1 DEF TypeOK, ToolRetryState
  <1>3. sinceEviction' \in 0..EvictInterval
    BY RetryAssumption DEF PostFailure, TypeOK
  <1>4. req[r] \in RequestState /\ req[r].retries \in Nat
    BY DEF TypeOK, RequestState
  <1>5. CASE WithinBudget(failures, r)
    <2>1. /\ states' = [k \in kept \union {r} |->
                          IF k = r THEN [failures |-> failures, age |-> 0]
                          ELSE states[k]]
          /\ \E delay \in Delays(Attempt(failures)) :
               req' = [req EXCEPT ![r] =
                 IF delay > 0
                 THEN [status |-> "waiting", left |-> delay, elapsed |-> 0,
                       retries |-> req[r].retries + 1]
                 ELSE [@ EXCEPT !.status = "done"]]
      BY <1>5 DEF PostFailure
    <2> HIDE DEF kept, failures
    <2>2. req' \in [Requests -> RequestState]
      BY <2>1, <1>4, DelayBounded DEF TypeOK, RequestState
    <2>3. failures \in 1..MaxRetries[r]
      BY <1>2, <1>5, RetryAssumption DEF WithinBudget
    <2>4. 0 \in 0..(StateTTL + 1)
      BY RetryAssumption
    <2>5. DOMAIN states' \subseteq Requests
      BY <2>1, <1>1
    <2>6. ASSUME NEW k \in DOMAIN states'
          PROVE  states'[k] \in ToolRetryState /\ states'[k].failures \in 1..MaxRetries[k]
      BY <2>1, <2>3, <2>4, <1>1, <1>2 DEF TypeOK, ToolRetryState
    <2> QED BY <2>2, <2>5, <2>6, <1>3 DEF TypeOK
  <1>6. CASE ~WithinBudget(failures, r)
    <2>1. /\ states' = [k \in kept \ {r} |-> states[k]]
          /\ req' = [req EXCEPT ![r].status = "done"]
      BY <1>6 DEF PostFailure, Forget
    <2> HIDE DEF kept, failures
    <2> QED BY <2>1, <1>1, <1>3, <1>4 DEF TypeOK, RequestState
  <1> QED BY <1>5, <1>6

LEMMA TickTyped ==
  ASSUME TypeOK, Tick
  PROVE  TypeOK'
  <1>1. ASSUME NEW k \in DOMAIN states'
        PROVE  states'[k] \in ToolRetryState /\ states'[k].failures \in 1..MaxRetries[k]
    BY <1>1, RetryAssumption DEF Tick, TypeOK, ToolRetryState, Lesser
  <1>2. sinceEviction' \in 0..EvictInterval
    BY RetryAssumption DEF Tick, TypeOK, Lesser
  <1>3. ASSUME NEW r \in Requests
        PROVE  req'[r] \in RequestState
    <2>1. req[r] \in RequestState
      BY DEF TypeOK
    <2>2. CASE req[r].status = "waiting"
      <3>1. req'[r] = [req[r] EXCEPT !.left = req[r].left - 1] /\ req[r].left > 0
        BY <2>2 DEF Tick
      <3> QED BY <3>1, <2>1 DEF RequestState
    <2>3. CASE req[r].status = "running"
      <3>1. req'[r] = [req[r] EXCEPT !.elapsed = req[r].elapsed + 1]
        BY <2>3 DEF Tick
      <3> QED BY <3>1, <2>1 DEF RequestState
    <2>4. CASE req[r].status \notin {"waiting", "running"}
      <3>1. req'[r] = req[r]
        BY <2>4 DEF Tick
      <3> QED BY <3>1, <2>1
    <2> QED BY <2>2, <2>3, <2>4
  <1>4. req' \in [Requests -> RequestState]
    BY <1>3 DEF Tick
  <1>5. DOMAIN states' \subseteq Requests
    BY DEF Tick, TypeOK
  <1> QED BY <1>1, <1>2, <1>4, <1>5 DEF TypeOK

LEMMA TypeStep == TypeOK /\ [Next]_vars => TypeOK'
  <1> SUFFICES ASSUME TypeOK, [Next]_vars PROVE TypeOK'
    OBVIOUS
  <1> USE RetryAssumption
  <1>1. ASSUME NEW r \in Requests, Failure(r) PROVE TypeOK'
    BY <1>1, FailureTyped DEF Failure
  <1>2. ASSUME NEW r \in Requests, Success(r) PROVE TypeOK'
    BY <1>2 DEF Success, PostSuccess, Forget, TypeOK, RequestState
  <1>3. ASSUME NEW r \in Requests, Invoke(r) PROVE TypeOK'
    BY <1>3 DEF Invoke, TypeOK, RequestState
  <1>4. ASSUME NEW r \in Requests, Reinvoke(r) PROVE TypeOK'
    BY <1>4 DEF Reinvoke, TypeOK, RequestState
  <1>5. ASSUME NEW r \in Requests, Abandon(r) PROVE TypeOK'
    BY <1>5 DEF Abandon, TypeOK, RequestState
  <1>6. ASSUME NEW r \in Requests, NextRequest(r) PROVE TypeOK'
    BY <1>6 DEF NextRequest, TypeOK, RequestState, NewRequest
  <1>7. CASE Tick
    BY <1>7, TickTyped
  <1>8. CASE UNCHANGED vars
    BY <1>8 DEF vars, TypeOK
  <1> QED BY <1>1, <1>2, <1>3, <1>4, <1>5, <1>6, <1>7, <1>8 DEF Next

(* The shape of every variable, and no entry above the budget of its tool. *)
THEOREM TypeCorrect == Spec => []TypeOK
  BY TypeInit, TypeStep, PTL DEF Spec

(***************************************************************************)
(* The budget.                                                             *)
(*                                                                         *)
(* The plugin counts failures, the budget is about retries: they agree as  *)
(* long as no scan drops the entry of a request between two of its         *)
(* failures.  That an entry is young enough to survive is not a fact about *)
(* the entry alone: its age is at most the time waited since the last      *)
(* failure and the time the invocation has taken, so age plus what is left *)
(* to wait is bounded by the longest backoff plus the elapsed time.        *)
(***************************************************************************)
LiveStatus == {"new", "running", "waiting"}

Remembered(r) ==
  IF req[r].retries = 0
  THEN r \notin DOMAIN states
  ELSE /\ r \in DOMAIN states
       /\ states[r].failures = req[r].retries
       /\ states[r].age + req[r].left <= MaxBackoff + req[r].elapsed

LiveRequestsRemembered ==
  \A r \in Requests :
    /\ req[r].status = "new" => req[r].retries = 0
    /\ req[r].status \in LiveStatus =>
         req[r].elapsed <= MaxToolTime /\ Remembered(r)

BudgetInv == TypeOK /\ LiveRequestsRemembered /\ RetryBudget

(* The default configuration has 5 s of backoff against 300 s of TTL.      *)
FastEnough == MaxBackoff + MaxToolTime <= StateTTL

LEMMA LiveSurvivesScan ==
  ASSUME FastEnough, BudgetInv, NEW r \in Requests, NEW i,
         req[r].status \in LiveStatus, req[r].retries # 0
  PROVE  r \in Kept(i)
  <1>1. /\ r \in DOMAIN states
        /\ states[r].age + req[r].left <= MaxBackoff + req[r].elapsed
        /\ req[r].elapsed <= MaxToolTime
    BY DEF BudgetInv, LiveRequestsRemembered, Remembered
  <1>2. states[r].age \in Nat /\ req[r].left \in Nat /\ req[r].elapsed \in Nat
    BY <1>1, RetryAssumption DEF BudgetInv, TypeOK, ToolRetryState, RequestState
  <1>3. states[r].age <= StateTTL
    BY <1>1, <1>2, RetryAssumption DEF FastEnough
  <1> QED BY <1>1, <1>3 DEF Kept, KeepsRecent

(* Whatever a step does to other entries, a request whose own record and   *)
(* entry it leaves alone stays remembered.                                 *)
LEMMA Untouched ==
  ASSUME BudgetInv, NEW s \in Requests, req'[s] = req[s],
         s \in DOMAIN states' <=> s \in DOMAIN states,
         s \in DOMAIN states => states'[s] = states[s]
  PROVE  /\ req'[s].status = "new" => req'[s].retries = 0
         /\ req'[s].status \in LiveStatus =>
              req'[s].elapsed <= MaxToolTime /\ Remembered(s)'
         /\ req'[s].retries <= MaxRetries[s]
  BY DEF BudgetInv, LiveRequestsRemembered, Remembered, RetryBudget

(* A request that is over asks nothing of the map.                         *)
LEMMA Over ==
  ASSUME BudgetInv, NEW s \in Requests,
         req'[s].status \in {"done", "gone"}, req'[s].retries = req[s].retries
  PROVE  /\ req'[s].status = "new" => req'[s].retries = 0
         /\ req'[s].status \in LiveStatus =>
              req'[s].elapsed <= MaxToolTime /\ Remembered(s)'
         /\ req'[s].retries <= MaxRetries[s]
  BY DEF BudgetInv, LiveStatus, RetryBudget

(* Init and the steps of the gateway that touch one request. *)
LEMMA BudgetInit == Init => BudgetInv
  <1> SUFFICES ASSUME Init PROVE BudgetInv
    OBVIOUS
  <1>1. \A r \in Requests : req[r] = NewRequest
    BY DEF Init
  <1>2. DOMAIN states = {}
    BY DEF Init
  <1> QED BY <1>1, <1>2, TypeInit, RetryAssumption
      DEF BudgetInv, LiveRequestsRemembered, Remembered, RetryBudget, NewRequest

Failures(r) == (IF r \in Kept(Of[r]) THEN states[r].failures ELSE 0) + 1

(* The plugin's count is the number of retries granted, plus this failure. *)
LEMMA CountsRetries ==
  ASSUME FastEnough, BudgetInv, NEW r \in Requests, req[r].status = "running"
  PROVE  Failures(r) = req[r].retries + 1
  <1>1. CASE req[r].retries = 0
    <2>1. r \notin DOMAIN states
      BY <1>1 DEF BudgetInv, LiveRequestsRemembered, LiveStatus, Remembered
    <2> QED BY <2>1, <1>1, KeptIsKnown DEF Failures
  <1>2. CASE req[r].retries # 0
    <2>1. r \in Kept(Of[r])
      BY <1>2, LiveSurvivesScan DEF LiveStatus
    <2>2. states[r].failures = req[r].retries
      BY <1>2 DEF BudgetInv, LiveRequestsRemembered, LiveStatus, Remembered
    <2> QED BY <2>1, <2>2 DEF Failures
  <1> QED BY <1>1, <1>2

LEMMA FailureBudget ==
  ASSUME FastEnough, BudgetInv, NEW r \in Requests, Failure(r)
  PROVE  BudgetInv'
  <1>1. TypeOK /\ TypeOK'
    BY FailureTyped DEF BudgetInv, Failure
  <1>2. PICK result \in Results : PostFailure(r, result)
    BY DEF Failure
  <1> DEFINE kept == Kept(Of[r])
             failures == (IF r \in kept THEN states[r].failures ELSE 0) + 1
  <1>3. kept \subseteq DOMAIN states
    BY KeptIsKnown
  <1>4. req[r].status = "running" /\ req[r].retries \in Nat /\ req[r] \in RequestState
    BY <1>1, <1>2 DEF PostFailure, TypeOK, RequestState
  <1>5. failures = req[r].retries + 1
    BY <1>4, CountsRetries DEF Failures
  <1>6. ASSUME NEW s \in Requests, s # r
        PROVE  /\ req'[s] = req[s]
               /\ s \in DOMAIN states' <=> s \in kept
               /\ s \in kept => states'[s] = states[s]
    <2> HIDE DEF kept, failures
    <2>1. \/ \E a : /\ states' = [k \in kept \union {r} |-> IF k = r THEN a ELSE states[k]]
                   /\ \E b : req' = [req EXCEPT ![r] = b]
          \/ /\ states' = [k \in kept \ {r} |-> states[k]]
             /\ \E b : req' = [req EXCEPT ![r] = b]
      BY <1>2 DEF PostFailure, Forget, kept, failures
    <2> QED BY <2>1, <1>6, <1>1 DEF TypeOK
  (* The others: a scan may drop the entry only of a request that is over. *)
  <1>7. ASSUME NEW s \in Requests, s # r
        PROVE  /\ req'[s].status = "new" => req'[s].retries = 0
               /\ req'[s].status \in LiveStatus =>
                    req'[s].elapsed <= MaxToolTime /\ Remembered(s)'
               /\ req'[s].retries <= MaxRetries[s]
    <2>1. CASE req[s].status \in LiveStatus
      <3>1. s \in DOMAIN states => s \in kept
        BY <2>1, LiveSurvivesScan
           DEF BudgetInv, LiveRequestsRemembered, Remembered
      <3> QED BY <3>1, <1>3, <1>6, <1>7, Untouched
    <2>2. CASE req[s].status \notin LiveStatus
      BY <2>2, <1>6, <1>7 DEF BudgetInv, LiveStatus, RetryBudget
    <2> QED BY <2>1, <2>2
  <1>8. /\ req'[r].status = "new" => req'[r].retries = 0
        /\ req'[r].status \in LiveStatus =>
             req'[r].elapsed <= MaxToolTime /\ Remembered(r)'
        /\ req'[r].retries <= MaxRetries[r]
    <2>1. CASE WithinBudget(failures, r)
      <3>1. PICK delay \in Delays(Attempt(failures)) :
              req' = [req EXCEPT ![r] =
                IF delay > 0
                THEN [status |-> "waiting", left |-> delay, elapsed |-> 0,
                      retries |-> req[r].retries + 1]
                ELSE [@ EXCEPT !.status = "done"]]
        BY <2>1, <1>2 DEF PostFailure
      <3>2. /\ r \in DOMAIN states'
            /\ states'[r] = [failures |-> failures, age |-> 0]
        BY <2>1, <1>2 DEF PostFailure
      <3>3. delay \in Nat /\ delay <= MaxBackoff
        BY DelayBounded, RetryAssumption
      <3>4. CASE delay > 0
        <4>1. req'[r] = [status |-> "waiting", left |-> delay, elapsed |-> 0,
                         retries |-> req[r].retries + 1]
          BY <3>1, <3>4, <1>1 DEF TypeOK
        <4>2. req[r].retries + 1 <= MaxRetries[r]
          BY <2>1, <1>5 DEF WithinBudget
        <4>3. req[r].retries + 1 # 0 /\ 0 + delay <= MaxBackoff + 0 /\ 0 <= MaxToolTime
          BY <1>4, <3>3, RetryAssumption
        <4> HIDE DEF failures
        <4> QED BY <4>1, <4>2, <4>3, <3>2, <1>5 DEF Remembered
      <3>5. CASE ~(delay > 0)
        <4>1. req'[r] = [req[r] EXCEPT !.status = "done"]
          BY <3>1, <3>5, <1>1 DEF TypeOK
        <4> QED BY <4>1, <1>4, Over DEF RequestState
      <3> QED BY <3>4, <3>5
    <2>2. CASE ~WithinBudget(failures, r)
      <3>1. req'[r] = [req[r] EXCEPT !.status = "done"]
        BY <2>2, <1>1, <1>2 DEF PostFailure, TypeOK
      <3> QED BY <3>1, <1>4, Over DEF RequestState
    <2> QED BY <2>1, <2>2
  <1> HIDE DEF kept, failures
  <1> QED BY <1>1, <1>7, <1>8 DEF BudgetInv, LiveRequestsRemembered, RetryBudget

LEMMA TickBudget ==
  ASSUME BudgetInv, Tick
  PROVE  BudgetInv'
  <1>1. TypeOK /\ TypeOK'
    BY TickTyped DEF BudgetInv
  <1>2. ASSUME NEW r \in Requests
        PROVE  /\ req'[r].status = "new" => req'[r].retries = 0
               /\ req'[r].status \in LiveStatus =>
                    req'[r].elapsed <= MaxToolTime /\ Remembered(r)'
               /\ req'[r].retries <= MaxRetries[r]
    <2>1. req[r] \in RequestState
      BY <1>1 DEF TypeOK
    <2>2. DOMAIN states' = DOMAIN states
      BY DEF Tick
    <2>3. ASSUME r \in DOMAIN states
          PROVE  /\ states'[r].failures = states[r].failures
                 /\ states'[r].age <= states[r].age + 1
                 /\ states'[r].age \in Nat /\ states[r].age \in Nat
      <3>1. /\ states[r] \in ToolRetryState
            /\ states'[r] = [states[r] EXCEPT !.age = Lesser(states[r].age + 1, StateTTL + 1)]
        BY <2>3, <1>1 DEF Tick, TypeOK
      <3> QED BY <3>1, RetryAssumption DEF ToolRetryState, Lesser
    <2>4. CASE req[r].status = "waiting"
      <3>1. req'[r] = [req[r] EXCEPT !.left = req[r].left - 1] /\ req[r].left > 0
        BY <2>4 DEF Tick
      <3> QED BY <3>1, <2>1, <2>2, <2>3, <2>4, RetryAssumption
          DEF RequestState, BudgetInv, LiveRequestsRemembered, LiveStatus, Remembered, RetryBudget
    <2>5. CASE req[r].status = "running"
      <3>1. req'[r] = [req[r] EXCEPT !.elapsed = req[r].elapsed + 1]
            /\ req[r].elapsed < MaxToolTime
        BY <2>5 DEF Tick
      <3> QED BY <3>1, <2>1, <2>2, <2>3, <2>5, RetryAssumption
          DEF RequestState, BudgetInv, LiveRequestsRemembered, LiveStatus, Remembered, RetryBudget
    <2>6. CASE req[r].status \notin {"waiting", "running"}
      <3>1. req'[r] = req[r]
        BY <2>6 DEF Tick
      <3> QED BY <3>1, <2>1, <2>2, <2>6, RetryAssumption
          DEF RequestState, BudgetInv, LiveRequestsRemembered, LiveStatus, Remembered, RetryBudget
    <2> QED BY <2>4, <2>5, <2>6
  <1> QED BY <1>1, <1>2 DEF BudgetInv, LiveRequestsRemembered, RetryBudget

LEMMA BudgetStep ==
  ASSUME FastEnough
  PROVE  BudgetInv /\ [Next]_vars => BudgetInv'
  <1> SUFFICES ASSUME BudgetInv, [Next]_vars PROVE BudgetInv'
    OBVIOUS
  <1>0. TypeOK /\ TypeOK'
    BY TypeStep DEF BudgetInv
  <1> DEFINE Good(s) == /\ req'[s].status = "new" => req'[s].retries = 0
                        /\ req'[s].status \in LiveStatus =>
                             req'[s].elapsed <= MaxToolTime /\ Remembered(s)'
                        /\ req'[s].retries <= MaxRetries[s]
  <1>1. ASSUME NEW r \in Requests, Failure(r) PROVE BudgetInv'
    BY <1>1, FailureBudget
  <1>2. CASE Tick
    BY <1>2, TickBudget
  <1>3. ASSUME NEW r \in Requests, Success(r) PROVE \A s \in Requests : Good(s)
    <2> SUFFICES ASSUME NEW s \in Requests PROVE Good(s)
      OBVIOUS
    <2>1. /\ states' = [k \in DOMAIN states \ {r} |-> states[k]]
          /\ req' = [req EXCEPT ![r].status = "done"]
      BY <1>3 DEF Success, PostSuccess, Forget
    <2>2. CASE s = r
      BY <2>1, <2>2, <1>0, Over DEF TypeOK, RequestState
    <2>3. CASE s # r
      BY <2>1, <2>3, <1>0, Untouched DEF TypeOK
    <2> QED BY <2>2, <2>3
  <1>4. ASSUME NEW r \in Requests, Invoke(r) \/ Reinvoke(r) PROVE \A s \in Requests : Good(s)
    <2> SUFFICES ASSUME NEW s \in Requests PROVE Good(s)
      OBVIOUS
    <2>1. /\ states' = states
          /\ req' = [req EXCEPT ![r].status = "running"]
          /\ req[r].status \in LiveStatus
      BY <1>4 DEF Invoke, Reinvoke, LiveStatus
    <2>2. CASE s = r
      <3>1. req'[s] = [req[s] EXCEPT !.status = "running"] /\ req[s] \in RequestState
        BY <2>1, <2>2, <1>0 DEF TypeOK
      <3> QED BY <3>1, <2>1, <2>2
          DEF RequestState, BudgetInv, LiveRequestsRemembered, LiveStatus, Remembered, RetryBudget
    <2>3. CASE s # r
      BY <2>1, <2>3, <1>0, Untouched DEF TypeOK
    <2> QED BY <2>2, <2>3
  <1>5. ASSUME NEW r \in Requests, Abandon(r) PROVE \A s \in Requests : Good(s)
    <2> SUFFICES ASSUME NEW s \in Requests PROVE Good(s)
      OBVIOUS
    <2>1. /\ states' = states
          /\ req' = [req EXCEPT ![r].status = "gone"]
      BY <1>5 DEF Abandon
    <2>2. CASE s = r
      BY <2>1, <2>2, <1>0, Over DEF TypeOK, RequestState
    <2>3. CASE s # r
      BY <2>1, <2>3, <1>0, Untouched DEF TypeOK
    <2> QED BY <2>2, <2>3
  <1>6. ASSUME NEW r \in Requests, NextRequest(r) PROVE \A s \in Requests : Good(s)
    <2> SUFFICES ASSUME NEW s \in Requests PROVE Good(s)
      OBVIOUS
    <2>1. /\ states' = states
          /\ req' = [req EXCEPT ![r] = NewRequest]
          /\ r \notin DOMAIN states
      BY <1>6 DEF NextRequest
    <2>2. CASE s = r
      <3>1. req'[s] = NewRequest
        BY <2>1, <2>2, <1>0 DEF TypeOK
      <3> QED BY <3>1, <2>1, <2>2, RetryAssumption DEF NewRequest, Remembered
    <2>3. CASE s # r
      BY <2>1, <2>3, <1>0, Untouched DEF TypeOK
    <2> QED BY <2>2, <2>3
  <1>7. CASE UNCHANGED vars
    <2>1. states' = states /\ req' = req
      BY <1>7 DEF vars
    <2> QED BY <2>1, <1>0
        DEF BudgetInv, LiveRequestsRemembered, Remembered, RetryBudget
  <1>8. ASSUME \A s \in Requests : Good(s) PROVE BudgetInv'
    BY <1>0, <1>8 DEF BudgetInv, LiveRequestsRemembered, RetryBudget
  <1> HIDE DEF Good
  <1> QED BY <1>1, <1>2, <1>3, <1>4, <1>5, <1>6, <1>7, <1>8 DEF Next

(* README.md:39: however scans, requests and instances interleave, no      *)
(* request is retried more often than its budget allows, provided a        *)
(* backoff and a tool together take no longer than an entry is kept.       *)
THEOREM RetryBudgetHolds ==
  ASSUME FastEnough
  PROVE  Spec => []RetryBudget
  <1>1. BudgetInv => RetryBudget
    BY DEF BudgetInv
  <1> QED BY <1>1, BudgetInit, BudgetStep, PTL DEF Spec

(* plugin.rs:105 and delay.rs:18: without jitter, the n-th retry of a      *)
(* request waits as long as the n-th retry should, whatever other          *)
(* requests and scans happened in between.                                 *)
THEOREM BackoffHolds ==
  ASSUME FastEnough, Jitter = FALSE
  PROVE  Spec => BackoffFollowsRetries
  <1>1. ASSUME BudgetInv, [Next]_vars, NEW r \in Requests,
               req[r].status = "running", req'[r].status = "waiting"
        PROVE  req'[r].left = Ceiling(req[r].retries)
    <2>0. req \in [Requests -> RequestState] /\ req[r].retries \in Nat
      BY <1>1 DEF BudgetInv, TypeOK, RequestState
    <2>1. Failure(r)
      <3>1. req' # req
        BY <1>1
      <3>2. ASSUME NEW s \in Requests,
                   Success(s) \/ Invoke(s) \/ Reinvoke(s) \/ Abandon(s) \/ NextRequest(s)
            PROVE  FALSE
        <4>1. PICK b : req' = [req EXCEPT ![s] = b] /\ b.status # "waiting"
          BY <3>2, <2>0 DEF Success, PostSuccess, Invoke, Reinvoke, Abandon,
             NextRequest, NewRequest, RequestState
        <4> QED BY <4>1, <1>1, <2>0
      <3>3. ~Tick
        BY <1>1, <2>0 DEF Tick, RequestState
      <3>4. PICK s \in Requests : Failure(s)
        BY <1>1, <3>1, <3>2, <3>3 DEF Next, vars
      <3>5. s = r
        <4>1. PICK b : req' = [req EXCEPT ![s] = b]
          BY <3>4 DEF Failure, PostFailure
        <4> QED BY <4>1, <1>1, <2>0
      <3> QED BY <3>4, <3>5
    <2>2. Failures(r) = req[r].retries + 1
      BY <1>1, CountsRetries
    <2> DEFINE failures == Failures(r)
    <2>3. PICK delay \in Delays(Attempt(failures)) :
            req' = [req EXCEPT ![r] =
              IF delay > 0
              THEN [status |-> "waiting", left |-> delay, elapsed |-> 0,
                    retries |-> req[r].retries + 1]
              ELSE [@ EXCEPT !.status = "done"]]
      <3>1. PICK result \in Results : PostFailure(r, result)
        BY <2>1 DEF Failure
      <3>2. CASE WithinBudget(failures, r)
        BY <3>1, <3>2 DEF PostFailure, Failures
      <3>3. CASE ~WithinBudget(failures, r)
        <4>1. req' = [req EXCEPT ![r].status = "done"]
          BY <3>1, <3>3 DEF PostFailure, Failures
        <4> QED BY <4>1, <1>1, <2>0 DEF RequestState
      <3> QED BY <3>2, <3>3
    <2>4. req'[r].left = delay
      BY <2>0, <2>3, <1>1 DEF RequestState
    <2>5. delay = Ceiling(Attempt(failures))
      BY <2>3 DEF Delays
    <2>6. Attempt(failures) = req[r].retries
      BY <2>0, <2>2 DEF Attempt
    <2> QED BY <2>4, <2>5, <2>6
  <1>2. BudgetInv /\ [Next]_vars =>
          [\A r \in Requests :
             req[r].status = "running" /\ req'[r].status = "waiting" =>
               req'[r].left = Ceiling(req[r].retries)]_vars
    BY <1>1
  <1> QED BY <1>2, BudgetInit, BudgetStep, PTL DEF Spec, BackoffFollowsRetries
=============================================================================
