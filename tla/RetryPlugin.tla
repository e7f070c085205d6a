---------------------------- MODULE RetryPlugin ----------------------------
(***************************************************************************)
(* The retry plugin (retry_with_backoff/src/plugin.rs, state.rs, delay.rs) *)
(* and the gateway that obeys it.                                          *)
(*                                                                         *)
(* After each invocation of a tool the gateway calls tool_post_invoke.     *)
(* The plugin counts the consecutive failures of the (tool, request_id)    *)
(* pair in a map of its own and answers with a delay: a positive one asks  *)
(* the gateway to wait and invoke the tool again, zero to stop.  A         *)
(* throttled scan drops the entries that have not failed for StateTTL; the *)
(* moment of the last scan is one static, shared by all plugin instances   *)
(* of the process.                                                         *)
(*                                                                         *)
(* Time is relative: an entry has an age, and ages stop growing where      *)
(* nothing tells them apart.  A member of Requests stands for a (tool,     *)
(* request_id) pair; once it is over and forgotten its name is used for    *)
(* the next one.                                                           *)
(***************************************************************************)
EXTENDS Integers

CONSTANTS
  Instances,      \* plugin instances of the process, each with its own map
  Requests,       \* (tool, request_id) pairs
  Of,             \* [Requests -> Instances]: the instance that serves it
  Abandonable,    \* requests whose client may go away without an outcome
  MaxRetries,     \* [Requests -> 0..10]: the budget of the request's tool
  BackoffBase,    \* backoff_base_ms, in ticks
  MaxBackoff,     \* max_backoff_ms, in ticks
  Jitter,         \* jitter
  CheckText,      \* check_text_content
  StateTTL,       \* STATE_TTL_SECS, in ticks
  EvictInterval,  \* EVICT_INTERVAL_MS, in ticks
  MaxToolTime     \* bound: ticks one invocation of a tool takes

ASSUME RetryAssumption ==
  /\ Of \in [Requests -> Instances]
  /\ Abandonable \subseteq Requests
  /\ MaxRetries \in [Requests -> 0..10]
  /\ BackoffBase \in Nat \ {0}
  /\ MaxBackoff \in Nat /\ BackoffBase <= MaxBackoff
  /\ Jitter \in BOOLEAN
  /\ CheckText \in BOOLEAN
  /\ StateTTL \in Nat
  /\ EvictInterval \in Nat
  /\ MaxToolTime \in Nat

VARIABLES
  states,         \* the maps of all instances, keyed by request
  sinceEviction,  \* ticks since PLUGIN_LAST_EVICTION_MS, up to EvictInterval
  req             \* what the gateway is doing with each request

vars == <<states, sinceEviction, req>>

Lesser(a, b) == IF a <= b THEN a ELSE b

(***************************************************************************)
(* The result of a tool, as far as the plugin looks at it: the top-level   *)
(* flag, the structured content if there is any, and what the JSON objects *)
(* in its text items say between them.  A status code is in                *)
(* retry_on_status or it is not.                                           *)
(***************************************************************************)
Signals == [isError: BOOLEAN, status: {"none", "retriable", "other"}]
NoSignal == [isError |-> FALSE, status |-> "none"]

Results ==
  {result \in [isError: BOOLEAN, hasStructured: BOOLEAN,
               structured: Signals, text: Signals] :
     ~result.hasStructured => result.structured = NoSignal}

(* is_failure: only the top-level flag yields to a status that is not      *)
(* retriable, and text is read only when there is no structured content.   *)
IsFailure(result) ==
  IF result.isError
  THEN result.structured.status # "other"
  ELSE \/ result.structured.isError
       \/ result.structured.status = "retriable"
       \/ /\ CheckText
          /\ ~result.hasStructured
          /\ result.text.isError \/ result.text.status = "retriable"

(***************************************************************************)
(* compute_delay_ms.  Both saturating operations of the code lie under the *)
(* .min(max_ms), so they never show.                                       *)
(***************************************************************************)
Ceiling(attempt) == Lesser(BackoffBase * 2^attempt, MaxBackoff)

Delays(attempt) ==
  {delay \in 0..MaxBackoff :
     IF Jitter THEN delay <= Ceiling(attempt) ELSE delay = Ceiling(attempt)}

----------------------------------------------------------------------------
(***************************************************************************)
(* State.                                                                  *)
(***************************************************************************)
ToolRetryState == [failures: Nat, age: 0..(StateTTL + 1)]

RequestState ==
  [status: {"new", "running", "waiting", "done", "gone"},
   left: Nat,      \* ticks until the gateway invokes the tool again
   elapsed: Nat,   \* ticks the invocation in progress has taken
   retries: Nat]   \* retries granted so far

NewRequest == [status |-> "new", left |-> 0, elapsed |-> 0, retries |-> 0]

Init ==
  /\ states = [k \in {} |-> NewRequest]
  /\ sinceEviction = 0
  /\ req = [r \in Requests |-> NewRequest]

(***************************************************************************)
(* The plugin.                                                             *)
(***************************************************************************)

KeepsNone(i) == {}                                            \* mutant
KeepsAll(i) == DOMAIN states                                  \* mutant
KeepsRecent(i) ==
  {k \in DOMAIN states : Of[k] = i => states[k].age <= StateTTL}

(* maybe_evict_stale, on the map of instance i. *)
EvictionDue == sinceEviction >= EvictInterval
Kept(i) == IF EvictionDue THEN KeepsRecent(i) ELSE DOMAIN states

WithinBudget(failures, r) == failures <= MaxRetries[r]

AttemptNotReduced(failures) == failures                       \* mutant
Attempt(failures) == failures - 1

Forget(kept, r) == kept \ {r}

(* A failure: evict, count it, and spend the budget. *)
PostFailure(r, result) ==
  /\ req[r].status = "running"
  /\ IsFailure(result)
  /\ sinceEviction' = IF EvictionDue THEN 0 ELSE sinceEviction
  /\ LET kept == Kept(Of[r])
         failures == (IF r \in kept THEN states[r].failures ELSE 0) + 1
     IN \/ /\ WithinBudget(failures, r)
           /\ states' = [k \in kept \union {r} |->
                           IF k = r THEN [failures |-> failures, age |-> 0]
                           ELSE states[k]]
           /\ \E delay \in Delays(Attempt(failures)) :
                req' = [req EXCEPT ![r] =
                  IF delay > 0
                  THEN [status |-> "waiting", left |-> delay, elapsed |-> 0,
                        retries |-> req[r].retries + 1]
                  ELSE [@ EXCEPT !.status = "done"]]
        \/ /\ ~WithinBudget(failures, r)
           /\ states' = [k \in Forget(kept, r) |-> states[k]]
           /\ req' = [req EXCEPT ![r].status = "done"]

(* Anything else clears the state of the pair, without a scan. *)
PostSuccess(r, result) ==
  /\ req[r].status = "running"
  /\ ~IsFailure(result)
  /\ states' = [k \in Forget(DOMAIN states, r) |-> states[k]]
  /\ req' = [req EXCEPT ![r].status = "done"]
  /\ UNCHANGED sinceEviction

(***************************************************************************)
(* The gateway and its clients.                                            *)
(***************************************************************************)

Invoke(r) ==
  /\ req[r].status = "new"
  /\ req' = [req EXCEPT ![r].status = "running"]
  /\ UNCHANGED <<states, sinceEviction>>

Reinvoke(r) ==
  /\ req[r].status = "waiting"
  /\ req[r].left = 0
  /\ req' = [req EXCEPT ![r].status = "running"]
  /\ UNCHANGED <<states, sinceEviction>>

(* The client disconnects, and the plugin is never told. *)
Abandon(r) ==
  /\ r \in Abandonable
  /\ req[r].status \in {"running", "waiting"}
  /\ req' = [req EXCEPT ![r].status = "gone"]
  /\ UNCHANGED <<states, sinceEviction>>

NextRequest(r) ==
  /\ req[r].status \in {"done", "gone"}
  /\ r \notin DOMAIN states
  /\ req' = [req EXCEPT ![r] = NewRequest]
  /\ UNCHANGED <<states, sinceEviction>>

(* Time passes: a retry is made when it is due, and an invocation ends     *)
(* within MaxToolTime.                                                     *)
Tick ==
  /\ \A r \in Requests :
       /\ req[r].status = "waiting" => req[r].left > 0
       /\ req[r].status = "running" => req[r].elapsed < MaxToolTime
  /\ states' = [k \in DOMAIN states |->
                  [states[k] EXCEPT !.age = Lesser(@ + 1, StateTTL + 1)]]
  /\ sinceEviction' = Lesser(sinceEviction + 1, EvictInterval)
  /\ req' = [r \in Requests |->
       CASE req[r].status = "waiting" -> [req[r] EXCEPT !.left = @ - 1]
         [] req[r].status = "running" -> [req[r] EXCEPT !.elapsed = @ + 1]
         [] OTHER -> req[r]]

Failure(r) == \E result \in Results : PostFailure(r, result)
Success(r) == \E result \in Results : PostSuccess(r, result)

Next ==
  \/ \E r \in Requests :
       \/ Failure(r) \/ Success(r)
       \/ Invoke(r) \/ Reinvoke(r) \/ Abandon(r) \/ NextRequest(r)
  \/ Tick

Spec == Init /\ [][Next]_vars

(* The traffic goes on: time passes, requests and retries are made, tools  *)
(* return, and every instance sees tools fail again and again.             *)
Traffic ==
  /\ WF_vars(Tick)
  /\ \A r \in Requests :
       WF_vars(Invoke(r)) /\ WF_vars(Reinvoke(r)) /\ WF_vars(NextRequest(r))
  /\ \A r \in Requests : WF_vars(Failure(r) \/ Success(r))
  /\ \A i \in Instances : SF_vars(\E r \in Requests : Of[r] = i /\ Failure(r))

FairSpec == Spec /\ Traffic

(***************************************************************************)
(* Properties.                                                             *)
(***************************************************************************)

(* Every variable keeps its shape; an entry stays within the budget of its *)
(* tool, since the failure that exceeds it removes the entry               *)
(* (plugin.rs:128).                                                        *)
TypeOK ==
  /\ DOMAIN states \subseteq Requests
  /\ \A k \in DOMAIN states :
       states[k] \in ToolRetryState /\ states[k].failures \in 1..MaxRetries[k]
  /\ sinceEviction \in 0..EvictInterval
  /\ req \in [Requests -> RequestState]

(* README.md:39 "max_retries: maximum retry attempts before giving up".    *)
(* However scans, other requests and other instances interleave, a request *)
(* is retried at most as often as its budget allows.                       *)
RetryBudget == \A r \in Requests : req[r].retries <= MaxRetries[r]

(* delay.rs:18, plugin.rs:100.  The n-th retry of a request waits as long  *)
(* as the n-th retry should: no scan, of whichever request triggers it,    *)
(* sets the backoff of a live request back to its start.                   *)
BackoffFollowsRetries ==
  [][\A r \in Requests :
       req[r].status = "running" /\ req'[r].status = "waiting" =>
         req'[r].left = Ceiling(req[r].retries)]_vars

(* README.md:59 "Retry state expires after a short TTL so abandoned        *)
(* request state does not accumulate indefinitely".                        *)
AbandonedStateExpires ==
  \A r \in Requests :
    (req[r].status = "gone") ~> (r \notin DOMAIN states)
=============================================================================
