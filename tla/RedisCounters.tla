--------------------------- MODULE RedisCounters ---------------------------
(***************************************************************************)
(* Gateway replicas that share one counter in Redis                        *)
(* (rate_limiter/src/redis_backend.rs, evaluate_many_async).               *)
(*                                                                         *)
(* A replica reads its own Unix clock before it talks to Redis; the script *)
(* runs later, atomically.  The replicas' clocks disagree, and a reading   *)
(* may be old when the script runs.                                        *)
(* The keys of a batch do not interact, so one key stands for them all.    *)
(***************************************************************************)
EXTENDS RedisScripts, Sequences, FiniteSetsExt

CONSTANTS
  Replicas,
  Deployments,   \* what may have been deployed
  StartTime,     \* first tick
  MaxCalls,      \* bound: values of MEMBER_CTR and of a window's counter, per deployment
  MaxTime        \* bound: last tick, per deployment

(* A deployment has the configured algorithm, how far the clock of each    *)
(* replica is ahead, one of them furthest, std::process::id() of each, and *)
(* a bound on the ticks from a reading to its script.                      *)
ASSUME CounterAssumption ==
  /\ \A d \in Deployments :
       /\ d.algorithm \in {"fixed_window", "sliding_window", "token_bucket"}
       /\ d.skew \in [Replicas -> Nat] /\ d.pid \in [Replicas -> Nat]
       /\ \E most \in Replicas : \A r \in Replicas : d.skew[r] <= d.skew[most]
       /\ d.lag \in Nat
  /\ StartTime \in Nat /\ Window * TicksPerSec < StartTime
  /\ MaxCalls \in [Deployments -> Nat] /\ MaxTime \in [Deployments -> Nat]

VARIABLES
  deployment, \* what is deployed
  now,        \* the clock of Redis
  entry,      \* what Redis has under the key
  memberCtr,  \* MEMBER_CTR of each replica
  call,       \* the request of each replica
  admitted    \* history: when the admitted calls ran their script

vars == <<deployment, now, entry, memberCtr, call, admitted>>

Algorithm == deployment.algorithm
MaxLag == deployment.lag
MaxSkew == Max({deployment.skew[r] : r \in Replicas})

Idle == [pc |-> "idle", issued |-> 0, ctr |-> 0, allowed |-> FALSE, retry |-> 0]

Init ==
  /\ deployment \in Deployments
  /\ now = StartTime
  /\ entry = NoEntry
  /\ memberCtr = [r \in Replicas |-> 0]
  /\ call = [r \in Replicas |-> Idle]
  /\ admitted = << >>

(* now_unix of a replica at a tick of the Redis clock. *)
Reading(r, t) == (t + deployment.skew[r]) \div TicksPerSec

(* unique_member: the reading, the process id and a counter per process. *)
MemberWithoutCtr(r, reading, n) ==                            \* mutant
  [score |-> reading, pid |-> deployment.pid[r], ctr |-> 0]
UniqueMember(r, reading, n) ==
  [score |-> reading, pid |-> deployment.pid[r], ctr |-> n]

Script(e, r, t, reading, n) ==
  CASE Algorithm = "fixed_window" -> FixedScript(e, t)
    [] Algorithm = "sliding_window" ->
         SlidingScript(e, t, reading, UniqueMember(r, reading, n))
    [] Algorithm = "token_bucket" -> TokenScript(e, t, reading)

WithinBounds(r) ==
  /\ Algorithm = "sliding_window" => memberCtr[r] < MaxCalls[deployment]
  /\ (Algorithm = "fixed_window" /\ Live(entry, now)) => entry.value < MaxCalls[deployment]

(* The replica reads its clock, takes a member and sends the script. *)
Send(r) ==
  /\ call[r].pc = "idle"
  /\ WithinBounds(r)
  /\ call' = [call EXCEPT ![r] =
                [Idle EXCEPT !.pc = "sent", !.issued = now, !.ctr = memberCtr[r]]]
  /\ memberCtr' = IF Algorithm = "sliding_window"
                  THEN [memberCtr EXCEPT ![r] = @ + 1] ELSE memberCtr
  /\ UNCHANGED <<deployment, now, entry, admitted>>

(* Redis runs the script, and the replica reads the verdict in its reply. *)
Run(r) ==
  /\ call[r].pc = "sent"
  /\ LET out == Script(entry, r, now, Reading(r, call[r].issued), call[r].ctr)
     IN /\ entry' = out.entry
        /\ call' = [call EXCEPT ![r] =
                      [call[r] EXCEPT !.pc = "answered", !.allowed = out.allowed, !.retry = out.retry]]
        /\ admitted' = IF out.allowed THEN Append(admitted, now) ELSE admitted
  /\ UNCHANGED <<deployment, now, memberCtr>>

Return(r) ==
  /\ call[r].pc = "answered"
  /\ call' = [call EXCEPT ![r] = Idle]
  /\ UNCHANGED <<deployment, now, entry, memberCtr, admitted>>

(* Time passes; an entry whose time has come is gone. *)
Tick ==
  /\ now < MaxTime[deployment]
  /\ \A r \in Replicas : call[r].pc = "sent" => now + 1 - call[r].issued <= MaxLag
  /\ now' = now + 1
  /\ entry' = IF Live(entry, now + 1) THEN entry ELSE NoEntry
  /\ UNCHANGED <<deployment, memberCtr, call, admitted>>

Next ==
  \/ \E r \in Replicas : Send(r) \/ Run(r) \/ Return(r)
  \/ Tick

Spec == Init /\ [][Next]_vars

(***************************************************************************)
(* Properties.                                                             *)
(***************************************************************************)

(* The admitted calls of the d ticks that start at a. *)
AdmittedIn(a, d) ==
  {i \in DOMAIN admitted : a <= admitted[i] /\ admitted[i] < a + d}

WindowTicks == Window * TicksPerSec

(* A reading loses the fraction of a second, the lag of the call, and is   *)
(* off by the skew of the clock.                                           *)
Slack == TicksPerSec - 1 + MaxLag + MaxSkew

(* README.md:132 "the configured limit is the true cluster-wide limit": no *)
(* span of a sliding window, less what the replicas' clocks may be off,    *)
(* sees more than the limit over all replicas; of a fixed window, which    *)
(* Redis alone counts, twice the limit at a boundary (README.md:107) and   *)
(* no more, whatever the clocks.                                           *)
ClusterWindows ==
  /\ Algorithm = "fixed_window" => \A a \in StartTime..now :
       Cardinality(AdmittedIn(a, WindowTicks)) <= 2 * Limit
  /\ Algorithm = "sliding_window" => \A a \in StartTime..now :
       Cardinality(AdmittedIn(a, WindowTicks - Slack)) <= Limit

(* An expired key forgets by how much the clock of its last refill was     *)
(* ahead; the second that its TTL is rounded up by makes up for some of    *)
(* that.  No key expires within two seconds of a write.                    *)
Regained == Larger(0, Slack - TicksPerSec)
Expiries(ticks) == ticks \div (2 * TicksPerSec)

(* A bucket shared by replicas whose clocks disagree, so that a refill may *)
(* be negative, still grants between any two admitted calls at most its    *)
(* capacity, the refill of the time between them, and what it regains      *)
(* whenever its key expires.                                               *)
ClusterTokenRate ==
  Algorithm = "token_bucket" => \A i, j \in DOMAIN admitted :
    LET apart == admitted[j] - admitted[i]
    IN i <= j =>
         (j - i + 1) * WindowTicks
           <= Limit * WindowTicks
              + Limit * (apart + Slack + Expiries(apart) * Regained)

(* test_redis_integration.py:1340 "After the sliding window elapses, Redis *)
(* TTL must reset the sorted set": a key outlives its last call by at most *)
(* a window and a second.                                                  *)
IdleKeyExpires ==
  entry # NoEntry =>
    entry.expires \in now + 1..now + (Window + 1) * TicksPerSec

(* types.rs:24.  A replica that comes back after the advertised seconds,   *)
(* and finds that nobody has called since, is allowed; the TTL of a fixed  *)
(* window is rounded, so there it may take a second more.                  *)
RetryWorks ==
  [][\A r \in Replicas :
       call'[r].pc = "answered" /\ call[r].pc = "sent" /\ ~call'[r].allowed =>
         LET grace == IF Algorithm = "fixed_window" THEN 1 ELSE 0
             t == now + (call'[r].retry + grace) * TicksPerSec
         IN Script(entry', r, t, Reading(r, t), memberCtr'[r]).allowed]_vars
=============================================================================
