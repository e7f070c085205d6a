------------------------ MODULE RedisCountersPromise ------------------------
(***************************************************************************)
(* The sorted set in Redis as an implementation of SlidingWindowPromise,   *)
(* in whole seconds.  The promise is made by a sliding window whose        *)
(* replicas' clocks agree and whose calls take no time: of other           *)
(* deployments the mapping shows only the clock.                           *)
(***************************************************************************)
EXTENDS RedisCounters

PromiseMade == Algorithm = "sliding_window" /\ MaxLag = 0 /\ MaxSkew = 0

Second(t) == t \div TicksPerSec

(* The log is the history of admitted calls; the verdict is that of a      *)
(* reply which has not been returned yet.                                  *)
PromiseLog ==
  [k \in {"key"} |-> IF PromiseMade
                     THEN [i \in DOMAIN admitted |-> Second(admitted[i])]
                     ELSE << >>]

PromiseVerdicts ==
  [r \in Replicas |-> IF PromiseMade /\ call[r].pc = "answered"
                      THEN <<call[r].allowed>> ELSE << >>]

Promise == INSTANCE SlidingWindowPromise WITH
  Callers <- Replicas,
  Keys <- {"key"},
  Limit <- [k \in {"key"} |-> Limit],
  Window <- [k \in {"key"} |-> Window],
  StartTime <- Second(StartTime),
  now <- Second(now),
  log <- PromiseLog,
  verdicts <- PromiseVerdicts

(* redis_backend.rs:44.  When clocks agree and a call takes no time, the   *)
(* sorted set, its expiry and its purge take every decision of the log.    *)
ImplementsPromise == Promise!Spec
=============================================================================
