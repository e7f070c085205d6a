-------------------------- MODULE MCRedisCounters --------------------------
(***************************************************************************)
(* Instances of RedisCounters for TLC: two replicas, with the same clock   *)
(* or one ahead, with process ids of their own.                            *)
(***************************************************************************)
EXTENDS RedisCountersPromise

CONSTANTS r1, r2

Ahead(ticks) == [r \in Replicas |-> IF r = r1 THEN 0 ELSE ticks]
OwnPid == [r \in Replicas |-> IF r = r1 THEN 7 ELSE 8]

Deploy(algorithm, ahead, lag, pid) ==
  [algorithm |-> algorithm, skew |-> Ahead(ahead), lag |-> lag, pid |-> pid]

SkewedFixed == Deploy("fixed_window", 1, 1, OwnPid)
SkewedSliding == Deploy("sliding_window", 1, 1, OwnPid)
SkewedToken == Deploy("token_bucket", 2, 1, OwnPid)
PromptSliding == Deploy("sliding_window", 0, 0, OwnPid)

FourDeployments == {SkewedFixed, SkewedSliding, SkewedToken, PromptSliding}
OnlySkewedSliding == {SkewedSliding}

Horizons == [d \in Deployments |->
               CASE d = SkewedFixed -> StartTime + 13
                 [] d = PromptSliding -> StartTime + 10
                 [] OTHER -> StartTime + 9]
CallBounds == [d \in Deployments |-> IF d = SkewedFixed THEN 4 ELSE 3]
=============================================================================
