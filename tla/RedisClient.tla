---------------------------- MODULE RedisClient ----------------------------
(***************************************************************************)
(* How one gateway process reaches Redis                                   *)
(* (rate_limiter/src/redis_backend.rs, RedisRateLimiter): the cached       *)
(* connection, the cached SHA of the script, what a call does when either  *)
(* fails it, and what fail_mode makes of the error.                        *)
(*                                                                         *)
(* Both caches have a mutex of their own, released before every await, so  *)
(* calls interleave between any two of the actions below.  One window and  *)
(* one key: the counting is the subject of RedisCounters.                  *)
(***************************************************************************)
EXTENDS Integers, FiniteSets

CONSTANTS
  Callers,     \* concurrent calls of the process
  Limit,       \* calls that the window admits
  MaxCalls,    \* bound: calls that are ever started
  MaxFaults    \* bound: faults of the network and of Redis

ASSUME ClientAssumption ==
  /\ IsFiniteSet(Callers)
  /\ Limit \in Nat \ {0}
  /\ MaxCalls \in Nat /\ MaxFaults \in Nat

VARIABLES
  failClosed, \* fail_mode, fixed by the configuration
  conn,      \* the cached connection; None is 0
  sha,       \* is the SHA of the script cached?
  call,      \* the call of each caller
  stopping,  \* how far shutdown() has come
  opened,    \* connections opened so far, numbered from 1
  dead,      \* connections that are lost
  up,        \* does Redis answer?
  loaded,    \* does Redis have the script?
  counter,   \* calls counted in the window
  started, faults, admitted, failures,  \* history: how many of each
  failedOn   \* history: the connections that have failed a caller

client == <<failClosed, conn, sha, stopping>>
redis == <<opened, dead, up, loaded, counter>>
history == <<started, faults, admitted, failures, failedOn>>
vars == <<call, client, redis, history>>

None == 0

Idle == [pc |-> "idle", conn |-> None, runs |-> 0]

PCs == {"idle", "lookup", "connect", "store", "sha", "load", "storesha",
        "evalsha", "noscript", "eval", "resetconn", "resetsha"}

Init ==
  /\ failClosed \in BOOLEAN
  /\ conn = None /\ sha = FALSE /\ stopping = "no"
  /\ call = [c \in Callers |-> Idle]
  /\ opened = 0 /\ dead = {} /\ up = TRUE /\ loaded = FALSE /\ counter = 0
  /\ started = 0 /\ faults = 0 /\ admitted = 0 /\ failures = 0
  /\ failedOn = [c \in Callers |-> {}]

At(c, pc) == call[c].pc = pc
Go(c, pc) == call' = [call EXCEPT ![c].pc = pc]
GoWith(c, pc, h) == call' = [call EXCEPT ![c] = [call[c] EXCEPT !.pc = pc, !.conn = h]]

(***************************************************************************)
(* connection_async                                                        *)
(***************************************************************************)
Start(c) ==
  /\ At(c, "idle")
  /\ started < MaxCalls /\ stopping = "no"
  /\ Go(c, "lookup")
  /\ started' = started + 1
  /\ UNCHANGED <<client, redis, faults, admitted, failures, failedOn>>

Lookup(c) ==
  /\ At(c, "lookup")
  /\ \/ conn # None /\ GoWith(c, "sha", conn)
     \/ conn = None /\ Go(c, "connect")
  /\ UNCHANGED <<client, redis, history>>

Connect(c) ==
  /\ At(c, "connect")
  /\ up
  /\ opened' = opened + 1
  /\ GoWith(c, "store", opened')
  /\ UNCHANGED <<client, dead, up, loaded, counter, history>>

(* Another caller may have connected in the meantime: its connection stays. *)
StoreConn(c) ==
  /\ At(c, "store")
  /\ conn' = IF conn = None THEN call[c].conn ELSE conn
  /\ GoWith(c, "sha", conn')
  /\ UNCHANGED <<failClosed, sha, stopping, redis, history>>

(***************************************************************************)
(* What the plugin answers: the verdict of the script, or for an error     *)
(* what fail_mode says.                                                    *)
(***************************************************************************)
AdmitsOnError == ~failClosed

Fail(c) ==
  /\ call' = [call EXCEPT ![c] = Idle]
  /\ failures' = failures + 1
  /\ admitted' = IF AdmitsOnError THEN admitted + 1 ELSE admitted

(* An error of the connect is returned at once, and resets nothing. *)
NeverTimesOut == FALSE                                        \* mutant
ConnectTimesOut == ~up

ConnectFails(c) ==
  /\ At(c, "connect")
  /\ ConnectTimesOut
  /\ Fail(c)
  /\ UNCHANGED <<client, redis, started, faults, failedOn>>

(***************************************************************************)
(* ensure_script_loaded: any error of SCRIPT LOAD falls through to EVAL.   *)
(***************************************************************************)
Answers(c) == up /\ call[c].conn \notin dead

ReadSha(c) ==
  /\ At(c, "sha")
  /\ Go(c, IF sha THEN "evalsha" ELSE "load")
  /\ UNCHANGED <<client, redis, history>>

Load(c) ==
  /\ At(c, "load")
  /\ \/ Answers(c) /\ loaded' = TRUE /\ Go(c, "storesha")
     \/ ~Answers(c) /\ Go(c, "eval") /\ UNCHANGED loaded
  /\ UNCHANGED <<client, opened, dead, up, counter, history>>

StoreSha(c) ==
  /\ At(c, "storesha")
  /\ sha' = TRUE
  /\ Go(c, "evalsha")
  /\ UNCHANGED <<failClosed, conn, stopping, redis, history>>

(***************************************************************************)
(* evalsha_or_eval                                                         *)
(***************************************************************************)
WithinLimit(count) == count <= Limit

(* Redis runs the script and the caller reads its reply. *)
Verdict(c) ==
  /\ counter' = counter + 1
  /\ admitted' = IF WithinLimit(counter') THEN admitted + 1 ELSE admitted
  /\ call' = [call EXCEPT ![c] = Idle]
  /\ UNCHANGED <<client, opened, dead, up, started, faults, failures, failedOn>>

NoScriptFails == "resetconn"                                  \* mutant
AfterNoScript == "noscript"

EvalSha(c) ==
  /\ At(c, "evalsha") /\ Answers(c)
  /\ \/ loaded /\ Verdict(c) /\ UNCHANGED loaded
     \/ ~loaded /\ Go(c, AfterNoScript) /\ UNCHANGED <<client, redis, history>>

ClearSha(c) ==
  /\ At(c, "noscript")
  /\ sha' = FALSE
  /\ Go(c, "eval")
  /\ UNCHANGED <<failClosed, conn, stopping, redis, history>>

Eval(c) ==
  /\ At(c, "eval") /\ Answers(c)
  /\ loaded' = TRUE
  /\ Verdict(c)

(* The query fails: Redis is silent, or the connection is lost ... *)
FallsBackToEval(c) == IF At(c, "evalsha") THEN "eval" ELSE "resetconn"   \* mutant
AfterQueryError(c) == "resetconn"

QueryFails(c) ==
  /\ call[c].pc \in {"evalsha", "eval"}
  /\ ~Answers(c)
  /\ Go(c, AfterQueryError(c))
  /\ UNCHANGED <<client, redis, history>>

(* ... or only its reply is, after the script has run. *)
ReplyLost(c) ==
  /\ At(c, "eval") \/ (At(c, "evalsha") /\ loaded)
  /\ Answers(c)
  /\ faults < MaxFaults
  /\ faults' = faults + 1
  /\ loaded' = TRUE
  /\ counter' = counter + 1
  /\ call' = [call EXCEPT ![c] = [call[c] EXCEPT !.pc = AfterQueryError(c), !.runs = @ + 1]]
  /\ UNCHANGED <<client, opened, dead, up, started, admitted, failures, failedOn>>

(***************************************************************************)
(* reset_connection, under one mutex after the other, and the error.       *)
(***************************************************************************)
KeepConn(cached) == cached                                    \* mutant
AfterReset(cached) == None

ResetConn(c) ==
  /\ At(c, "resetconn")
  /\ conn' = AfterReset(conn)
  /\ Go(c, "resetsha")
  /\ UNCHANGED <<failClosed, sha, stopping, redis, history>>

ResetSha(c) ==
  /\ At(c, "resetsha")
  /\ sha' = FALSE
  /\ Fail(c)
  /\ failedOn' = [failedOn EXCEPT ![c] = @ \union {call[c].conn}]
  /\ UNCHANGED <<failClosed, conn, stopping, redis, started, faults>>

(* shutdown(): the gateway starts no call any more; some may be in flight. *)
Shutdown ==
  \/ /\ stopping = "no"
     /\ stopping' = "conn dropped" /\ conn' = None
     /\ UNCHANGED <<failClosed, sha, call, redis, history>>
  \/ /\ stopping = "conn dropped"
     /\ stopping' = "stopped" /\ sha' = FALSE
     /\ UNCHANGED <<failClosed, conn, call, redis, history>>

(***************************************************************************)
(* Redis and the network.  A restart keeps the data set, not the scripts.  *)
(***************************************************************************)
Fault ==
  /\ faults < MaxFaults
  /\ faults' = faults + 1
  /\ \/ \E h \in 1..opened : dead' = dead \union {h} /\ UNCHANGED <<up, loaded>>
     \/ dead' = 1..opened /\ loaded' = FALSE /\ UNCHANGED up
     \/ up /\ up' = FALSE /\ UNCHANGED <<dead, loaded>>
  /\ UNCHANGED <<call, client, opened, counter, started, admitted, failures, failedOn>>

Recover ==
  /\ ~up /\ up' = TRUE
  /\ UNCHANGED <<call, client, opened, dead, loaded, counter, history>>

ScriptFlush ==
  /\ loaded /\ loaded' = FALSE
  /\ UNCHANGED <<call, client, opened, dead, up, counter, history>>

Step(c) ==
  \/ Lookup(c) \/ Connect(c) \/ ConnectFails(c) \/ StoreConn(c)
  \/ ReadSha(c) \/ Load(c) \/ StoreSha(c)
  \/ EvalSha(c) \/ ClearSha(c) \/ Eval(c) \/ QueryFails(c) \/ ReplyLost(c)
  \/ ResetConn(c) \/ ResetSha(c)

Next ==
  \/ \E c \in Callers : Start(c) \/ Step(c)
  \/ Shutdown \/ Fault \/ Recover \/ ScriptFlush

Spec == Init /\ [][Next]_vars

(* Every await of a call ends: a command is answered, refused, or times    *)
(* out (2 s for the connect, the client library's own for a command).      *)
FairSpec == Spec /\ \A c \in Callers : WF_vars(Step(c))

(***************************************************************************)
(* Properties.                                                             *)
(***************************************************************************)

(* redis_backend.rs:618 falls back from EVALSHA to EVAL, and to no other   *)
(* error: a call whose script has run is never run again, so that no call  *)
(* is counted twice; and fail_mode "closed" never admits more than the     *)
(* limit, whatever fails, "open" beyond it only the calls Redis failed.    *)
CountedOnce ==
  /\ counter + Cardinality({c \in Callers : ~At(c, "idle") /\ call[c].runs = 0})
       <= started
  /\ \A c \in Callers : call[c].runs = 1 => call[c].pc \in {"resetconn", "resetsha"}
  /\ admitted <= Limit + IF failClosed THEN 0 ELSE failures

(* redis_backend.rs:619.  That Redis has lost the script, at any time, is  *)
(* never seen by a call: without a fault no call fails.                    *)
FlushIsHarmless == failures > 0 => faults > 0

(* redis_backend.rs:703.  A caller that a connection has failed is never   *)
(* given it again: one lost connection costs each caller at most one call. *)
NeverGivenAgain ==
  \A c \in Callers : call[c].conn \notin failedOn[c]

(* redis_backend.rs:533.  A Redis that accepts and never answers does not  *)
(* hang a call: each is answered.                                          *)
EveryCallAnswered ==
  \A c \in Callers : ~At(c, "idle") ~> At(c, "idle")

=============================================================================
