------------------------- MODULE RedisClientProofs -------------------------
(***************************************************************************)
(* Theorems about RedisClient, for every number of callers, calls and      *)
(* faults and every limit.                                                 *)
(***************************************************************************)
EXTENDS RedisClient, FiniteSetTheorems, TLAPS

(***************************************************************************)
(* Types, and where the script may have run for a call: only where it is   *)
(* given up.                                                               *)
(***************************************************************************)
CallState == [pc: PCs, conn: Nat, runs: {0, 1}]

RunsLast ==
  \A c \in Callers : call[c].runs = 1 => call[c].pc \in {"resetconn", "resetsha"}

Types ==
  /\ conn \in Nat /\ opened \in Nat /\ dead \subseteq Nat /\ counter \in Nat
  /\ started \in Nat /\ faults \in Nat /\ admitted \in Nat /\ failures \in Nat
  /\ call \in [Callers -> CallState]
  /\ failedOn \in [Callers -> SUBSET Nat]

LEMMA TypesInit == Init => Types
  BY DEF Init, Types, Idle, CallState, PCs, None

(* A lost reply: the script has run for the call that is given up.         *)
LEMMA ReplyLostEffect ==
  ASSUME Types, RunsLast, NEW c \in Callers, ReplyLost(c)
  PROVE  /\ call' \in [Callers -> CallState]
         /\ \A d \in Callers : d # c => call'[d] = call[d]
         /\ call'[c].pc = "resetconn" /\ call'[c].runs = 1
         /\ call'[c].conn = call[c].conn
         /\ call[c].runs = 0 /\ call[c].pc \in {"evalsha", "eval"}
  <1>1. call[c] \in CallState
    BY DEF Types
  <1>2. call[c].runs = 0 /\ call[c].pc \in {"evalsha", "eval"}
    BY <1>1 DEF ReplyLost, At, RunsLast, CallState
  <1>3. call' = [call EXCEPT ![c] =
                   [call[c] EXCEPT !.pc = AfterQueryError(c), !.runs = @ + 1]]
    BY DEF ReplyLost
  <1>4. /\ call'[c].pc = "resetconn" /\ call'[c].runs = call[c].runs + 1
        /\ call'[c].conn = call[c].conn
        /\ DOMAIN call' = Callers /\ \A d \in Callers : d # c => call'[d] = call[d]
    BY <1>3 DEF AfterQueryError, Types, CallState
  <1> DEFINE runs == call[c].runs + 1
  <1>5. runs = 1 /\ call' = [call EXCEPT ![c] = [call[c] EXCEPT !.pc = "resetconn", !.runs = runs]]
    BY <1>2, <1>3 DEF AfterQueryError
  <1> HIDE DEF runs
  <1>6. [call[c] EXCEPT !.pc = "resetconn", !.runs = runs] \in CallState
    BY <1>1, <1>5 DEF CallState, PCs
  <1>7. call' \in [Callers -> CallState]
    BY <1>5, <1>6 DEF Types
  <1> QED BY <1>2, <1>4, <1>7

LEMMA TypesStep ==
  ASSUME Types, RunsLast, [Next]_vars
  PROVE  Types'
  <1>1. ASSUME NEW c \in Callers, Start(c)
        PROVE  Types'
    BY <1>1 DEF Start, At, Go, client, redis, Types, CallState, PCs
  <1>2. ASSUME NEW c \in Callers, Lookup(c)
        PROVE  Types'
    BY <1>2 DEF Lookup, At, Go, GoWith, client, redis, history, Types, CallState, PCs
  <1>3. ASSUME NEW c \in Callers, Connect(c)
        PROVE  Types'
    <2>1. opened' = opened + 1 /\ call' = [call EXCEPT ![c] = [call[c] EXCEPT !.pc = "store", !.conn = opened']]
      BY <1>3 DEF Connect, GoWith
    <2>2. call' \in [Callers -> CallState]
      <3>0. opened' \in Nat
        BY <2>1 DEF Types
      <3>1. call' = [call EXCEPT ![c] = [call[c] EXCEPT !.pc = "store", !.conn = opened']]
        BY <2>1
      <3> QED BY <3>0, <3>1 DEF Types, CallState, PCs
    <2>3. opened' = opened + 1 /\ UNCHANGED <<conn, dead, counter, started, faults, admitted, failures, failedOn>>
      BY <1>3 DEF Connect, client, history
    <2> QED BY <2>2, <2>3 DEF Types
  <1>4. ASSUME NEW c \in Callers, ConnectFails(c)
        PROVE  Types'
    BY <1>4 DEF ConnectFails, At, Fail, Idle, None, client, redis, AdmitsOnError, Types,
        CallState, PCs
  <1>5. ASSUME NEW c \in Callers, StoreConn(c)
        PROVE  Types'
    <2>1. conn' \in Nat
      BY <1>5 DEF StoreConn, Types, CallState
    <2>2. call' \in [Callers -> CallState]
      <3>1. call' = [call EXCEPT ![c] = [call[c] EXCEPT !.pc = "sha", !.conn = conn']]
        BY <1>5 DEF StoreConn, GoWith
      <3> QED BY <2>1, <3>1 DEF Types, CallState, PCs
    <2>3. UNCHANGED <<redis, history>>
      BY <1>5 DEF StoreConn
    <2> QED BY <2>1, <2>2, <2>3 DEF redis, history, Types
  <1>6. ASSUME NEW c \in Callers, ReadSha(c)
        PROVE  Types'
    BY <1>6 DEF ReadSha, At, Go, client, redis, history, Types, CallState, PCs
  <1>7. ASSUME NEW c \in Callers, Load(c)
        PROVE  Types'
    BY <1>7 DEF Load, At, Go, client, history, Types, CallState, PCs
  <1>8. ASSUME NEW c \in Callers, StoreSha(c)
        PROVE  Types'
    BY <1>8 DEF StoreSha, At, Go, redis, history, Types, CallState, PCs
  <1>9. ASSUME NEW c \in Callers, EvalSha(c)
        PROVE  Types'
    BY <1>9, SMTT(60) DEF EvalSha, At, Go, Verdict, Idle, None, AfterNoScript, client,
        redis, history, Types, CallState, PCs
  <1>10. ASSUME NEW c \in Callers, ClearSha(c)
        PROVE  Types'
    BY <1>10 DEF ClearSha, At, Go, redis, history, Types, CallState, PCs
  <1>11. ASSUME NEW c \in Callers, Eval(c)
        PROVE  Types'
    BY <1>11 DEF Eval, At, Verdict, Idle, None, client, Types, CallState, PCs
  <1>12. ASSUME NEW c \in Callers, QueryFails(c)
        PROVE  Types'
    BY <1>12 DEF QueryFails, Go, AfterQueryError, client, redis, history, Types,
        CallState, PCs
  <1>13. ASSUME NEW c \in Callers, ReplyLost(c)
        PROVE  Types'
    <2>1. call' \in [Callers -> CallState]
      BY <1>13, ReplyLostEffect
    <2>2. /\ faults' = faults + 1 /\ counter' = counter + 1
          /\ UNCHANGED <<conn, opened, dead, started, admitted, failures, failedOn>>
      BY <1>13 DEF ReplyLost, client
    <2> QED BY <2>1, <2>2 DEF Types
  <1>14. ASSUME NEW c \in Callers, ResetConn(c)
        PROVE  Types'
    BY <1>14 DEF ResetConn, At, Go, AfterReset, None, redis, history, Types, CallState,
        PCs
  <1>15. ASSUME NEW c \in Callers, ResetSha(c)
        PROVE  Types'
    BY <1>15 DEF ResetSha, At, Fail, Idle, None, redis, AdmitsOnError, Types, CallState,
        PCs
  <1>16. CASE Shutdown
    <2>1. UNCHANGED <<call, redis, history, failClosed>> /\ (conn' = conn \/ conn' = None)
      BY <1>16, Zenon DEF Shutdown
    <2> QED BY <2>1 DEF None, redis, history, Types
  <1>17. CASE Fault
    <2>1. UNCHANGED <<call, client, opened, counter, started, admitted, failures, failedOn>>
          /\ faults' = faults + 1
      BY <1>17, Zenon DEF Fault
    <2>2. (\E h \in 1..opened : dead' = dead \union {h}) \/ dead' = 1..opened \/ dead' = dead
      BY <1>17, Zenon DEF Fault
    <2>3. dead' \subseteq Nat
      <3>1. 1..opened \subseteq Nat
        OBVIOUS
      <3> QED BY <2>2, <3>1 DEF Types
    <2> QED BY <2>1, <2>3 DEF client, Types
  <1>18. CASE Recover
    BY <1>18 DEF Recover, client, history, Types, CallState, PCs
  <1>19. CASE ScriptFlush
    BY <1>19 DEF ScriptFlush, client, history, Types, CallState, PCs
  <1>20. CASE UNCHANGED vars
    BY <1>20 DEF vars, client, redis, history, Types, CallState, PCs
  <1> QED BY <1>1, <1>2, <1>3, <1>4, <1>5, <1>6, <1>7, <1>8, <1>9, <1>10, <1>11, <1>12,
        <1>13, <1>14, <1>15, <1>16, <1>17, <1>18, <1>19, <1>20 DEF Next, Step

LEMMA RunsLastInit == Init => RunsLast
  BY DEF Init, RunsLast, Idle

LEMMA RunsLastStep ==
  ASSUME Types, RunsLast, [Next]_vars
  PROVE  RunsLast'
  <1>1. ASSUME NEW c \in Callers, Start(c)
        PROVE  RunsLast'
    BY <1>1 DEF Start, At, Go, client, redis, Types, RunsLast, CallState
  <1>2. ASSUME NEW c \in Callers, Lookup(c)
        PROVE  RunsLast'
    BY <1>2 DEF Lookup, At, Go, GoWith, client, redis, history, Types, RunsLast, CallState
  <1>3. ASSUME NEW c \in Callers, Connect(c)
        PROVE  RunsLast'
    BY <1>3 DEF Connect, At, GoWith, client, history, Types, RunsLast, CallState
  <1>4. ASSUME NEW c \in Callers, ConnectFails(c)
        PROVE  RunsLast'
    BY <1>4 DEF ConnectFails, At, Fail, Idle, None, client, redis, Types, RunsLast,
        CallState
  <1>5. ASSUME NEW c \in Callers, StoreConn(c)
        PROVE  RunsLast'
    BY <1>5 DEF StoreConn, At, GoWith, redis, history, Types, RunsLast, CallState
  <1>6. ASSUME NEW c \in Callers, ReadSha(c)
        PROVE  RunsLast'
    BY <1>6 DEF ReadSha, At, Go, client, redis, history, Types, RunsLast, CallState
  <1>7. ASSUME NEW c \in Callers, Load(c)
        PROVE  RunsLast'
    BY <1>7 DEF Load, At, Go, client, history, Types, RunsLast, CallState
  <1>8. ASSUME NEW c \in Callers, StoreSha(c)
        PROVE  RunsLast'
    BY <1>8 DEF StoreSha, At, Go, redis, history, Types, RunsLast, CallState
  <1>9. ASSUME NEW c \in Callers, EvalSha(c)
        PROVE  RunsLast'
    BY <1>9 DEF EvalSha, At, Go, Verdict, Idle, None, AfterNoScript, client, redis,
        history, Types, RunsLast, CallState
  <1>10. ASSUME NEW c \in Callers, ClearSha(c)
        PROVE  RunsLast'
    BY <1>10 DEF ClearSha, At, Go, redis, history, Types, RunsLast, CallState
  <1>11. ASSUME NEW c \in Callers, Eval(c)
        PROVE  RunsLast'
    BY <1>11 DEF Eval, At, Verdict, Idle, None, client, Types, RunsLast, CallState
  <1>12. ASSUME NEW c \in Callers, QueryFails(c)
        PROVE  RunsLast'
    BY <1>12 DEF QueryFails, Go, AfterQueryError, client, redis, history, Types, RunsLast,
        CallState
  <1>13. ASSUME NEW c \in Callers, ReplyLost(c)
        PROVE  RunsLast'
    BY <1>13 DEF ReplyLost, At, AfterQueryError, client, Types, RunsLast, CallState
  <1>14. ASSUME NEW c \in Callers, ResetConn(c)
        PROVE  RunsLast'
    BY <1>14 DEF ResetConn, At, Go, AfterReset, None, redis, history, Types, RunsLast,
        CallState
  <1>15. ASSUME NEW c \in Callers, ResetSha(c)
        PROVE  RunsLast'
    BY <1>15 DEF ResetSha, At, Fail, Idle, None, redis, Types, RunsLast, CallState
  <1>16. CASE Shutdown
    BY <1>16 DEF Shutdown, None, redis, history, Types, RunsLast, CallState
  <1>17. CASE Fault
    BY <1>17 DEF Fault, client, Types, RunsLast, CallState
  <1>18. CASE Recover
    BY <1>18 DEF Recover, client, history, Types, RunsLast, CallState
  <1>19. CASE ScriptFlush
    BY <1>19 DEF ScriptFlush, client, history, Types, RunsLast, CallState
  <1>20. CASE UNCHANGED vars
    BY <1>20 DEF vars, client, redis, history, Types, RunsLast, CallState
  <1> QED BY <1>1, <1>2, <1>3, <1>4, <1>5, <1>6, <1>7, <1>8, <1>9, <1>10, <1>11, <1>12,
        <1>13, <1>14, <1>15, <1>16, <1>17, <1>18, <1>19, <1>20 DEF Next, Step

(***************************************************************************)
(* No call is counted twice.  A call that is under way and has not run yet *)
(* still owes its count.                                                   *)
(***************************************************************************)
Owing == {c \in Callers : ~At(c, "idle") /\ call[c].runs = 0}
Counted == counter + Cardinality(Owing) <= started

LEMMA OwingFinite == IsFiniteSet(Owing) /\ Cardinality(Owing) \in Nat
  BY ClientAssumption, FS_Subset, FS_CardinalityType DEF Owing

LEMMA CountedInit == Init => Counted
  <1> SUFFICES ASSUME Init PROVE Counted
    OBVIOUS
  <1>1. Owing = {}
    BY DEF Init, Owing, At, Idle
  <1> QED BY <1>1, FS_EmptySet DEF Init, Counted

(* A call that owes its count may pay it, or end without.                  *)
LEMMA Paid ==
  ASSUME Types, Counted, NEW c \in Callers, Owing' = Owing \ {c}, started' = started,
         counter' = counter \/ (c \in Owing /\ counter' = counter + 1)
  PROVE  Counted'
  <1>1. Cardinality(Owing') = IF c \in Owing THEN Cardinality(Owing) - 1 ELSE Cardinality(Owing)
    BY OwingFinite, FS_RemoveElement
  <1>2. Cardinality(Owing) \in Nat
    BY OwingFinite
  <1> QED BY <1>1, <1>2 DEF Counted, Types

LEMMA CountedStep ==
  ASSUME Types, RunsLast, Counted, [Next]_vars
  PROVE  Counted'
  <1>1. ASSUME NEW c \in Callers, Start(c)
        PROVE  Counted'
    <2>1. Owing' = Owing \cup {c} /\ c \notin Owing
      BY <1>1 DEF Start, At, Go, Owing, Types, RunsLast, CallState
    <2>2. Cardinality(Owing') = Cardinality(Owing) + 1
      BY <2>1, OwingFinite, FS_AddElement
    <2>3. counter' = counter /\ started' = started + 1
      BY <1>1 DEF Start, redis
    <2> QED BY <2>2, <2>3, OwingFinite DEF Counted, Types
  <1>2. ASSUME NEW c \in Callers, Lookup(c)
        PROVE  Counted'
    <2>1. Owing' = Owing
      <3>1. call[c] \in CallState /\ call[c].pc = "lookup"
        BY <1>2 DEF Lookup, At, Types
      <3>2. CASE GoWith(c, "sha", conn)
        BY <3>1, <3>2 DEF At, GoWith, Owing, Types, CallState
      <3>3. CASE Go(c, "connect")
        BY <3>1, <3>3 DEF At, Go, Owing, Types, CallState
      <3> QED BY <1>2, <3>2, <3>3 DEF Lookup
    <2> QED BY <1>2, <2>1 DEF Lookup, Counted, redis, history
  <1>3. ASSUME NEW c \in Callers, Connect(c)
        PROVE  Counted'
    <2>1. Owing' = Owing
      <3>1. call[c] \in CallState /\ call[c].pc = "connect"
        BY <1>3 DEF Connect, At, Types
      <3>2. call' = [call EXCEPT ![c] = [call[c] EXCEPT !.pc = "store", !.conn = opened']]
        BY <1>3, Zenon DEF Connect, GoWith
      <3>3. /\ \A d \in Callers : d # c => call'[d] = call[d]
            /\ call'[c] = [call[c] EXCEPT !.pc = "store", !.conn = opened']
        BY <3>2 DEF Types
      <3>4. call'[c].pc = "store" /\ call'[c].runs = call[c].runs
        BY <3>1, <3>3 DEF CallState
      <3> QED BY <3>1, <3>3, <3>4 DEF Owing, At
    <2> QED BY <1>3, <2>1 DEF Connect, Counted, history
  <1>4. ASSUME NEW c \in Callers, ConnectFails(c)
        PROVE  Counted'
    <2>1. Owing' = Owing \ {c}
      BY <1>4 DEF ConnectFails, Fail, Idle, At, Owing, Types, CallState
    <2> QED BY <1>4, <2>1, Paid DEF ConnectFails, redis
  <1>5. ASSUME NEW c \in Callers, StoreConn(c)
        PROVE  Counted'
    <2>1. Owing' = Owing
      BY <1>5 DEF StoreConn, At, GoWith, Owing, Types, CallState
    <2> QED BY <1>5, <2>1 DEF StoreConn, Counted, redis, history
  <1>6. ASSUME NEW c \in Callers, ReadSha(c)
        PROVE  Counted'
    <2>1. Owing' = Owing
      BY <1>6 DEF ReadSha, At, Go, Owing, Types, CallState
    <2> QED BY <1>6, <2>1 DEF ReadSha, Counted, redis, history
  <1>7. ASSUME NEW c \in Callers, Load(c)
        PROVE  Counted'
    <2>1. Owing' = Owing
      BY <1>7 DEF Load, At, Go, Owing, Types, CallState
    <2> QED BY <1>7, <2>1 DEF Load, Counted, history
  <1>8. ASSUME NEW c \in Callers, StoreSha(c)
        PROVE  Counted'
    <2>1. Owing' = Owing
      BY <1>8 DEF StoreSha, At, Go, Owing, Types, CallState
    <2> QED BY <1>8, <2>1 DEF StoreSha, Counted, redis, history
  <1>9. ASSUME NEW c \in Callers, EvalSha(c)
        PROVE  Counted'
    <2>1. CASE loaded /\ Verdict(c)
      <3>1. Owing' = Owing \ {c} /\ c \in Owing
        BY <1>9, <2>1 DEF EvalSha, Verdict, Idle, At, Owing, Types, RunsLast, CallState
      <3> QED BY <2>1, <3>1, Paid DEF Verdict
    <2>2. CASE Go(c, AfterNoScript) /\ UNCHANGED <<client, redis, history>>
      <3>1. Owing' = Owing
        BY <1>9, <2>2 DEF EvalSha, Go, AfterNoScript, At, Owing, Types, CallState
      <3> QED BY <2>2, <3>1 DEF Counted, redis, history
    <2> QED BY <1>9, <2>1, <2>2 DEF EvalSha
  <1>10. ASSUME NEW c \in Callers, ClearSha(c)
        PROVE  Counted'
    <2>1. Owing' = Owing
      BY <1>10 DEF ClearSha, At, Go, Owing, Types, CallState
    <2> QED BY <1>10, <2>1 DEF ClearSha, Counted, redis, history
  <1>11. ASSUME NEW c \in Callers, Eval(c)
        PROVE  Counted'
    <2>1. Owing' = Owing \ {c} /\ c \in Owing
      BY <1>11 DEF Eval, Verdict, Idle, At, Owing, Types, RunsLast, CallState
    <2> QED BY <1>11, <2>1, Paid DEF Eval, Verdict
  <1>12. ASSUME NEW c \in Callers, QueryFails(c)
        PROVE  Counted'
    <2>1. Owing' = Owing
      BY <1>12 DEF QueryFails, Go, AfterQueryError, At, Owing, Types, CallState
    <2> QED BY <1>12, <2>1 DEF QueryFails, Counted, redis, history
  <1>13. ASSUME NEW c \in Callers, ReplyLost(c)
        PROVE  Counted'
    <2>1. Owing' = Owing \ {c} /\ c \in Owing
      <3>1. \A d \in Callers : call'[d].pc = "idle" <=> call[d].pc = "idle"
        BY <1>13, ReplyLostEffect
      <3>2. \A d \in Callers : d # c => call'[d].runs = call[d].runs
        BY <1>13, ReplyLostEffect
      <3> QED BY <1>13, <3>1, <3>2, ReplyLostEffect DEF Owing, At
    <2> QED BY <1>13, <2>1, Paid DEF ReplyLost
  <1>14. ASSUME NEW c \in Callers, ResetConn(c)
        PROVE  Counted'
    <2>1. Owing' = Owing
      BY <1>14 DEF ResetConn, At, Go, AfterReset, None, Owing, Types, CallState
    <2> QED BY <1>14, <2>1 DEF ResetConn, Counted, redis, history
  <1>15. ASSUME NEW c \in Callers, ResetSha(c)
        PROVE  Counted'
    <2>1. Owing' = Owing \ {c}
      BY <1>15 DEF ResetSha, Fail, Idle, At, Owing, Types, CallState
    <2> QED BY <1>15, <2>1, Paid DEF ResetSha, redis
  <1>16. CASE Shutdown
    BY <1>16 DEF Shutdown, Counted, Owing, At, redis, history
  <1>17. CASE Fault
    BY <1>17 DEF Fault, Counted, Owing, At
  <1>18. CASE Recover
    BY <1>18 DEF Recover, Counted, Owing, At, history
  <1>19. CASE ScriptFlush
    BY <1>19 DEF ScriptFlush, Counted, Owing, At, history
  <1>20. CASE UNCHANGED vars
    BY <1>20 DEF vars, redis, history, Counted, Owing, At
  <1> QED BY <1>1, <1>2, <1>3, <1>4, <1>5, <1>6, <1>7, <1>8, <1>9, <1>10, <1>11, <1>12,
        <1>13, <1>14, <1>15, <1>16, <1>17, <1>18, <1>19, <1>20 DEF Next, Step

(***************************************************************************)
(* Admissions: what Redis counted within the limit, and with fail_mode     *)
(* "open" the failures.                                                    *)
(***************************************************************************)
Excused == IF failClosed THEN 0 ELSE failures
Admissions == admitted <= counter + Excused /\ admitted <= Limit + Excused

LEMMA AdmissionsInit == Init => Admissions
  BY ClientAssumption DEF Init, Admissions, Excused

LEMMA AdmissionsStep ==
  ASSUME Types, Admissions, [Next]_vars
  PROVE  Admissions'
  <1>1. ASSUME NEW c \in Callers, Start(c)
        PROVE  Admissions'
    BY <1>1 DEF Start, At, Go, client, redis, Types, Admissions, Excused
  <1>2. ASSUME NEW c \in Callers, Lookup(c)
        PROVE  Admissions'
    BY <1>2 DEF Lookup, At, Go, GoWith, client, redis, history, Types, Admissions, Excused
  <1>3. ASSUME NEW c \in Callers, Connect(c)
        PROVE  Admissions'
    BY <1>3 DEF Connect, At, GoWith, client, history, Types, Admissions, Excused
  <1>4. ASSUME NEW c \in Callers, ConnectFails(c)
        PROVE  Admissions'
    <2>1. failClosed' = failClosed /\ counter' = counter /\ failures' = failures + 1
      BY <1>4 DEF ConnectFails, Fail, client, redis
    <2>2. CASE failClosed
      <3>1. admitted' = admitted
        BY <1>4, <2>2 DEF ConnectFails, Fail, AdmitsOnError
      <3>2. Excused = 0 /\ Excused' = 0
        BY <2>1, <2>2 DEF Excused
      <3> QED BY <2>1, <3>1, <3>2 DEF Admissions
    <2>3. CASE ~failClosed
      <3>1. admitted' = admitted + 1
        BY <1>4, <2>3 DEF ConnectFails, Fail, AdmitsOnError
      <3>2. Excused = failures /\ Excused' = failures + 1
        BY <2>1, <2>3 DEF Excused
      <3> QED BY <2>1, <3>1, <3>2, ClientAssumption DEF Admissions, Types
    <2> QED BY <2>2, <2>3
  <1>5. ASSUME NEW c \in Callers, StoreConn(c)
        PROVE  Admissions'
    BY <1>5 DEF StoreConn, At, GoWith, redis, history, Types, Admissions, Excused
  <1>6. ASSUME NEW c \in Callers, ReadSha(c)
        PROVE  Admissions'
    BY <1>6 DEF ReadSha, At, Go, client, redis, history, Types, Admissions, Excused
  <1>7. ASSUME NEW c \in Callers, Load(c)
        PROVE  Admissions'
    BY <1>7 DEF Load, At, Go, client, history, Types, Admissions, Excused
  <1>8. ASSUME NEW c \in Callers, StoreSha(c)
        PROVE  Admissions'
    BY <1>8 DEF StoreSha, At, Go, redis, history, Types, Admissions, Excused
  <1>9. ASSUME NEW c \in Callers, EvalSha(c)
        PROVE  Admissions'
    BY <1>9, ClientAssumption DEF EvalSha, At, Go, Verdict, Idle, None, AfterNoScript,
        client, redis, history, WithinLimit, Types, Admissions, Excused
  <1>10. ASSUME NEW c \in Callers, ClearSha(c)
        PROVE  Admissions'
    BY <1>10 DEF ClearSha, At, Go, redis, history, Types, Admissions, Excused
  <1>11. ASSUME NEW c \in Callers, Eval(c)
        PROVE  Admissions'
    BY <1>11, ClientAssumption DEF Eval, At, Verdict, Idle, None, client, WithinLimit,
        Types, Admissions, Excused
  <1>12. ASSUME NEW c \in Callers, QueryFails(c)
        PROVE  Admissions'
    BY <1>12 DEF QueryFails, Go, AfterQueryError, client, redis, history, Types,
        Admissions, Excused
  <1>13. ASSUME NEW c \in Callers, ReplyLost(c)
        PROVE  Admissions'
    BY <1>13 DEF ReplyLost, At, AfterQueryError, client, Types, Admissions, Excused
  <1>14. ASSUME NEW c \in Callers, ResetConn(c)
        PROVE  Admissions'
    BY <1>14 DEF ResetConn, At, Go, AfterReset, None, redis, history, Types, Admissions,
        Excused
  <1>15. ASSUME NEW c \in Callers, ResetSha(c)
        PROVE  Admissions'
    <2>1. failClosed' = failClosed /\ counter' = counter /\ failures' = failures + 1
      BY <1>15 DEF ResetSha, Fail, client, redis
    <2>2. CASE failClosed
      <3>1. admitted' = admitted
        BY <1>15, <2>2 DEF ResetSha, Fail, AdmitsOnError
      <3>2. Excused = 0 /\ Excused' = 0
        BY <2>1, <2>2 DEF Excused
      <3> QED BY <2>1, <3>1, <3>2 DEF Admissions
    <2>3. CASE ~failClosed
      <3>1. admitted' = admitted + 1
        BY <1>15, <2>3 DEF ResetSha, Fail, AdmitsOnError
      <3>2. Excused = failures /\ Excused' = failures + 1
        BY <2>1, <2>3 DEF Excused
      <3> QED BY <2>1, <3>1, <3>2, ClientAssumption DEF Admissions, Types
    <2> QED BY <2>2, <2>3
  <1>16. CASE Shutdown
    <2>1. UNCHANGED <<call, redis, history, failClosed>> /\ (conn' = conn \/ conn' = None)
      BY <1>16, Zenon DEF Shutdown
    <2> QED BY <2>1 DEF None, redis, history, Types, Admissions, Excused
  <1>17. CASE Fault
    BY <1>17 DEF Fault, client, Types, Admissions, Excused
  <1>18. CASE Recover
    BY <1>18 DEF Recover, client, history, Types, Admissions, Excused
  <1>19. CASE ScriptFlush
    BY <1>19 DEF ScriptFlush, client, history, Types, Admissions, Excused
  <1>20. CASE UNCHANGED vars
    BY <1>20 DEF vars, client, redis, history, Types, Admissions, Excused
  <1> QED BY <1>1, <1>2, <1>3, <1>4, <1>5, <1>6, <1>7, <1>8, <1>9, <1>10, <1>11, <1>12,
        <1>13, <1>14, <1>15, <1>16, <1>17, <1>18, <1>19, <1>20 DEF Next, Step

(***************************************************************************)
(* Without a fault nothing is lost, and no call is on its way to fail.     *)
(***************************************************************************)
Faultless ==
  faults = 0 =>
    /\ up /\ dead = {} /\ failures = 0
    /\ \A c \in Callers : call[c].pc \notin {"resetconn", "resetsha"}

LEMMA FaultlessInit == Init => Faultless
  BY DEF Init, Faultless, Idle

LEMMA FaultlessStep ==
  ASSUME Types, Faultless, [Next]_vars
  PROVE  Faultless'
  <1>1. ASSUME NEW c \in Callers, Start(c)
        PROVE  Faultless'
    BY <1>1 DEF Start, At, Go, client, redis, Types, CallState, Faultless
  <1>2. ASSUME NEW c \in Callers, Lookup(c)
        PROVE  Faultless'
    BY <1>2 DEF Lookup, At, Go, GoWith, client, redis, history, Types, CallState,
        Faultless
  <1>3. ASSUME NEW c \in Callers, Connect(c)
        PROVE  Faultless'
    BY <1>3 DEF Connect, At, GoWith, client, history, Types, CallState, Faultless
  <1>4. ASSUME NEW c \in Callers, ConnectFails(c)
        PROVE  Faultless'
    BY <1>4 DEF ConnectFails, At, Fail, Idle, None, client, redis, ConnectTimesOut, Types,
        CallState, Faultless
  <1>5. ASSUME NEW c \in Callers, StoreConn(c)
        PROVE  Faultless'
    BY <1>5 DEF StoreConn, At, GoWith, redis, history, Types, CallState, Faultless
  <1>6. ASSUME NEW c \in Callers, ReadSha(c)
        PROVE  Faultless'
    BY <1>6 DEF ReadSha, At, Go, client, redis, history, Types, CallState, Faultless
  <1>7. ASSUME NEW c \in Callers, Load(c)
        PROVE  Faultless'
    BY <1>7 DEF Load, At, Go, client, history, Answers, Types, CallState, Faultless
  <1>8. ASSUME NEW c \in Callers, StoreSha(c)
        PROVE  Faultless'
    BY <1>8 DEF StoreSha, At, Go, redis, history, Types, CallState, Faultless
  <1>9. ASSUME NEW c \in Callers, EvalSha(c)
        PROVE  Faultless'
    BY <1>9 DEF EvalSha, At, Go, Verdict, Idle, None, AfterNoScript, client, redis,
        history, Types, CallState, Faultless
  <1>10. ASSUME NEW c \in Callers, ClearSha(c)
        PROVE  Faultless'
    BY <1>10 DEF ClearSha, At, Go, redis, history, Types, CallState, Faultless
  <1>11. ASSUME NEW c \in Callers, Eval(c)
        PROVE  Faultless'
    BY <1>11 DEF Eval, At, Verdict, Idle, None, client, Types, CallState, Faultless
  <1>12. ASSUME NEW c \in Callers, QueryFails(c)
        PROVE  Faultless'
    BY <1>12 DEF QueryFails, Go, AfterQueryError, client, redis, history, Answers, Types,
        CallState, Faultless
  <1>13. ASSUME NEW c \in Callers, ReplyLost(c)
        PROVE  Faultless'
    BY <1>13 DEF ReplyLost, At, AfterQueryError, client, Types, CallState, Faultless
  <1>14. ASSUME NEW c \in Callers, ResetConn(c)
        PROVE  Faultless'
    BY <1>14 DEF ResetConn, At, Go, AfterReset, None, redis, history, Types, CallState,
        Faultless
  <1>15. ASSUME NEW c \in Callers, ResetSha(c)
        PROVE  Faultless'
    BY <1>15 DEF ResetSha, At, Fail, Idle, None, redis, Types, CallState, Faultless
  <1>16. CASE Shutdown
    BY <1>16 DEF Shutdown, None, redis, history, Types, CallState, Faultless
  <1>17. CASE Fault
    BY <1>17 DEF Fault, client, Types, CallState, Faultless
  <1>18. CASE Recover
    BY <1>18 DEF Recover, client, history, Types, CallState, Faultless
  <1>19. CASE ScriptFlush
    BY <1>19 DEF ScriptFlush, client, history, Types, CallState, Faultless
  <1>20. CASE UNCHANGED vars
    BY <1>20 DEF vars, client, redis, history, Types, CallState, Faultless
  <1> QED BY <1>1, <1>2, <1>3, <1>4, <1>5, <1>6, <1>7, <1>8, <1>9, <1>10, <1>11, <1>12,
        <1>13, <1>14, <1>15, <1>16, <1>17, <1>18, <1>19, <1>20 DEF Next, Step

(***************************************************************************)
(* Connections.  One that is opened belongs to its caller alone until it   *)
(* is stored; one that has failed a caller is in no cache when that caller *)
(* ends, and cannot come back.                                             *)
(***************************************************************************)
Known ==
  /\ conn <= opened
  /\ \A c \in Callers : call[c].conn <= opened /\ failedOn[c] \subseteq 1..opened

OnesOwn ==
  \A c \in Callers : call[c].pc = "store" =>
    /\ call[c].conn # None /\ call[c].conn # conn
    /\ \A d \in Callers : /\ call[c].conn \notin failedOn[d]
                          /\ d # c => call[d].conn # call[c].conn

Connected ==
  \A c \in Callers : call[c].pc \notin {"idle", "lookup", "connect"} => call[c].conn # None

NotCached ==
  /\ \A c \in Callers : conn \notin failedOn[c]
  /\ \A c \in Callers : call[c].pc = "resetsha" => conn # call[c].conn

Connections == Known /\ OnesOwn /\ Connected /\ NotCached /\ NeverGivenAgain

LEMMA ConnectionsInit == Init => Connections
  BY DEF Init, Connections, Known, OnesOwn, Connected, NotCached, NeverGivenAgain, Idle, None

LEMMA ConnectionsStep ==
  ASSUME Types, Connections, [Next]_vars
  PROVE  Connections'
  <1>1. ASSUME NEW c \in Callers, Start(c)
        PROVE  Connections'
    BY <1>1 DEF Start, At, Go, client, redis, None, Types, CallState, Connections, Known,
        OnesOwn, Connected, NotCached, NeverGivenAgain
  <1>2. ASSUME NEW c \in Callers, Lookup(c)
        PROVE  Connections'
    <2>1. UNCHANGED <<conn, opened, failedOn>>
      BY <1>2 DEF Lookup, client, redis, history
    <2>2. CASE GoWith(c, "sha", conn) /\ conn # None
      BY <1>2, <2>1, <2>2 DEF Lookup, At, Go, GoWith, None, Types, CallState,
          Connections, Known, OnesOwn, Connected, NotCached, NeverGivenAgain
    <2>3. CASE Go(c, "connect")
      BY <1>2, <2>1, <2>3 DEF Lookup, At, Go, GoWith, None, Types, CallState,
          Connections, Known, OnesOwn, Connected, NotCached, NeverGivenAgain
    <2> QED BY <1>2, <2>2, <2>3 DEF Lookup
  <1>3. ASSUME NEW c \in Callers, Connect(c)
        PROVE  Connections'
    BY <1>3 DEF Connect, At, GoWith, client, history, None, Types, CallState, Connections,
        Known, OnesOwn, Connected, NotCached, NeverGivenAgain
  <1>4. ASSUME NEW c \in Callers, ConnectFails(c)
        PROVE  Connections'
    BY <1>4 DEF ConnectFails, At, Fail, Idle, None, client, redis, Types, CallState,
        Connections, Known, OnesOwn, Connected, NotCached, NeverGivenAgain
  <1>5. ASSUME NEW c \in Callers, StoreConn(c)
        PROVE  Connections'
    BY <1>5 DEF StoreConn, At, GoWith, redis, history, None, Types, CallState,
        Connections, Known, OnesOwn, Connected, NotCached, NeverGivenAgain
  <1>6. ASSUME NEW c \in Callers, ReadSha(c)
        PROVE  Connections'
    BY <1>6 DEF ReadSha, At, Go, client, redis, history, None, Types, CallState,
        Connections, Known, OnesOwn, Connected, NotCached, NeverGivenAgain
  <1>7. ASSUME NEW c \in Callers, Load(c)
        PROVE  Connections'
    <2>1. UNCHANGED <<conn, opened, failedOn>>
      BY <1>7 DEF Load, client, history
    <2>2. CASE Go(c, "storesha")
      BY <1>7, <2>1, <2>2 DEF Load, At, Go, GoWith, None, Types, CallState,
          Connections, Known, OnesOwn, Connected, NotCached, NeverGivenAgain
    <2>3. CASE Go(c, "eval")
      BY <1>7, <2>1, <2>3 DEF Load, At, Go, GoWith, None, Types, CallState,
          Connections, Known, OnesOwn, Connected, NotCached, NeverGivenAgain
    <2> QED BY <1>7, <2>2, <2>3 DEF Load
  <1>8. ASSUME NEW c \in Callers, StoreSha(c)
        PROVE  Connections'
    BY <1>8 DEF StoreSha, At, Go, redis, history, None, Types, CallState, Connections,
        Known, OnesOwn, Connected, NotCached, NeverGivenAgain
  <1>9. ASSUME NEW c \in Callers, EvalSha(c)
        PROVE  Connections'
    BY <1>9 DEF EvalSha, At, Go, Verdict, Idle, None, AfterNoScript, client, redis,
        history, Types, CallState, Connections, Known, OnesOwn, Connected, NotCached,
        NeverGivenAgain
  <1>10. ASSUME NEW c \in Callers, ClearSha(c)
        PROVE  Connections'
    BY <1>10 DEF ClearSha, At, Go, redis, history, None, Types, CallState, Connections,
        Known, OnesOwn, Connected, NotCached, NeverGivenAgain
  <1>11. ASSUME NEW c \in Callers, Eval(c)
        PROVE  Connections'
    BY <1>11 DEF Eval, At, Verdict, Idle, None, client, Types, CallState, Connections,
        Known, OnesOwn, Connected, NotCached, NeverGivenAgain
  <1>12. ASSUME NEW c \in Callers, QueryFails(c)
        PROVE  Connections'
    BY <1>12 DEF QueryFails, Go, AfterQueryError, client, redis, history, None, Types,
        CallState, Connections, Known, OnesOwn, Connected, NotCached, NeverGivenAgain
  <1>13. ASSUME NEW c \in Callers, ReplyLost(c)
        PROVE  Connections'
    BY <1>13 DEF ReplyLost, At, AfterQueryError, client, None, Types, CallState,
        Connections, Known, OnesOwn, Connected, NotCached, NeverGivenAgain
  <1>14. ASSUME NEW c \in Callers, ResetConn(c)
        PROVE  Connections'
    BY <1>14 DEF ResetConn, At, Go, AfterReset, None, redis, history, Types, CallState,
        Connections, Known, OnesOwn, Connected, NotCached, NeverGivenAgain
  <1>15. ASSUME NEW c \in Callers, ResetSha(c)
        PROVE  Connections'
    BY <1>15 DEF ResetSha, At, Fail, Idle, None, redis, Types, CallState, Connections,
        Known, OnesOwn, Connected, NotCached, NeverGivenAgain
  <1>16. CASE Shutdown
    <2>1. UNCHANGED <<call, redis, history, failClosed>> /\ (conn' = conn \/ conn' = None)
      BY <1>16, Zenon DEF Shutdown
    <2> QED BY <2>1 DEF None, redis, history, Types, CallState, Connections, Known, OnesOwn,
        Connected, NotCached, NeverGivenAgain
  <1>17. CASE Fault
    BY <1>17 DEF Fault, client, None, Types, CallState, Connections, Known, OnesOwn,
        Connected, NotCached, NeverGivenAgain
  <1>18. CASE Recover
    BY <1>18 DEF Recover, client, history, None, Types, CallState, Connections, Known,
        OnesOwn, Connected, NotCached, NeverGivenAgain
  <1>19. CASE ScriptFlush
    BY <1>19 DEF ScriptFlush, client, history, None, Types, CallState, Connections, Known,
        OnesOwn, Connected, NotCached, NeverGivenAgain
  <1>20. CASE UNCHANGED vars
    BY <1>20 DEF vars, client, redis, history, None, Types, CallState, Connections, Known,
        OnesOwn, Connected, NotCached, NeverGivenAgain
  <1> QED BY <1>1, <1>2, <1>3, <1>4, <1>5, <1>6, <1>7, <1>8, <1>9, <1>10, <1>11, <1>12,
        <1>13, <1>14, <1>15, <1>16, <1>17, <1>18, <1>19, <1>20 DEF Next, Step

(***************************************************************************)
(* The theorems.                                                           *)
(***************************************************************************)
ClientInv == Types /\ RunsLast /\ Counted /\ Admissions /\ Faultless /\ Connections

LEMMA ClientInvHolds == Spec => []ClientInv
  <1>1. Init => ClientInv
    BY TypesInit, RunsLastInit, CountedInit, AdmissionsInit, FaultlessInit, ConnectionsInit DEF ClientInv
  <1>2. ClientInv /\ [Next]_vars => ClientInv'
    BY TypesStep, RunsLastStep, CountedStep, AdmissionsStep, FaultlessStep, ConnectionsStep DEF ClientInv
  <1> QED BY <1>1, <1>2, PTL DEF Spec

(* redis_backend.rs:618.  Whatever fails, however calls interleave and how *)
(* many there are: no call is counted twice, and no more are admitted than *)
(* the limit and, with fail_mode "open", the failures.                     *)
THEOREM CountedOnceHolds == Spec => []CountedOnce
  <1>1. ClientInv => CountedOnce
    BY DEF ClientInv, Types, RunsLast, Counted, Owing, Admissions, Excused, CountedOnce
  <1> QED BY <1>1, ClientInvHolds, PTL

(* redis_backend.rs:619.  Script flushes alone fail no call.               *)
THEOREM FlushIsHarmlessHolds == Spec => []FlushIsHarmless
  <1>1. ClientInv => FlushIsHarmless
    BY DEF ClientInv, Types, Faultless, FlushIsHarmless
  <1> QED BY <1>1, ClientInvHolds, PTL

(* redis_backend.rs:703.  No caller is given a connection again that has   *)
(* failed it.                                                              *)
THEOREM NeverGivenAgainHolds == Spec => []NeverGivenAgain
  <1>1. ClientInv => NeverGivenAgain
    BY DEF ClientInv, Connections
  <1> QED BY <1>1, ClientInvHolds, PTL
=============================================================================
