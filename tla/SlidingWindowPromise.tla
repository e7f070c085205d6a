------------------------ MODULE SlidingWindowPromise ------------------------
(***************************************************************************)
(* What the sliding-window limiter promises, without deques, evictions or  *)
(* locks: there is a log of the admitted calls of each key, and a call is  *)
(* allowed exactly when fewer than Limit of them lie in the last Window    *)
(* ticks.                                                                  *)
(***************************************************************************)
EXTENDS Integers, Sequences, FiniteSets

CONSTANTS Callers, Keys, Limit, Window, StartTime

VARIABLES
  now,       \* the clock
  log,       \* per key, the times of admitted calls
  verdicts   \* per caller, the verdicts of the request in progress

vars == <<now, log, verdicts>>

Init ==
  /\ now = StartTime
  /\ log = [k \in Keys |-> << >>]
  /\ verdicts = [c \in Callers |-> << >>]

InLastWindow(k) ==
  Cardinality({i \in DOMAIN log[k] : log[k][i] > now - Window[k]})

Decide(c, k) ==
  LET allow == InLastWindow(k) < Limit[k]
  IN /\ verdicts' = [verdicts EXCEPT ![c] = Append(@, allow)]
     /\ log' = IF allow THEN [log EXCEPT ![k] = Append(@, now)] ELSE log
     /\ UNCHANGED now

Answer(c) ==
  /\ verdicts' = [verdicts EXCEPT ![c] = << >>]
  /\ UNCHANGED <<now, log>>

Tick == now' = now + 1 /\ UNCHANGED <<log, verdicts>>

Next ==
  \/ \E c \in Callers : Answer(c) \/ \E k \in Keys : Decide(c, k)
  \/ Tick

Spec == Init /\ [][Next]_vars
=============================================================================
