--------------------------- MODULE MCRetryPlugin ---------------------------
(***************************************************************************)
(* Instances of RetryPlugin for TLC: three requests of one plugin instance *)
(* and of two.                                                             *)
(***************************************************************************)
EXTENDS RetryPlugin

CONSTANTS r1, r2, r3, i1, i2

OneInstance == [r \in Requests |-> i1]
TwoInstances == [r \in Requests |-> IF r = r1 THEN i1 ELSE i2]
MixedBudgets == [r \in Requests |-> IF r = r1 THEN 3 ELSE 1]
OneRetry == [r \in Requests |-> 1]
=============================================================================
