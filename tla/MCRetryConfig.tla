--------------------------- MODULE MCRetryConfig ---------------------------
(***************************************************************************)
(* RetryConfig with the values at which its conditions change: around the  *)
(* default of 2 retries and the limit of 10, and backoffs on either side   *)
(* of one another and of the defaults.                                     *)
(***************************************************************************)
EXTENDS RetryConfig

RetryValues == {Absent, -1, 0, 3, 11}
BaseValues == {Absent, 0, 6000}
BackoffValues == {Absent, 100, 7000}
CeilingValues == {Absent, 0, 1, 5, 20}
=============================================================================
