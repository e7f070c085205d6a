------------------------- MODULE MemoryStorePromise -------------------------
(***************************************************************************)
(* The memory store as an implementation of SlidingWindowPromise.  The     *)
(* promise is made by a sliding window whose callers are prompt: of other  *)
(* limiters the mapping shows only the clock.                              *)
(***************************************************************************)
EXTENDS MemoryStore

PromiseMade == Algorithm = "sliding_window" /\ MaxLag = 0

(* The log is the history of admitted calls; a verdict is taken from each  *)
(* DimResult of the request in progress.                                   *)
PromiseLog == IF PromiseMade THEN admitted ELSE [k \in Keys |-> << >>]

Verdicts(dims) == [d \in DOMAIN dims |-> dims[d].allowed]

PromiseVerdicts ==
  [c \in Callers |-> IF PromiseMade THEN Verdicts(caller[c].dims) ELSE << >>]

Promise == INSTANCE SlidingWindowPromise
             WITH log <- PromiseLog, verdicts <- PromiseVerdicts

(* engine.rs:264, memory.rs:136: with a clock that stands still during a   *)
(* call, deque, eviction and slow path are invisible: every evaluation     *)
(* takes the decision of the log, refusals included.                       *)
ImplementsPromise == Promise!Spec
=============================================================================
