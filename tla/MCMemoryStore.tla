--------------------------- MODULE MCMemoryStore ---------------------------
(***************************************************************************)
(* Instances of MemoryStore for TLC.  A second is NanosPerSec ticks; the   *)
(* windows are a few seconds long.                                         *)
(***************************************************************************)
EXTENDS MemoryStorePromise, TLC

CONSTANTS c1, c2

(* Callers are interchangeable. *)
CallerSymmetry == Permutations(Callers)

(* Two keys with a window of a second and a half, two with a window of     *)
(* three seconds.                                                          *)
FourKeys == {"user", "tool", "tenant", "slow"}
Limits == [k \in FourKeys |-> IF k = "user" THEN 2 ELSE 1]
Windows == [k \in FourKeys |-> IF k \in {"user", "tool"} THEN 3 ELSE 6]

(* A configuration with by_user and by_tool in which calls lack the one or *)
(* the other; one with by_tenant and by_tool, whose calls may lack the     *)
(* tool's override, or both and so check nothing.                          *)
ShortSplit == {<<"user">>, <<"tool">>}
LongSplit == {<<"tenant">>, <<"slow">>}
LongPairs == {<<"tenant">>, <<"tenant", "slow">>, << >>}

(* Callers whose clock readings go stale (lag 1), and callers that are     *)
(* done before the clock moves (lag 0).                                    *)
LateFixed == [algorithm |-> "fixed_window", requests |-> ShortSplit, lag |-> 1]
LateSliding == [algorithm |-> "sliding_window", requests |-> ShortSplit, lag |-> 1]
LateToken == [algorithm |-> "token_bucket", requests |-> LongSplit, lag |-> 1]
PromptFixed == [algorithm |-> "fixed_window", requests |-> LongPairs, lag |-> 0]
PromptSliding == [algorithm |-> "sliding_window", requests |-> LongPairs, lag |-> 0]

FiveLimiters == {LateFixed, LateSliding, LateToken, PromptFixed, PromptSliding}
Horizons == [l \in FiveLimiters |->
               CASE l = LateFixed -> 15
                 [] l = LateSliding -> 15
                 [] l = LateToken -> 18
                 [] OTHER -> 17]
=============================================================================
