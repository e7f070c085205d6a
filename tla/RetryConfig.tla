----------------------------- MODULE RetryConfig -----------------------------
(***************************************************************************)
(* The way of a retry budget from the operator's configuration to a tool   *)
(* call: the wrapper clamps it to the gateway's ceiling                    *)
(* (retry_with_backoff.py, __init__), Rust parses and validates it         *)
(* (config.rs, from_py_dict), and every call merges the override of its    *)
(* tool and validates again (get_tool_config).                             *)
(*                                                                         *)
(* The wrapper copies the configuration shallowly, so the override it      *)
(* clamps is the operator's own: it stays clamped for the plugins that are *)
(* built from the same configuration later.  One tool has an override.     *)
(***************************************************************************)
EXTENDS Integers

CONSTANTS
  Absent,      \* what a missing key, or a missing ceiling, is
  Retries,     \* values of max_retries, negative ones too, and Absent
  Bases,       \* values of backoff_base_ms, and Absent
  Backoffs,    \* values of max_backoff_ms, and Absent
  Ceilings,    \* max_tool_retries of the gateway, and Absent
  MaxPlugins   \* bound: plugins built from the configuration

ASSUME ConfigAssumption ==
  /\ Absent \notin Int
  /\ \A x \in Retries \union Bases \union Backoffs \union Ceilings : x = Absent \/ x \in Int

Budgets == [max_retries: Retries, backoff_base_ms: Bases, max_backoff_ms: Backoffs]

VARIABLES
  shared,    \* the operator's configuration: [global, override: Budgets]
  given,     \* history: shared, as the operator wrote it
  ceiling,   \* the gateway's ceiling when the plugin was built
  copy,      \* the wrapper's shallow copy: its global budget
  pc,        \* how far the plugin has come
  served,    \* [tool, config] of the last call, config Rejected for an error
  plugins    \* plugins built so far

vars == <<shared, given, ceiling, copy, pc, served, plugins>>

Rejected == [max_retries |-> Absent, backoff_base_ms |-> Absent, max_backoff_ms |-> Absent]
Nothing == [tool |-> "none", config |-> Rejected]
Tools == {"overridden", "other"}

(* The code's default of a key that is absent. *)
OrElse(x, default) == IF x = Absent THEN default ELSE x
Default == [max_retries |-> 2, backoff_base_ms |-> 200, max_backoff_ms |-> 5000]
WithDefaults(b, d) == [f \in DOMAIN d |-> OrElse(b[f], d[f])]

Exceeds(max_retries, limit) == limit # Absent /\ OrElse(max_retries, 0) > limit

AsStated(b, limit) == b                                       \* mutant
Clamped(b, limit) ==
  IF Exceeds(b.max_retries, limit) THEN [b EXCEPT !.max_retries = limit] ELSE b

(* extract::<u32>() and extract::<u64>() refuse negative numbers. *)
Extracts(b) == \A f \in DOMAIN b : OrElse(b[f], 0) >= 0

Valid(b) ==
  /\ b.max_retries <= 10
  /\ b.backoff_base_ms > 0
  /\ b.backoff_base_ms <= b.max_backoff_ms

Init ==
  /\ shared \in [global: Budgets, override: Budgets]
  /\ given = shared
  /\ ceiling = Absent
  /\ copy = Rejected
  /\ pc = "start" /\ served = Nothing /\ plugins = 0

(* The wrapper's __init__, up to the core. *)
ClampGlobal(b, limit) == Clamped(b, limit)
ClampOverride(b, limit) == Clamped(b, limit)

Clamp ==
  /\ pc = "start"
  /\ plugins < MaxPlugins /\ plugins' = plugins + 1
  /\ ceiling' \in Ceilings
  /\ copy' = ClampGlobal(shared.global, ceiling')
  /\ shared' = [shared EXCEPT !.override = ClampOverride(@, ceiling')]
  /\ pc' = "clamped"
  /\ UNCHANGED <<given, served>>

(* RetryWithBackoffPluginCore::new; an error means there is no plugin. *)
Global == WithDefaults(copy, Default)

Construct ==
  /\ pc = "clamped"
  /\ pc' = IF Extracts(copy) /\ Extracts(shared.override) /\ Valid(Global)
           THEN "ready" ELSE "start"
  /\ UNCHANGED <<shared, given, ceiling, copy, served, plugins>>

(* get_tool_config of a call of tool_post_invoke. *)
Merged(tool) ==
  IF tool = "overridden" THEN WithDefaults(shared.override, Global) ELSE Global

ToolConfig(tool) == IF Valid(Merged(tool)) THEN Merged(tool) ELSE Rejected

Serve ==
  /\ pc = "ready"
  /\ \E tool \in Tools : served' = [tool |-> tool, config |-> ToolConfig(tool)]
  /\ UNCHANGED <<shared, given, ceiling, copy, pc, plugins>>

(* The plugin manager builds the plugin again. *)
Reinstantiate ==
  /\ pc = "ready"
  /\ pc' = "start" /\ served' = Nothing
  /\ UNCHANGED <<shared, given, ceiling, copy, plugins>>

Next == Clamp \/ Construct \/ Serve \/ Reinstantiate

Spec == Init /\ [][Next]_vars

(***************************************************************************)
(* Properties.                                                             *)
(***************************************************************************)

Served == served.config # Rejected

(* What the operator wrote for the tool of the last call. *)
Stated == OrElse(IF served.tool = "overridden" THEN given.override.max_retries ELSE Absent,
                 given.global.max_retries)

(* config.rs:149-164, retry_with_backoff.py:32.  Every configuration that  *)
(* a call is served under is one that compute_delay_ms was written for,    *)
(* although an override is validated only after it is merged; and a budget *)
(* that the operator states, for the tool or for all, is served within the *)
(* ceiling and never raised.                                               *)
StatedBudgetClamped ==
  Served =>
    /\ served.config.max_retries \in 0..10
    /\ 0 < served.config.backoff_base_ms
    /\ served.config.backoff_base_ms <= served.config.max_backoff_ms
    /\ Stated # Absent =>
         /\ served.config.max_retries <= Stated
         /\ ceiling # Absent => served.config.max_retries <= ceiling

=============================================================================
