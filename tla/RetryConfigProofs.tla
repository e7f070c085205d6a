------------------------- MODULE RetryConfigProofs -------------------------
(***************************************************************************)
(* Theorems about RetryConfig, for every budget an operator can write,     *)
(* every ceiling of the gateway and any number of plugins built from the   *)
(* same configuration.                                                     *)
(***************************************************************************)
EXTENDS RetryConfig, TLAPS

(***************************************************************************)
(* The inductive invariant.  shared is changed under the plugins built     *)
(* from it, so the proof follows each budget from the line the operator    *)
(* wrote.                                                                  *)
(***************************************************************************)
Setting == Int \union {Absent}
Budget == [max_retries: Setting, backoff_base_ms: Setting, max_backoff_ms: Setting]

TypeOK ==
  /\ shared \in [global: Budget, override: Budget]
  /\ given \in [global: Budget, override: Budget]
  /\ ceiling \in Setting
  /\ copy \in Budget
  /\ pc \in {"start", "clamped", "ready"}

(* What clamping, however often and with whatever ceilings, makes of a     *)
(* stated budget: nothing higher; and of a missing one nothing that        *)
(* config.rs would take.                                                   *)
OnlyLowered(now, stated) ==
  /\ stated # Absent => now # Absent /\ now <= stated
  /\ stated = Absent => now = Absent \/ now < 0

Within(budget, limit) == limit # Absent => OrElse(budget, 0) <= limit

Lowering ==
  /\ shared.global = given.global
  /\ OnlyLowered(shared.override.max_retries, given.override.max_retries)

(* A plugin that was built keeps the ceiling of its making.                *)
Built ==
  /\ pc # "start" =>
       /\ OnlyLowered(copy.max_retries, given.global.max_retries)
       /\ Within(copy.max_retries, ceiling)
       /\ Within(shared.override.max_retries, ceiling)
  /\ pc = "ready" => Extracts(copy) /\ Extracts(shared.override) /\ Valid(Global)

ServedByPlugin ==
  Served => /\ pc = "ready"
            /\ \E tool \in Tools : served = [tool |-> tool, config |-> ToolConfig(tool)]

IInv == TypeOK /\ Lowering /\ Built /\ ServedByPlugin

(***************************************************************************)
(* Operators.                                                              *)
(***************************************************************************)
LEMMA SettingMeans == \A x : x \in Setting <=> x \in Int \/ x = Absent
  BY Zenon DEF Setting

LEMMA ClampLowers ==
  ASSUME NEW b \in Budget, NEW limit \in Setting, NEW stated \in Setting,
         OnlyLowered(b.max_retries, stated)
  PROVE  /\ Clamped(b, limit) \in Budget
         /\ OnlyLowered(Clamped(b, limit).max_retries, stated)
         /\ Within(Clamped(b, limit).max_retries, limit)
  <1>1. CASE Exceeds(b.max_retries, limit)
    <2>1. Clamped(b, limit) = [b EXCEPT !.max_retries = limit]
      BY <1>1 DEF Clamped
    <2>2. Clamped(b, limit) \in Budget /\ Clamped(b, limit).max_retries = limit
      BY <2>1 DEF Budget
    <2>3. limit \in Int /\ OrElse(b.max_retries, 0) > limit
      BY <1>1, SettingMeans DEF Exceeds
    <2>4. OnlyLowered(limit, stated) /\ Within(limit, limit)
      BY <2>3, ConfigAssumption, SettingMeans DEF OnlyLowered, Within, OrElse, Budget
    <2> QED
      BY <2>2, <2>4
  <1>2. CASE ~Exceeds(b.max_retries, limit)
    <2>1. Clamped(b, limit) = b
      BY <1>2 DEF Clamped
    <2>2. Within(b.max_retries, limit)
      BY <1>2, ConfigAssumption, SettingMeans DEF Exceeds, Within, OrElse, Budget
    <2> QED
      BY <2>1, <2>2
  <1> QED
    BY <1>1, <1>2

LEMMA StatedIsOnlyLowered ==
  ASSUME NEW stated \in Setting
  PROVE  OnlyLowered(stated, stated)
  BY ConfigAssumption, SettingMeans DEF OnlyLowered

(* A missing key takes the default, a key that is there keeps its value.   *)
LEMMA DefaultsFillIn ==
  ASSUME NEW b \in Budget, NEW d \in Budget
  PROVE  /\ WithDefaults(b, d) \in Budget
         /\ WithDefaults(b, d).max_retries = OrElse(b.max_retries, d.max_retries)
         /\ WithDefaults(b, d).backoff_base_ms = OrElse(b.backoff_base_ms, d.backoff_base_ms)
         /\ WithDefaults(b, d).max_backoff_ms = OrElse(b.max_backoff_ms, d.max_backoff_ms)
  BY SettingMeans DEF WithDefaults, Budget, OrElse

LEMMA DefaultTyped == Default \in Budget
  BY SettingMeans DEF Default, Budget

LEMMA MergedTyped ==
  ASSUME TypeOK, NEW tool
  PROVE  Global \in Budget /\ Merged(tool) \in Budget
  BY DefaultsFillIn, DefaultTyped DEF TypeOK, Global, Merged

(* What u32 and u64 take is absent or not negative.                        *)
LEMMA ExtractsMeans ==
  ASSUME NEW b \in Budget, Extracts(b), NEW f \in {"max_retries", "backoff_base_ms", "max_backoff_ms"}
  PROVE  b[f] # Absent => b[f] \in Nat
  BY ConfigAssumption, SettingMeans DEF Extracts, Budget, OrElse

(***************************************************************************)
(* The invariant is kept, action by action.                                *)
(***************************************************************************)
LEMMA GivenTyped == Budgets \subseteq Budget
  BY ConfigAssumption, SettingMeans DEF Budgets, Budget

LEMMA InitIInv == Init => IInv
  <1> SUFFICES ASSUME Init PROVE IInv
    OBVIOUS
  <1>1. Rejected \in Budget /\ Absent \in Setting
    BY SettingMeans DEF Rejected, Budget
  <1>2. TypeOK
    BY <1>1, GivenTyped DEF Init, TypeOK
  <1>3. Lowering
    <2>1. shared.override.max_retries \in Setting
      BY <1>2 DEF TypeOK, Budget
    <2> QED
      BY <2>1, StatedIsOnlyLowered DEF Init, Lowering
  <1>4. Built /\ ServedByPlugin
    BY DEF Init, Built, ServedByPlugin, Served, Nothing
  <1> QED
    BY <1>2, <1>3, <1>4 DEF IInv

LEMMA ClampKeeps ==
  ASSUME IInv, Clamp
  PROVE  IInv'
  <1>1. TypeOK /\ Lowering
    BY DEF IInv
  <1>2. /\ shared.global \in Budget /\ shared.override \in Budget
        /\ given.global.max_retries \in Setting /\ given.override.max_retries \in Setting
    BY <1>1 DEF TypeOK, Budget
  <1>3. ceiling' \in Setting
    BY ConfigAssumption, SettingMeans DEF Clamp
  <1>4. copy' = Clamped(shared.global, ceiling') /\ pc' = "clamped" /\ UNCHANGED <<given, served>>
    BY DEF Clamp, ClampGlobal
  <1>5. shared' = [shared EXCEPT !.override = Clamped(shared.override, ceiling')]
    BY DEF Clamp, ClampOverride
  <1>6. /\ shared' \in [global: Budget, override: Budget]
        /\ shared'.global = shared.global
        /\ shared'.override = Clamped(shared.override, ceiling')
    BY <1>1, <1>2, <1>3, <1>5, ClampLowers DEF TypeOK, Lowering
  <1>7. /\ copy' \in Budget
        /\ OnlyLowered(copy'.max_retries, given.global.max_retries)
        /\ Within(copy'.max_retries, ceiling')
    BY <1>1, <1>2, <1>3, <1>4, ClampLowers, StatedIsOnlyLowered DEF Lowering
  <1>8. /\ OnlyLowered(shared'.override.max_retries, given.override.max_retries)
        /\ Within(shared'.override.max_retries, ceiling')
    BY <1>1, <1>2, <1>3, <1>6, ClampLowers DEF Lowering
  <1>9. ~Served'
    BY DEF IInv, ServedByPlugin, Served, Clamp
  <1> QED
    BY <1>1, <1>3, <1>4, <1>6, <1>7, <1>8, <1>9
    DEF IInv, TypeOK, Lowering, Built, ServedByPlugin

LEMMA ConstructKeeps ==
  ASSUME IInv, Construct
  PROVE  IInv'
  <1>1. UNCHANGED <<shared, given, ceiling, copy, served>> /\ pc = "clamped"
    BY DEF Construct
  <1>2. /\ pc' = "ready" => Extracts(copy) /\ Extracts(shared.override) /\ Valid(Global)
        /\ pc' \in {"start", "ready"}
    BY DEF Construct
  <1>3. Global' = Global
    BY <1>1 DEF Global
  <1>4. ~Served'
    BY <1>1 DEF IInv, ServedByPlugin, Served
  <1>5. TypeOK' /\ Lowering'
    BY <1>1, <1>2 DEF IInv, TypeOK, Lowering
  <1>6. Built'
    BY <1>1, <1>2, <1>3 DEF IInv, Built
  <1> QED
    BY <1>4, <1>5, <1>6 DEF IInv, ServedByPlugin

LEMMA ServeKeeps ==
  ASSUME IInv, Serve
  PROVE  IInv'
  <1>1. UNCHANGED <<shared, given, ceiling, copy, pc>> /\ pc = "ready"
    BY DEF Serve
  <1>2. PICK tool \in Tools : served' = [tool |-> tool, config |-> ToolConfig(tool)]
    BY DEF Serve
  <1>3. Global' = Global /\ ToolConfig(tool)' = ToolConfig(tool)
    BY <1>1 DEF Global, ToolConfig, Merged
  <1>4. TypeOK' /\ Lowering' /\ Built'
    BY <1>1, <1>3 DEF IInv, TypeOK, Lowering, Built
  <1> QED
    BY <1>1, <1>2, <1>3, <1>4 DEF IInv, ServedByPlugin

LEMMA ReinstantiateKeeps ==
  ASSUME IInv, Reinstantiate
  PROVE  IInv'
  <1>1. ~Served'
    BY DEF Reinstantiate, Served, Nothing
  <1>2. TypeOK' /\ Lowering' /\ Built'
    BY DEF Reinstantiate, IInv, TypeOK, Lowering, Built
  <1> QED
    BY <1>1, <1>2 DEF IInv, ServedByPlugin

LEMMA StutterKeeps ==
  ASSUME IInv, UNCHANGED vars
  PROVE  IInv'
  <1>1. Global' = Global /\ \A tool : ToolConfig(tool)' = ToolConfig(tool)
    BY DEF vars, Global, ToolConfig, Merged
  <1> QED
    BY <1>1 DEF vars, IInv, TypeOK, Lowering, Built, ServedByPlugin, Served

(***************************************************************************)
(* What the invariant says of a call.                                      *)
(***************************************************************************)
LEMMA ServedIsClamped ==
  ASSUME IInv
  PROVE  StatedBudgetClamped
  <1> SUFFICES ASSUME Served
               PROVE  StatedBudgetClamped
    BY DEF StatedBudgetClamped
  <1>1. PICK tool \in Tools : served = [tool |-> tool, config |-> ToolConfig(tool)]
    BY DEF IInv, ServedByPlugin
  <1>2. /\ served.config = Merged(tool) /\ Valid(Merged(tool))
        /\ served.tool = tool
    BY <1>1 DEF ToolConfig, Served
  <1>3. /\ pc = "ready" /\ Extracts(copy) /\ Extracts(shared.override) /\ Valid(Global)
        /\ TypeOK /\ Lowering
        /\ OnlyLowered(copy.max_retries, given.global.max_retries)
        /\ Within(copy.max_retries, ceiling)
        /\ Within(shared.override.max_retries, ceiling)
    BY DEF IInv, ServedByPlugin, Built
  <1> DEFINE mine == shared.override.max_retries
             everyones == copy.max_retries
             merged == Merged(tool)
  <1>4. /\ copy \in Budget /\ shared.override \in Budget
        /\ given.global.max_retries \in Setting /\ given.override.max_retries \in Setting
        /\ ceiling \in Setting
    BY <1>3 DEF TypeOK, Budget
  <1>5. /\ mine # Absent => mine \in Nat
        /\ everyones # Absent => everyones \in Nat
    BY <1>3, <1>4, ExtractsMeans
  <1>6. Global.max_retries = OrElse(everyones, 2)
    BY <1>4, DefaultsFillIn, DefaultTyped DEF Global, Default
  <1>7. merged.max_retries =
          IF tool = "overridden" THEN OrElse(mine, Global.max_retries) ELSE Global.max_retries
    BY <1>3, <1>4, MergedTyped, DefaultsFillIn DEF Merged
  <1>8. Stated = OrElse(IF tool = "overridden" THEN given.override.max_retries ELSE Absent,
                        given.global.max_retries)
    BY <1>2 DEF Stated
  <1>9. merged.max_retries \in 0..10
    <2>1. merged.max_retries \in Nat
      BY <1>5, <1>6, <1>7 DEF OrElse
    <2> QED
      BY <2>1, <1>2 DEF Valid
  <1>10. 0 < merged.backoff_base_ms /\ merged.backoff_base_ms <= merged.max_backoff_ms
    BY <1>2 DEF Valid
  <1>11. ASSUME Stated # Absent
         PROVE  /\ merged.max_retries <= Stated
                /\ ceiling # Absent => merged.max_retries <= ceiling
    <2>1. CASE tool = "overridden" /\ given.override.max_retries # Absent
      <3>1. mine # Absent /\ mine <= given.override.max_retries
        BY <1>3, <2>1 DEF Lowering, OnlyLowered
      <3>2. merged.max_retries = mine /\ Stated = given.override.max_retries
        BY <3>1, <1>7, <1>8, <2>1 DEF OrElse
      <3> QED
        BY <3>1, <3>2, <1>3 DEF Within, OrElse
    <2>2. CASE ~(tool = "overridden" /\ given.override.max_retries # Absent)
      <3>1. Stated = given.global.max_retries
        BY <1>8, <2>2 DEF OrElse
      <3>2. everyones # Absent /\ everyones <= given.global.max_retries
        BY <1>3, <1>11, <3>1 DEF OnlyLowered
      <3>3. tool = "overridden" => mine = Absent
        <4>1. tool = "overridden" => mine = Absent \/ mine < 0
          BY <1>3, <2>2 DEF Lowering, OnlyLowered
        <4> QED
          BY <4>1, <1>5
      <3>4. merged.max_retries = everyones
        BY <3>2, <3>3, <1>6, <1>7 DEF OrElse
      <3> QED
        BY <3>1, <3>2, <3>4, <1>3 DEF Within, OrElse
    <2> QED
      BY <2>1, <2>2
  <1> QED
    BY <1>2, <1>9, <1>10, <1>11 DEF StatedBudgetClamped

(* config.rs:149-164, retry_with_backoff.py:32.  Every call is served      *)
(* under a configuration that compute_delay_ms was written for, and a      *)
(* budget the operator states is served within the ceiling and never       *)
(* raised, however often the plugin is built from the configuration it     *)
(* clamps in place.                                                        *)
THEOREM StatedBudgetClampedHolds == Spec => []StatedBudgetClamped
  <1>1. IInv /\ [Next]_vars => IInv'
    BY ClampKeeps, ConstructKeeps, ServeKeeps, ReinstantiateKeeps, StutterKeeps DEF Next
  <1> QED
    BY InitIInv, <1>1, ServedIsClamped, PTL DEF Spec

=============================================================================
