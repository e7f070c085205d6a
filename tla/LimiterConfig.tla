--------------------------- MODULE LimiterConfig ---------------------------
(***************************************************************************)
(* How the rate limiter reads its configuration when it is constructed:    *)
(* rate strings (config.rs), fail mode (plugin.rs), backend and TLS        *)
(* (engine.rs, redis_backend.rs).  A value of the operator's dictionary is *)
(* absent, of a type the field does not have ("other"), or readable.       *)
(***************************************************************************)
EXTENDS Integers, FiniteSets

CONSTANTS
  MaxRateCount,  \* MAX_RATE_COUNT
  UnitSecs,      \* seconds of the units "s", "m" and "h"
  Normal         \* trim and lower case, as a function on names

Absent == [type |-> "absent"]
Other == [type |-> "other"]
Text(value) == [type |-> "text", value |-> value]

(* .and_then(|v| v.extract().ok()): a value of another type is no value. *)
Readable(v) == v.type = "text"
Extracted(v, default) == IF Readable(v) THEN v.value ELSE default

(***************************************************************************)
(* Rates.  A rate string is a count and a unit; "?" stands for every unit  *)
(* and every form that is not accepted.                                    *)
(***************************************************************************)
NoRate == [count |-> 0, secs |-> 0]

Parses(rate) ==
  /\ rate.unit \in DOMAIN UnitSecs
  /\ rate.count > 0
  /\ rate.count <= MaxRateCount

ParseRate(rate) == [count |-> rate.count, secs |-> UnitSecs[rate.unit]]

(* A dimension: no limit unless a readable value states one. *)
Limit(v) == IF Readable(v) THEN ParseRate(v.value) ELSE NoRate
LimitParses(v) == Readable(v) => Parses(v.value)

(* by_tool as a set of entries [name, rate]; if the value is no map of     *)
(* strings, all of it is dropped.  Entries whose names normalise alike     *)
(* collapse, in the order of a hash map's iteration, which nothing fixes.  *)
ToolEntries(v) == Extracted(v, {})
ToolNames(v) == {Normal[e.name] : e \in ToolEntries(v)}
StatedFor(v, name) ==
  {ParseRate(e.rate) : e \in {x \in ToolEntries(v) : Normal[x.name] = name}}
ByTool(v) ==
  {f \in [ToolNames(v) -> UNION {StatedFor(v, n) : n \in ToolNames(v)}] :
     \A n \in ToolNames(v) : f[n] \in StatedFor(v, n)}

AlgorithmNames == {"fixed_window", "sliding_window", "token_bucket"}

(* EngineConfig::new: every configuration it may return, none if it fails. *)
EngineConfigs(raw) ==
  IF /\ \A v \in {raw.by_user, raw.by_user_per_server, raw.by_tenant} : LimitParses(v)
     /\ \A e \in ToolEntries(raw.by_tool) : Parses(e.rate)
     /\ Extracted(raw.algorithm, "fixed_window") \in AlgorithmNames
  THEN {[by_user |-> Limit(raw.by_user),
         by_user_per_server |-> Limit(raw.by_user_per_server),
         by_tenant |-> Limit(raw.by_tenant),
         by_tool |-> f,
         algorithm |-> Extracted(raw.algorithm, "fixed_window")] :
           f \in ByTool(raw.by_tool)}
  ELSE {}

(* parse_fail_mode: only the word "closed" closes. *)
FailClosed(raw) == Extracted(raw.fail_mode, "open") = "closed"

(***************************************************************************)
(* TLS.  A file is unset, or it is named and missing, malformed or valid.  *)
(* A client trusts servers by the system's store ("os"), by the            *)
(* operator's CA ("ca") or without a look ("any"), and presents a          *)
(* certificate of its own or none.  Without TLS it is "plain".             *)
(***************************************************************************)
Client(trust, presents) == [trust |-> trust, presents |-> presents]
Knobs(tls) == {tls.ca, tls.cert, tls.key} # {"unset"} \/ ~tls.check_hostname

PairedAnyway(tls) == TRUE                                     \* mutant
Paired(tls) == (tls.cert = "unset") = (tls.key = "unset")

(* With check_hostname off nothing is verified and the CA file is not      *)
(* read; whether a malformed file of the client's own is an error is left  *)
(* to the redis library.                                                   *)
Presents(tls) == tls.cert # "unset" /\ tls.key # "unset"
InsecureClients(tls) == {Client("any", Presents(tls))}
LibraryMayRefuse(tls) ==
  ~tls.check_hostname /\ "malformed" \in {tls.cert, tls.key}

VerifyingClients(tls) ==
  IF "malformed" \in {tls.ca, tls.cert, tls.key} THEN {}
  ELSE {Client(IF tls.ca = "unset" THEN "os" ELSE "ca", Presents(tls))}

(* validate_and_build and RedisRateLimiter::new *)
RedisClients(tls) ==
  IF ~Knobs(tls) THEN {Client(IF tls.rediss THEN "os" ELSE "plain", FALSE)}
  ELSE IF \/ ~tls.rediss
          \/ "missing" \in {tls.ca, tls.cert, tls.key}
          \/ ~Paired(tls)
       THEN {}
  ELSE IF tls.check_hostname THEN VerifyingClients(tls) ELSE InsecureClients(tls)

(* The backends RateLimiterEngine::new may build, none if it fails. *)
Memory == [kind |-> "memory"]
Backends(raw) ==
  CASE Extracted(raw.backend, "memory") = "memory" -> {Memory}
    [] Extracted(raw.backend, "memory") = "redis" /\ raw.redis_url = "url" ->
         {[kind |-> "redis", client |-> c] : c \in RedisClients(raw.tls)}
    [] OTHER -> {}
=============================================================================
