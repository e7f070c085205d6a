---------------------------- MODULE LimiterHook ----------------------------
(***************************************************************************)
(* The rate limiter as the gateway sees it: the plugin is constructed from *)
(* the operator's configuration (engine.rs, plugin.rs), and answers tool   *)
(* calls and prompt fetches, each a check of up to four dimensions that    *)
(* share one store, under the Python wrapper's catch-all                   *)
(* (rate_limiter.py).                                                      *)
(*                                                                         *)
(* Calls come one after another here: MemoryStore interleaves them, and    *)
(* shows that evictions, left out here, change no answer.  What Redis      *)
(* counts is in RedisCounters; here a Redis backend answers anything, or   *)
(* fails.                                                                  *)
(***************************************************************************)
EXTENDS RateAlgorithms, LimiterConfig

CONSTANTS
  Deployments,   \* records: a configuration (raw), its traffic (requests),
                 \* and the bounds of a run (maxCalls, maxTicks)
  StartTime

(* Counts are unsigned, and the clock, which counts from the Unix epoch    *)
(* (clock.rs:42), is past every window when the plugin starts.             *)
CountsUnsigned(c) ==
  /\ \A v \in {c.by_user, c.by_user_per_server, c.by_tenant} :
       Readable(v) => v.value.count \in Nat
  /\ \A e \in ToolEntries(c.by_tool) : e.rate.count \in Nat

ASSUME HookAssumption ==
  /\ StartTime \in Nat
  /\ \A u \in DOMAIN UnitSecs :
       UnitSecs[u] \in Nat \ {0} /\ UnitSecs[u] * NanosPerSec < StartTime
  /\ \A d \in Deployments : CountsUnsigned(d.raw)

VARIABLES
  deployment,    \* the operator's configuration and the requests that come
  engine,        \* what the constructor built
  store,         \* MemoryStore: dimension key -> KeyState
  now,
  calls          \* history: every call made, with its answer

vars == <<deployment, engine, store, now, calls>>

raw == deployment.raw

NotBuilt == [status |-> "new"]
Rejected == [status |-> "rejected"]

Init ==
  /\ deployment \in Deployments
  /\ engine = NotBuilt
  /\ store = [k \in {} |-> 0]
  /\ now = StartTime
  /\ calls = << >>

(***************************************************************************)
(* Construction: RateLimiterPluginCore::new.                               *)
(***************************************************************************)
Construct ==
  /\ engine = NotBuilt
  /\ \E c \in EngineConfigs(raw), b \in Backends(raw) :
       engine' = [status |-> "built", config |-> c, backend |-> b,
                  failClosed |-> FailClosed(raw)]
  /\ UNCHANGED <<deployment, store, now, calls>>

(* ValueError or RuntimeError *)
ConstructFails ==
  /\ engine = NotBuilt
  /\ \/ EngineConfigs(raw) = {}
     \/ Backends(raw) = {}
     \/ \E b \in Backends(raw) : b.kind = "redis" /\ LibraryMayRefuse(raw.tls)
  /\ engine' = Rejected
  /\ UNCHANGED <<deployment, store, now, calls>>

(***************************************************************************)
(* The context of a request.  A user is None, a dictionary, a string or    *)
(* another object, which stands for what str() makes of it; an optional    *)
(* attribute is absent, blank, not a string, or a name.  Names are trimmed *)
(* already and hold no colon, which separates the parts of a key.          *)
(***************************************************************************)
Blank == Text("")
Attribute(v) == IF Readable(v) /\ v # Blank THEN v.value ELSE "none"

Anonymous == "anonymous"
NamesSomebody(v) == v # Absent /\ v.value # ""
Identity(user) ==
  LET claims == IF user.type = "dict" THEN <<user.email, user.id, user.sub>> ELSE <<user>>
      given == SelectSeq(claims, NamesSomebody)
  IN IF given = << >> THEN Anonymous ELSE given[1].value

(* validated_server_id, for a configuration with by_user_per_server.       *)
(* Server ids that are too long or hold other characters are "unsafe".     *)
ServerNeeded(req) == req.hook = "tool" /\ engine.config.by_user_per_server # NoRate
ServerValid(req) ==
  ServerNeeded(req) => Attribute(req.server) \notin {"none", "unsafe"}

(* A request the hook cannot read: an exception that leaves the core.      *)
Escapes(req) ==
  \/ req.name.type = "other"
  \/ req.tenant.type = "other"
  \/ req.server.type = "other"

(***************************************************************************)
(* build_checks: the dimensions that apply, each with a key and its limit. *)
(* Prompts go through an engine without by_user_per_server (for_prompts).  *)
(***************************************************************************)
TenantlessPrefix(req) == "none"                               \* mutant
Prefix(req) == Attribute(req.tenant)

KeyPerHook(req, dim, id) == <<Prefix(req), dim, id, req.hook>> \* mutant
Key(req, dim, id) == <<Prefix(req), dim, id>>

Named(req) == Normal[req.name.value]

Dimensions == {"user", "server", "tenant", "tool"}

RateOf(req, dim) ==
  LET c == engine.config
  IN CASE dim = "user" -> c.by_user
       [] dim = "server" -> IF req.hook = "tool" THEN c.by_user_per_server ELSE NoRate
       [] dim = "tenant" -> IF Attribute(req.tenant) = "none" THEN NoRate ELSE c.by_tenant
       [] dim = "tool" -> IF Named(req) \in DOMAIN c.by_tool
                          THEN c.by_tool[Named(req)] ELSE NoRate

KeyOf(req, dim) ==
  Key(req, dim, CASE dim = "user" -> Identity(req.user)
                  [] dim = "server" -> <<Identity(req.user), Attribute(req.server)>>
                  [] dim = "tenant" -> Attribute(req.tenant)
                  [] dim = "tool" -> Named(req))

Checks(req) ==
  [dim \in {d \in Dimensions : RateOf(req, d) # NoRate} |->
     [key |-> KeyOf(req, dim), rate |-> RateOf(req, dim)]]

(* One check on the memory backend: check_and_increment.                   *)
Ticks(rate) == rate.secs * NanosPerSec
Unix == now \div NanosPerSec
CheckAndIncrement(check) ==
  LET limit == check.rate.count
      window == Ticks(check.rate)
      st == IF check.key \in DOMAIN store THEN store[check.key]
            ELSE NewKeyState(engine.config.algorithm, limit, now, Unix)
  IN Evaluate(engine.config.algorithm, st, limit, window, now, Unix)

(***************************************************************************)
(* from_dims: the result that stands for all dimensions.  min_by_key takes *)
(* the first of equals, in the order of the checks.                        *)
(***************************************************************************)
Order == <<"user", "server", "tenant", "tool">>
FirstLeast(dims, by(_)) ==
  dims[Order[Min({i \in DOMAIN Order :
    Order[i] \in DOMAIN dims /\ \A d \in DOMAIN dims : by(dims[Order[i]]) <= by(dims[d])})]]

SoonestToOpen(dims) == FirstLeast(dims, LAMBDA d : d.retry)

LeastRestrictive(dims) == FirstLeast(dims, LAMBDA d : -d.remaining)   \* mutant
MostRestrictive(dims) == FirstLeast(dims, LAMBDA d : d.remaining)

Refusals(dims) == {d \in DOMAIN dims : ~dims[d].allowed}

FromDims(dims) ==
  IF Refusals(dims) # {}
  THEN [SoonestToOpen(Restrict(dims, Refusals(dims))) EXCEPT !.remaining = 0]
  ELSE MostRestrictive(dims)

(***************************************************************************)
(* Answers: build_prehook_result, backend_error_result,                    *)
(* rate_limit_context_error_result, and the wrapper's empty result.  No    *)
(* header is sent where the limit is 0; Retry-After is removed from an     *)
(* answer that lets the call through.  A refusal carries the metadata as   *)
(* its details, and only there the caller is named.                        *)
(***************************************************************************)
NoDetails == [reset_in |-> 0, user_id |-> "none", tenant_id |-> "none"]
Details(req, eval) ==
  [reset_in |-> IF eval.retry # NoRetry THEN eval.retry ELSE SatSub(eval.reset, Unix),
   user_id |-> Identity(req.user),
   tenant_id |-> Attribute(req.tenant)]

Answer(code, limit, remaining, retry) ==
  [code |-> code, limit |-> limit, remaining |-> remaining, retry |-> retry,
   details |-> NoDetails]

LetThrough == Answer("pass", 0, 0, NoRetry)
ContextMissing == Answer("RATE_LIMIT_CONTEXT_MISSING", 0, 0, NoRetry)
BackendUnavailable == Answer("BACKEND_UNAVAILABLE", 0, 0, 1)
BackendError == IF engine.failClosed THEN BackendUnavailable ELSE LetThrough

Violation(req, eval) ==
  [Answer("RATE_LIMIT", eval.limit, eval.remaining, eval.retry) EXCEPT
     !.details = Details(req, eval)]

PrehookResult(req, dims) ==
  IF DOMAIN dims = {} THEN LetThrough
  ELSE LET eval == FromDims(dims)
       IN IF eval.allowed THEN Answer("pass", eval.limit, eval.remaining, NoRetry)
          ELSE Violation(req, eval)

Answered(req, dims, answer) ==
  calls' = Append(calls, [req |-> req, at |-> now, dims |-> dims, answer |-> answer])

(***************************************************************************)
(* A call of a hook.                                                       *)
(***************************************************************************)
Serving(req) ==
  /\ engine.status = "built"
  /\ Len(calls) < deployment.maxCalls

(* RateLimiterEngine::check: every dimension is counted, whatever the      *)
(* others answer.                                                          *)
Check(req) ==
  /\ engine.backend.kind = "memory"
  /\ LET checks == Checks(req)
         evals == [d \in DOMAIN checks |-> CheckAndIncrement(checks[d])]
         at(k) == CHOOSE d \in DOMAIN checks : checks[d].key = k
         keys == {checks[d].key : d \in DOMAIN checks}
         dims == [d \in DOMAIN checks |-> evals[d].result]
     IN /\ store' = [k \in DOMAIN store \cup keys |->
                       IF k \in keys THEN evals[at(k)].state ELSE store[k]]
        /\ Answered(req, dims, PrehookResult(req, dims))

(* The DimResults a Redis backend may return for checks.                   *)
RedisReplies(checks) ==
  [DOMAIN checks -> {Allowed(2, 1, Unix + 1), Blocked(2, Unix + 2, 2)}]

(* RateLimiterEngine::check_async                                          *)
CheckAsync(req) ==
  /\ engine.backend.kind = "redis"
  /\ \E dims \in RedisReplies(Checks(req)) : Answered(req, dims, PrehookResult(req, dims))
  /\ UNCHANGED store

CheckAsyncFails(req) ==
  /\ engine.backend.kind = "redis"
  /\ DOMAIN Checks(req) # {}
  /\ Answered(req, << >>, BackendError)
  /\ UNCHANGED store

EvaluateRequest(req) == Check(req) \/ CheckAsync(req) \/ CheckAsyncFails(req)

(* rate_limiter.py: whatever leaves the core lets the request through.     *)
CallEscapes(req) ==
  /\ Serving(req) /\ Escapes(req)
  /\ Answered(req, << >>, LetThrough)
  /\ UNCHANGED <<deployment, engine, store, now>>

RefuseWithoutServer(req) ==
  /\ Serving(req) /\ ~Escapes(req)
  /\ req.hook = "tool" /\ ~ServerValid(req)
  /\ Answered(req, << >>, ContextMissing)
  /\ UNCHANGED <<deployment, engine, store, now>>

ToolPreInvoke(req) ==
  /\ Serving(req) /\ ~Escapes(req)
  /\ req.hook = "tool" /\ ServerValid(req)
  /\ EvaluateRequest(req)
  /\ UNCHANGED <<deployment, engine, now>>

PromptPreFetch(req) ==
  /\ Serving(req) /\ ~Escapes(req)
  /\ req.hook = "prompt"
  /\ EvaluateRequest(req)
  /\ UNCHANGED <<deployment, engine, now>>

Tick ==
  /\ engine.status = "built"
  /\ now < StartTime + deployment.maxTicks
  /\ now' = now + 1
  /\ UNCHANGED <<deployment, engine, store, calls>>

Next ==
  \/ Construct
  \/ ConstructFails
  \/ Tick
  \/ \E req \in deployment.requests :
       \/ CallEscapes(req)
       \/ RefuseWithoutServer(req)
       \/ ToolPreInvoke(req)
       \/ PromptPreFetch(req)

Spec == Init /\ [][Next]_vars

(***************************************************************************)
(* Properties.                                                             *)
(***************************************************************************)

(* What a dimension is meant to count, said without keys: the requests     *)
(* that share a quota, and the rates the operator states for it.           *)
SharesQuota(dim, a, b) ==
  /\ Attribute(a.tenant) = Attribute(b.tenant)
  /\ CASE dim = "user" -> Identity(a.user) = Identity(b.user)
       [] dim = "server" -> /\ Identity(a.user) = Identity(b.user)
                            /\ Attribute(a.server) = Attribute(b.server)
                            /\ a.hook = "tool" /\ b.hook = "tool"
       [] dim = "tenant" -> Attribute(a.tenant) # "none"
       [] dim = "tool" -> Normal[a.name.value] = Normal[b.name.value]

StatedRates(dim, req) ==
  LET one(v) == IF Readable(v) THEN {ParseRate(v.value)} ELSE {}
  IN CASE dim = "user" -> one(raw.by_user)
       [] dim = "server" -> one(raw.by_user_per_server)
       [] dim = "tenant" -> one(raw.by_tenant)
       [] dim = "tool" -> StatedFor(raw.by_tool, Normal[req.name.value])

OnMemory == engine.status = "built" /\ engine.backend.kind = "memory"
Passed(i) == calls[i].answer.code = "pass"
Refused(i) == calls[i].answer.code = "RATE_LIMIT"
Counted(i) == ~Escapes(calls[i].req) /\ (Passed(i) \/ Refused(i))

(* Calls of one quota in the window that ends with call i.                 *)
Recent(dim, rate, i) ==
  {j \in 1..i : /\ Counted(j) /\ SharesQuota(dim, calls[i].req, calls[j].req)
               /\ calls[j].at > calls[i].at - Ticks(rate)}

(* README.md "Configuration reference".  Whatever limit a readable         *)
(* configuration states for a user, a user on a server, a tenant or a tool *)
(* holds for the calls let through, over both hooks together and whichever *)
(* other limits apply; within one window at most twice for the algorithms  *)
(* that burst.  Of two limits stated for one tool under different          *)
(* spellings, one holds.                                                   *)
QuotaPerScope ==
  OnMemory =>
    \A i \in DOMAIN calls, dim \in Dimensions :
      Counted(i) /\ Passed(i) /\ SharesQuota(dim, calls[i].req, calls[i].req)
        /\ StatedRates(dim, calls[i].req) # {} =>
        \E rate \in StatedRates(dim, calls[i].req) :
          Cardinality({j \in Recent(dim, rate, i) : Passed(j)})
            <= rate.count * (IF engine.config.algorithm = "sliding_window" THEN 1 ELSE 2)

(* engine.rs:432-468.  Nobody pays for others: a call is refused only if   *)
(* the calls that share one of its quotas, refused ones among them, used   *)
(* that quota up within the last window.                                   *)
RefusedOnlyInScope ==
  OnMemory /\ engine.config.algorithm # "token_bucket" =>
    \A i \in DOMAIN calls :
      Refused(i) =>
        \E dim \in Dimensions : \E rate \in StatedRates(dim, calls[i].req) :
          /\ SharesQuota(dim, calls[i].req, calls[i].req)
          /\ Cardinality(Recent(dim, rate, i) \ {i}) >= rate.count

(* Calls i to j repeat one request, with no other in between.              *)
Repeats(i, j) == \A k \in i..j : calls[k].req = calls[i].req

(* types.rs:129, README.md "Response headers".  X-RateLimit-Remaining is   *)
(* what is left over all dimensions: the same request may be repeated that *)
(* often, and without time passing once more is refused.                   *)
RemainingHonest ==
  OnMemory =>
    \A i \in DOMAIN calls : \A j \in i + 1..Len(calls) :
      Passed(i) /\ calls[i].answer.limit > 0 /\ Repeats(i, j) =>
        /\ j - i <= calls[i].answer.remaining => Passed(j)
        /\ j - i = calls[i].answer.remaining + 1 /\ calls[j].at = calls[i].at
             => Refused(j)

(* redis_backend.rs:197-206, 241-262.  What the configuration says of TLS  *)
(* is in force in the client that was built, unless hostname checks, and   *)
(* with them everything, were turned off.                                  *)
TlsInForce ==
  engine.status = "built" /\ engine.backend.kind = "redis" =>
    LET tls == raw.tls
        client == engine.backend.client
    IN /\ Knobs(tls) => client.trust # "plain"
       /\ tls.check_hostname /\ tls.ca # "unset" => client.trust = "ca"
       /\ {tls.cert, tls.key} # {"unset"} => client.presents
=============================================================================
