--------------------------- MODULE MCLimiterHook ---------------------------
(***************************************************************************)
(* Instances of LimiterHook for TLC.  A minute has two seconds.          *)
(***************************************************************************)
EXTENDS LimiterHook

Seconds == [s |-> 1, m |-> 2]
Spellings == [n \in {"Search", "search", "fetch"} |-> IF n = "fetch" THEN n ELSE "search"]

Rate(count, unit) == Text([count |-> count, unit |-> unit])
Tool(name, count, unit) == [name |-> name, rate |-> [count |-> count, unit |-> unit]]

NoTls == [ca |-> "unset", cert |-> "unset", key |-> "unset",
          check_hostname |-> TRUE, rediss |-> FALSE]
Raw(algorithm) ==
  [by_user |-> Absent, by_user_per_server |-> Absent, by_tenant |-> Absent,
   by_tool |-> Absent, algorithm |-> Text(algorithm), fail_mode |-> Absent,
   backend |-> Absent, redis_url |-> "url", tls |-> NoTls]

Request(hook, name, user, tenant, server) ==
  [hook |-> hook, name |-> Text(name), user |-> user,
   tenant |-> tenant, server |-> server]
alice == Text("alice")
aliceAsObject == [type |-> "object", value |-> "alice"]
aliceInParts == [type |-> "dict", email |-> Blank, id |-> aliceAsObject, sub |-> Text("x")]
bob == Text("bob")
AliceSearches == Request("tool", "Search", alice, Absent, Absent)
AlicePrompts == Request("prompt", "search", aliceInParts, Blank, Absent)
BobSearches == Request("tool", "search", bob, Absent, Absent)
Unreadable == [AliceSearches EXCEPT !.name = Other]
At(req, tenant) == [req EXCEPT !.tenant = Text(tenant)]
On(req, server) == [req EXCEPT !.server = Text(server)]
Nobody == Request("tool", "fetch", Absent, Absent, Absent)

Bounded(r, requests, maxCalls, maxTicks) ==
  [raw |-> r, requests |-> requests, maxCalls |-> maxCalls, maxTicks |-> maxTicks]
Deploy(r, requests) == Bounded(r, requests, 4, 5)

(* Two dimensions that refuse for different times, under each algorithm.   *)
UserAndTool(algorithm) ==
  Deploy([Raw(algorithm) EXCEPT !.by_user = Rate(2, "s"),
                                !.by_tool = Text({Tool("Search", 1, "m")})],
         {AliceSearches, AlicePrompts, BobSearches})
BothSmall(algorithm) ==
  Deploy([Raw(algorithm) EXCEPT !.by_user = Rate(1, "s"),
                                !.by_tool = Text({Tool("search", 1, "m")})],
         {AliceSearches, Unreadable})
(* Tenants with the same users; a limit that is no string is no limit.     *)
Tenants(algorithm) ==
  Deploy([Raw(algorithm) EXCEPT !.by_user = Rate(1, "m"), !.by_tenant = Rate(2, "s"),
                                !.by_tool = Other],
         {At(AliceSearches, "t"), At(AliceSearches, "u"), At(BobSearches, "t")})
Servers ==
  Deploy([Raw("fixed_window") EXCEPT !.by_user = Rate(2, "m"),
                                     !.by_user_per_server = Rate(1, "m")],
         {On(AliceSearches, "s1"), On(AliceSearches, "unsafe"),
          AliceSearches, On(AlicePrompts, "s1")})
Twice ==
  Deploy([Raw("sliding_window") EXCEPT
            !.by_tool = Text({Tool("Search", 2, "s"), Tool("search", 1, "m")})],
         {AliceSearches, Nobody})

Memories ==
  {UserAndTool("sliding_window"), UserAndTool("token_bucket"),
   BothSmall("fixed_window"), BothSmall("sliding_window"), BothSmall("token_bucket"),
   Tenants("sliding_window"), Tenants("fixed_window"), Servers, Twice}

(* Every combination of TLS knobs, under both fail modes.                  *)
Files == {"unset", "missing", "malformed", "valid"}
TlsKnobs == [ca: Files, cert: Files, key: Files, check_hostname: BOOLEAN, rediss: BOOLEAN]
OverRedis ==
  {Bounded([Raw("fixed_window") EXCEPT !.by_user = Rate(2, "m"), !.by_tenant = Rate(2, "s"),
                                      !.backend = Text("redis"), !.tls = tls,
                                      !.fail_mode = Text(mode)],
          {At(AliceSearches, "t"), At(AlicePrompts, "t")}, 2, 0) :
     tls \in TlsKnobs, mode \in {"closed", "clsoed"}}

(* Configurations that are refused.                                        *)
Mistaken ==
  {Deploy(r, {AliceSearches}) :
     r \in {[Raw("fixed_window") EXCEPT !.by_user = Rate(0, "s")],
            [Raw("fixed_window") EXCEPT !.by_tenant = Rate(9, "s")],
            [Raw("fixed_window") EXCEPT !.by_tool = Text({Tool("fetch", 1, "?")})],
            [Raw("fixed_window") EXCEPT !.backend = Text("rediss")],
            [Raw("fixed_window") EXCEPT !.backend = Text("redis"), !.redis_url = "none"],
            Raw("leaky_bucket")}}

AllDeployments == Memories \cup OverRedis \cup Mistaken
=============================================================================
