# A formal model of the CPEX plugins

This directory holds TLA+ specifications of the plugins in this repository, the
TLC configurations that check them on small instances, and TLAPS proofs of the
results that matter most. Paths below are relative to the repository; `rate_limiter/`,
`retry_with_backoff/` and so on stand for `plugins/rust/python-package/<name>/`.

`PROJECT.json` is the machine-readable index: components, runs, mutants, the map
from every definition to the lines it models, findings, hazards and theorems.

To check a run: `tlc -config MCMemoryStore.cfg MCMemoryStore` (the run list
below names the module of each configuration). To check a proof:
`tlapm MemoryStoreProofs.tla`.

## 1. The system

The repository is a collection of plugins for an MCP gateway. The gateway calls
hooks of each plugin (`tool_pre_invoke`, `tool_post_invoke`, `prompt_pre_fetch`,
`resource_post_fetch`, ...) with a payload and a context; a hook answers with a
result: let the payload pass, replace it, or block it with a violation. Most plugins
are a thin Python class around a Rust core (PyO3). They do not call one
another; they interact through the gateway, through what a hook leaves in its
result, and, for two of them, through state that outlives a call.

| Component | State it keeps | Operations | What is hard about it |
|---|---|---|---|
| rate_limiter, memory backend (`memory.rs`, `clock.rs`) | map of keys to window, deque or bucket, each behind its own lock, the map behind an RwLock; a call counter | `check_and_increment`, `sweep` | locks released between the steps of a call; one clock reading for several steps; eviction by other callers; integer rounding and underflow |
| rate_limiter, Redis counters (the Lua scripts of `redis_backend.rs`) | one Redis key per dimension and window, with a TTL; a counter of members per process | the three batch scripts | several replicas with clocks of their own; whole seconds; TTLs; equal members |
| rate_limiter, Redis client (`redis_backend.rs`, `plugin.rs`) | cached connection, cached script SHA | connect, load, EVALSHA, EVAL, reset, shutdown | concurrent awaits around two caches; lost connections and replies, restarts, script flushes, a server that never answers |
| rate_limiter, engine and plugin (`config.rs`, `engine.rs`, `types.rs`, `plugin.rs`, `rate_limiter.py`) | configuration | `check`, `check_async`, hooks, `shutdown` | several dimensions per call, some of which refuse; two hooks over one set of counters; fail-open and fail-closed; TLS half configured |
| retry_with_backoff, plugin core (`plugin.rs`, `state.rs`, `delay.rs`) | map of (tool, request) to failures, behind a mutex; one static moment of the last eviction for all instances | `tool_post_invoke` | state that expires while its request lives; instances sharing a static; zero as a signal |
| retry_with_backoff, configuration (`config.rs`, `retry_with_backoff.py`) | the operator's configuration, copied shallowly | clamp, parse, validate, merge per call | defaults and clamps in two languages; validation before and after a merge |
| retry_with_backoff, `RetryStateManager` (`lib.rs`) | a process-wide map | as the plugin core, by single operations | not used by the plugin |
| secrets_detection | none between calls; a memo of visited containers within one | scan and redact text and Python object graphs | shared and cyclic containers, placeholders that must be resolved; matches of eleven patterns that overlap in chains |
| encoded_exfil_detection | none | find, decode, score and redact encoded spans | overlapping spans of several detectors; recursion and caps |
| output_length_guard | none | truncate or block text and structured data | boundaries; limits on depth and size |
| pii_filter | none | detect, choose among overlaps, mask | overlapping detections; nested data |
| sql_sanitizer | none | strip comments, look for issues | quote and comment state machine |
| url_reputation | none | ordered decision list per URL | the order of the list |
| ica_metering_exporter (Python) | an HTTP client | attribute and send one record per tool call | partial failure; shutdown |
| framework_bridge (`crates/`) | none | build Python result objects | runs Python code, also while a caller holds a Rust mutex |
| tools (`plugin_catalog.py`, `scaffold_plugin.py`, `install_built_wheel.py`, `validate_ci_selection.py`), CI workflows | files of the repository | select plugins for CI, scaffold, verify releases | consistency of names and versions over many files |

What makes each correct:

- *rate_limiter*: no caller, interleaving, eviction, replica or failure admits more
  than the algorithm allows; nobody is refused below the limit; the advertised
  retry time is true; an error of Redis is answered as `fail_mode` says and
  disturbs at most the calls it hit; every call is answered.
- *retry_with_backoff*: a request is retried as often as its budget says and no more,
  with the backoff of its own attempt; a request that is over leaves
  nothing behind; the operator's ceiling holds.
- *secrets_detection, encoded_exfil_detection, pii_filter*: everything found is
  redacted, in every place it occurs, and nothing else is touched.
- *output_length_guard*: what leaves is within the limits or reported.
- *sql_sanitizer, url_reputation*: the verdict depends on the meaning of the input only.
- *ica_metering_exporter*: one record per call, its status reported, tool calls never disturbed.
- *tools*: what CI builds and a tag releases is what the change names.

## 2. Modules

| Module | Models | Kind |
|---|---|---|
| `RateAlgorithms` | the three algorithms of `memory.rs` on one key, and what a sweep keeps | operators |
| `MemoryStore` | concurrent calls over several keys, the fast and slow path, the sweep | state machine |
| `SlidingWindowPromise` | what a sliding window promises, as a log | abstract specification |
| `RedisScripts` | the Lua scripts on one key, and Redis' TTL | operators |
| `RedisCounters` | replicas with clocks of their own that share a key | state machine |
| `RedisClient` | the caches of connection and script, faults, `fail_mode`, shutdown | state machine |
| `RetryPlugin` | `tool_post_invoke` of several instances, and the gateway that obeys | state machine |
| `RetryConfig` | a budget's way from configuration to call | state machine |
| `ScanGraph` | the two passes of secrets_detection over shared and cyclic containers | state machine |
| `LimiterConfig`, `LimiterHook` | rates, engine and TLS from the operator's configuration; the limiter's two hooks, from a request to the answer | operators, state machine (over `RateAlgorithms`) |
| `PyValues` | the Python values that hooks receive: texts, lists, tuples, sets, dictionaries, objects | operators |
| `LengthGuard`, `SqlSanitizer`, `UrlReputation` | configuration and hook of each plugin | operators |
| `HookCalls` | composes these three: construction, calls, a second gateway behind the first | state machine |
| `TextPatterns` | what a regular expression matches, by its runs of symbols | operators |
| `PiiFilter`, `ExfilDetection`, `SecretsText` | configuration, detection, masking and hooks of each plugin | operators (the first and last over `TextPatterns`) |
| `ScanCalls` | composes these three: construction and calls | state machine |
| `MC...` | instances for TLC: model values, functions, symmetry, refinement mappings | instances |
| `MemoryStorePromise`, `RedisCountersPromise` | the refinement mappings from `MemoryStore` and `RedisCounters` to `SlidingWindowPromise` | instances |
| `RateAlgorithmsProofs` | what each algorithm returns, keeps and bounds | lemmas |
| `MemoryStoreProofs`, `RedisCountersProofs`, `RedisClientProofs`, `LimiterHookProofs`, `RetryPluginProofs`, `RetryConfigProofs`, `ScanGraphProofs` | theorems about the module each is named after | proofs |

### Rate limiter in memory

`MemoryStore` has one action per critical section. `Check` reads the clocks and the
dimension keys (`engine.rs:284-290`) of the `limiter` in use, which is one of `Limiters`, chosen when the engine
is built and never changed; `LookupHit` is the evaluation under
the read lock of the map and the lock of the key, `LookupMiss` the drop of the read lock,
`Insert` the slow path with `or_insert_with`; `CountCall` the `fetch_add`, `Sweep` the
eviction under the write lock with the caller's own reading; `Respond` the answer. The
state `caller[c].stamp` is `now_mono`, read once, so a caller evaluates with a
reading up to `MaxLag` ticks old. `admitted` is a history of admitted calls.

`RateAlgorithms` keeps the integer arithmetic of the code: floor and ceiling divisions,
saturating subtraction, the wrapping subtraction of `memory.rs:296` modulo `WordMod` (a
release build wraps; a build with overflow checks panics there instead), milli-tokens
and the truncation that moves `last_refill` on.

A second is `NanosPerSec` ticks (2), a token `Milli` units (2), the eviction threshold
of buckets `StaleNanos`. `SweepInterval` is 1 rather than 128, so that
sweeps fall between any two steps. `StartTime` lies beyond every window: the code's clock
counts from the Unix epoch (`clock.rs:42`), so no window reaches below zero. The
wall clock is taken to be the monotonic one in whole seconds.

### Rate limiter in Redis

`RedisCounters` has one action when a replica reads its clock and sends (`Send`), one when Redis runs
the script (`Run`, atomic as Lua scripts are) and one when the replica is done. A replica's
clock is ahead of Redis' by `deployment.skew[r]` (a deployment is one of `Deployments`), its reading is in whole seconds, and up to `MaxLag` ticks old
when the script runs. TTLs are counted by Redis. `RedisScripts` keeps the order of
`EXPIRE` and `ZADD`. A bucket's numbers are exact: a token is `Window` units, so a second refills
`Limit` of them; the code uses f64, and rounding errors of f64 are not modelled. One key stands
for the keys of a batch, which do not interact. `reset_timestamp` and `remaining` are not modelled (`LimiterHook` has both, for the memory backend).

`RedisClient` models one process. Each `await` and each lock is an action: lookup, connect,
store, SHA lookup, SCRIPT LOAD, SHA store, EVALSHA, NOSCRIPT, EVAL and the two locks
of `reset_connection` (`redis_backend.rs:523-664`, `678-707`). The environment loses
connections, restarts Redis (which loses scripts and connections and keeps its data), silences it,
flushes its scripts and loses replies after the script has run. The counting is one window of one key. A reply lost while a script is loaded (the code goes on with EVAL, `redis_backend.rs:599-640`) and a malformed reply are left out.

### Retry

`RetryPlugin` has `PostFailure` and `PostSuccess` for `tool_post_invoke`, each the whole call
under its mutex: classification of the result, throttled eviction, count, budget, delay. The
gateway is external: it invokes, waits for the delay it is told, invokes again, and
may abandon a request without telling the plugin. Time is relative (ages saturate where
nothing tells them apart), so that runs are not bounded in time. An entry that failed at
the very first instant of the process (`last_failure_at <= 0.0`) is not modelled.

`RetryConfig` follows one configuration through up to two instantiations of the plugin, each
under a ceiling of its own: `Clamp` is the wrapper's `__init__`, `Construct` the parsing and validation
in Rust, `Serve` the merge and validation at a call. The clamp writes into the operator's dictionary of
overrides, since the copy is shallow; into the global budget it does not.

### Secrets

`ScanGraph` follows one hook of secrets_detection over one payload. A container is a record of its kind, its values
(`kids`) and, for an object, what `__dict__` holds under keys that are no strings (`extras`); a string is a secret or
is not, so the patterns are left out. The recursion of `scan_findings_inner` and `scan_container_inner` is the variable
`stack`, a frame per container; `seen` and `memo` are theirs, and `heap` holds the gateway's containers and those a
scan makes, so aliasing, in-place replacement of a tuple's placeholder and the back-references to half-built containers are what
they are in Python. One step takes one value of the innermost container (`ScanString`, `SkipField`, `BackReference`,
`Descend`); the others are what a complete container returns (`FindComplete`, `FinishMapping`,
`FinishTuple`, `FinishAttributes`, `TurnToExtras` and `FinishExtras`, the halves of `scan_object_state`). The hook runs
`pass` "find", then, if it found something and `redact` is on, "redact"; `Answer` is the verdict and the payload.
The temporary dictionary that holds an object's attributes is not a container of its own: nothing else refers to it. The keys of a dict are
strings, the constant `Keys` in order. `model_dump`, what it serialises, and `__slots__` are left out.

The graphs are numbered in the order in which they are reached. A cycle of tuples alone cannot be
built in Python. Two more kinds of graph are left out of the run, because there the code does not keep its
promise: cycles through `extras` (the hazard at `python_scan.rs:445`: the object that leads back is returned as it
was, and the old dictionary with it) and a tuple that holds a tuple it is itself reached from, where the
placeholder stays in the answer (`cycle_rewrite.rs:57`).

`SecretsText` is the scan of one text (`text_scan.rs`, `patterns.rs`), with the configuration and the answer of a hook
whose value is a text. See "Scanners" below.

### The limiter's hooks

`LimiterHook` starts with the operator's configuration, `raw`, whose options are absent, of another type, or a text. `Construct` and
`ConstructFails` are `RateLimiterPluginCore::new`; `LimiterConfig` has its parts: `ParseRate` with its bounds, the
normalised tool names of `by_tool` (of two spellings of one tool an unspecified one stays, as the map's order
decides), `fail_mode`, backend, and the Redis client that the TLS options lead to. `ToolPreInvoke` and `PromptPreFetch` are whole calls: identity and tenant of the
context, the server id that has to be there for a limit per server, `Checks` (`build_checks`, through the clone
without that limit for prompts), every dimension counted even if one refuses, `FromDims`, and the answer with its
headers. `RefuseWithoutServer` and `CallEscapes` are the early returns: a missing context is refused, and what leaves the core as an
exception is let through by the wrapper (`rate_limiter.py`). On Redis, each dimension answers either way, or the batch fails
(`CheckAsync`, `CheckAsyncFails`). Calls come one after another: `MemoryStore` interleaves them. Headers are the values of their fields;
their spelling and `reset_in` beside them follow the code. A user, or a claim in a user's dictionary, that is no string stands for
what `str()` makes of it (`plugin.rs:704`).

### Hooks without state

`HookCalls` constructs one of three plugins from an operator's configuration (or is refused), and calls its hook on an input; `payload`
is what is handed on, and a second gateway in a chain calls the same hook on it (`MaxPasses` is 2). The operators are the handlers:

- `LengthGuard`: validation of the options, characters and tokens, `FindWordBoundary`, the truncation that makes room for the
  ellipsis, numbers that are never cut, structured content with its limits of depth and size, content lists, rewriting of `content` from a cut
  structure, both strategies. A text is a sequence of characters, with their bytes where the code counts bytes.
- `SqlSanitizer`: the state machine of quotes and comments (`Modes`), stripping, executable comments, the clauses it
  looks for, options, and the walk over arguments. A text is a sequence of words and marks.
- `UrlReputation`: the ordered list of decisions, zones by labels, patterns that Python and Rust compile differently, heuristics. What the URL
  parser makes of a label (lower case, `xn--`) is the constant `HostLabel`, a root dot is an empty label; whether an address parses, its entropy and what a pattern matches are given with it.

### Scanners

`ScanCalls` does the same for the plugins that look for content and take it out. `TextPatterns` replaces the regex crate: a pattern
is a set of alternatives of runs (so many symbols of a class, with marks between, or a number in a range), a match is the longest,
matches are taken from the left. (The crate prefers the first alternative to the longest; patterns for which these differ, such as `a|ab`, are left out.) A text is a sequence of symbols: a letter, a digit, a mark, or a word a pattern looks
for ("SSN", "AKIA"). A symbol is one byte, except in `ExfilDetection`, where `Widths` gives the bytes of a symbol and of its lower case.

- `PiiFilter`: the built-in patterns and custom ones, their validators (Luhn and prefixes among them), the sort of candidates by four keys and the
  choice, the masks, `mask()` with spans of a caller, nested data and its limits, the handlers of values and of messages.
- `ExfilDetection`: segments of five encodings, layers inside layers, scores, the best finding per span, redaction from the last span to the first, keys and JSON
  in strings, hooks and metrics. What a segment decodes to is given (`Layers`). Hints are looked for in a window of bytes of the lower-cased text, as the code does.
- `SecretsText`: the eleven patterns with sizes scaled down in their true order, labels that a finding leaves out, the merge of overlapping matches,
  redaction, blocking and metrics.

## 3. Runs

Bounds are in the .cfg files. Two callers or replicas are enough for what the properties are
about: one that acts on old data (a reading, a lookup, a connection) and one that changes it meanwhile.
Windows are 3 to 6 ticks and every run covers two of them or more, so that windows
end, reset and overlap. Runs that bound time or calls disable the deadlock check where they stop at the bound;
the others have it on. What a run could vary but the program fixes when it is built (the algorithm, the lag
to expect, the clocks of a deployment, `fail_mode`) is a variable chosen in the initial state, so one run covers all of them.

| Run | Configuration / module | Shows |
|---|---|---|
| memory_store | `MCMemoryStore` / `MCMemoryStore` | five limiters. With readings one tick late: a fixed window bursts to twice the limit and no further, no span of a window less the lag exceeds the limit of a sliding one although timestamps are pushed out of order (`StoreWindows` has both), a bucket keeps its rate. With prompt callers and calls over two dimensions: the burst and the span over whole windows, and the sliding store implements `SlidingWindowPromise`, which is stated for prompt callers only. Always: evictions change no answer and refused callers that are not late return in time |
| redis_counters | `MCRedisCounters` / `MCRedisCounters` | four deployments: the limits over the cluster with clocks apart, retry times that work; with one clock the sorted set implements, in whole seconds, the same `SlidingWindowPromise` as the memory backend |
| redis_key_leak | `MCRedisKeyLeak` / `MCRedisCounters` | **violation**: EXPIRE before ZADD leaves a first member's key without TTL |
| redis_client | `MCRedisClient` / `MCRedisClient` | both fail modes: at most one execution per call, harmless script flushes, no dead connection twice, every call answered |
| limiter_hook | `MCLimiterHook` / `MCLimiterHook` | stated limits hold for users, servers, tenants and tools over both hooks together; nobody is refused for others' calls; the advertised remaining quota is true; TLS options are in force in the client |
| retry_budget | `MCRetryBudget` / `MCRetryPlugin` | budget and backoff, with scans between any two failures and the longest waits the TTL allows; abandoned entries expire while the instance sees failures |
| retry_two_instances | `MCRetryTwoInstances` / `MCRetryPlugin` | **violation**: one instance can starve the eviction of another |
| retry_config | `MCRetryConfig` / `MCRetryConfig` | stated budgets are served as stated or clamped, never raised, and valid |
| secrets_graph | `MCScanGraph` / `MCScanGraph` | no secret is left along any path, cycle or sharing; field lists decide each place; the shape and the gateway's own data stay; both passes count the same |
| hook_calls | `MCHookCalls` / `MCHookCalls` | the length guard keeps its limits, only cuts, and blocks exactly where a text or structure is out of bounds; SQL statements are judged apart and only live code counts, unless a literal or comment opens in the body of an executable comment and goes on behind it; what is handed on is what was judged; entries of URL lists that are written as the parser writes a host mean whole zones |
| scan_calls | `MCScanCalls` / `MCScanCalls` | the PII filter masks by "earliest, then longest" at any depth and counts what it masked; a caller's spans are refused or masked each in its place, short account numbers apart; encoded payloads are counted and, unless segments overlap or the text loses bytes in lower case, redacted by segment; overlapping secrets are taken out whole, as one finding of the most specific pattern |
| exfil_overlap | `MCExfilOverlap` / `MCScanCalls` | **violation**: where encoded segments overlap, redaction leaves some of one, takes other text, or panics |

A violation run checks one statement of the documentation, a comment or a test, quoted in the
finding, that the code does not keep; TLC's counterexample is the evidence.

`Slack` in `RedisCounters` is what the guarantees lose there: the fraction of a second, the lag
and the skew. The properties state it rather than hide it.

`secrets_graph` takes every graph of two containers of the four kinds with up to two secrets, and every graph of
three dicts, tuples and objects with one: two containers close a cycle through each other and share one, the third
stands between a container and its back-reference. The four configurations have no lists, a denied field, an allowed
field below another, and no redaction. The deadlock check is on; a hook that has answered stutters (`Returned`).

`limiter_hook` has nine memory deployments with up to four calls in five ticks (a "minute" has two seconds, so that two
units refuse for different times), two users, two tenants and two servers; every combination of TLS options under both fail modes; and configurations that are
refused. `hook_calls` and `scan_calls` enumerate inputs rather than steps: all texts of some letters up to a length, for patterns that overlap
in every way, all pairs of pieces with every separator for the built-in patterns, and nested values one level beyond each limit. Their properties say by
position what the code computes by passes over the text, and never call the operators they judge for more than the list of candidates.

### Where the code differs from what one might expect

Three disagreements with the documentation have a run (violations above). TLC or the reading of the code showed more. The hazards in `PROJECT.json`
list those that matter most; the properties name what they leave out.

- `memory.rs:296`: the reading of a late caller may precede the window's start, and the unchecked subtraction wraps (a build with overflow
  checks panics); such a caller is told to wait one second. `RetryHonest` takes callers that are not late.
- `redis_backend.rs:572`, `:615`: a call in flight caches its connection, or the SHA, after `shutdown` has dropped both.
- `redis_backend.rs:689`: scores are whole seconds, so a sliding window of one second bursts at the second although
  `rate_limiter/README.md:111` excludes it. `redis_backend.rs:116-118`: process ids tell replicas apart on one host only; equal members go uncounted.
- `retry_with_backoff.py:35`: an absent `max_retries` escapes a ceiling below Rust's default. `delay.rs:22`: jitter may sample a
  delay of zero, which is also the answer that ends a request. `retry_with_backoff/src/plugin.rs:227`: an `isError` inside `structuredContent` wins over a status
  code that is not retriable.
- output_length_guard: in token mode the ellipsis comes on top of `max_tokens`; a cut at a word may fall below `min_chars`; what is too deep or too large
  passes when truncating; `content` rebuilt from a cut structure is not guarded itself, and other items are dropped.
- sql_sanitizer: the body of an executable comment is copied as it stands (`comments.rs:176-184`), and a literal or comment that opens in it
  goes on behind it: of ` /*!7'*/ ;DROP` the statement goes unreported, although `issues.rs:6-8` has statements judged independently. The body is judged and not handed on, and a comment that is removed joins its neighbours (`comments.rs:108`).
- url_reputation: list entries are only put in lower case (`types.rs:18`), while the host they are compared with is in the ASCII form of IDNA and keeps a root dot (`engine.rs:81`):
  a blocked domain with letters beyond ASCII blocks nothing, and an address with a root dot is in no zone that is written without, although `url_reputation/README.md:58` says "always blocked".
- pii_filter: of two overlapping detections what one covers beyond the other stays, as its README says, and a second filter may find it; a card number
  followed by another number is one match of up to 19 digits, and not found. `mask()` panics on some spans that are empty, and on account
  numbers of four or five symbols with a letter that are to be masked in part (`masking.rs:189-195`).
- encoded_exfil_detection: egress hints are looked for at the segment's place in the lower-cased text, which may have fewer bytes (`lib.rs:407-412`): hints may be missed, and
  if it has so many fewer that the place lies behind its end, the slice panics and the hook raises.

### Fairness

Safety runs assume none. `redis_client` assumes weak fairness of each call's own steps:
every await ends, because a command is answered, refused or times out (2 s for the connect,
`redis_backend.rs:550`; the client library's response timeout for a command). It assumes nothing of Redis, which
may stay silent for ever. `retry_budget` and `retry_two_instances` assume ongoing traffic: time
passes, tools return, the gateway retries when due, and every instance sees failures again and again
(strong fairness), since eviction runs on failures only; without traffic entries stay, which the
code accepts.

## 4. Proofs

All theorems hold for every number of callers, keys, replicas, requests and instances, every number of steps and every
configuration that the modules' ASSUMEs admit. A theorem with a hypothesis names it, and the code that justifies it. None of the
properties is inductive as it stands; what each needs on top of itself is the argument.

**Rate limiter in memory** (`MemoryStoreProofs`, over the lemmas of `RateAlgorithmsProofs`, which say of each algorithm what it
returns, keeps and bounds)

- `TypeCorrect`: a caller past `Check` has keys left to do, and no key holds more than its limit.
- `TokenRateHolds`, if every window plus the lag is at most the eviction threshold. The bound says nothing of
  what the bucket holds. The strengthening counts what each admitted call has left to be
  *repaid*: from any admitted call on, the calls since and the tokens now in the bucket are
  paid for by the capacity and the refill since; a bucket that was evicted was full again by then.
  The hypothesis leaves out a configured window of one hour together with a lag, since the
  threshold (`memory.rs:33`) is one hour: there an eviction may come a tick before the bucket is full.
- `FixedWindowBurstHolds`: the log of admitted calls is split at the start of the window: the newest `count` belong to it, and what
  is older than the limit before them is at least a window, less what two late readings may move it, away (`WindowOpen`). A key that
  was evicted leaves a log that is far enough in the past for a new window (`WindowGone`).
- `SlidingWindowSpanHolds`: readings are in the order of the lock, not of time. The invariant says that the deque is the newest part of the log and that what has left it is older than a window
  on the clock (`DequeOf`). A reading is at most the lag behind the clock, so a span of a window less the lag that it falls in starts after all that has left: whoever is admitted finds every call of that span in the
  deque (`SpanAdmits`). `StoreWindowsHold` is both bounds, the property of the run.
- `EvictionTransparentHolds`, if windows are at most the threshold (`BucketsFillFirst`; `config.rs:76` knows no longer unit than an
  hour): what the sweep drops is an elapsed window, an empty log or a full bucket, and these answer as new keys do.
- `RetryHonestHolds`, if windows of buckets are whole seconds and at most an hour (`WholeSeconds`; `config.rs:76`, `:82`): for each algorithm, the
  evaluation that refuses, the time until the retry is due, and the evaluation that follows. In the bucket the milli-token that rounding may lose is less
  than what the last second, which the retry time is rounded up by, refills.
- `PromiseImplemented`: every step of the store is a step of `SlidingWindowPromise` or leaves it alone. The mapping takes the log from the
  admitted calls and the verdicts from the results; the invariant says that the deque is the newest part of the log, and that what is no longer
  in it is older than a window (`PromiseInv`). TLC checks the same formula as a property.

**Rate limiter in Redis** (`RedisCountersProofs`)

- `ClusterTokenRateHolds` follows the argument of `TokenRateHolds`, with readings in whole seconds from clocks that disagree: a refill may
  be negative, and then the debt stays. A key that expires forgets by how much the clock of its last refill was
  ahead, so an idle bucket may regain more than it refilled. The property says how much, once per expiry (`Regained`, `Expiries`): without that term it is false as soon as
  clocks are more than a second apart, which the attempt to prove it showed; with the clocks of the run the term is zero.
- `ClusterWindowsHold`, if process ids tell replicas apart (`PidsApart`: with equal ids, on two hosts, members of the sorted set may be equal and calls go uncounted, a
  hazard at `redis_backend.rs:126`). For the fixed window, one key lives from its first call until its TTL ends, whatever the clocks say; the invariant counts the calls of the
  key that lives and bounds those before it. For the sliding window, every admitted call that any clock may still count is a member of the set, with a score within the slack of its time, and members are distinct.
- `RetryWorksHolds` combines both: the state a refusal leaves, aged by the seconds it advertised, admits by the same script.
- `ClusterPromiseImplemented`, under `PidsApart`: where clocks agree and calls take no time (`PromiseMade`), every step is a step of `SlidingWindowPromise` in whole seconds, or
  leaves it alone; a tick moves its clock by one second or not at all. That every admitted call that counts has a member (`Logged`) only bounds the set from below. The refinement needs
  both directions, since a member too many would refuse a call that the log admits: `Backs` adds that each member is that of an admitted call of its second, and
  no two of the same call. So what the purge leaves is as large as what the log counts in the last window (`MembersAreCalls`).
- `RedisClientProofs!CountedOnceHolds`, `FlushIsHarmlessHolds` and `NeverGivenAgainHolds`, from one invariant, `ClientInv`. *Counted*: what Redis has counted and the calls that still owe their count
  (`Owing`, under way and not run) are at most the calls started; *Admissions* bounds the admitted by the counted and, with `fail_mode` open,
  the failures; *Faultless*: without a fault nothing is lost and no call is on the way to the reset. The connections need most:
  that a failed connection never comes back is not inductive, since a caller may be about to store one. *OnesOwn* says that what is about to be
  stored belongs to its caller alone and has failed nobody, and *NotCached* that a connection is out of the cache when its caller ends.

**Engine and hooks** (`LimiterHookProofs`)

- `QuotaPerScopeHolds` and `RefusedOnlyInScopeHolds`, for every readable configuration, any users, tenants, servers and tools, and any calls of both hooks. The properties are
  about requests, the code about keys: `KeyFacts` shows that two requests have a key in common exactly if they share that quota, and that they then have its
  rate in common; `RateFacts` that a rate in force is one the operator states, and that a stated one is in force. `HookInv` says of each key that its state agrees with the calls granted under
  it (`KeyLog`, with `Granted` counting the calls since each moment), and of each call that it was judged in every dimension that applies to it or in none (`Judged`). The hypothesis on time (`HookAssumption`) is the code's clock, which
  counts from 1970 (`clock.rs:42`) and so is past every window. The bucket's factor of two is proved from its books: its capacity and the refill of one window.
- `RemainingHonestHolds`, for all three algorithms. The room of a key (`Room`) is the number of calls its state would grant now; a call is allowed exactly if there is room, takes one, and answers what it left
  (`RoomSpent`), and time never takes room away (`RoomGrows`). The invariant (`RoomInv`) is about every answer and the calls that repeated it since: all its keys still have room for what is left of the number it gave,
  and as long as no time passes one key has room for no more. A repeated call does not reach the store in any other way, since it was served once and the engine does not change (`Served`).
- `TlsInForceHolds`: from what the constructor may build.

**Retry** (`RetryPluginProofs`, `RetryConfigProofs`)

- `RetryPluginProofs!TypeCorrect`, and `RetryBudgetHolds` under `FastEnough`: the longest backoff and the longest
  invocation together fit in the TTL. The budget is not inductive, because a scan may forget the
  count. `BudgetInv` adds that every live request is remembered with exactly its number of
  retries, and with an age that cannot reach the TTL before its next failure. The hypothesis is needed: nothing in the
  code relates `max_backoff_ms` or a tool's time to `STATE_TTL_SECS`, and with `MaxToolTime` one tick longer TLC finds a
  request whose count is forgotten between two failures and which is retried without end. `BackoffHolds` follows from the same invariant without jitter.
- `StatedBudgetClampedHolds`, for all integers an operator may state and any number of instantiations: each clamp lowers a stated budget or
  leaves it (`Lowering`), what was built is the validated reading of it (`Built`), and what is served is built.

**Secrets** (`ScanGraphProofs`)

All four hold for every graph of containers, cyclic or shared, of any size, for any keys and every configuration (`ScanAssumption`);
the last has a hypothesis on the graph.

- `OriginalsUntouchedHolds`: every frame of the recursion writes to a container that the scan
  made (`OwnCopy`), and the gateway's containers are all older (`Keeps`).
- `PassesAgreeHolds`: the count of a container depends on its path and on which containers are being walked, and on nothing else.
  `IsTally` says so of a function of these three, and such a function exists, because a walk that is deeper than the graph is large ends in a
  back-reference. `CountInv` says that the calls in progress are those of one walk (`seen` is the set of their containers) and that
  each has counted the tally of the values behind it. What the first pass skips and the second enters has a tally of zero (`NothingSkipped`).
- `FieldsHonouredHolds`: a value that the second pass returns is certified. A certificate is a set of places (a value, what stands for it, the path, the containers
  being walked) that is closed under following values, and each of whose places is as configured; `FieldsInv` says that one covers
  all that has been made, and that a copy under construction stands only for a container that is being walked. Where the tally
  is zero the gateway's own data is its own certificate. `PlacesCertified` is the induction along the
  places of the property, `ConfiguredFacts` leads from the lists to a path.
- `NothingLeaksHolds`: without field lists, a payload leads to no secret, if no object leads back to itself from its `extras`
  (`ExtrasLeadAway`, the hazard at `python_scan.rs:445`; tuples in their own tuples are not excluded, unlike in the run). `LeakInv` says that
  every container of the second pass is a copy of one original: each value it holds is the copy of the value in its place, or `Redacted` for a secret, or that
  value itself if it is clean. `Clean` is the largest set of originals that leads to no secret. An original is handed
  back as it was in three cases, and clean in each: what compares equal to its copies (`SameClean`), what a count of zero says of `extras` (`ExtrasClean`,
  where the hypothesis is used: nothing under `extras` leads to a container that is being walked), and a root that counts nothing (`RootClean`).
  The bounds of the two walks, `ReachableIn` and `SameItems`, are shown to be large enough (`Saturates`).

Only model-checked:

- All liveness, and with it that every call is answered and abandoned state expires: fairness and ENABLED are beyond the prover.
- `ShapeKept`: a placeholder that stays in a tuple in its own tuple breaks it (section 2), so a theorem has to follow which tuples the replacement walks.
- `PyValues`, `ExfilDetection` and the modules over them are recursive over data; so is `ScanCalls`' and `HookCalls`' judgement of what they return.

## 5. Not modelled

Header and metadata formatting; logging; previews and samples of findings; rounding of f64 in the Redis
bucket; the serialised state of models in secrets_detection (`model_dump`) and `__slots__`; the decoders and the entropy of encoded_exfil_detection; the
parsing of URLs, but for the form of the host; cancellation of a hook in the middle of an await; the loss of Redis' data; wall clocks that jump; what Python code may do that runs while
the retry plugin holds its mutex (`plugin.rs:92`), since the gateway calls hooks from one event loop.

Components without a module: `ica_metering_exporter` maps the context of one tool call to one best-effort send and keeps
nothing but a client; `RetryStateManager` (retry_with_backoff, `lib.rs`) is exported and used by no plugin; `framework_bridge` builds Python
objects; `tools/` are sequential scripts over the repository's files, and the workflows run them; `bins`, benches and templates have no behaviour of the
plugins.

## 6. Plan

Done: the limiter's counting in memory and in Redis with its client and its hooks; both halves of the retry plugin; secrets_detection on
containers and on texts; the three hooks without state; the PII filter; the detection of encoded payloads; twenty-five theorems, which state 24 of the runs' properties, the promise of the log among them for both backends.

Left, in this order:

1. Theorems: `ShapeKept`, for graphs without tuples in their own tuples.
2. secrets_detection: `model_dump` and serialised state, so that the component is complete.
3. A client that polls a token bucket faster than a milli-token refills (`memory.rs:371-377`), as liveness.
4. `ica_metering_exporter` and `tools/plugin_catalog.py`, as operators over bounded inputs.
