# A TLA+ model of the gateway policies

The repository holds the policies of the WSO2 API gateway: some fifty Go packages (and three
Python ones) under `policies/`, each a factory `GetPolicy(metadata, params)` and handlers the
gateway kernel calls for the phases of a request (request headers, request body, response
headers, response body, streamed chunks). Most of them turn one message into another. The
ones with state that outlives a request, shared by concurrent requests, configuration reloads,
background goroutines and other replicas, are what this directory models, beginning with the
largest, `advanced-ratelimit`; and the guardrails, which keep
state only for one exchange but must come to one decision however a reply is cut into chunks.

- Rate limiting: `LocalAsync` (with `LocalAsyncProofs`, `LocalAsyncCountProofs`), `LimiterCache` (with `LimiterCacheProofs`), `RateLimitPhases` (with
  `RateLimitPhasesProofs`).
- Guardrails: `GuardrailText`, `CountGuardrails`, `PatternGuardrails`, `PiiGuardrail` and
  `ServiceGuardrails` hold what ten policies decide, `GuardedExchange` is an exchange through one
  of them, and `StreamGate` the abstract specification it implements. `GuardProofs` proves about
  all of these.
- Policies with state of their own: `ModelRouting`, `GcraLimiter`, `SubscriptionValidation`,
  `TokenDelegates`, `CostDelegates`, `McpDelegates`, `JwtAuth`, and `OpaqueTokenAuth` with
  `BackendJwt` behind it; `PolicyHost` composes them. `LruCache` is the cache of the SDK that the
  token policies use. `QuotaProofs`, `RoutingGcraProofs` and `AuthProofs` prove about
  all of them.
- `MC*` are the finite instances, `*.cfg` the runs.
- `PROJECT.json` lists components, runs, the source lines behind every definition, hazards,
  findings and theorems.

## Inventory

### Components with state

| component | state | operations | interacts with |
|---|---|---|---|
| redis-local-async limiter (`fixedwindow/redis_local_async.go`) | per stripe: states (window, `globalBase`, `localDelta`, `blocked`), dirty keys, `evictedPending`; atomics `enqueued`, `redisDown`; `failStreak`, `flushCursor` under `flushMu` | `AllowN`, flush phases (snapshot, pipeline, apply, TTL), probe, `Close` | coordinator, Redis, other replicas |
| flush coordinator (`flush_coordinator.go`) | active set of each shard, base tick, intervals | `register`, `deregister`, `markActive`, `tickShard`, `flushDue` | limiters |
| limiter cache (`ratelimit.go`, `GetPolicy`) | limiter and reference count per quota key, quota keys per reconcile key | build, failed build | every rate-limit policy and wrapper |
| rate-limit phases (`ratelimit.go`) | metadata carried through the phases of a request, streaming accumulators | `OnRequestHeaders`, `OnRequestBody`, `OnResponseHeaders`, `OnResponseBody`, `OnResponseBodyChunk` | limiters, cost extraction |
| fixed window and GCRA limiters (`algorithms/`) | counters or theoretical arrival times, in memory or in Redis | `AllowN`, `ConsumeN`, `ConsumeOrClampN`, `GetAvailable`, cleanup | Redis |
| delegating rate limits (`token-based-ratelimit`, `llm-cost-based-ratelimit`, `mcp-ratelimit`) | lazily built advanced-ratelimit policies | `resolveDelegate` | limiter cache |
| `jwt-auth`, `opaque-token-auth`, `backend-jwt` | JWKS, verdict, introspection and signed-token caches | fetch with retries, lookup, resize | identity providers |
| `subscription-validation` | window count per API and subscription, cleaner goroutine | `checkRateLimit` | subscription store |
| `model-round-robin`, `model-weighted-round-robin` | next index, suspended models | select, suspend | responses of the models |
| `semantic-cache`, `semantic-tool-filtering` | embeddings and responses, LRU at two levels | lookup, add, evict | embedding providers |
| guardrails (word, sentence, length, URL, regex, schema, PII, Bedrock, Azure, semantic prompt) | placeholders of the request, accumulated text and counts of one response | `OnRequestBody`, `OnResponseBody`, `NeedsMoreResponseData`, `OnResponseBodyChunk` | kernel's accumulator, external services |

The other policies rewrite or check one message and keep nothing; they are listed as
components with the reason they are left out.

### What is hard here

Requests run concurrently and take one stripe lock at a time; flushes run on worker goroutines
against a Redis that may be down, slow, or have executed a pipeline whose reply is lost;
`Close` runs while requests still hold the limiter; reloads rebuild policies that share
limiters; windows change while a batch is in flight. What makes the components correct:

- nothing admitted is forgotten or counted twice, apart from losses the code accepts;
- a replica on its own never exceeds the quota of a window;
- work is never left without somebody who will do it, and denial ends when Redis is back;
- a limiter is closed only when nobody uses it, and quotas meant to be shared share one;
- a request is charged once and exactly, whichever of the handlers sees the cost first;
- a token is never accepted from a cache entry of another configuration, provider or key set,
  nor after its expiry, and the upstream is told what the identity provider said of the caller
  not long ago;
- a guardrail decides on the whole text, whether the reply is streamed or not, and nothing it
  would refuse is delivered piecewise before it can tell.

`PROJECT.json` lists the hazards line by line with the properties that watch them.

## Plan

1. `LocalAsync`: limiter, coordinator shard, Close, Redis, other replicas. **Done**, with every safety
   property proved.
2. `LimiterCache`: builds, failed builds and reloads. **Done**, with proofs.
3. `RateLimitPhases`: the handlers of a request over several quotas, check-then-charge, the
   marks against charging twice, streaming, failure modes. **Done**, with every property of
   its run proved.
4. Guardrails: `GuardedExchange` and the modules it extends, with `StreamGate` as what a
   guarded stream promises. **Done**; requests failing closed, masking, the three properties
   of the watched streams and, for exchanges without placeholders, the refinement are proved.
5. The policies with state of their own, composed by `PolicyHost`. **Done**; every property
   of their run is proved.
6. Left to model: a clock for the fixed-window limiters (in `RateLimitPhases` a window changes at
   any time; key TTLs, EXPIRE failures and several windows of one limiter are not there), costs
   above one in the runs of `LocalAsync` (its theorems hold for any cost).
7. Left to prove: restoring (`EchoRestored`) and the refinement of `StreamGate` where
   placeholders are turned back.

Each module is parameterised and free of recursive operators, so that it can be proved about.
The caches of `LruCache` are sequences cut and joined by index rather than with `SelectSeq`,
and the providers still to try are sets of `<<position, provider>>`, for the same reason: what
those operators yield is recursion the provers cannot see through.

## LocalAsync

One limiter with the shard worker that serves it. State is named after the code; absent map
entries are `Nil`. Time is a tick counter, `WindowStart` truncates it.

**Atomicity.** A request is four steps: read the clock (`AllowNEnter`), decide in the stripe
lock (`AllowNDecide`, with capacity eviction and the victim scan), CAS (`AllowNEnqueue`),
`markActive`. A flush is: lock, one step per stripe (`SnapshotStripe`, evicted deltas first, dirty
keys in any order while the budget lasts, then the expiry sweep), one step per INCRBY
(`ExecCommand`), the return of the pipeline (`ExecEnd`), one step per applied result (`ApplyOk`,
`ApplyError`), the outcome (`NoteOutcome`), the TTLs (`ExecExpire`), unlock. The worker notes
the outcome before the TTL pipeline and `flushPending` after it, as in the code. The worker's
tick is `TickTake`, `TickClear`, and its re-enqueue `ReenqueueCas`, `ReenqueueMark`; `Close` is
`CloseDeregister`, `CloseClear`, and a drain of at most `NumStripes + 1` flushes. Requests
may arrive after `Close`, because a reload does not wait for them.

**Redis** executes a command or not, depending on `redisUp`; an outage may begin between the
execution of a command and its reply, which is how a pipeline that ran is reported as failed.
Because a chunk fails as a whole and later chunks are not sent, a prefix of the batch keeps its
results; the drain sends one chunk, so it keeps all or nothing. A TTL is jittered: a key whose
window is over may or may not get one. Other replicas add units to the current window.

**History variables.** `admitted` and `others` count units; `hist` records the losses the code
accepts (a state replaced or evicted with a delta, a full eviction buffer, a lost reply, a missing
TTL, an expired key), so that the properties can say "except where …" and nothing more.

**Left out.** `nextFlushAt` only delays a flush: an active limiter may be taken at any tick.
Several limiters in one pipeline, shard assignment and the base tick.

| run | instance | shows |
|---|---|---|
| `la_wakeup` | 2 keys in 2 stripes, 2 threads, 3 requests, budget 1, one outage, Close | `NoLostWakeup`, `NoStrandedDelta`, `GlobalBaseNeverRegresses` through every interleaving of requests, worker and drain |
| `la_count` | 2 keys in one stripe with room for one, 2 windows, one outage | `ReplicaQuota`, `NoOvercount`, `NoUndercount`, `CreatedKeyHasTTL` |
| `la_live` | fail-closed, 2 threads, 2 windows, one outage, another replica | `RedisDownProbed`, `RedisDownClears`, `AdmittedReachesRedis` |
| `la_double_count` | as `la_count`, no outage at all | finding: `EvictionCountsOnce` fails |

**Bounds.** Two threads and two flushers are enough for each pair of critical sections to
overlap; three requests let one arrive before, during and after a flush; a budget of one splits
every batch; a stripe of one makes each new key evict; two windows let a request be late by
one. `Threshold` 2 (3 in the code) distinguishes one failure from a streak. Threads are
symmetric, and keys where they share a stripe. Deadlock is checked: the worker's timer
always ticks (`IdleTick`).

**Fairness.** Weak fairness of the steps of started calls, of the worker and of a running
`Close`: goroutines that can run are scheduled, mutexes are not starved, the timer fires.
Nothing is assumed of clients, the clock or Redis; the liveness properties say "if Redis
stays reachable from some point on".

**Finding.** A state evicted while its delta is in the batch of a flush is carried to Redis
again: shared counts exceed what was admitted with no failure involved.

Remark: the limiter's comment on invariant 2 says `enqueued` is cleared nowhere but in
`tickShard`. `deregister` clears it too; the model has both, and the theorem below shows that
no wake-up is lost for it, because the drain that follows looks at every stripe.

## LimiterCache

A build is one step (`globalLimiterCache.mu`). Keys are the records that the code hashes:
an API-scoped quota is keyed by its API, any other by route and parameters, both by the
quota itself; a reconcile key is route, parameters, attachment level. `GetPolicy` counts a
reference per use unless the previous build for the reconcile key had it, releases what is no
longer wanted, closes what nobody counts. `GetPolicyFails` stops at the first quota whose
limiter cannot be created and keeps the references taken so far. `Detach` is the kernel
dropping a policy, which the cache is not told.

| run | instance | shows |
|---|---|---|
| `ph_policies`, its limiter cache | an API-level policy on two routes and a route-level one, shared, repeated and route-scoped quotas, an algorithm that is not registered, so that a build fails at the first or the second quota, 4 builds | `RefCountCovers`, `LiveNotClosed`, `SameKeySameLimiter` |
| `lc_same_level` | two instances with one route and level (as `mcp-ratelimit` builds them) | finding: each build closes the other's limiter |
| `lc_params` | a reload with other system parameters | finding: an API-scoped quota keeps the limiter of the old parameters |

Four builds are the shortest sequences in which a limiter is shared, one user changes its
configuration, changes back and is joined by a third. The runs stop after the last build, so
deadlock is not checked.

## RateLimitPhases

One policy and the requests that pass through it. A handler is a loop over the quotas with at
most one limiter call per quota; limiter calls are atomic and those of different requests
interleave, so one iteration is one step (`OnRequestHeaders`, `OnRequestBody`,
`OnResponseHeaders`, `OnResponseBody`, `Finalize`), and the end of a loop another (`...End`),
which stores the results in the metadata and sets the response headers. `pc` and `i` are the
handler and the quota of a request; `stored`, `keys`, `handled` and `acc` are the metadata keys
`ratelimit:result`, `ratelimit:keys`, `ratelimit:header_handled` and `ratelimit:stream_state`.
A result is `absent`, the placeholder `nil` of a pre-check, or `set`.

A quota is its set of cost sources, whether its key is a CEL expression, and whether the key
comes out non-empty; from the sources follow the predicates of the cost extractor, and from
those the handler that charges it. A source yields a value or nothing; costs are counted in half
units because the code truncates a `float64`. The limiter is a fixed window: memory counts what
fits, Redis counts whatever comes and may fail, having counted or not. The kernel is assumed to
call `OnRequestBody` when `Mode` asks for the body, to stream only what looks streamed and only
when every policy can, and to skip the response phase after an immediate response; it may lose
the upstream or the client at any time (`Abort`).

Left out: several limits per quota, two quotas of one name (their entries in the metadata would
collide), the text of keys and headers, the GCRA and redis-local-async limiters.

| run | instance | shows |
|---|---|---|
| `rp_phases` | 103 policies: every way a quota can be split between handlers, alone and before or after another, memory and Redis, open and closed | `NeverOvercharged`, `ChargedExactly`, `EveryQuotaReported`, `ExhaustedBlocks`, `FailureModeHonoured` |
| `rp_cel_header` | a CEL key with a `request_header` cost | finding: `DeferredIsCharged` fails |

**Bounds.** Two requests compete for one quota, or one request meets two (`MaxWork` 2): handlers
of one request share state only through that request's metadata, requests only through the
limiters, so a third of either adds no new pair. `Limit` 2 with values of -1, 1/2 and 2 units
has costs that are clamped, truncated, that fit and that fill; two chunks make the last
one differ from the first; one Redis error and one window change fall at every point. Deadlock is
checked; `Finished` stutters once every request is through.

**Finding.** A quota with a CEL key is left by `OnRequestHeaders` to the body phase, where a cost
that comes from request headers only counts as already charged: neither handler charges it. The
other properties except it by name (`Unchecked`).

Behaviours the model shows and no document rules out: an empty key is charged on the streamed
path and skipped on the buffered one; an aborted stream is not charged; a cost below one unit
charges nothing and passes an exhausted quota; with failure mode open, a Redis call whose reply
was lost is made again in the body phase.

## Guardrails: GuardedExchange

One exchange through one of ten policies. `kind` and the raw parameters are chosen first; the
factory builds the policy or refuses the parameters (`Build`); the request body is judged and
perhaps rewritten; the reply comes whole, or in chunks. The kernel is external and modelled from
how the policies use it: it appends each chunk to an accumulator, asks `NeedsMoreResponseData`,
and passes the batch on when the answer is no or the stream ends.

A text is a sequence of token classes, one for each fragment the policies tell apart, so that
concatenating chunks joins what a boundary had cut: a word, a URL, a pattern, a placeholder. A
body is what the JSONPath finds in it: a string, a number, another JSON value, nothing, or no
JSON at all. Services answer in every way their callers distinguish, failures included.

- `CountGuardrails`: word, sentence and length. The three policies are copies that have drifted
  apart; each keeps its own operators.
- `PatternGuardrails`: URL (does the host answer), regex, JSON schema (not streamed).
- `PiiGuardrail`: masking and redaction by detectors that run in map order, hence in any order,
  over overlapping matches; restoring, with the window in which a placeholder is waited for.
- `ServiceGuardrails`: Bedrock with masking and deduplication, Azure with its five attempts,
  semantic prompt guard with allow and deny lists.

`StreamGate` is what any guarded stream promises: the client has received nothing or everything
so far, what it has is only extended, nothing follows a cut, an uncut stream is complete. The
refinement maps the text with placeholders turned back (`Image`), what was delivered, and the
verdict; it is the property `ImplementsStreamGate`.

| property of `gx_exchange` | says |
|---|---|
| `RequestFailsClosed` | a request gets through only if the rule holds of it or the configuration says that what cannot be judged passes |
| `NoPiiUpstream` | no detector order leaves personal data in the body sent upstream, nor, when masking, the second half of an item that came whole |
| `StreamedInRange` | the text a client of a counted stream holds is within the bounds at every moment |
| `OneVerdict` | the verdict does not depend on the chunking: a stream that ran to its end was cut exactly if its whole text breaks the rule as streams are counted (`StreamVerdictExact`); and it is the one `OnResponseBody` gives on the same reply in one piece, where both paths count alike (`StreamsLikeBuffered`, `CountedAlike`) |
| `NothingForbiddenReleased` | no dead URL and no blocked pattern reaches the client in pieces, but for URLs the gate cannot see (`Visible`) |
| `EchoRestored` | what the upstream echoes comes back as the client wrote it |
| `ImplementsStreamGate` | the refinement |

**Bounds.** Streams of at most four lines (`MaxLines`), cut into chunks in every way, each line
one of the few tokens that matter to the policy: enough for one item split in two with something
before and after it, and for every position of `[DONE]`. `HoldLines` is 1 (5 in the code), so
that a placeholder can outgrow the window. Chunks are whole lines. An exchange ends, so
deadlock is not checked.

**Finding** (`gx_regex_default`). The regex guardrail's documented default of the streaming path
is never applied: with the path left out, the JSON of each event is matched and a pattern split
over two events gets through (`SplitPatternCaught`). `NothingForbiddenReleased` therefore asks
for a configured path.

**A divided protocol name.** The documentation says that a URL is validated once it is fully
received (`docs/url-guardrail/v1.0/docs/url.md:211`). `incompleteURLAtEnd`
(`urlguardrail.go:67`) holds a batch back from the whole of `http` on, not from its
first letters, and each batch is judged by itself (518-547): a stream that divides the URL inside the
protocol name shows neither batch a URL, and a dead one reaches the client. In the model the
protocol name is the two tokens `ht` and `tp`, which stand for any division of it, and the run
does divide it. The properties of the URL guardrail except such a stream by name (`Halved`, in
`Visible`); without that exception TLC finds `NothingForbiddenReleased` violated by the events `ht`,
`tp://` and `x`.

**The two paths of a response.** Streaming and buffering do not count the same thing, and
`StreamsLikeBuffered` compares them only where they must agree:

- The content length of a buffered text is counted without its outer quotes and white space
  (`contentlengthguardrail.go:321-324`), that of a stream as it came (line 445); the streaming
  rule is what `Acceptable` states and `StreamedInRange` and `StreamVerdictExact` are about.
- The sentence count cleans a buffered text twice, before and inside the count
  (`sentencecountguardrail.go:413`, 729), so a second pair of quotes goes there only; a buffered
  JSON body counts blank sentences, events do not.
- The length and regex guardrails do not look for events in a buffered body, so they are given
  the text of the stream at the JSONPath; word, sentence and URL are given its lines. A buffered
  event stream without text is no JSON for the URL guardrail, and without `data:` in its first
  five lines no event stream for the counting ones.

Behaviours the model shows, which the properties except by name:

- An end of stream without any byte, after `[DONE]` has released what was held, skips the final
  minimum and inverted check of the word and sentence counts; in the length, URL and regex
  guardrails a last batch of white space is judged as a body of its own and cuts a valid stream.
- The URL gate does not see a URL glued to the word before it (`Glued`).
- A first chunk with five lines of white space before its first event is taken for a plain body.
- Bedrock: redaction replaces the matches of the first assessment only
  (`awsbedrockguardrail.go:636`), although any assessment is a reason to redact; matches of equal
  text share one marker, so restoring is exact only for matches reported once; entities reported as BLOCKED pass unmodified; a response is restored before the
  response guardrail sees it.
- A placeholder spread over more lines than the window is delivered as it came.

## Policies with state of their own: PolicyHost

These policies share no variable. A behaviour of a gateway that runs them all, restricted to
the variables of one, is a behaviour of that policy with stuttering, so `PolicyHost` lets each
behaviour follow one policy: `policy` is chosen in `HostInit` and the run covers the union of
their state spaces instead of the product. `OpaqueTokenAuth` and `BackendJwt` do interact and
are one of the eight. For the same reason the run follows, in `GatewaySpec` of `MCPolicyHost`,
either `HostSpec` or the limiter cache.

- `ModelRouting`. Both round-robin policies: selection under the mutex, index and suspension
  map, rewriting of body, header, query or path as far as it can fail, and responses, which may
  come after any number of later requests.
- `GcraLimiter`. A TAT per key with an entry that expires: memory with its cleaner, Redis with
  the Lua script as one step, whole seconds of TTL, answers lost after the script ran, failed
  SETs. `multi.go` asks one limiter after another, and two callers interleave between them.
- `SubscriptionValidation`. Time stamp and lookup come before the mutex (`LockLag`), windows of a
  minute, an hour or a day, a cleaner that evicts idle counters, subscriptions that change. A
  cookie is looked up only if the parameters name one, as they do in the run. The
  history `stamps` numbers the admissions of each identity by time stamp.
- `TokenDelegates`. Template lookup, the two map loads of a request, builds under singleflight,
  the two map stores of a build as separate steps.
- `CostDelegates`. Delegate and key in one entry; the delegate pinned to the request.
- `McpDelegates`. Rules, JSON-RPC request, `Load` and `LoadOrStore` as separate steps.
- `JwtAuth`. Key managers, JWKS cache by URI, fetches that overlap, time out, are retried and
  return a key set from before a rotation; verdicts cached by configuration and token, positive
  and negative, in a cache that a deployment may replace while a verification is under way.
  `withdrawn` and `outlived` are history: when a key left its endpoint, and who was accepted
  beyond the age allowed. A key that a key manager also holds as a local certificate is not
  withdrawn by its endpoint (`LocalIds`).
- `OpaqueTokenAuth`. Providers parsed once, an error latched for good; introspection with
  retries and late replies; reports kept for the smaller of the TTL and the token's life, or the
  negative TTL; the `AuthContext` handed on.
- `BackendJwt`. The assertion is looked up, or signed and put, with time passing in between;
  kept for half its life with a floor that applies only if it is below the expiry; `exp` cut to
  whole seconds; the cache replaced when the configured size changes. `MCBackendJwt` is the
  instance of these two.

| property of `ph_policies` | says |
|---|---|
| `SuspensionHonoured` | a target is not selected while an error of its own is younger than the suspension, and 503 means that all are in that state |
| `NoTargetStarved` | an available target is passed over fewer times than the sequence is long |
| `GcraNeverForgets` | expiry and cleaning are invisible: no debt is dropped before it is paid (`KeepsTat`) |
| `GcraRateKept` | what a policy grants never exceeds burst plus emission, under any interleaving (`KeepsTat`) |
| `MultiDenialWins` | a multi limiter denies exactly if one of its limiters does |
| `SubscriptionQuota` | two quotas in any span of one window, one more for each eviction, for an identity whose subscriptions agree on a plan that stops (`OnePlan`) |
| `TokenDelegateFits` | a request is checked by a delegate of the template it read, except where its two loads overlap two stores |
| `CostChargedWhereChecked` | the delegate that checked a request is charged for it, and reports the budgets configured |
| `McpOneDelegate` | one delegate per rule and capability, charged once per request |
| `WithdrawnKeyDies` | a withdrawn key is accepted at most one late reply, one JWKS life and one verdict life longer |
| `VerdictsSound` | a cached verdict is what this API's configuration would decide of a token still valid |
| `IdentityCurrent` | accepted tokens and the assertions about them are no older than the caches may make them, and say what a deployment with this API operation, issuer, dialect, excluded and configured claims is to say of this caller |

**Bounds.** Two or three concurrent callers, clocks of three to seven ticks against lives of one or
two (a day window takes all seven, so that its counter is evicted twice within it and three quotas of
one, all the requests there are, are admitted in one span), so that an entry is created, expires and is created again; one rotation, one changed
report, two template changes: each stale value needs one change while somebody holds it. The
ages in `WithdrawnKeyDies` and `IdentityCurrent` are exact: with one tick less each is violated.
Callers of one kind are alike, and an idle one is started in a fixed order, which is a symmetry
reduction by hand. Ticks are half seconds where the code cuts to seconds. The clocks end, so
deadlock is not checked.

**Finding** (`bj_redeployed`). Comments call the cache key of backend-jwt a complete function of
the token, so that a redeployment never serves an assertion of the old configuration. The key
has the names and values of the mapped claims but not the properties they were read from,
which `buildClaims` leaves out of what it forwards: two deployments that map a claim from
different properties of the same value share a key (`RedeploymentMisses` fails).
`IdentityCurrent` says what does hold.

**Assumptions.** Durations are constants because they are system parameters, the same for all
routes. `TokenId` identifies a token; signing an assertion takes less than a tick (`SignLag`),
waiting for the mutex of subscription-validation less than an hour (`LockLag`, half the eviction
TTL); no time passes between reading a reply and using it, nor between acceptance and the
assertion; pauses between attempts are left out, a late reply stands
for them. The contexts other authentication policies leave are given (`others`).

Behaviours the model shows, or that were met while modelling:

- Keys that join their fields with separators are tuples in the model: the issuers of jwt-auth
  (a comma, `jwtauth.go:314`) and the fields of backend-jwt's key (`|` and `,`,
  `backendjwt.go:487-535`). In the code `a,b` and the two issuers `a` and `b` have one fingerprint.
- GCRA on Redis: a read that fails, or a stored value that is no number, which the script never
  writes, gives `GetAvailable` an error and no number (`gcra/redis.go:205-216`);
  `RedisGetAvailable` is the number.
- backend-jwt's cache key omits `tokenExpiry` too: a redeployment with a shorter one serves the
  old assertion until it leaves the cache; claims that print alike share a key. With `tokenExpiry` of one second, or with
  fractions, an assertion may be served after its `exp`, which is cut to whole seconds.
- A GCRA limit of less than a second on Redis has a TTL of 0, and every SET fails.
- On Redis a GCRA entry lives a whole number of seconds, cut from the duration, which may be
  less than the burst takes to drain: with 3 per second and a burst of 4 the TAT is up to 1.33 s
  ahead and kept for 1 s, and the rest of the debt is forgotten. `KeepsTat` names the limits
  that leave room for the cut; `GcraNeverForgets` and `GcraRateKept` are about those. The
  attempt to prove them for every limit is what showed it.
- subscription-validation: a token in the header that is inactive is refused without trying
  the application; a token and an application of the same string share a counter, and with
  different plans neither is kept to its own; day and
  month windows lose their counts after the idle time.
- llm-cost-based-ratelimit's cache key omits `consumerBased`, which no reachable sequence shows.

## Proofs

Checked by TLAPS for every value of the constants, from the assumptions named in the modules:
`LocalAsyncAssumption`, `LimiterCacheAssumption`, `RateLimitPhasesAssumption` (types and
finiteness of the parameters, positive sizes), and for the policies of `PolicyHost` the types
that parsing gives to configured numbers and lists (`CostAssumption`, `McpAssumption`,
`RouteConfigAssumption`, which also has that no configured model name is empty, as the parser
refuses one) and, in `GcraConfigAssumption`, that a limit is at least 1 (the minimum in
`policy-definition.yaml`) with at least one tick per request, without which there is no emission
interval; `JwtAssumption`, `OpaqueAssumption`, `BackendAssumption` and `SubscriptionAssumption` are of
the same kind, with the bounds above and a `tokenExpiry` that is positive, as `Validate` ensures. `GuardAssumption` gives parsed numbers, lines, service answers and
embeddings their types. Nothing is assumed of what the code computes. TLC evaluates every assumption, and it
checked each inductive invariant before it was proved.

### LocalAsync

- `TypeCorrect`, in `LocalAsyncProofs`: `TypeOK`. It is inductive only together with the shape
  of a flush in progress (`Shape`, `BatchShape`: a flush applying results has a non-empty
  batch with one result per entry), because `ApplyOk` takes heads.
- `WakeupNeverLost` and `FlushesSerialised`, in the same module. `NoLostWakeup` is not
  inductive: it needs that `flushMu` excludes (`Mutex`: otherwise one flush moves the cursor
  under another's snapshot), and that a set `enqueued` flag is backed by somebody
  (`EnqueuedBacked`: the limiter is active, or the setter is on its way to make it so, or a Close
  is about to clear the flag), which is what a request that loses the CAS relies on.
- `LocalAsyncCountProofs` starts with what each step of a flush does to its progress
  (`LockFlow` … `ShardFlow`) and to the sequences it carries, and then has seven theorems:
  - `LatchIsProbed`. `LatchInv` adds to `RedisDownProbed` and `EnqueuedBacked` that only a
    fail-closed limiter is latched, that a flush with an error asks for another one, and that a
    worker leaving the limiter latched does too (`LatchKept`).
  - `NoDeltaStranded`. `NoStrandedDelta` is inductive with the types; the work is in the snapshot,
    where a key leaves the dirty set only with an entry in the batch (`StripeEntries`).
  - `CreatedKeysGetTTL`. "Some entry of the key is in the batch" is not enough: the invariant
    (`TtlPromised`) says that a reply equal to its own increment is waiting to be applied, or
    that the key is among the creators, which survive until the EXPIRE pipeline
    (`CreatorsHeld`).
  - `CountNeverRegresses`, the action property. `CoverInv`: Redis holds at least what a state and
    each unapplied reply say, replies of one key are in the order their commands ran, and none
    is behind the state (`RedisCovers`); `Mutex` keeps a second flush from applying in between.
  - `ReplicaQuotaKept`. `QuotaInv` adds to `CoverInv` that what was admitted is in the count or
    in the delta of the state, that an entry of the batch is a part of that delta, and that its
    reply exceeds the count by at least that part (`Accounted`): applying it then moves units
    from delta to count and loses none. For this there must be one entry of a key in a batch
    (`OncePerBatch`, which needs that the stripes of a snapshot are distinct, `VisitedOnly`),
    and no evicted entry of a window whose state was never lost (`NeverEvicted`, which needs
    that every trace of a window begins with the creation of its state, `CreatedFirst`).
  - `NothingCountedTwice` and `NothingMissing`. `LedgerInv` adds to `QuotaInv` a balance of what
    Redis holds and what evicted and batched entries will still send (`Carrying`), the delta of
    the state (`Local`), the part of that delta a batch has taken (`Taking`) and the part whose
    INCRBY has run while its reply waits (`Counting`), against what was admitted here and counted
    elsewhere (`Asked`). Not too much (`NotTwice`): while there is a state, what was taken is a
    part of its delta, so it counts once; when the state is gone, entry and count must fit by
    themselves. Not too little (`NotMissing`). Each step keeps the balance or leaves the mark the
    property excepts (`Balanced`). Sums over sequences would need induction; the invariant
    counts units instead, pairs of a position and a number up to the entry's delta (`Units`), and
    cutting, joining or applying entries moves such sets (`SumOf`, `Total`) one to one.

### LimiterCache

- `LimiterCacheProofs`: `CacheTypeCorrect`, `CountsCover`, and, if no two instances share a
  route and a level (`OwnBuckets`, a hypothesis of the theorems and not of the module),
  `LimitersStayOpen` and `KeysShareLimiters`. The inductive invariant adds that a cached limiter
  is open, carries its own key and is no newer than the last build (`CacheOpen`), and that a
  policy in force holds the cached limiter of each of its quotas (`HoldsCached`). The heart is
  `BuildShape`: a key loses its entry only when its count falls to zero, and the count covers
  the trackers of the key, so another bucket's key survives. `lc_same_level` is the
  counterexample without `OwnBuckets`.

### RateLimitPhases

- `NeverChargedTwice` and `PhaseTypeCorrect`. The inductive invariant `PhaseInv` adds which
  charges are still zero: in the request phase those of the rest of the loop and, in
  `OnRequestHeaders`, of every quota `OnRequestBody` will not take over (`RequestFresh`, which
  uses the same `Carried` the handler tests); in the response phase those of the rest of the
  loop and, before the body, of every quota that reads more than headers (`ResponseFresh`); and
  that all chunks sent were gathered (`Gathered`), without which the end of a stream would read
  another cost than the buffered path. Each handler is first reduced to what one quota may
  charge (`RequestCharge`, `ResponseCharge`), and `MoveInv` shows that going from one handler to
  the next opens no quota to a second charge.
- `ChargedExactlyHolds`, `EveryQuotaReportedHolds`, `ExhaustedBlocksHolds`,
  `FailureModeHonouredHolds`. These speak of a finished request, so the invariant
  (`ExchangeInv`) says what each handler has left behind, quota by quota: after the request
  phase the cost is paid, an exhausted quota has stopped the request, and there is a result for
  every quota the response phase will not charge (`RequestSettled`); in the response phase the
  cost is paid, and the result is in the headers or comes from the body handler that sets them
  (`ResponseSettled`). What holds only without errors is conditional on `erred`; what holds
  whatever failed is `RequestFacts`. A request is not disturbed by the loop of another
  (`Untouched`), except that counts grow, which can only block more.

### Guardrails

`GuardProofs` is about `Spec` of `GuardedExchange`: streams and texts of any length, chunks of any
number and size.

- `RequestsFailClosed`. `GuardInv` adds that the policy is what its factory built. Each of the
  ten request handlers has a lemma that says what a body it lets pass satisfies; for Azure it is
  that the loop of attempts ends with the first reply that is no network or server error.
- `ClientInRange`, `StreamingDecidesLikeBuffering` and `NothingForbiddenInPieces`, from `WatchInv`.
  It holds of a stream that what was sent is what the client has followed by what the
  accumulator has (`Carried`), and that the metadata, which is all a policy knows of the chunks
  before, sums up what the client has (`Remembered`): its text for word, sentence and regex, its
  length for length, nothing for url. What the client has is within the bounds whatever
  follows (`Bounded`: a count only grows, so nothing above the maximum was let go, nor anything
  below the minimum), its URLs are whole and answer (`UrlsWhole`) and no pattern is in it
  (`Unmatched`). The URL policy remembers nothing, so its step rests on the gate: a batch that has the
  whole protocol name of its last URL is held until that URL is complete. If no URL is glued to a
  word and none is divided inside its protocol name (`Visible`), the URLs of the whole are
  those of the batches (`UrlBatch`, `HalvedJoins`, `InvalidConcat`); without that it is false, as
  described above. At the end the text judged is the whole text (`EventVerdict`,
  `BlankVerdict`).
  That this is also the verdict of the buffered path is `WholeVerdict`, which
  unfolds `OnResponseBody` of each of the five policies: where `CountedAlike` holds it passes the
  reply in one piece exactly if its text is `Acceptable`.
- The three have the hypothesis `EventsShow`: a chunk with a line of an event stream has one among
  its first five lines, which is all that `isSSEChunk` looks at. Without it they are false, as above.
  It is a fact about the upstream, not about the parameters, so it is stated in the theorems and not
  assumed in the module; TLC evaluates it for the chunks of the runs.
- `UnmaskedStreamsAreGates`: an exchange in which no placeholder is ever kept implements
  `StreamGate`, step by step. `GateInv` has that nothing is anywhere before a stream begins, that
  the client then has all but what the accumulator has, and that no verdict was given while the
  exchange is open. Such a policy never replaces a batch (`PlainAction`), without placeholders
  restoring does nothing (`NothingToRestore`, which unfolds `FoldLeft` on the empty sequence), and
  since a stream is either events or parts of one body, what comes later extends what the client
  has (`ContentGrows`). `PlainStreamsAreGates` draws the conclusion for the eight policies other than
  PII masking and Bedrock, which never keep one (`MaskStep`). Neither needs `EventsShow`.
- `PersonalDataStaysInside`: no detector order leaves personal data in the request. A substitution
  is followed from the end of the text, as the function in `SubstituteAll` is defined: it leaves no
  occurrence of what it replaced, makes none of the other entity, since stars and placeholders
  have no token in common with one, and takes a second half away only with its first. The longest
  entity goes first, so that no entity is replaced inside another; as the order of the detectors only numbers the
  placeholders, every order yields this. What is sent is the text after the quotes and blanks at
  its ends are gone, and cleaning brings nothing together that was apart. The assumption is about
  the shape of a request body: a record whose text at the path, if it has one, is a sequence of tokens.
- A text is the concatenation of the texts of lines (`FlattenSeq`) and a count is the cardinality of a set
  of positions. What concatenation yields is proved from its recursive definition by the least
  length at which it would fail (`NatLeast`, `Flattened`); how sets of positions move
  when a text grows is `ShiftCount`, `SegmentsGrow`, `SolidGrow` and `CleanBegins`.

### PolicyHost

Each theorem is about `HostSpec`, which `GatewaySpec` runs as it stands.

- `RoutingGcraProofs`: `SuspensionHonouredHolds`, `NoTargetStarvedHolds`. `RouteInv` has that the
  suspension map holds the end of the pause after the last error of its targets and every
  target that is out of service (`SuspensionInv`), and that a target passed over n times comes
  up within the rest of the round (`TurnInv`). That `buildWeightedSequence`
  yields a non-empty list of the keys of its models is proved and not assumed: by the least
  number for which it would fail (`NatLeast`), since the library's induction rules cannot be
  instantiated.
- In the same module `GcraRateKeptHolds`, `MultiDenialWinsHolds`, `GcraNeverForgetsHolds`. Each of
  the operations, in memory and on Redis, gives a `SoundResult`: it stores what it consumed on
  top of the TAT it started from, until that TAT, and grants no more than takes it one burst
  ahead. `GcraInv` has that an entry holds the ideal TAT until it has passed (`HoldsTat`), that
  whatever was granted moved the ideal TAT (`GcraDebtInv`), and that the result a multi limiter
  carries from policy to policy denies exactly if one of them did, with nothing remaining, so
  that no later result looks more restrictive (`Carried`).
- `QuotaProofs`: `CostChargedWhereCheckedHolds` (the entry holds a delegate with quotas under
  the key of its parameters, and what a request pinned is that of its own parameters),
  `TokenDelegateFitsHolds` (a request between its two loads saw the delegate that is still
  there, a build between its two stores has put the one it built, unless `disturbed` or
  `torn`), `McpOneDelegateHolds` (charges are at the delegates in the map, which never replaces
  one, and the keys charged and left are those that matched), and
  `SubscriptionQuotaHolds`. What was admitted is bounded not span by span but from every moment
  on (`Carried`): since the start of its window a counter has admitted what it counts, since one
  window earlier a quota more, and nothing is stamped later than the window's end; a span that
  reaches further back cannot contain a new stamp. Without a counter the same holds of the
  oldest stamp a waiting request may have, which is why a counter may be evicted for nothing only
  if the TTL covers the window and two waits (`Lost`).
- `AuthProofs`: `WithdrawnKeyDiesHolds` and `VerdictsSoundHolds` from `JwtInv`,
  `IdentityCurrentHolds` from `IdInv`. Each invariant follows a fact from cache to cache with
  the age it may have there. `JwtInv`: a key set in a cache, or in a reply under way, holds only
  keys its endpoint served when it was asked; a verification has looked at key sets no older
  than that and one life; a cached verdict was given by such a verification, under its
  configuration, and expires no later than the token. `IdInv`: a report in the cache, or under
  way, was made by the provider no longer ago than its life allows; the context of a caller
  accepted comes from such a report; an assertion in the cache is what was to be said of one of
  its contexts under the configuration its key names (`VouchedFor`). The caches are sequences,
  of which only membership matters: `LruPut` and `LruTouch` add nothing but the new entry.

Proof attempts corrected the model. A key held as a local certificate is accepted however long
its endpoint has withdrawn it, and `WithdrawnKeyDies` was wrong to count that. The age of an
assertion was understated where half the life rounds to no caching at all. `IdentityCurrent`
claimed that assertions say what the current configuration says, which the key does not ensure
(the finding above). `SubscriptionQuota` was false of an identity with two plans, and of waits
for the mutex longer than a tick, which its span and its condition on the TTL now account for. `StreamVerdictExact` was
wrong of a URL glued to the word before it, which the gate lets be cut in two and the check of
the whole text finds. `RequestRuleHolds` stripped the quotes of a text twice before it looked for URLs, the code once.

### Only model-checked

- `EchoRestored`, and `ImplementsStreamGate` where placeholders are kept: what the substitution
  leaves behind is proved, but not yet that substituting back, in an order that varies, undoes it.
- All liveness (`RedisDownClears`, `AdmittedReachesRedis`): fairness is out of the prover's reach.

## Not modelled

`components` in `PROJECT.json` names every policy with its reason. In short:

- Policies that decide from one request and its configuration and keep nothing (`mcp-acl-list`,
  `mcp-auth`, `mcp-authz`, `mcp-rewrite`, `api-key-auth`, `basic-auth`, the signing policies, the
  rewriting ones): there is no order, failure or interleaving for a model to explore.
- The OpenAI transformers and `llm-cost`: translation between JSON dialects and price arithmetic,
  of which an abstraction keeps nothing.
- `semantic-cache` and `semantic-tool-filtering`: whether two requests share an entry is a numeric
  similarity computed by a provider and a vector database; the LRU in front of them only saves
  calls.
- The Python policies: calls to an external model.
- Of modelled policies: `handleAuthSuccessHeaders` of jwt-auth (forwarded headers, claim
  mapping), `Validate` and the key-file cache of backend-jwt, cookie stripping and analytics
  metadata of subscription-validation, JSON nesting beyond the shapes named, and
  `extractStringFromJSONPath` of the content-length guardrail, which nothing calls.

The kernel that calls the policies, Redis, the identity providers and the guardrail services
appear only as far as the policies use them.
