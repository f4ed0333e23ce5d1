# TLA+ models of g2way

g2way is an API gateway: stateless pods that share their state in Redis, take
their configuration from files and from an admin API, authenticate, meter, cache
and transform requests, execute GraphQL operations over several upstreams, and
forward the rest to pools of upstream addresses.  This directory models its
request path, its GraphQL engine, its background tasks and its shared state,
checks them with TLC on small instances, and proves with TLAPS, for every value of
the parameters, the safety properties of the lock-free parts, the limits of both
storage backends, the upstream pool, hot reload, the request path, the GraphQL layer
and the process's lifecycle.

Source paths below are relative to `src/crates/`.

## 1. Inventory of the system

| Component | State | Operations | Interacts with |
|---|---|---|---|
| request chain (`g2-middleware/src/chain.rs`, one file per layer; the middleware files below are beside it) | none of its own | one decision or rewrite per layer | sessions, limits, cache, forwarder |
| authentication (`auth.rs`, `hmac.rs`, `session.rs` of `g2-core`) | none | token, mTLS, basic, HMAC, JWT, OIDC; session, then policy | storage, JWKS cache |
| rate-limit layer (`rate_limit.rs`) | none | endpoint limit, spike guard, session rate, session quota | storage, spike guard |
| spike guard (`spike.rs`) | token buckets packed in atomics | `try_acquire` | rate-limit layer |
| response caches (`cache.rs`, `graphql_cache.rs`) | entries in storage | look up, tee, write by a spawned task | storage |
| transforms, plugins, mocks, CORS, IP filter, size limit, versions, path policies | configuration | rewrite or answer | the layers around them |
| configuration types (`g2-core/src/api_definition.rs`, `plugins.rs`, `graphql.rs`, ...) | none | `validate`, version overrides | loading, table build |
| circuit breaker (`g2-proxy/src/breaker.rs`) | one packed atomic word, one relaxed counter | `try_acquire`, `record_success`, `record_failure` | forwarder |
| forwarder and target pool (`g2-proxy/src/forward.rs`, `rewrite.rs`) | generations of `TargetSet` behind an `ArcSwap`, health flags, a rotation cursor | `next_addr`, `run_attempts`, `forward` | breaker, health checker, refresher |
| health checker, service discovery (`health.rs`, `discovery.rs`) | streaks of one generation; last poll | probe, apply; poll, mount | hold the target weakly |
| storage (`g2-storage/src/lib.rs`, `redis.rs`, `memory.rs`) | keys, windows, quotas, channels | `get`, `set`, `delete`, `check_rate`, `check_quota`, `publish`, `subscribe` | all pods |
| admin API (`g2-admin`) | none | create, put, delete, reload, keys, policies | storage, reload channel |
| definition loading, hot reload, routing (`defs.rs`, `loader.rs`, `reload.rs`, `gateway.rs`, `router.rs`) | the route table behind an `ArcSwap` | boot, listen, rebuild, swap, match | storage, channel |
| GraphQL layer (`graphql.rs`, `graphql_ws.rs`, `graphql_udg.rs`) | the schema leaf | police, persisted endpoints, playground, tunnels, data graph | schema sync, cache, sources |
| federation (`g2-core/src/federation.rs`, `graphql_federation.rs`) | the composed supergraph | compose, plan, fetch, merge, stitch | subgraphs |
| schema sync (`graphql_sync.rs`, twice) | last introspection | poll, nudge, validate, swap | GraphQL layer, admin |
| JWKS cache (`jwks.rs`) | key set, time of the last attempt | `refresh`, `key_for`, refresher task | authentication, provider |
| analytics (`analytics.rs`, twice) | bounded channel, batch | record, flush, drain | every request, sink, shutdown |
| server (`g2way/src/server.rs`, `main.rs`) | open connections | accept, handshake, drain, grace, exit | everything |

What is hard here: the breaker, the spike guard and the rotation cursor are
lock-free and judged by clock readings that may be old; the background tasks of
a target, a schema and a key set race with requests and with reloads; a request
reads storage several times while the admin API writes; a response reaches the
cache by a task that outlives the request; a GraphQL request keeps the schema it
began with while a sync replaces it; entities of several subgraphs are merged
by position; the limits of all pods meet in Redis keys that expire by
themselves; the reload channel is best-effort and a load reads one key at a
time; a shutdown must wait, but not for ever.

What makes each part correct:

* breaker: an open circuit lets nothing through but one trial per cooldown, and
  always ends in a trial;
* spike guard and limits: never more than the contract allows, never a denial
  that is not earned, whichever backend; a request is charged once by every limit
  it passes that applies to it, and by no other;
* authentication: a request passes exactly if the credential that reaches auth,
  sent by the client or put there by a hook, is worth it, and a revoked key is
  dead for every request that comes later;
* caches: a hit is what a miss would have given;
* chain: browsers can read rejections, connection-level headers stay on their
  connection, whatever hooks and transforms write;
* pool: no address evicted without its own evidence, no request repeated that
  must not be, no task left behind by a reload;
* reload: a pod reached by a nudge serves what is stored, never a table with a
  conflict, and never loses the routes of its files;
* GraphQL: nothing runs that the schema, the limits and the key's grants do not
  permit; a federated answer is whole or says that it is not; the served schema
  follows the upstream;
* JWKS: misses do not flood the provider, rotations arrive, outages lose nothing;
* shutdown: always ends, and a drained one loses no record.

`PROJECT.json` lists the hazards line by line with the properties that cover
them.

## 2. Modules

| Module | Models | Role |
|---|---|---|
| `ApiDefinitions` | `validate` of a definition and its parts, version overrides | operators |
| `Sessions` | sessions and policies, storage keys | operators, extends `ApiDefinitions` |
| `RequestPolicies` | routing, the stateless layers, the upstream request | operators, extends `Sessions` |
| `Authentication` | the auth modes | operators, extends `RequestPolicies` |
| `RequestPath` | a pod handling requests down the chain and back | state machine over all of the above |
| `GraphqlDocuments` | documents, policing walks, variables | operators |
| `Composition` | composing a supergraph | operators |
| `Federation` | planner, entity fetches, merge, stitch | operators (recursive) |
| `SchemaSync` | the schema leaf and its refresher | state machine |
| `Graphql` | the GraphQL layer of an API in every execution mode | composes `SchemaSync`, `ApiDefinitions`; what fetching a root field of a supergraph gives is a parameter |
| `Supergraph` | the layer over a supergraph | composes `Graphql` and `Federation` |
| `JwksCache` | signing keys | state machine |
| `AnalyticsPipeline` | records, channel, worker | state machine |
| `Server` | connections, shutdown | composes `JwksCache`, `AnalyticsPipeline` |
| `CircuitBreaker` | `breaker.rs`, the gate and outcome of `forward` | state machine, one action per atomic operation |
| `SpikeGuard` | `spike.rs`, one shard | state machine, one action per atomic operation |
| `Limits` | the arguments of both checks and the backend's clock | constants of the modules below |
| `RateWindow`, `QuotaPeriod` | `Storage::check_rate`, `check_quota` | abstract specifications |
| `RedisRate`, `RedisQuota` | the two Lua scripts | implement them |
| `MemoryLimits` | both checks of `memory.rs` | state machine |
| `Storage` | the storage layer: the backend the configuration names (`main.rs:217-230`) | composes `RedisRate`, `RedisQuota`, `MemoryLimits` |
| `UpstreamPool` | `TargetSet`, `run_attempts`, `run_checker`, `run_refresher` | composition of requests and two tasks |
| `HotReload` | admin CRUD, nudges, boot, load, merge, table | composition of admin API, store, channel and pods |
| `*Proofs` | | theorems of `CircuitBreaker`, `SpikeGuard`, `HotReload`, `UpstreamPool`, `Server`, `RequestPath`, `Graphql` and, in `StorageProofs`, `Storage` with the modules it composes |
| `MC_*` | | instances for TLC |

A definition whose comment begins with *Mutant* is a plausible mistake in the
code it stands beside; putting it in the place of the definition that follows
makes a property of the run fail, which shows that the property has teeth.

An optional value is a set of at most one element, `None` the empty one.

### ApiDefinitions, Sessions, RequestPolicies, Authentication

The decisions of the code as operators.  A definition is a record with one field
per configuration field that some decision reads; a regular expression is the set
of paths it matches, a path a sequence of tokens, a header map a function to
sequences of values.  Parsers (URLs, patterns, templates, SDL) are reduced to
whether they accept.  Hashes are injective, and a signature verifies exactly
under the key, algorithm and text it was made with.  A list of header hooks is
given by what it leaves: of each header, what the last hook that touches it does.
A hook's outcome is fixed per hook, since the guest's code is not part of the
repository.

### RequestPath

`world` is one deployment: definitions, what clients send, what upstreams answer,
which edits the admin makes.  `Load` builds the table or refuses it.  A request is
`Arrive` (routing, IP filter, CORS, versions), `Gate` (path policies, size, pre hooks),
`Authenticate` and the storage calls `LookupSession` and `LookupPolicy`; then
`CheckEndpoint`, `Guard`, `CheckRate`, `CheckQuota`, each of which may find its
storage down and fail open; `Below` and `Dispatch` (hooks, mocks, transforms);
`CacheGet`; `Send` and `Receive`; `StreamEnd` or `StreamCut`; and `Leave`, the CORS
layer on the way out, which decorates whatever a layer below it answered.
`Authenticate` and `LookupSession` read the headers as the pre hooks left them
(`Seen`).  A cache write is a separate task (`WriteCache`).  `Disconnect` drops a request at any await.  `Admin`
puts and deletes keys and policies, `WindowElapses` and `Tick` are time.  Between
two awaits everything is one step: nothing another task does can come between.
The fields `steady`, `dead`, `faulted`, `charged` (how often each limit counted the
request), `opened` and `src` of a request are history.

### GraphqlDocuments, Composition, Federation, SchemaSync, Graphql, Supergraph

A document is a graph of numbered selections, in which everything under a
selection, through fragments too, has a greater number: validation rejects
fragments that spread themselves.  Its text, and the variables of a request, are
sequences of lines, because `GraphQlCache::key` joins them by newlines:
`GraphqlKey` concatenates the two, `CanonicalVariables` gives JSON one line and keeps
other text as it is.  `Arrive` takes the schema state
the request will keep; `ReadBody` parses, validates and polices; `Lookup` is the
cache; then `Forward` for a proxied API, or `Record`, `FetchField` per root field
and `Stitch` where the gateway executes.  `Switch`, `ClientMessage` and
`TunnelEnds` are a subscription tunnel, which polices each message against the
schema served at that moment.  The refresher of `SchemaSync` is `IntervalEnds` or
`TakePermit`, then `Introspected` or `FetchFails`, then `ApplyIntrospection`;
`Nudge` stores the one permit of a `Notify`, `Unroute` is a reload.

`Graphql` leaves open what fetching a root field of a supergraph gives
(`SupergraphOutcomes`); `Supergraph` defines it as `FederatedOutcomes`, with any of
the subgraphs failing, and the configuration of the run puts the two together.
`Composition` and `Federation` follow the code's composition and its planner:
ownership of root fields, key injection under aliases, one entity fetch per
selection set and subgraph, merging by position with a mask of the objects that
had a key.  The subgraphs are external: one database of objects that each
subgraph answers from, nulls and objects of other types included, and any of them
may fail.  `Wanted` reads the same document directly from the database and is the
reference the stitched answer is compared with.

### JwksCache, AnalyticsPipeline, Server

A refresh is `Refresh`, `Discover` if the URL is not known, `ProviderAnswers`,
`StoreKeys` or `RefreshFails`; the periodic task and requests that missed a key run
it, and an answer is stored whenever its holder gets to it, so answers may be
stored out of order.  `Elect` is the compare-and-exchange on the last attempt,
together with the clock reading before it and the store of the attempt after it
(`jwks.rs:242-247`, `193-194`): no await lies between them, but a thread that
stalls there for a whole cooldown is not modelled, nor a wall clock set back.
The worker receives, flushes on a tick or a full batch (`FlushTick`, `Emitted`),
and after `StopSeen` drains and flushes for the last time.  A connection is
`Accept`, `Handshaken`, then a request that may wait for keys, the response, and
`BodyWritten`, where its record is made; `ClientLeaves` drops it anywhere.
`Signal`, `Drained` or `GraceExpires`, `AdminCloses`, `StopWorker` and
`WorkerJoined` are main's way out, `AcceptFails` the short one.

### CircuitBreaker

`word` is the packed `AtomicU64`; a CAS compares state and timestamp together.
`failures` is the relaxed counter.  Each request walks through `pc`:
`TryAcquire` reads the clock, `LoadAcquire` is the load at the head of the loop,
`ClaimTrial` the CAS to half-open; after the exchange `RecordSuccess`,
`LoadSuccess`, `Close` or `RecordFailure`, `LoadFailure` and then `Reopen`, or
`CountFailure`, `Trip`, `ResetFailures`.  `NoVerdict` covers the outcomes the
forwarder does not report.  `ticket` and `streak` are history.  Relaxed
operations on the one counter are interleaved atomically: no other location's
value is inferred from it, so the order of a single location is all the code
depends on.

### SpikeGuard

`bucket` is the packed word (`last`, `tokens`), `now` the request's second.
`TryAcquire` reads the clock, `Load` loads and computes, `Take` is the winning
CAS, `LoseRace` the losing one, which evaluates again with the word it found.
`mark` is an arbitrary instant fixed at the start, so that the bound is stated
for every interval that reaches to the present.

### Limits, RateWindow, RedisRate, QuotaPeriod, RedisQuota, Storage

The contracts are the trait's promises.  The Redis modules keep what the server
keeps: a sorted set and its expiry, a counter and its expiry.  A script is
atomic, so a call is one action; the server's lazy and active expiry are the
operators `Live`/`Exists` and the action `ExpireKey`.  `LoseExpiry` is the fault
`QUOTA_SCRIPT` defends against; the contract has a matching fault `LoseEnd`, so
that the refinement says what the defence achieves.  `Storage` runs one backend,
chosen at start: under Redis the two scripts interleave on one server and one
clock, in memory the calls of `MemoryLimits` do.

### MemoryLimits

`Call` reads `Instant::now()` and then waits for the lock; `CheckRate` and
`CheckQuota` are the critical sections, which contain no await.  The order of
the critical sections is free.

### UpstreamPool

`sets` are the generations, `mounted` the one the `ArcSwap` holds.  A request is
`Start`, then per attempt `LoadSet`, `Pick` (the `fetch_add`), `Look` (the flag),
possibly `Fallback`, then `TransportError` or `Finish`.  The checker is
`CheckerWake`, `Probe`, `ApplyResults`; the refresher `BeginPoll`, `HeadFails` or
`HeadArrives`, `BodyFails` or `BodyArrives`, `RefresherWake`.  `Alive` is the
strong count of the target, which decides what `Weak::upgrade` returns.
`Unroute` is the reload that drops the target, `Flip` the environment.
`evidence` and `steady` are history.

### HotReload

Admin: `CreateGet`/`PutGet` are the reads of POST and PUT, `Set` their write,
`Delete` and `Reload` one call each.  A pod boots (`Boot`), loads key by key
(`ScanKey` in any order, then `ReadKey`), builds and swaps its table
(`BuildTable`, which is `merge_sources` and `RouteTable::build`), then listens
(`Listen`, `Link`) and reloads on each nudge (`Nudged`).  `LoadFails`, `SetFails`,
`Unlink` and `Crash` are faults.  The gap between the first table and the
subscription is the `pc` value `"gap"`.  `covered` is history: nothing was written
since the pod began to boot or was last reached by a nudge.  `FileDefs` is a constant:
the directory is read again at each rebuild (`reload.rs:64`), and the model says
what holds while nobody edits it.

## 3. What TLC checks

| Run | Shows |
|---|---|
| `request_path` | across all auth modes the steps of the chain decide what the credential that reached them below the pre hooks is worth (`AuthMatchesSpec`, compared with a decision stated in one piece), and a failed storage call admits nobody; a revoked key admits no later request, injected by a hook or not; a request is charged exactly once by each limit that applies before whoever answers it, and by no other, so that a denial consumes nothing below it; hits are what misses would have given, and only complete successful answers are stored; what leaves through the CORS layer stays readable; headers stay clean |
| `graphql` | nothing runs or passes a tunnel that schema, depth limit, introspection switch and grants do not permit; hits are sound across schema swaps; no swap breaks a persisted query; a federated or data-graph answer has errors only if a source failed and lacks data only with an error; the served schema follows the upstream |
| `graphql_key` | *violation*: two requests with different documents and variables have one cache key, because the lines of both are joined |
| `federation_split` | *violation*: two entity fetches of one object from one subgraph, and the second result replaces the first |
| `federation_widen` | *violation*: entity fields under a fragment on an interface of a concrete object are never fetched, and no error says so |
| `lifecycle` | misses refetch once per cooldown; no refresh loses a key that was never withdrawn; the key cache converges after a rotation; a drained shutdown accounts for every record; every shutdown ends |
| `breaker` | every admission is under a closed circuit or takes the one trial slot after a full cooldown since the last transition's stamp; open never becomes closed directly; no timestamp from the future; failures in a row stay bounded while closed; no open or half-open word stays for good |
| `spike_guard` | the burst bound, earned denials, the credit clock |
| `storage` | on Redis, both scripts, interleaved with expiring keys and a lost expiry, refine the sliding-window and fixed-period contracts, no window holds a burst and a lost expiry is repaired by the next call; in memory, quotas hold and periods keep their distance with clock readings out of order, and a rate window is overrun by at most one request for each other call waiting |
| `upstream_pool` | no duplicate delivery, earned evictions, the plain rotation only when nothing stayed healthy or another request moved the cursor; flags converge to the real state; a reload ends both tasks, if discovery endpoints finish the bodies they begin |
| `upstream_hang` | *violation*: without that assumption the refresher, and the target it holds, may stay for ever |
| `hot_reload` | fresh tables after nudges, no conflicting routes from torn reads, file routes kept; reloads land |

Some properties are stated in the form in which they hold, which is weaker than
one might first write:

* The reset after a trip may run after the circuit has closed again and wipe
  fresh failures, so the trip point moves by up to `Threshold` for each request in
  flight, more than the "request or two" of `breaker.rs:15-17`
  (`TripPointBounded`).
* A success reported by a request from before the trip closes a half-open circuit
  during another request's trial (`breaker.rs:121-124`); hence
  `OpenClosesOnlyThroughTrial` speaks of the open state only.
* `next_addr` may fall back to an evicted address while a healthy one exists, when
  another request draws from the cursor in between
  (`FallbackOnlyWhenAllEvicted`).
* The in-memory rate window is not exact when a call waits for the lock
  (`OverrunBounded`).
* Two POSTs of one id may both answer 201, because the existence check and the
  write are two storage calls (`resources.rs:175-200`); `HotReload` models both
  calls, and no property demands otherwise.
* The stamp of a transition is the clock reading of the request that made it, which
  may be older than the transition; a full cooldown since it may be less than one
  since the transition (`AdmissionRespectsCircuit`).
* `GatewayAnswersWhole` leaves out documents of which one object is fetched twice
  (`Splits`) or which fetch under a fragment on an abstract type (`Widens`); these are
  what `federation_split` and `federation_widen` are about.  In the database of the
  run an object without a key of some subgraph has no field there to miss.
* `GraphqlHitSound` says that a hit answers the request's own document, operation
  and variables only if the variables of both requests have as many lines.  All
  JSON variables do, having one; GET variables that are not JSON are what
  `graphql_key` is about.
* The election after a JWKS miss is not followed by a refetch when the client of
  the elected request leaves; the periodic task makes up for it
  (`KeysConverge`).
* A client that upgraded is outside of the graceful drain (its tunnel is a task
  of its own), and a handshake holds the drain until it ends or the grace period
  does; `DrainDelivers` says what follows for records.  If `accept` fails, main
  returns without the last flush.

### Bounds

* Requests, calls: two reach every race between a load and its CAS, between a
  storage read and an edit, between a cache write and a lookup, between two
  elections, and between a clock reading and a lock; three in the spike guard,
  where two may race behind a third with an older second.  `UpstreamPool` checks
  one request with its retries; other requests on its cursor are the action
  `OtherDraws`.
* `request_path`: twenty deployments (stored tokens, revocation, credentials that
  pre hooks inject, remove or invalidate, policies and broken policies, one per
  auth mode, cross-origin callers, versions, caching, path policies with hooks and
  mocks, no route, transforms, upgrades, definitions that do not validate).
  Each has the inputs, upstream answers and edits that tell its features apart;
  `horizon` bounds its clock just past the expiries it contains.
* `graphql`: fifteen APIs (synced, with breaking schemas, cached with variables of
  one line and of several, guarded by
  grants and depth, tunnels in both vocabularies and in none, a data graph, an
  unmapped one, a subgraph, supergraphs over three subgraphs with interfaces,
  nulls, lists, entities of two types, split and widened documents).  `MaxChanges` 2 lets the upstream publish
  something refused and then something good.
* `lifecycle`: `Cooldown` 2 and `MaxTime` 4 give two elections; one rotation makes
  an old answer differ from a new one; `Capacity` 1 fills the channel at the
  second record, `BatchSize` 2 needs both.
* Clocks of the other modules stop at `MaxClock`, two or more cooldowns, windows
  or periods from the start, so boundaries are met at, before and after the exact
  instant.  The proofs of section 4 show that the safety properties they state
  depend neither on it nor on any other bound of this list.
* `storage`: limits of 2 are reached and exceeded; windows and periods of 3 fit twice
  into a clock of 7; three suffixes tell as many requests of one instant apart.
* `MaxCount`, `MaxAllowed`: above the limit, so that denials are counted too.
* `CursorMod`: the cursor is kept modulo a common multiple of the set sizes; the
  code's `cursor % count` is then exact.
* `MaxSets`, `MaxFlips`: one swap, and enough changes of an address to be evicted
  and reinstated.
* `MaxWrites`, `MaxFaults`, `QueueCap`: two writes tear a load between any two of
  its reads; one fault at any point; a queue of one is full at the first nudge.
* Symmetry is used for calls in runs without liveness.

### Fairness

* Breaker: requests keep arriving, exchanges end (the whole exchange is under
  `tokio::time::timeout`), time passes.
* Pool: `GatewayFairness` is what timers and the scheduler give (requests, probes
  and sleeps end; the head of a poll comes or times out).  A request under retries
  ends because one timeout covers all attempts, hence strong fairness of `Finish`.
  `FairSpec` adds that a poll's body ends, which the code does not enforce: that
  is the finding of `upstream_hang`.
* Reload: a pod's own tasks run.  Nothing about operators, restarts or the network.
* Schema sync: the task is scheduled and its timer fires; an upstream asked again
  and again answers in the end, and finishes a body it began.  The timeout of an
  introspection covers the head only, so the last is an assumption about the
  upstream, not something the code enforces; the same holds of a JWKS fetch
  (`forward.rs:469-480`).
* Lifecycle: the tasks run, the grace timer fires, a sink's `emit` returns, admin
  requests end.  Of connections nothing is assumed: they may stay open for ever.

Deadlock is checked except where the system may stop (a target and its tasks
gone, requests finished, the process ended) or where the counters of the model
run out while the system would go on (`Storage`).

## 4. What is proved

All theorems hold for every value of the constants allowed by the `ASSUME`s of
the module: any set of requests, pods, addresses, APIs or deployments, any
positive threshold, cooldown, capacity, refill, window or period, any limit
including zero, any bound on clocks and counters.  TLC evaluates every `ASSUME`
on the instances of section 3.  Those that say more than the range of a number:

* `InFlightAssumption` (`CircuitBreaker`): finitely many requests are in flight.
  Only `TripPointStaysBounded`, which counts them, uses it.
* `PoolAssumption` (`UpstreamPool`): the seeds are not empty (an empty
  `target_list` gives way to `target_url`), and the modulus at which the model wraps the cursor is a
  multiple of every set size, so that wrapping is invisible as it is in the code
  short of 2^64 draws.
* `ReloadAssumption` (`HotReload`): file definitions are definitions.
* `WorldsAssumption` (`Server`): the provider begins with a set it may publish.
* `WorldsAssumption` (`RequestPath`): no API is called `"none"`, the model's word for
  no API; what is an `Option` or a single header in the code has at most one
  element; and an `x-forwarded-for` that a client, a hook or a transform writes is
  a sequence of hops.
* `OwnHeadersAssumption` (`RequestPolicies`): the headers the gateway itself sets are
  not among the hop-by-hop ones (`rewrite.rs` lists those).
* `MemoryAssumption` (`MemoryLimits`): finitely many calls are in the backend at once,
  and there is one at all; `MemoryOverrunBounded` counts them.
* `ApisAssumption` (`Graphql`): documents are numbered in this way, texts and
  variables are sequences of lines, parsing
  depends on the text alone, a body gives a query or one of three errors, and
  depth limits are numbers.

### Breaker, guard and limits

* `CircuitBreakerProofs`: `TypeCorrect`, `CooldownAlwaysEnds`, `AdmissionSafe`,
  `OpenNeverClosesDirectly`.  Inductive invariant: `TypeOK`, `CooldownEnds` and
  `SeenMatchesArm`, which says that what the load established about the loaded
  word is still true of it when the CAS runs.  Without it a claimant's CAS could
  succeed on a word inside its cooldown.  `TripPointStaysBounded` needs two more
  parts: `OneClosedWord` (there is one closed word, so a tripping request's CAS
  cannot fail while the circuit is closed) and `StreakBudget`, which charges the
  failures seen in a row to the counter, to the requests that are about to trip,
  and to the resets that have already happened; a reset still to come is not
  charged yet.
* `SpikeGuardProofs`: `TypeCorrect`, `GuardBounds`, `CreditMonotonic`,
  `DenialsAreJustified`.  `WindowBound` is not inductive, because tokens left in the
  bucket may be taken next; `Budget` counts taken and available tokens together
  against the seconds credited, `CanSpend` says that a request at its CAS compares
  with a word that has a token, and `NothingFromTheFuture` bounds clock readings.
* `StorageProofs`, Redis: `RateTypeCorrect`, `RedisImplementsContract`, `NeverBursts`;
  `QuotaTypeCorrect`, `QuotaHeals`, `RedisImplementsQuota`.  `NothingForgotten` relates
  the sorted set and the key's expiry to the full history: what still counts is
  neither purged nor expired.  It makes the set the script counts equal to the set
  the contract counts.  `ExpiryInv` bounds the quota's expiry by one period from now.
* `StorageProofs`, in memory: `MemTypeCorrect`, `MemoryQuotaRespected`,
  `MemoryPeriodsApart`, `MemoryOverrunBounded`.  `QuotaInv` ties the counter to what
  the period has granted, and the end of the period to its beginning; neither
  depends on the order in which clock readings reach the lock.  The rate window is
  harder, because a late call prunes the log with its own, older or newer, time.
  `LogInv` says that the log is the tail of what was ever allowed, however it is
  pruned.  `WindowInv` then says of every window that either the log still holds all
  of it, and the limit applies, or a call with a later time has dropped some of it:
  then the window is past, nobody can enter it any more who is not waiting
  already, and each one waiting adds at most one.

* `StorageProofs`, the whole layer: `StorageImplementsLimits` shows that a behaviour of
  `Storage` is one of each of the three modules it composes, the backend that is not
  running standing still; `StorageKeepsLimits` then collects all the promises above.

### Pool, reload and lifecycle

* `UpstreamPoolProofs`: `TypeCorrect`, `NeverDuplicated`, `EvictionsAlwaysEarned`,
  `FallbackOnlyWhenNoneHealthy`.  The types already say that streaks and probe
  results have the length of the generation they are of, which a swap under the
  checker must not break.  `Attempts` ties what was sent to the attempt counter;
  `Evidence` says that the checker's streak of an address is not longer than the
  failures its generation has seen, so an eviction that the streak permits is
  earned.  `Rotation` is what the fallback needs: as long as nobody else drew,
  the last `tries` draws were the request's own and at consecutive positions, and
  nothing it has looked at is still counted as steadily healthy.  After as many
  draws as there are addresses nothing steady is left, for every set size and
  also where the cursor wraps (`BackCovers`, and `CursorMoves` for the
  wrap).
* `HotReloadProofs`: `TypeCorrect`, `TablesCoherent`, `FilesAlwaysRouted`,
  `FreshAfterEveryNudge`.  Coherence and file routes follow from what
  `merge_sources` does with any records, torn or not (`RoutesCoherent`,
  `RoutesKeepFiles`).  Freshness is not inductive: a load in progress may hold what has
  been overwritten.  `LoadFaithful` says that a load of a covered pod with no nudge
  queued has, of every key already read, what is stored now.
* `ServerProofs`: `TypeCorrect`, `MissRefetchesStaySpaced`, `KnownKeysAlwaysStay`,
  `DrainAlwaysDelivers`.  `Attempts` says that no election is later than the last
  attempt, so the winner of a compare-and-exchange, whose reading is the last
  attempt still, is a cooldown after every earlier one.  `Shutdown` carries the
  drain: the order of main's phases and of the worker's exit (`PhaseOrder`,
  `WorkerOrder`), every record queued, in the batch or accounted for
  (`Recorded`), and, which makes it inductive, that after a drain no connection is
  open, so nothing joins a queue the worker has found empty (`Quiet`).

### Request path

`RequestPathProofs` has one lemma per operator that answers or moves a request,
one per action, and these invariants:

* `Requested` (`RequestsStayGood`) is the invariant of a single request.  `Metered`
  says at each position of the chain how often each limit has counted the request:
  once or never; `Barred` says that a credential dead since arrival is dead now and
  took the request no further than the session lookup, `Asks` that only a request
  with a credential waits there, and `Hooked` that the headers auth reads are what
  the pre hooks made of the client's, so that the credential judged is the one
  `Barred` speaks of.  `RevocationHolds` and `MeteringHolds` follow.
* `LeftAll` (`RejectionsStayReadable`): only an answer leaves, and only decorated
  (`DecoratedIs`).  Whatever `access-control` headers a layer below or the upstream
  had set, the layer's origin and flag replace theirs.  It needs `Tabled`: requests are in flight only
  under a table all of whose definitions validate, and a definition that validates
  does not join the wildcard to credentials.
* `CacheInv` (`HitsMatchMisses`): every entry, pending write and recording is
  `Honest`, that is, its key determines the upstream resource it came from.  That
  holds because the scope in the key names both the API and the version, and it
  must be said of writes that outlive their request and of recordings that are
  still streaming.
* `JudgedAll` (`AuthDecidesBySpec`): a request one of whose storage calls failed is
  answered by auth.  Of the others, while storage stands still, a
  request is in the one chain its input and the table allow, a request waiting
  for a session has passed everything before it, and one waiting for a policy is
  worth exactly what the policy grants.  A lemma per step that decides
  (`TokenVerdict` for the modes decided without storage, `AuthVerdict`,
  `SessionVerdict`, `PolicyVerdictHolds`) compares it with the one-piece decision.
* `CleanAll` (`HeadersStayClean`): on the way down a request is in a chain of its own
  API, carries a sequence of hops and has sent and shown nothing; what it sends
  has been stamped and stripped, with the client's address appended last; what it
  shows is clean.  Three facts carry it.  Hooks and request transforms may write
  what they like, but the forwarder strips after the last of them.  On the way back
  the order is the other one: the answer is stripped first, and then a definition
  that validates sets no hop-by-hop header in its response transform, nor in a mock
  (`SetsCleanly`).  And what the cache holds, or is about to, was stripped before
  (`CacheInv`).

The attempt to prove `RevokedNeverServed` corrected the model.  The history
variable `dead` used to judge the whole credential, so a request also counted as
dead when its version had expired or its HMAC signature had aged in flight, and
the invariant was not inductive: such a request had rightly passed those checks
before.  `Dead` now speaks of the session only, under the definition of the
request's own version, which is what revocation is about.

### GraphQL

`GraphqlProofs` holds for any documents, schemas and grants, and whatever the fetches
of a supergraph give.

* `PersistedQueriesStayValid`: a state is `Sound` if it compiles and carries exactly
  the persisted documents, all valid.  `Served` says it of the leaf, because of what
  `apply_introspection` refuses to swap in; `Holding` of the state that each request
  in flight has kept.
* `GraphqlHitsAreSound`: `Holding` says that what a request runs was checked under the
  state it loaded, not the one served now, and that its answer is one to its own
  operation; `Entry` says of everything stored, or about to be, that it answers
  the query its key names.  Equal keys have equal schemas and operations, but only
  the joined lines of document and variables; `JoinedLines` shows that these fall
  apart in one way when the variables have as many lines, and `HitHonest` that a
  hit then answers the request's own query.
* `OnlyPermittedOperationsRun`: `check_document` decides by walks that recur from a node
  to its children; `Permitted` speaks of every chain of fields of the document.  The
  proof first shows that the walks are defined (by recursion from a document's
  last node to its first) and what they give at each node, then goes up a chain
  from its end: each node of it is seen, its grants are looked up, and the depth
  computed at its top is at least the number of nested fields on it.  A request
  checked before a schema swap is judged under the schema it loaded, a message
  of a tunnel under the one served when it came.

### Only model-checked

* All liveness (`NeverWedged`, `HealthConverges`, `TasksEnd`, `ReloadsLand`,
  `SchemaFollows`, `KeysConverge`, `ShutdownEnds`), and deadlock freedom: outside the
  prover's reach.
* `GatewayAnswersWhole`.  The planner, the merge and the reference answer of
  `Federation` are recursive operators, about which the prover cannot reason; what
  they compute is checked over the documents of `MC_Graphql`.

## 5. What is not modelled

* Cryptography, TLS, HTTP framing, WASM execution, JSON and GraphQL parsing, and
  apollo-compiler's validation: external, reduced to what the code does with
  their verdict.
* What templates render, what an analytics record holds, the formats of sinks,
  list operations of storage (they only serve a sink).
* Dashboard, OpenAPI, metrics, traces, the status fields that only the admin API
  shows: they read or export and decide nothing.
* The process configuration and the reading of certificates: checked once at start.
* The byte relay of a tunnel that is not policed, and connection pooling.

Simplifications a reader should know of: API ids contain no `:`, so that storage
keys of two APIs differ; a raw token of `auth_token` shares the hash space of
the identities the other modes make up from prefixes, and no client is given such a
token; headers a client names in `Connection` are stripped after the API id was
stamped, so a client may remove the stamp but never forge it.

## 6. Plan

The models cover the parts of the system that carry its logic, and every safety
property the runs check is proved but one.  What is left:

1. `GatewayAnswersWhole`.  The planner would have to be written as functions over a
   document's nodes, as the walks of `GraphqlDocuments` are; the same recursion from
   the last node to the first would then define it, and an induction along the
   path of an entity fetch would compare it with `Wanted`.
2. The hazards of `PROJECT.json` that no property covers, each for the reason in its
   note: a write between a pod's first table and its subscription, and two POSTs of
   one id.
3. The parts that section 5 leaves out, where they come to carry decisions.
