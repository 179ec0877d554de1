# A formal model of the ReconMesh worker SDK

TLA+ modules for the parts of `worker-sdk` that are concurrent, can fail halfway,
or share state between processes; TLC configurations that check them on small
instances; and TLAPS proofs of the most important properties for every value of
the constants.  Paths are relative to `src/`.  `PROJECT.json` maps every
definition to the lines it models and lists runs, hazards, mutants, findings
and theorems.

    cd tla
    tlc -workers 2 -config AssetStore.cfg MCAssetStore      # one run
    tlapm AssetStoreProofs.tla                              # one module of proofs

## 1. The system

A ReconMesh *worker* is a process built from a *tool* (the author's `Run`
function) and this SDK.  A worker takes jobs of one phase from a River queue in
Postgres, gives the asset the job names to the tool, and writes what the tool
found back to the asset graph.  A trigger on the `assets` table announces
changes, and the cascade engine (another program) turns announcements into jobs
for further phases.

| Component | State | Operations | Interacts with |
|---|---|---|---|
| Asset writer (`worker/asset_writer.go`) | the `assets` rows: `attrs`, `fingerprint`, `last_seen`, `parent_id` | `UpsertAsset`, `UpsertAssetsBatch`/`upsertChunk`, `MergeUpdate`, `SetParentChain`, `FetchAsset` | the trigger `assets_on_change`, through which the cascade hears of a row; every other worker writes the same rows |
| River adapter (`worker/river_adapter.go`) | the position of each goroutine in `Work`; River's `river_job` row | `Work`, `persist`, `startConsumer` | River (claims, retries, rescues), asset writer, `api_keys`, module health |
| Module health (`worker/health.go`) | two atomic counters per process; the `module_health` row of the tool | `recordRunOutcome`, `gatherHealth`, `reportHealth`, `upsertHealth` | run outcomes of the adapter; the platform's auditor disables the key the row blames |
| Configuration reload (`worker/runtime.go`, `sdk/secretbox`) | the manifest's config maps, the tool's config, a `LISTEN` connection | `applyConfig`, `fetchMergedConfig`, `mergeConfigInto`, `decryptSecrets`, `injectExternalLists`, `configLoop` | `tool_configs` and its notifications; `ReloadConfig` of the tool |
| Proxy client (`sdk/proxyclient`) | circuit breaker, current assignment, `started`/`stop`/`done` | `HTTPClient`, `RoundTrip`, `refreshOnce`, `refreshLoop`, `Start`, `Refresh`, `Close` | the controlplane; every goroutine of a tool that makes requests |
| DNS resolver (`sdk/dns`) | an LRU cache per method | `Resolve`, `ResolveAll`, `Lookup*`, `callOrFallback`, `PushRecords`, `BulkResolve` | dns-service, the local resolver |
| Runtime lifecycle (`worker/serve.go`, `worker/runtime.go`) | pool, row in `workers`, River client, admin server, context | `Serve`, `newRuntime`, `Run`, `registerWorker`, `heartbeatLoop`, `startAdmin`, `handleAdminUpdate`, `shutdown`, `Close` | everything above; the control plane routes to workers whose heartbeat is fresh |
| Manifest (`worker/manifest.go`) | a parsed file | `LoadManifest`, `Validate` | boot; the queues and limits of the consumer |
| Finding dedup (`worker/dedup.go`) | none | `DedupHash`, `canonicalJSON` | a sister of `fingerprintAttrs` in the asset writer |
| Source cache (`sdk/sourcecache`) | a table | `Upsert`, `UpsertBatch`, `ListForURL`, `CountForURL` | tools that keep recovered sources |
| mTLS, tracing, metrics, test harness | library objects | set-up at boot, helpers for tests | |

**What is hard.**  Two hashes of different things share `assets.fingerprint`,
and that column decides whether an upsert is skipped and whether the cascade
hears of it; writers know only some keys of a row.  A result is persisted in
several statements without a transaction, with crashes, lost answers, retries
and a rescuer that gives a running job to a second goroutine.  Health reports of
a loop and of detached goroutines race for one row.  A configuration reload
reads, merges, decrypts *in place* and delivers while further edits arrive over
a connection that may break.  The breaker is driven by requests, refreshes and
a clock at once, and `Close` may meet `Start`, a fetch or another `Close`.  DNS
lookups overlap between the `get` and the `put` of a cache.  The signal may come
at any moment of boot or service, and shutdown has to wait for goroutines it
does not own, some of which hold connections it is about to close.

**What makes each part correct** is in the comments on the properties and is
summarised per run in section 3.

## 2. Modules

| Module | Models | Composition |
|---|---|---|
| `AssetStore` | the table, every statement of `AssetWriter`, trigger, operator, clock | base of `CascadeJobs` |
| `Delivery` | abstract: what the worker promises of one job | implemented by `CascadeJobs` |
| `CascadeJobs` | `Work` and `persist` step by step, River around them | `EXTENDS AssetStore`; every statement a slot sends *is* an action of `AssetStore` |
| `Breaker` | the breaker's methods as functions | used by `ProxyClient` |
| `ProxyClient` | callers, refresher, `Start`, admin refresh, `Close` over one breaker | `EXTENDS Breaker` |
| `Health` | counters, loop, late goroutines, the upsert | |
| `ConfigReload` | `applyConfig` and `configLoop`, edits, connection | |
| `DnsCache` | `cachingResolver` and `lru` over both backends | |
| `Lifecycle` | one process from `main` to exit: boot, signal, shutdown, and the goroutines beside them | stands beside `CascadeJobs` and `ConfigReload`, whose goroutines it follows from start to end |
| `CanonicalJson` | `DedupHash` and `fingerprintAttrs` as functions on Go values, and what they should tell apart | `EXTENDS Framing`; its `canonicalizeForHash` is the constant `Canon` in the instance of `AssetStore` |
| `Framing` | what those two do at one level: the sorted order of a map's pairs, the length-prefixed fields | used by `CanonicalJson`; without recursion, so that it can be proved about |
| `MC*` | the small instance of each | |
| `*Proofs` | theorems about `AssetStore`, `CascadeJobs`, `ProxyClient`, `Health`, `ConfigReload`, `DnsCache`, `Lifecycle`, `Framing` | extend the module and `TLAPS`; `CascadeJobsProofs` extends `AssetStoreProofs` too |

Definitions named like `Merged_hash_before_merge`, marked `mutant` in their
comment, are no part of the model: each is a plausible wrong version of the
definition that follows it, and putting it in its place makes TLC report the
property `PROJECT.json` pairs it with.

### Correspondence with the code

**AssetStore.**  A row is `[attrs, fingerprint, stale, parent]`; `attrs` maps
every key to a value or `Null` (absent); `stale` is `last_seen < NOW() -
interval '1 minute'`.  A row id is the asset with its number of deletions, so an
asset deleted and inserted again has another id, as in Postgres.  A fingerprint
is the hash's *input* with a tag for who hashed (`fingerprintAttrs` in Go,
`digest` in SQL): SHA-256 is taken to be collision free, and a Go hash is never
the digest of a jsonb text.  `Canon` is what `canonicalizeForHash` does to a
value; it is a constant function because it is not injective (`{}` and `[]` have
one canonical form).  Each operation is one SQL statement and one step:
Postgres holds the row lock from the `WHERE` of `ON CONFLICT` to the commit.
The statements of one `UpsertAssetsBatch` are separate steps, as in the code.
Trigger, cascade and operator are external.

**CascadeJobs.**  `slot[w]` is the position of a goroutine in `Work`: fetch the
asset, run the tool, `MergeUpdate`, one chunk after the other, feedback and
return.  Every statement may fail, or commit and lose its answer; between any
two, the process may crash.  River is a library, modelled from the options
`startConsumer` gives it: it counts attempts, retries, rescues a job that has
been running too long (its goroutine goes on, so two attempts overlap) and
settles a job only while its row says running.  Metrics, spans and
`recordRunOutcome` change nothing that a step reads.

**ProxyClient, Breaker.**  The breaker's methods hold a mutex, so each is a
function.  Its times are ages that stop growing where the code cannot tell them
from larger ones.  Everything else ends a step at each access to shared state:
`allow` and the load of the assignment are two steps, and so are the store of an
assignment and `success`, the `select` of `Close` and `close(c.stop)`, and, in a
`Start` without a controlplane, the compare-and-swap and `close(c.done)`.

**Health.**  The counters are atomics, so each add, store and load is a step;
`gatherHealth` loads two of them one after the other.  `upsertHealth` is one
statement.  Columns that are only written (timestamps, 24-hour statistics,
message, extra) are left out.

**ConfigReload.**  A config is a function from names to scalars or to maps of
one more level, which is enough to tell a merged map, a replaced map and a shared
map apart.  `Plain` says which ciphertexts open to what.  Maps of the manifest
that the merge did not copy are shared, so decryption changes the manifest
(`Touched`).  A failed query, a refused `ReloadConfig`, a list that cannot be
fetched, a lost connection and a re-`LISTEN` that fails are all steps.  The
history variable `behind` says why the tool may not have the stored override:
a fault, or an edit while nobody listened.

**DnsCache.**  One of the method caches; they differ in what is returned and
not in how it is fetched and kept.  `get` and `put` are steps under the mutex;
the backend in between is not.  Of an answer only `ValidUntil` is kept.  The clock
is read when an answer has arrived (`time.Until`; what is then left of its lifetime is
`left`) and again by `put`, once the goroutine has the lock; time may pass in
between.  The lifetime of a local answer counts from before its lookups.

**Lifecycle.**  `pc` is the main goroutine in `Serve`, `Run` and `shutdown`; each
call that can fail or block is a step.  `die` ends the process without deferred
calls; a boot call that fails because the signal cancelled `ctx` returns through
them.  `closing` is `closeOnce` with its caller, because the error of `Run`'s
shutdown decides the exit code and that of a deferred `Close` is dropped.  A job
goroutine is in `Tool.Run`, between two statements of `persist`, or has an
outcome that River's completer has yet to write; its context is derived from
`ctx`.  River and pgxpool are libraries: `Stop` waits for goroutines and
completer, the completer needs the pool but not `ctx`, and `pool.Close` waits
for connections that are out (`Holders`: the listener's, and that of a
`/readyz`) and gives out no new one.  The completer is taken to succeed while the
pool is open, which `SettledBeforeExit` rests on.  After the signal a `persist`
may fail, be cut between two statements, or return from a last one that had
committed already.
`/manifest` may crash the process while a reload writes into the maps it
encodes (undefined in Go, so a choice).  What a reload computes and what a job
writes are in `ConfigReload` and `CascadeJobs`; `healthLoop` is in `Health`.

**CanonicalJson.**  A Go value is a tagged tuple; a map is a sequence of pairs in
the order of iteration, so that "the same map" has several representations; maps
of another Go type than `map[string]any` pass through both canonicalisations and
are sorted by `encoding/json` itself.  Text is a sequence of tokens.  `ByKey` is
any sorted order of the pairs (`Framing`), and a header is the four bytes that
`PutUint32` writes, cut off at 32 bits as the code's conversion does.
`MCAssetStore` checks `AssetStore` and `CanonicalJson` in one run; they have no
variable in common, so a behaviour of the instance is of one or the other.

## 3. Runs

Bounds are chosen as the smallest for which the cases named under "hazards"
happen; every passing run takes less than three minutes with two workers.

| Run | Instance | Checks | Shows |
|---|---|---|---|
| `asset_store` | 2 assets, 2 keys, 3 values of which two share a canonical form, 3 payloads (partial, overlapping, equal up to canonical form), 4 chunks (two assets, one asset twice, a parent of its own, an invalid item), 1 deletion per asset; and every two of 708 findings: maps of up to 2 keys in both orders over scalars, lists, lists of pairs, maps and typed maps, nil and unencodable data, kinds and severities that concatenate alike, a kind in two cases | `TypeOK`, `FingerprintCoversAttrs`, `SkippedUpsertLosesNothing`, `ChangesAreAnnounced`, `WritersOnlyAdd`; `DedupIsSound`, `FingerprintIsMeaning` | no order of partial writers, merges, re-stamps and deletions lets the shared column skip an upsert, or hide a change from the cascade, that matters; findings with equal kind, severity and document have one hash, and one hash means one finding even where the documentation draws it widest; the fingerprint does not depend on map order and is blind only to changes of structure |
| `cascade_jobs` | 2 slots (symmetric), 2 jobs where the second is inserted for a child of the first and writes back to the root, in two chunks of 2 and 1, or names the root twice in a chunk, 2 attempts, 1 deletion per asset | `JobsTypeOK`, `CompletedIsVisible`, `FeedbackFollowsResult`, `ChildrenFollowUpdate`, `DeliveryHolds` | a completed job left a complete result; feedback and children come in the order the cascade relies on; the adapter implements `Delivery` |
| `cascade_jobs_liveness` | the same without deletions and symmetry, one job misrouted | `JobsSettle` | every inserted job is completed, cancelled or discarded |
| `proxy_client` | threshold 2, window and cooldown of one tick, one caller, one `Close`, a good and a garbled address | `ClientTypeOK`, `OneProbe`, `CloseIsAwaited`, `OpensForCause`, `CloseEndsLoop`, `HalfOpenResolves`, `CloseReturns` | the breaker opens for cause, probes once and never stays half-open while the refresher runs; a `Close` that waits always has somebody to wake it, and returns, after the loop |
| `health` | 1 process, 2 runs at once, 4 runs in all, unhealthy after 3 failures, the stored counter up to 2 | `HealthTypeOK`, `BlamedKeyFailed`, `RecoveryIsShown`, `FailureIsShown` | whoever writes last, a blamed key did fail, and the row ends up showing recovery or failure |
| `config_reload` | a manifest with a map holding a secret, 4 overrides (none, one field of the map, another field and an unopenable secret, map and scalar exchanged), 3 edits, 2 notifications on their way, 1 lost connection | `ConfigTypeOK`, `DeliveredIsEffective`, `StaleIsExcused`, `HeardEditArrives` | after any reloads the tool has what its override means; an edit that a listener heard is lost only to a fault |
| `dns_cache` | 2 goroutines, 3 hosts, room for 2, `CacheTTL` 2, lifetimes 1 and 3 (below and above it), 0 and one that is over; clock to 4 | `DnsTypeOK`, `LruIsSound`, `ServedWithinLimits`, `EvictsLeastRecent` | list and map agree, nothing is served past `CacheTTL` or past the lifetime it arrived with, only the least recently used host is evicted |
| `lifecycle` | an updatable tool with one phase and room for one job, a configurable tool with two phases, 5 files to refuse, the three modes; 2 jobs, one of them in the queue of another phase; one admin request at a time; heartbeats up to 3 behind | `LifeTypeOK`, `SettledBeforeExit`, `ReleasedOnReturn`, `RefusedIsForeign`, `StaysRouted`, `ShutdownEnds` | a clean exit leaves no job running in `river_job` and everything released, from wherever the signal met it; the phase check refuses foreign jobs only; heartbeats survive failures; the process ends although `Run` and `Update` of a tool may hang |

Why the bounds are enough.  `asset_store`: the fingerprint relates one row to
the last two writers of it; two keys give a writer that knows only one of them,
three payloads any order of two writers and a third; a second asset is needed
for parents and batches.  `cascade_jobs`: two slots give overlapping attempts,
two attempts a retry and a last attempt, three children in chunks of two a
crash between two chunks and a clash within one.  `proxy_client`: with threshold 2 the count, its expiry and the opening
are different steps.  `health`: with `UnhealthyAfter` 3 all
three passive answers occur and 4 runs lead past each; the counter is capped
where only "positive" matters.  `config_reload`: three edits allow one before
the reload, one during it and one after.  `dns_cache`: three hosts and room for
two make every put of a third evict; the clock reaches past every expiry of a
first entry.  `lifecycle`: two jobs make a full queue and a job that is cut
off while another is done; more requests at a time would only repeat the wait
of `admin.Shutdown`; age and missed beats stop counting at 3, where a loop that
gave up after one failure is already behind.  Findings: two keys have
two orders, and the second level shows the recursion.  The theorems of section 5 remove the bounds where they apply.

Deadlock is checked except where stopping is no error: jobs all settled
(`cascade_jobs*`), a reload loop that returned (`config_reload*`), a clock at
its bound (`dns_cache*`), a process that has ended (`lifecycle*`), two findings
emitted (`asset_store`).

### Where the code and its documentation disagree

Each of these runs checks one property that a comment or contract states, and
TLC shows a behaviour of the code that violates it.

| Run | Property | Disagreement |
|---|---|---|
| `proxy_client_close` | `NoPanic` | "Idempotent", "Safe for concurrent use" (`client.go:26-27`, `73`): two concurrent `Close` calls both close `c.stop` |
| `config_reload_error` | `KeepsConfig` | "keeps running with whatever config it had" (`runtime.go:173-174`): after a failed query the tool gets the manifest's defaults |
| `config_reload_edit` | `EditArrives` | "Every time the operator edits the override" (`tool.go:72`), "whenever" (`runtime.go:337`): an edit between the first `applyConfig` and `LISTEN` is heard by nobody, and there is no later read; the run has no fault at all.  The same happens during a reconnect and after a re-`LISTEN` whose error is dropped (`runtime.go:366-374`) |
| `lifecycle_drain` | `NoKillMidWrite` | "drain in-flight jobs so we don't kill ToolRun mid-write" (`runtime.go:544-545`): River runs under the context that the signal cancels, so a job between two statements stops there, before `Stop` is called |

The following properties are violated as well.  `PROJECT.json` does not list their
configurations as runs: they are about single comments, and the trace of each is
a few steps long.  What does hold in their place is checked by the passing
runs (last column).

| Configuration, module | Property | Disagreement | Holds instead |
|---|---|---|---|
| `HealthBlame.cfg`, `MCHealth` | `UnrelatedClearsBlame` | "nil clears the column on healthy / unrelated-failure transitions" (`health.go:122-124`): the `CASE` of the statement keeps the blamed key unless the new status is healthy (`170-174`) | `BlamedKeyFailed`, `RecoveryIsShown` |
| `DnsCacheOverstay.cfg`, `MCDnsCache` | `ServedIsValid` | "Callers shouldn't trust answers past this; the lib enforces it on its own LRU" (`dns.go:46-47`): an answer that is past `ValidUntil` on arrival is kept for a whole `CacheTTL` (`cache.go:85-89`) | `ServedWithinLimits` |
| `CanonicalJsonExtra.cfg`, `MCCanonicalJson` | `ExtraFieldsMerge` | one hash in spite of "unrelated extra fields the worker added later" (`dedup.go:11-13`): every field of `Data` is hashed | `DedupIsSound` |
| `CanonicalJsonKind.cfg`, `MCCanonicalJson` | `KindIsNormalised` | "`Kind` lowercased, trimmed" (`docs/FINDINGS.md:77`): `DedupHash` takes `Kind`, and `Severity`, as they are | `DedupIsSound` |
| `CanonicalJsonComparator.cfg`, `MCCanonicalJson` | `SameComparator` | "the same comparator workers used to use for findings" (`asset_writer.go:300-301`): `fingerprintAttrs` writes objects as lists of pairs, so `{}` and `[]`, or `{"a":1}` and `[["a",1]]`, agree there and differ in `DedupHash`; an upsert that turns one into the other is skipped | `FingerprintIsMeaning` |
| `ProxyClientWindow.cfg`, `MCProxyClient` | `ThresholdOpens` | "when threshold is hit inside the rolling window" (`breaker.go:89-90`): the window starts at the first failure and is thrown away as a whole, so a restart of the count between the failures keeps the breaker closed | `OpensForCause` |
| `CascadeJobsPartial.cfg`, `MCCascadeJobs` | `PersistsTransactionally` | "the runtime persists assets and findings transactionally" (`tool.go:53-54`): a last attempt that ends between two statements leaves the update without the children; the comment of `persist` counts on a retry (`river_adapter.go:173-177`) | `CompletedIsVisible`, `ChildrenFollowUpdate` |
| `LifecyclePool.cfg`, `MCLifecycle` | `PoolIsUnused` | "no one will use it anymore" (`runtime.go:561-562`): a drain that times out leaves jobs running, and the pool is closed under them | `SettledBeforeExit`, `ShutdownEnds` |

All of these use the instances of the passing runs or smaller ones:
one edit and no broken connection in `config_reload_edit`, threshold 3 in
`ProxyClientWindow.cfg` (with 2, a restarted count is one failure away from it), two
`Close` calls and no caller in `proxy_client_close`, no deletions in
`CascadeJobsPartial.cfg`.

## 4. Fairness

* **CascadeJobs**: weak fairness of a slot's next step: statements end or fail, and
  `Tool.Run` is taken to return.  `JobTimeout` cancels the context of a tool that
  hangs; one that ignores it occupies its slot for ever, while its job is rescued.
  Weak fairness, too, of River's producer,
  scheduler and rescuer, which poll for ever.  Nothing is assumed of crashes,
  the cascade or the operator.  A crash is never forced *not* to happen;
  attempts are used up, which is why `JobsSettle` holds.
* **ProxyClient**: a fetch ends by `HTTPTimeout`; the ticker fires; a goroutine
  that can run does.  The exit of `refreshLoop` has strong fairness: `select`
  chooses at random between ready cases, so an exit that is ready each time the
  loop comes back is taken.  A `Close` that was called goes on.
* **Health**: the ticker fires and goroutines run (weak); a write that is tried
  again and again gets through (strong), that is, Postgres is not down for ever.
* **ConfigReload**: the goroutine runs and its queries end by their timeouts
  (weak fairness of the loop as a whole).  Nothing is assumed of outcomes: a
  query may fail every time, which `HeardEditArrives` names as an excuse.
* **Lifecycle**: weak fairness of main and of `configLoop` (goroutines run; the
  timeouts of `Stop` and `Shutdown` expire), of the answer of `/readyz` (1 s) and,
  as a part of the two loops, of `ReloadConfig`: it is given a context that ends,
  and is taken to heed it.  A tool whose `ReloadConfig` does not would keep the
  listener's connection out, and `pool.Close` has no timeout.  `Tool.Run`,
  `Tool.Update` and the completer need no fairness.
* **AssetStore**, **DnsCache**, **CanonicalJson**: safety only.

## 5. Proofs

Every proof is checked by TLAPS from the modules alone.  The theorems assume
the named `ASSUME`s of the module (types of the constants, `Null` distinct from
what it is not, thresholds positive because `applyDefaults` makes them so), which TLC
evaluates in every run, and nothing about their size.

* **`AssetStoreProofs`**: `TypeCorrect`, `FingerprintSound`, `SkipSound`,
  `ChangesReachCascade`, `NothingIsTakenBack`.  Every statement does
  one of three things to each row (`RowStep`): it leaves attributes and
  fingerprint alone or removes the row (`Untouched`), upserts it with a client
  hash, or merges it with a digest.  `Covers`, what a fingerprint says of its row, is inductive
  together with the types: `FingerprintCoversAttrs` needs both halves, because a
  skipped upsert is harmless only if the hash in the column still describes the
  row, whoever put it there.  A skip and an unannounced change both mean equal
  fingerprints, and equal fingerprints with `Covers` mean equal canonical
  attributes; the action properties follow row by row.
* **`CascadeJobsProofs`**: `JobsTypeCorrect`, `JobsKeepFingerprints`,
  `JobsKeepPromises`, `CompletedVisible`, `FeedbackIsLast`,
  `UpdateBeforeChildren`, `ImplementsDelivery`; any jobs, results, slots and
  number of attempts.  Each action is first shown to be a `JobsStep`: a `RowStep` on
  every row that takes nothing away (`StoreOK`, with the lemmas of
  `AssetStoreProofs`), a legal move of every queue row (`QueueOK`), and at
  most one job settled for good (`Delivers`).  The invariant `JobsInv` adds to what
  the run checks: a waiting job has attempts left (`AttemptsLeft`, for the types);
  the target of an inserted job has the row of the job's id or was deleted since
  (`TargetKnown`, without which a `MergeUpdate` that finds no row could not count
  as done); and an attempt in `persist` has merged its update and written the
  children before its position (`AttemptsSound`).  The last one must survive the
  writes of all other attempts, a second goroutine on the same job included,
  which is where `StoreOK` is needed; and since a chunk may skip a
  child whose fingerprint it finds, `ChunkIsHeld` needs
  `FingerprintCoversAttrs`.  With the invariant, every step that acknowledges a
  job is `Done` of `Delivery`, any other settling one `Die`, and every
  other step `TakeEffect` or a stutter.
* **`LifecycleProofs`**: `LifeTypeCorrect`, `ExitSettles`, `ExitReleases`,
  `OwnJobsAreTaken`, `BeatsKeepRouted`; any manifest that may be
  found at boot, any jobs, any expiry.  `LifeInv` says for each place of `Serve` what
  does not exist yet (`BootOrder`) and what is released already
  (`ShutdownOrder`).  `ExitSettles` rests on `RowsAreHeld` (a running row has a
  goroutine) and on the part of `ShutdownOrder` that says that past the drain there
  are no goroutines *or* `firstErr` is set; `ExitReleases` on the part about
  `closing`: the deferred `Close` does the work only when there was no consumer to
  drain, and finds it done otherwise.  `BeatOrder` bounds the age of the row separately
  while the loop waits and when a beat is due.
* **`DnsCacheProofs`**: `DnsTypeCorrect`, `LruSound`, `LimitsKept`,
  `LeastRecentEvicted`; any hosts, goroutines, capacity and lifetimes.  Three
  relations say what the list operations do: `LessHost` (`Remove`), `InFront`
  (`MoveToFront` and the push of `put`), `CutTo` (the eviction loop), and
  `AfterUse` what a use does to the history.  `LruInv` adds to `LruIsSound` the limits
  of each entry at the time of its put (`KeptInLimits`, from which `LimitsKept`
  follows by comparing with the clock; nothing is proved of answers that arrive past
  `ValidUntil`, see `ServedIsValid`) and `ByUse`: the list is in the order of last
  use.  An expired entry leaves the list and not the history, so `ByUse` embeds
  one in the other instead of equating them.
* **`ProxyClientProofs`**: `ClientTypeCorrect`, `ProbesAreSingle`,
  `OpensOnlyForCause`, `CloseHasWaker`, `CloseIsLast`.  The inductive invariant has two halves.
  `BreakerInv` ties the breaker to the history: the count of a closed breaker is
  at most the number of failures logged and `sinceFirst` the age of the oldest
  one it counts (`CountIsLogged`), and a probe is out exactly in half-open
  (`ProbeIsOut`).  `LifeInv` says where the loop can be for each value of
  `started`, `done` and the start call (`LoopLife`); without it `done` alone
  would not tell that the loop has ended, and a `Close` that read `started` could
  wait for a loop that is never spawned.  `CloseHasWaker` is the safety half of
  `CloseReturns`; it also needs that `Close` reads `started` after it closed
  `stop` (`CloseLives`).  Any number of callers and closers.
* **`HealthProofs`**: `HealthTypeCorrect`, `BlameIsDeserved`.
  Types need `Room`: failures counted plus outcomes on their way are no more than
  the runs, over a finite set of slots.  Blame needs `LateIsGuilty`: a goroutine
  that has yet to write a key error stems from a run that failed with that key.
* **`ConfigReloadProofs`**: `ConfigTypeCorrect`, `ToolHasEffective`,
  `ReloadsLoseNothing`.  The heart is that in-place decryption does no harm:
  `OpenedInPlace` says each map of the manifest is the shipped one or the shipped
  one opened, opening is idempotent (a plaintext is no ciphertext, an assumption
  on `Plain`), so a merge of any such manifest, opened, is what the shipped one
  would give, and its leaves are those of `Effective`.  `ReloadsLoseNothing` needs
  `ReadIsCurrent`: a reload that has read either read the stored override, or an
  own notification waits, or `behind` has a cause.

* **`FramingProofs`**: `FieldsNeverCollide`, `OrderIsForgotten`; any fields and
  any maps, whatever bytes and values are.  A header of four bytes determines a length
  below 2^32 (`HeaderReadsBack`; `HeaderWraps` shows that the limit is sharp), so a
  stream of framed fields determines its first field and its rest (`FirstField`),
  and three fields are read back one after the other.  Two sorted lists of the
  same pairs agree: at the least index where they did not (`LeastNumber`), the
  smaller of the two keys would be missing from one list (`SortedAgree`); so
  neither the order of iteration nor the unstable sort reaches a hash.

The inductive invariants were checked by TLC on the instances of section 3
before they were proved.

Only model-checked: liveness (`JobsSettle`, `HalfOpenResolves`, `CloseReturns`,
`RecoveryIsShown`, `FailureIsShown`, `HeardEditArrives`, `ShutdownEnds`), which is
out of the prover's reach, and `CanonicalJson`, whose two properties are
about operators that recurse over Go values: they need induction over data.
What they rest on at each level is proved in `FramingProofs`; that the levels
compose, and that the text of a JSON document determines it, is what TLC checks.

## 6. Not modelled

* **Source cache**: each operation is one idempotent statement on a table of its
  own; the process keeps no state, and what a failed `UpsertBatch` leaves is the
  caller's to retry.
* Of the **manifest**, the descriptive and UI fields, which nothing in the SDK
  reads, and the YAML syntax; of **Serve**, flags, log level and README lookup.
* **`PushRecords`, `BulkResolve`**, key parsing and the cipher of `secretbox`,
  mTLS, tracing and metrics set-up, the test harness: pure I/O, library objects
  or helpers without shared state.
* Findings: `persist` does not write them.

## 7. Plan

1. `AssetStore`, `CascadeJobs` with `Delivery`, `ProxyClient`, `Health`,
   `ConfigReload`, `DnsCache`, `Lifecycle`, `CanonicalJson` with `Framing`: done, in this order,
   because the graph and its jobs are what the platform exists for.
2. Proofs of every invariant, action property and refinement that a run of
   these modules checks, and of what `CanonicalJson` does at one level
   (`Framing`): done.
3. The source cache, if it gets state of its own.

## 8. Observations

Met while modelling; no property states them because the code or its documentation
leaves the intention open, or because they are outside the modelled parts.

* With `BreakerErrors` 1 it takes two failures to open the breaker, because the
  first one only starts the count (`breaker.go:104-107`).
* `success()` closes a breaker that is open, before its cooldown
  (`breaker.go:77-78`), also when it is a refresh that succeeded.
* A slow refresh may store an older assignment over a newer one until the next tick.
* A `HealthError` is returned to River as a failure (`river_adapter.go:133-142`)
  where `tool.go:132-137` reads as if the job were finished; a wrapped `ErrFatal`
  is retried, since `IsFatal` is a type assertion; a job of another phase is
  retried until discarded.
* Two entries of `NewAssets` with one identity in one chunk fail the statement
  on every retry, while `tool.go:251-252` says they are merged.
* After a first run that fails, `gatherHealth` may see one run and no failure
  and report healthy (`health.go:82-83` against `189-194`); the next report
  corrects it.
* A failed `Acquire` ends `configLoop` for good.
* `rt.secretsKey` is loaded only when the manifest names secrets, so a tool
  without any never resolves an API key.
* DNS: `CacheTTL` 0 does not disable the cache
  (`cache.go:39`, `options.go:32-35`); `ResolveAll` of the local resolver has no
  error when nothing answered, and the empty answer is cached; `NXDomain` is never set,
  because `errors.Is` compares with a fresh `&net.DNSError{}`.
* "asset_events only on real changes" (`asset_writer.go:22-24`): `UpsertAsset`
  stores the hash of its partial attributes and `MergeUpdate` the digest of the
  merged row in one column, so writers in turn change the fingerprint, and are
  announced, although no attribute changed.
* Findings are not persisted at all, and nothing in the SDK calls `DedupHash`.
* Nil and empty `Data` hash differently, and a `map[string]string` gets another
  fingerprint than the `map[string]any` with the same content.
* `serve.go:84-88` calls the tracing shutdown even if `Init` returned none: the
  process panics at the end of an orderly shutdown.  `die` skips the deferred
  `Close` and the flush of the spans.
* An `/admin/update` in progress makes `admin.Shutdown` time out after 5 s, and
  the worker exits with 1.  A second signal changes nothing.
* River works jobs before the first `ReloadConfig`; `rt.secretsKey` is loaded
  there, so the first jobs may run without their API key.
* "missing two heartbeats removes us" (`runtime.go:444`): five minutes are ten.
* `concurrency_per_host` is a limit per process and queue, so replicas exceed the
  "MaxWorkers=4 globally" of `river_adapter.go:276-277`; 0 "means unlimited"
  (`manifest.go:121-122`) and gives 8.  `timeout_seconds` is validated and read by
  nothing; `JobTimeout` is 5 minutes for every phase.
* `ListForURL` of the source cache trims paths after sorting and keying by the
  untrimmed ones, so `./a` and `a` come out as two entries of one name.
