# A verification development for the weather activity ranking service

The service under `src/` ranks four activities for a place by its weather. API
processes answer GraphQL requests from forecasts persisted in Postgres; a worker
refreshes the tracked locations on a schedule; Open-Meteo is the provider of
forecasts, waves and place names. This directory holds TLA+ models of its logic,
TLC configurations that check them on small instances, and proofs that TLAPS checks
for every value of the constants.

Paths below are relative to `src/src/` unless they start with `docs/`, which is
`src/docs/`.

## 1. Inventory

| Component | State | Operations | What is hard about it | What makes it correct |
|---|---|---|---|---|
| Circuit breaker, `open-meteo/circuit-breaker.ts` | state, failure count, `openedAt`, probe flag, per process | `exec` | calls admitted before an `await` settle after it and overwrite what others wrote | closed is below the threshold, half-open always has a probe, the cool-down is held, it recovers |
| Open-Meteo client, `open-meteo/client.ts` | none but its breakers; each call has two requests, a signal, pauses | `fetchForecast`, `geocode` | two requests share a signal; a pause ignores it; one request is awaited late | calls end, nothing rejects unawaited, waves are best-effort, an open circuit becomes quiet |
| Forecast cache, `store/forecast-cache.ts` | a `Map` kept in order of use, per process | `get`, `set`, `invalidate` | LRU by re-insertion, expiry, capacity | bounded, unique keys, evicts the least recently used, behaves as a map |
| Forecast store, `store/forecasts.repository.ts` | table `forecast_days`, the cache | `upsertForecastDays`, `getForecastDays`, `getForecastMeta` | transactions of several processes overlap, caches fill from old reads, midnight passes, answers are lost | forecasts are never wiped, payloads do not mix, caches converge |
| Activity ranking, `activity-ranking/` | map of cold starts, their counter, per process | `rank` | requests share cold starts; slots are taken and given back across `await`s and errors | one fetch per location, slots never leak, every request is answered |
| Geocoding, `geocoding/` | map of resolves in flight, per process | `resolve` | misses of a query share a resolve; candidates are created and one promoted | the cap on tracked locations holds and is the only reason not to track; every request is answered |
| Locations and geocode cache, `store/locations.repository.ts`, `store/geocode-cache.repository.ts` | tables `locations`, `geocode_cache` | upsert, promote, sweep | count and update are two statements; the sweep and the readers share a time to live | as for geocoding |
| Refresh, `refresh/`, `store/refresh-meta.repository.ts` | flag of the timer, table `refresh_meta` | `safeRun`, `runCycle`, `mapPool`, records | several workers, crashes, partial failure, the workers of a pool share an index, records in flight | one run per process, whole cycles are recorded, in order, each location tried once |
| Leadership, `store/prisma.service.ts` | a session lock of Postgres on a pooled connection | `withAdvisoryLock` | the lock belongs to a connection that may be lost, reused or not unlocked | at most one leader while sessions live; leadership comes free |
| Scoring, `scoring/` | none | `scoreDay`, `scoreAll` | thresholds, absent values, ties | scores in range, indoor complements outdoor, ranks follow scores |
| Rate limiting, `common/redis-throttler.*` | two expiring Redis keys per client and handler | `increment` | three Redis commands, not atomic, answered late, sent again when a connection breaks | fewer than twice the limit counted in any window, no counter or block for ever |
| Health, `health/` | none | `getHealth`, `ready` | two reads synchronised with neither the records nor the clock | an ok was true and was earned by a refresh |
| Configuration, `config/` | none | `validateEnv`, `configuration` | two parsers of the same texts | what is accepted is what is used |
| GraphQL layer, `graphql/` | none | the resolver's query | which error becomes which code | provider failures are told from mistakes of the service |
| Authentication, request ids, metrics, logging, process start | none, or counters | | stateless, or I/O and wiring | not modelled |

How they interact: `rank` calls geocoding, then the forecast store, and on a miss
the client (through the breaker) and the store again. The worker's cycle calls the
geocode cache's sweep, the locations, the client and the store, and records its
outcome in the row that the API's readiness probe reads. The processes share Postgres,
and the API processes the counters in Redis; caches, breakers and maps of promises are
one per process. The places where the whole depends on timing are the `await`s inside a
process, the advisory locks between processes, and the expiry of keys.

## 2. Modules

| Module | Models | Correspondence |
|---|---|---|
| `CircuitBreaker` | `circuit-breaker.ts` | `exec` is split at its `await`: `Refuse`, `AdmitClosed`, `AdmitProbe` before it, `Succeed`, `Abort`, `Fail` after it |
| `OpenMeteoClient` | `fetchForecast`, `geocode` | instantiates `CircuitBreaker`; each call has a main request and, for a forecast, a marine one, that fetch, read an error's body, pause or have settled; the signal fires at the client's or the caller's time-out; time is in ticks |
| `CacheMap` | what the cache promises | the cache as a value, with the outcomes of its operations |
| `ForecastCache` | `forecast-cache.ts` | the `Map` as a sequence in insertion order, shown to implement `CacheMap` |
| `ForecastStore` | `forecasts.repository.ts` | each SQL statement and each continuation is a step; caches are values of `CacheMap`; of a stored day only its `fetchedAt` is kept, which also names its upsert |
| `ActivityRanking` | `rank`, `coldStart`, `runColdStart`, the codes of the GraphQL resolver | requests and cold starts as records; the store is reduced to whether a location has rows and whether they are past; a resolve or a fetch fails as a provider or in another way |
| `Geocoding` | `resolve.ts` and its two repositories | the calls of `resolve` as records, the two tables, the map of each process; the promotion's transaction under its lock |
| `RefreshCycle` | scheduler, refresh service, leadership, record | the runs of every process from the timer to the unlock, with the workers of `mapPool` and the index they share; the lock as the number of times each connection holds it, records as statements in flight |
| `Configuration` | `env.validation.ts`, `configuration.ts` | a text of the environment is what `Number` and what `parseInt` make of it |
| `Health` | `health.service.ts`, the controller's `ready` | EXTENDS `RefreshCycle`; a probe is two reads in either order, a failure, and an answer at the clock of that moment |
| `Throttler` | `redis-throttler.storage.ts`, the guard that calls it | the execution of a command in Redis and the arrival of its answer are two steps; a command may be lost, or executed and its answer lost, and be sent again any number of times; keys expire by ticks |
| `Rubric` | the rubric of `scoring.service.ts` and `clamp` | integers in tenths (hundredths of km/h); waves in fractions of a metre of any fineness (`Metre`) |
| `Scoring` | `mapForecastDays`, `scoreAll` | a response is read into days, then scored |
| `MC...` | instances | the sets and functions a configuration cannot write down |
| `...Proofs` | theorems | each EXTENDS the module it is about; that of `ForecastStore` has those of `ForecastCache` too, that of `Health` those of `RefreshCycle` |

How they compose: `OpenMeteoClient` runs with `CircuitBreaker`'s own actions, and is
proved to implement its specification (`UsesBreaker`). `ForecastStore` uses `CacheMap`,
which `ForecastCache` implements. `ActivityRanking` replaces the store by what
`ForecastStore` is shown to guarantee (`StaleOverEmpty`, `WarmMeansForecast`), and the
client by a fetch that settles, which is `CallsEnd` of `OpenMeteoClient`. `RefreshCycle`
does the same with its upserts and fetches, and takes from `Geocoding` that tracked
locations only grow. `Health` composes the probe with all of `RefreshCycle` and takes
its setting from `Configuration`.

Definitions that begin with a comment "Fault:" are mistakes a programmer could make in
the definition of the same name; they are not part of any specification and serve
to show that each property can fail.

### Abstractions

* **Time.** `openedAt`, `expiresAt` and `fetched_at` are only compared with the
  clock, so they are represented by the difference, which stops where it is no
  longer told apart. The failure count saturates at the threshold in the same way.
  The client's ticks are those of its own timers.
* **Data.** A location is a model value, a place its rounded coordinates, a stored
  day its `fetchedAt`. `Scoring` has the numbers: the levels are chosen so that no sum
  is a half of a point except where doubles represent it exactly, since doubles might
  round other halves either way. A wave height is any double; the run takes
  millimetres, the proofs any fraction of a metre, with exact arithmetic.
* **Processes.** A continuation between two `await`s is one step. A statement of the
  database is one step, reading what is committed then. A crash removes the calls, maps
  and caches of a process and ends its transactions and sessions.

## 3. Runs

All passing runs finish with no error; `mutants` in `PROJECT.json` gives, for each
property of each run, a fault with which it is violated. Each module has a type
invariant, and each is proved (section 5), most of them instead of being run: that of
`OpenMeteoClient` is run too, since it bounds the attempts; that of `ForecastCache` is
part of `ImplementsCacheMap`, and what there is to say of the types in `Scoring` is part
of `MissingDaysDoNotCount`.

| Run | Instance | What it asks |
|---|---|---|
| `CircuitBreaker` | 4 callers, threshold 3, cool-down of 2 ticks | the invariants of the breaker, that nothing but a call in flight disturbs or prolongs the cool-down, and that the circuit closes once the provider answers |
| `ForecastCache` | 3 locations, 2 entries, 2 values, 7 operations | LRU, unique keys, bounds, and step by step agreement with `CacheMap` |
| `ForecastStore` | 1 location, 3 dates, a midnight, 2 writers in two processes, 1 reader, 2 upserts, 4 payloads (none, one day, a prefix, a gap) | what a commit may and must change, what caches hold, that locks come free and caches converge |
| `ActivityRanking` | 3 requests, 2 locations, limit 1 | slots, sharing of cold starts, answers |
| `Health` | behaviours of three kinds: *watched* (probes, time passing, 1 worker, 2 locations), *contended* (2 workers, 3 runs, 1 location, all faults), *crowded* (1 worker, 3 locations, a pool of 2); 3 records, a setting of 1 tick or NaN | leadership and that it comes free, that a pool shares out its list without overlap or gap and within its limit, the order of records, and what an ok says |
| `OpenMeteoClient` | 1 call (a forecast with its two requests, or a geocode), 1 other user of the breaker, 3 attempts, time-out 3, caller's 2, cool-down 5, pauses up to 2 | the shared signal, overrunning pauses, the unawaited marine request, quiet circuits, termination |
| `Geocoding` | 2 requests in one process and 1 in another, cap 1, three answers, time to live 1 | cap, sharing of resolves, rereading of the cache, the sweep, answers |
| `Scoring` | 17280 single days (every combination of the levels; waves down to the millimetre where rounding begins to show) and 150 forecasts of up to three days with short columns, gaps, and waves for other dates | the rubric's promises and the order of activities |
| `Throttler` | 3 calls of one client, limit 2, window of 3 ticks, block of 3 | what is counted and let through in any window, however late, how old a counter may be, that blocks end |
| `CircuitBreakerSingleProbe` | as `CircuitBreaker` | finding 1 |
| `ForecastStoreFreshness` | as `ForecastStore`, one day | finding 2 |
| `OpenMeteoClientCallerTimeout` | as `OpenMeteoClient` | finding 3 |

### Why the bounds are enough

The hazards are orders of few steps of few actors. Two writers in different processes
and a reader show every pair of statements of the store; a third writer only queues for
the lock. Three requests give a launcher, a joiner and a latecomer who finds the entry
gone; with a limit of one, the second location's request meets a full limit. In
`Geocoding` two requests of a process show the shared resolve and the stale miss, the
third shows what a map per process cannot see. In `Health` a worker with two runs shows
the timer firing during a run, a second worker the contest for the lock; each further
fault repeats one of these. A probe needs one worker beside it, since all that it sees
of several is the row, and two locations, of which one may fail; the pool needs one
process and a location more than its limit, so that both of its workers find one left.
The three kinds of behaviour (`MCHealth`) are these needs apart from each other: a kind
is chosen at the start, and restricts who runs, which locations are promoted and which
faults happen, never what a run in progress or a fair step does. The theorems of section
5 hold for them together. In `Throttler` three calls pass the check together with a
limit of two, so that one is over the limit and one still to be counted when the counter
expires; a window of three ticks has a first, a middle and a last one. `CircuitBreaker`
has one more caller than its threshold, so that a call is left in flight when the
circuit opens, and enough for two probes. In `OpenMeteoClient` the cool-down is longer
than the time-out, as configured (30 s in `circuit-breaker.ts:34` and 5 s in
`configuration.ts:30`), and the caller's time-out shorter.

Bounds that cap a behaviour: `MaxOps`, `MaxUpserts`, `LastDay`, `MaxRecords`,
`MaxHolds`, `MaxPause`. `MaxHolds` and `MaxRecords` are guards of the faults (an unlock
that fails, a lock whose answer is lost), of the start and of `Tick` of `Health`; none
of them stops a call in progress. `ForecastCache` stops at `MaxOps` and `Scoring` when
the ranking is there, so only these two are not checked for deadlock.

### Fairness

* Weak fairness of continuations, queries and fetches: the event loop runs what is
  ready, Postgres answers or fails, and a fetch has a bounded number of attempts under
  a signal (`client.ts:311-335`; `CallsEnd` shows it, from the timers and the event loop).
* Strong fairness of `TakeLock` (store and geocoding): Postgres queues those who wait
  for an advisory lock.
* Strong fairness of `IdleTimeout` (leadership): a pooled connection is closed after ten
  idle seconds (`prisma.service.ts:33-37`) and a cycle starts every
  `REFRESH_INTERVAL_MS`, hours, so it is not used again each time in between.
* Strong fairness of the client's clock and due timers: no infinity of events fits in a
  tick, and `setTimeout` fires.
* `Throttler` assumes that time passes (weak fairness of `Tick`), and that the connection
  does not break for ever between one call's SET and its answer (strong fairness of
  `Refuse`), since each break may send the SET again. Nothing is assumed of the client
  whose requests are counted.
* Nothing is assumed of callers, probes, faults, midnights or upserts; `Recovery` of the
  breaker says "if the provider answers from some time on and callers keep coming", as
  hypotheses of the property.

## 4. Findings

1. `CircuitBreakerSingleProbe`: every settling call clears the probe flag and may set
   the state, also one admitted before the circuit opened, so that two probes may be in
   flight at once. `circuit-breaker.ts:29` says the flag "Ensures only one
   concurrent half-open probe after cool-down".
2. `ForecastStoreFreshness`: days and their `fetchedAt` are read by two queries; an
   upsert between them gives old days the new `fetchedAt`, so the answer is stale and
   not flagged.
3. `OpenMeteoClientCallerTimeout`: callers pass `AbortSignal.timeout`, whose reason is a
   `TimeoutError`; the breaker only spares an `AbortError`, so the caller's own time-out
   counts as a failure of the provider, against `circuit-breaker.ts:65`.

Behaviours that the models contain, that differ from what a document says, and that no
run asks about:

* `fetchedAt` is taken before an upsert queues for the lock, so an older one may commit
  last (`ForecastStore`, `StartUpsert` and `TakeLock`); `dataAgeSeconds` is then
  larger than "Seconds since last successful forecast fetch"
  (`docs/contracts/schema.graphql:71`).
* A request that has read no rows starts a cold start even if rows have been written
  since (`ActivityRanking`, `Read` and `Launch`): "do not call Open-Meteo when
  forecast rows exist" (`docs/04-operations-and-failure-modes.md:41`) is a rule about
  what was read.
* A location whose rows are all past is answered with an error while the provider is
  down (`MayFindNoDays`), although "our API availability must not depend on Open-Meteo
  when forecasts are already persisted" (`docs/02-system-design.md:118`).
* A cycle whose sweep or listing fails ends without a record (`CycleFails`), although
  updating `RefreshMeta` is a step of every cycle
  (`docs/04-operations-and-failure-modes.md:24`).
* The pause before another attempt takes `Retry-After` as it comes and does not look at
  the signal (`Retry`, `Wake`): a call lasts its time-out and one pause at most, which
  `OverrunIsOnePause` states.
* A resolve that times out or cannot reach the provider is answered with
  INTERNAL_SERVER_ERROR, since only an `HttpError`, an open circuit and an `AbortError`
  are taken for failures of the provider (`ActivityRanking`, `IsProviderFailure` and
  `AnswerTo`); `README.md:196` of the repository has a new city
  answered with PROVIDER_UNAVAILABLE when "Open-Meteo down/timeout".
* An empty `STALE_AFTER_SECONDS` is validated as 0 and read as NaN, which no age
  exceeds: one success makes the service ok for ever (`Configuration`, `Setting`;
  `Health`, `Status`), where `docs/04-operations-and-failure-modes.md:86` has it degrade
  with age. Texts such as 0x10 and 1e3 are also read as two different numbers.
* The rate limit is one of fixed windows: nearly twice the limit may be
  counted and let through within the span of one (`LessThanTwiceTheLimit` is what
  holds; `granted` dates a request by its count in Redis). Requests whose answers are
  late are let through beside those of later windows, so a span may see twice the limit
  let through if it is dated by the answers. And a call that has passed the
  check may block a key again whose block has just ended.

## 5. Proofs

Every theorem holds for all values of the constants that satisfy the named
assumptions of its module: any number of callers, requests, workers, locations, any
thresholds and time-outs.

* **`CircuitBreakerProofs`**: types, `ClosedBelowThreshold`, `HalfOpenIsProbed` and
  `CoolDownHolds`. The invariant is the conjunction of the first three: a failing call
  trips the circuit or leaves it below the threshold, and no settling call, whether a
  probe or one that was admitted before, leaves it half-open or the flag raised.
* **`OpenMeteoClientProofs`**: the client's specification implements the breaker's
  (`UsesBreaker`: what a call does before and after its `await` is a step of `Exec` or
  `Settle`, and every other step leaves the breaker alone), so that what is proved of the
  breaker holds of the one it has; types, `OverrunIsOnePause`, `NoUnhandledRejection`,
  `OpenCircuitIsQuiet` and `ForecastIsReturned`. The invariant says of a call that its
  requests are within its deadline except for a pause begun before it, and that only a
  signal fired by hand has an AbortError as its reason (`Sound`); of calls and breaker
  together that while the circuit cools down, a call that still goes on is older than the
  opening (`AdmittedBefore`), without which nothing would be known of the calls that an
  open circuit finds in flight; and of the breaker that a half-open circuit has its
  cool-down behind it (`ProbedInTime`), since an aborted probe re-opens it without
  starting the cool-down again.
* **`ForecastStoreProofs`**: types, `WarmMeansForecast`, `StaleOverEmpty`,
  `UpsertReplacesSpan`, and `OutsideSpanSurvives` (rows vanish only past or within the
  span of an upsert that commits; no run asks for it, since `UpsertReplacesSpan` does).
  The invariant adds that a writer past its start has a payload and a `fetchedAt`, that
  a writer in its transaction holds the lock of its location, that what it has chosen to
  delete is still what its statement would choose (nobody else commits under the lock),
  that a reader's days are those of rows that exist and rows once there never vanish
  altogether. Then of `ForecastCache`: `EvictsLeastRecentlyUsed`, and
  `ImplementsCacheMap` step by step, with the types in it. Its invariant is that the
  entries stand in the order of their last use (`Sorted`), for which every operation is
  followed through the positions it removes and appends; the first entry is then the
  least recently used of all, and what is left is what the abstract map allows.
* **`ActivityRankingProofs`**: types, `SlotsAreFlights`, `WaitersHaveFlight` and, from
  the map, that a location has one cold start at most (`Coalescing`). The invariant adds
  that a cold start in progress is in the map under its location and that only a request
  that waits has somebody to wait for. The counter is a cardinality, so the proof uses
  the library's facts about finite sets.
* **`HealthProofs`**, first of `RefreshCycle`: types, `FlagIsRun` (which no run asks
  for), `OneLeader`, `PoolIsSound`. The invariant adds that at most one process holds
  the lock; and of a pool that its shared index cuts the list in two, what has been
  tried or is in one worker's hands and what nobody has had, and that no worker returns
  before the index is at the end (`PoolRight`), from which `PoolIsSound` follows. Then
  of the probe: types, `MetaNeverGoesBack`, `OkIsEarned` and `OkWasTrue`, on top of the
  invariant of the workers. While nothing has gone astray, a record in flight is newer
  than the row, and it is the only one because there is one leader (`Ordered`); every
  success, in the row, in flight or read by a probe, is no younger than a refresh
  (`Earned`); what a probe has read was enough for an ok when it was read if it still
  is, because ages only grow (`TrueOnce`).
* **`ThrottlerProofs`**: types, `CountIsRecent` and `LessThanTwiceTheLimit`. The time left
  to a counter and its age add up to the window (`LeftAndAge`). To the requests let
  through are added those that are counted and wait for their answer (`Admitted`), so
  that only the script raises the sum and a late answer leaves it alone. A span of ticks
  that began after the counter did has had fewer requests than it counts, and one that
  began before it, fewer than the limit besides (`Windows`); when the counter expires,
  every span of a window began after it.
* **`GeocodingProofs`**: types, `WithinCap`, `AnsweredIsTracked`. The invariant adds that
  a call between its count and its commit holds the advisory lock, so that what it
  counted is still true when it commits (`CountHolds`), and that a call past its commit
  has its first candidate tracked or found no place left (`Located`), which stays true
  because tracked locations are never released. `FlightsShared` and `NoRepeatedLookup`
  rest on the maps: whoever is past its lookup and waits for nobody is the entry of its
  query (`EntriesResolve`, `Shares`), and a row that has just been stored is found until
  it is too old. `FreshRowsSurvive` follows from the sweep and the readers using one
  comparison.
* **`ScoringProofs`**: `RougherIsIndoors`, of any two days with any integer signals, by
  monotonicity of each term and of `clamp`; and, through the types of the days that a
  response is read into, every property of the run. `BetterWavesScoreHigher` holds for
  waves to any fraction of a metre: points, penalties, rounding and limits are each
  monotone, and a difference of more than half a point survives rounding
  (`QuotientIsLess`, `ClampIsMonotone`, `PenaltiesKeepOrder`). `WavesOfTheirDate` needs
  the last entry of a date to exist, `RanksFollowScores` that the recursive sum of a
  mean exists and is an integer (`SumsExist`, `SumsAreIntegers`);
  `MissingDaysDoNotCount` compares the sums over two sequences of different lengths
  (`SumOfScorable`). The library's induction is out of reach for the provers, so each of
  these takes the least or the greatest index at which something fails or holds
  (`LeastIndex`, `GreatestIndex`, from the well-foundedness of strict inclusion of
  finite sets): the least day at which the running sums differ would have a predecessor
  at which they differ already. Ranks are cardinalities of the sets of better
  activities, and different because the comparison is a strict total order
  (`PrecedesIsAnOrder`), which needs that cross-multiplied fractions compare
  transitively.

The assumptions are those on the constants: thresholds, limits, attempts and times are
positive where a smaller one would be no setting (`BreakerAssumption`,
`MaxAttemptsAssumption`, `TimeoutsAssumption`, ...), bounds are numbers, and what stands
for absence (`Null`, `NoEntry`) is none of the values it is told apart from. Nothing is
assumed about their sizes beyond that the caller's time-out is no longer than the
client's, so that the run's instance is one of many.

Only model-checked: everything temporal under fairness (the prover has no liveness):
`Recovery`, `UpsertReturns`, `CachesConverge`, `EveryRequestAnswered`,
`LeadershipComesFree`, `CallsEnd`, `RequestsAnswered` and `BlockEnds`; and what the
runs that expect a violation refute. Every invariant and every action property of the
passing runs has a theorem.

## 6. Not modelled, and the plan

Done, in this order: breaker; cache and store; ranking; refresh; client; geocoding;
scoring; rate limit; configuration and health. Each has its abstract counterpart
where others rely on it.

What could come next:

1. A composition of `ActivityRanking` with `ForecastStore` in one process, to replace the
   reduced store by the detailed one, shown as a refinement. Today the link between them
   is the argument of section 2.
2. That one call of the detailed client, seen from outside, is the fetch that
   `ActivityRanking` and `RefreshCycle` take for it.

Modelled in part:

* Rate limiting leaves out the library's storage in memory, used without `REDIS_URL`, and
  counters that a restart of Redis loses, after which the limit starts anew.
* An upsert of the geocode cache that Postgres executes some time after its call was
  rejected, or its process died, is left out; with it the run does not end in minutes.
  Such a row is like one that another process saves at that moment, which the model has;
  only `NoRepeatedLookup` tells them apart, and its statement excludes these rows.
* Configuration is modelled for the numeric settings; the other modules take theirs as
  valid numbers (their ASSUMEs), which an empty text is not: `parseInt` makes NaN of it.
* Of the GraphQL layer the codes of errors are modelled; its limits of depth and
  complexity and the masking of messages are configuration of a library.
* Of the leadership lock, connecting and disconnecting are library calls.
* Postgres, Redis and Open-Meteo are modelled as the source uses them.

Not modelled, for good: authentication and request ids (stateless checks of headers),
metrics and logging (formatting, and counters no property depends on), process start and
the worker's HTTP server (wiring). A restart is the `Crash` of the models. A graceful
shutdown clears the timer and closes the pools under whatever is in progress; its
effects are queries that fail, runs that end and sessions that close, which are faults
of the models already.

## 7. Running it

    tlc -workers 2 -config ForecastStore.cfg MCForecastStore.tla
    tlc -workers 2 -config Health.cfg MCHealth.tla
    tlapm ForecastStoreProofs.tla

`PROJECT.json` lists for each run its module and configuration, and for each definition
the lines of the source it stands for.
