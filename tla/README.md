# A TLA+ verification project for viem-proxy

viem-proxy puts a Cloudflare Worker between viem and the JSON-RPC endpoints of
EVM chains. A client library replaces sixteen viem actions by requests to the
Worker and falls back to direct RPC; the Worker deduplicates concurrent
requests, limits and fails over its upstream calls, and keeps short-lived
results. This directory holds TLA+ models of its concurrent parts, the TLC runs
that check them on small instances, and TLAPS proofs that hold for every value
of the constants.

Paths below are relative to the repository: `workers/src` is the Worker, `src`
the client library.

## 1. Inventory

| Component | State it keeps | Operations | What is hard | Correct when |
|---|---|---|---|---|
| ProxyState object, `workers/src/durable-objects/proxy-state.ts` | one table per chain: request hash, status, outcome, two timestamps | check-or-create, complete, fail, status, delete, purge, hourly alarm | rows without owners; three different comparisons with two TTLs | rows past their TTL are as good as gone; a served outcome is fresh |
| Deduplication, `workers/src/handlers/actions.ts` and a copy in `handlers/proxy.ts` | local to each call: what it waits for, what it holds | check, poll, execute, report | interleaved calls, purge, eviction, lost and failed object fetches, timeouts | one registered execution per hash; waiters end; answers are counted |
| RPC limiter and failover, `workers/src/actions/utils.ts` | per chain: a counter and a FIFO of waiters with timers | acquire, queue timeout, try endpoints, release | timer against hand-over; leaks; overtaking | counter = holders <= cap; FIFO; nobody waits beside a free slot |
| ParamStore object, `workers/src/durable-objects/param-store.ts` | params by hash, with an age | put, get, delete, hourly alarm | expiry between a store and the lookup after it | an acknowledged store is found again |
| Stored-params endpoints, `workers/src/handlers/{store,cached}.ts` | none | POST store, GET cached | the answer of the store may be lost | a hash is bound to its params |
| Client request path, `src/actions/utils.ts`, `middleware.ts`, `*.client.ts` | per action: attempts, signal, backoff | send, retry, hash-reference exchange, fall back | attempts across several requests; signals; when to fall back | retries before direct RPC; every action ends; counted once |
| Client metrics, `src/utils/metrics.ts` | counters per method, rings of samples | record, recordFallback, snapshot, reset | recorded at three places, by tasks side by side, reset at any moment | each action once; totals are what was recorded |
| Client batch, `src/actions/batch.client.ts`; batch endpoint, `workers/src/handlers/batch.ts` | local | one POST, serial fallback | repeating items that already ran; matching by id and by position | one entry per item, in order |
| Purge endpoint and client, `workers/src/handlers/purge.ts`, `src/actions/purge.client.ts` | none | purge some hashes, or a chain | races with executions; partial failure; two URLs for one hash | what was purged is not served (section 5: where it is) |
| Preheat, `src/actions/preheat.client.ts` | a cursor and a failure count | pool of workers | a cursor shared across awaits | every request once |
| Edge cache and TTL policy, `workers/src/utils/cache.ts` | caches in front of the Worker | TTL by method and block | finality depth; an outcome cached twice; which form the params have | stale for a bounded time |
| RateLimiter object and middleware, `workers/src/durable-objects/rate-limiter.ts`, `workers/src/index.ts` | a counter per client and minute | consume | window boundary; lost verdicts; fails open | at most the limit per window; no refusal below it |
| Statistics object, `workers/src/durable-objects/statistics.ts`, `workers/src/utils/statistics.ts` | buckets per hour, method, chain and cache status; an alarm | record, merge, report, retention | capped samples; fire and forget; late alarms | windows report what was recorded; rows go in the end |
| Gateway, `workers/src/index.ts`, `utils/{auth,origin,errors}.ts` | none | CORS, origin, rate limit, auth, routes | order of middlewares | refused requests cost and create nothing |
| Compression, configuration, dashboard, health, formatting of server actions | none that changes concurrently | | | pure code |

How they interact. A client action sends a GET or POST, or, when its params are
large, first GET `/cached/{chain}:{method}:{hash}`, then POST `/store` when the
hash is unknown, then the GET again. The Worker runs each as one
`executeWithDeduplication` call against the ProxyState object of the chain; the
executing call goes through the limiter of its chain, which is per isolate,
while the object is shared by all isolates. Everything between two `await`s is
atomic; an object handles one event at a time, and its SQL is synchronous. The
hazards of this design are listed, each at its line, under `hazards` in
`PROJECT.json`, with the properties that cover them.

## 2. Modules

| Module | What it is |
|---|---|
| `ProxyState` | the object: one operator per handler, no behaviour of its own |
| `RequestDedup` | concurrent calls over `ProxyState` (EXTENDS it); specification, properties, inductive invariant |
| `HashLease` | abstract specification: the right to execute a hash, leased for a fixed term |
| `MCRequestDedup`, `RequestDedupProofs` | TLC instance; proofs, among them that `RequestDedup` implements `HashLease` |
| `RpcLimiter` | acquire, queue timers, failover, release |
| `SlotPool` | abstract specification: what a per-chain FIFO pool of slots promises |
| `MCRpcLimiter`, `RpcLimiterProofs` | TLC instance; proofs, among them that `RpcLimiter` implements `SlotPool` |
| `ParamStore` | the object with the stored params |
| `ProxyClient` | a client action over `ParamStore` (EXTENDS it), the rest of the Worker as its possible answers |
| `MCProxyClient`, `ProxyClientProofs` | TLC instance; proofs |
| `EdgeCache` | `RequestDedup` (EXTENDS it) behind a colo's cache, with the purge endpoint |
| `MCEdgeCache`, `EdgeCacheProofs` | TLC instance; proofs, among them that `EdgeCache` implements `RequestDedup` (EXTENDS `RequestDedupProofs`) |
| `RateLimiter` | the limiter's object: one operator per effect of `consume` |
| `CacheTtl` | the TTL policy, pure functions |
| `Gateway` | the Worker from arrival to response, over `RateLimiter` and `CacheTtl` (EXTENDS both) |
| `MCGateway`, `GatewayProofs` | TLC instances; proofs |
| `Statistics` | the object with the statistics, its senders and its queries |
| `MCStatistics`, `StatisticsProofs` | TLC instance; proofs |
| `Collector` | the client's metrics: one operator per method of the collector |
| `Batch`, `Preheat` | a batch with its endpoint, and a preheat, each over `Collector` |
| `Tasks` | batches, a preheat, a single action and resets side by side (EXTENDS `Batch` and `Preheat`) |
| `MCTasks`, `TasksProofs` | TLC instance; proofs |
| `SetInduction` | induction over naturals and finite sets, recursive functions and sums: lemmas of the other proofs |

`PROJECT.json` maps every definition to the lines it stands for. Operators whose
comment says *Mutant* are plausible bugs: none is used by a specification, and
each property is violated when one replaces the definition it imitates.

### ProxyState and RequestDedup

`row[k]` is the record of a hash, or `Absent`. Timestamps are kept as ages that
stop one past the TTL, because no query tells larger ages apart, so time is
unbounded and the state space is finite. The three comparisons of the source are
kept apart: `Visible` (`age < Ttl`, the read filter and, negated, the
re-registration) and `Expired` (`age > Ttl`, the alarm). A payload is reduced to
what properties tell apart: result or error, its age since upstream
produced it, and whether a purge of its hash came after that (`stale`).

A call `c` moves through `pc[c]`: `executing`, then `completing` or `failing`
while its report is under way; `sleeping` and `polled` in the poll loop; and the
ends `hit`, `miss`, `timeout`, `broken`. Each action ends at an `await`. A call
in an ended state may start again, for any hash. What may happen in between:

- a fetch to the object answers 500 (`"error" \in Faults`): the check then
  carries no `exists`, so the call executes unregistered; a poll goes on; the
  answer to a report is not looked at;
- a fetch to the object is rejected (`"reject" \in Faults`), before or after the
  object acted: the check and the poll throw, a rejected `complete` falls into
  the catch and becomes a `fail`;
- the isolate is evicted (`Evict`), a hash or the chain is purged (`PurgeOne`,
  `PurgeAll`), the alarm cleans up, time passes (`Tick`).

`lost[c]` is a history variable: how an executing call lost the record it
registered. `ReportDelay` bounds the ticks a report, which is a single fetch,
takes. Nothing bounds the upstream call or the delay of a poll.

The abstract specification is `HashLease`, in which a hash has at most one lease
and a holder for at most its term. `Lease` maps to it: a visible pending record
is a lease with `PendingTtl - age` ticks left, its holders are the calls that are
`Registered` under the hash. A check that registers is a `Grant` (`GrantLost` when
its answer is rejected), a stored report or a purge is a `Withdraw`, a report that
is not stored or an eviction is an `Abandon`, and `Tick` is
`Pass`. Polls, HITs and the alarm are stutters: the alarm deletes expired records
only.

### RpcLimiter and SlotPool

`active[h]` and `queue[h]` are the limiter of chain `h`. The code drops the Map
entry when the counter reaches zero; the queue is empty then (`NoIdleSlot`), so
a missing entry and an empty limiter are the same and the model has the latter
only. `TakeSlot` and `Enqueue` are the branches of `acquireRpcSlot`,
`QueueTimeout` is the waiter's timer, `EndpointAnswers` and `EndpointFails` the
loop of `executeWithFailover`, `HandOver` and `GiveBack` the branches of
`releaseRpcSlot`. The refinement maps the holders of each chain; a
`SlotPool` has no queues.

### ParamStore and ProxyClient

An action goes `ready`, a request on the wire (`sending`, or `probing`,
`storing`, `reprobing` in the exchange), `reading` its body, `backoff`, and ends
in `result`, `threw`, or `direct` followed by `directDone`. The Worker may give
any answer at any time, or none, except that "unknown hash" comes only when the
ParamStore object has not seen the hash, and the acknowledgement of a store only
when it has written the row. What the object does (`StoreRow`, `Miss`, noted in
`done`) and the arrival of the answer (`StoreOk`, `UnknownHash`, `StillUnknown`)
are separate steps: an answer takes up to the timeout of its request, or is
lost. A row may also be written by a request that its action gave up on, or
that another program sent (`LateStore`). `signal` is what is left of the
AbortSignal: a plain send creates it once for all its attempts, the exchange
once per request; `Post` says so. A signal that fires while the body is read
is not a `RetryableError` (`BodyFails`), and neither is an unknown hash on the
second lookup.

### EdgeCache

Every action of `RequestDedup` is one of `EdgeCache` too: `Call` conjoins what
the handler's response does, `EdgeAlarm` and `EdgeTick` what the cache does
meanwhile, and the purges of `RequestDedup` become the steps of the purge
endpoint. A response that ends a call with a result carries Cache-Control and
may reach the cache later (`sending`, `Keep`); one with an error does not, nor
one to a POST. The answer to one hash can be cached under two URLs (`Urls`),
`/api/v1/{chain}/{action}?p=...` and `/api/v1/cached/{key}`, by which clients
send long arguments; `edge[k]` has an entry for each. `purgeByRequests` deletes
the record (`PurgeRow`) and, in a later step, the colo's entry under the first
URL (`PurgeEntry`), unless it is cut off (`PurgeCut`: a rejected or failed
DELETE, which becomes a 502, or an eviction); a DELETE that did nothing is a
stutter. `purgeChain` (`PurgeChain`) leaves the cache alone. `late`, `calm` and
`purged` are history: which responses a purge overtook, whether an answer of
upstream was under way when the record was deleted, and which purges got to
their end. What outlives a purge, under the second URL or because it was under
way, is bounded by `ServedFresh` and `CachedAnswers` like any other answer, and
by nothing less (section 5).

### RateLimiter, CacheTtl and Gateway

A request has three points at which others overtake it: the answer of the
limiter (`Charge`, `Unreachable`, then `Decide` back in the middleware), the
lookup of stored params (`LookUp`), and its execution (`Finish`). Everything
between two of them is one action, so `Arrive` runs the middlewares up to the
limiter and, when that is off or the route exempt, the rest as well (`Enter`).
The handlers are written as far as they refuse: one operator each, its
alternatives in the order of the code's checks. A body is one of the kinds that
they tell apart: good, no JSON, refused, too large (the 413 of the store), or
with an unknown action (an error entry in a batch). `objects` are the chains
whose ProxyState object was made. A verdict may be lost after the charge. A
reply carries its status and its max-age, which `MaxAge` takes from what the
callers of `getCacheStrategy` really pass: the array of RPC params, or the
object of an action's arguments, and the block number out of the answer as the
latest one.

`counters[u][m]` is the row of minute `m` in the object of client `u`; the rows
that the code deletes are zeroed (`Stale`). Minutes are all that the code
distinguishes but for `Retry-After`.

### Statistics

`table` has a row per method and chain (one key), cache status and hour.
`Send` is `recordRequestStats`, which nobody awaits: the observation arrives
later (`Record`) or never (`Lose`), and counts in the hour of its arrival, as
the code does for the senders of this repository, none of which sends a
timestamp. `Retain` is the alarm, which the platform may run `AlarmLag`
late; `Evict` forgets `initialized` and nothing else. A query changes nothing
but that (`Query`); its answer is the operator `Stats`, which the properties
compare with `arrived`, the history of what was recorded. The ascending order of
the samples (`Sorted`) is any permutation that ascends, since equal samples
cannot be told apart.

### Collector, Batch, Preheat and Tasks

`Settle` is an item of a batch in the Worker, `PostAnswered` the response that
comes when all are settled. `PostFails` (network, timeout, 5xx, 429) may happen
at any moment, whatever the Worker does; `PostRefused` is every answer that is
not retried. After either, or after the last attempt, `SerialItem` sends the
items one by one, each through `makeProxyRequest`, whose own retries are
`ProxyClient`'s. Results carry, as history, the item that produced them and what
became of it; `as` is the decoder they went through. Preheat's workers take
their next request in the same turn in which the last one ended (`Take`).
`log` is what the collector was told, with the resets in between.

## 3. Runs

| Run | Question | Instance |
|---|---|---|
| `dedup` | inductive invariant, one registered execution per hash, fresh HITs, statistics, who overwrites settled records, refinement of the lease, with rejected fetches, purge and eviction | 3 calls, 1 hash, TTLs 1 and 2 |
| `dedup_liveness` | waiters end, hashes do not stay blocked, calls end | 2 calls, 1 hash, all faults, purge, eviction |
| `limiter` | counting, cap, queue, order, no waiter beside a free slot, refinement, waiters end | 5 calls, 2 chains, cap 2, 2 endpoints |
| `client` | retries, metrics, the exchange with the store, termination | 2 actions, 1 hash, 2 attempts, timeout 2, TTL 4 |
| `edge` | age of cached answers, no cached errors, purges that met no answer under way, with rejected fetches and eviction | 2 calls, 1 hash with its 2 URLs, all TTLs 2 |
| `gateway` | who is charged, refused and executed | 4 requests, 2 clients, limit 2, 2 minutes, every route |
| `statistics` | windows, percentiles, retention | 3 observations of 2 keys, windows and retention of 2 hours, 6 hours |
| `tasks` | results and metrics of batches, preheat, fallbacks and resets | 3 batches of 2, 2 and 0 items, 3 preheats by 2 workers, ring of 2 |
| `doc_one_upstream_call`, `doc_purge_cached`, `doc_timeouts`, `doc_latest_ttl` | sentences of the documentation that the code does not keep: see section 5 | the smallest instances that show it |

The bounds. Three calls are what a takeover needs: one that lost its record,
one that has it, and one that is served or executes beside them. Five calls on
two chains with two slots give a chain two holders and two waiters next to a
second chain in use. Two actions with one hash let one expire or refresh what
the other has just stored. TTLs, timeouts and delays are a few ticks, and only
their order matters: `ResultTtl < PendingTtl`, `MaxWait <= PendingTtl` and
`2 * Timeout <= ParamTtl` hold for the 30 s, 5 min, 30 s, 30 s and 30 days of
the source; were the TTL as short as the timeout, a lookup could miss a store
that was acknowledged. Four requests are two more than the budget, so that one is refused and
another client is not; `Retained` is 0 where the code has a few minutes, so that
rows are deleted within the two minutes of the instance. Retention equals the
largest window in the instance, as it does in the code (720 hours), and the hours
reach past it by an alarm and its delay. Two items per batch are what duplicate
ids and reordering need; three requests for two preheat workers leave one to
compete for; three response times overflow a ring of two.

Three instances restrict what runs beside what, with a specification of their
own in the MC module. `HomeSpec` gives every call a fixed chain, because a call
that starts anew keeps nothing of its former one. `MixedSpec` lets at most one
request be of an odd kind (bad key, origin, body or chain, another route)
beside three that compete for the budget: requests meet in the counters only.
`PairSpec` runs any two tasks of a client side by side: tasks meet in the
collector only. The `dedup` run leaves out the fetch that answers 500, which
`dedup_liveness` and the proofs include. Every action fires in some passing
run. Symmetry is used in safety runs only. No run has a state constraint.
`RequestDedup`, `RpcLimiter`, `ProxyClient` and `EdgeCache` are finite by
themselves, since calls are reused and ages saturate; the clocks of
`Gateway` (`MaxMinute`) and `Statistics` (`MaxHour`) and the resets of `Tasks`
(`MaxResets`) are bounded by guards, and their requests, observations and
tasks are made once each.

Fairness. `FairSpec` assumes what the runtime schedules: timers fire, fetches to
the object end (`Poll`, `Report`), `finally` clauses run, time passes. It
never assumes that a call arrives, that a purge happens, or that upstream or
the Worker answers, because the fetch to an endpoint has no timeout. Where that
is needed the property says so: `CallsEnd` is an implication from
`UpstreamAnswers`. All fairness is weak, and on each call's own timers and
promise callbacks. `QueueTimeout` may be disabled by a hand-over, which is what
its call waits for; the two ends of a poll are one action, so that a record that
comes and goes does not starve it.

Deadlock is checked where some call can always start. `gateway`,
`doc_latest_ttl`, `statistics` and `tasks` say `CHECK_DEADLOCK FALSE`: their
requests, observations and tasks are made once each, and then, with the clock
at its end, the instance is done. These three have safety properties only; that
a batch, a preheat or a request ends rests on `makeProxyRequest` and
`executeWithDeduplication` ending, which `client` and `dedup_liveness` show.

## 4. Proofs

TLAPS checks the theorems for all values of the constants under the named
assumptions: `TtlAssumption`, `DedupAssumption`, `EdgeAssumption`,
`LimiterAssumption`, `ParamTtlAssumption`, `ClientAssumption`,
`StatisticsAssumption`, `ObservationAssumption`, `RateAssumption`,
`GatewayAssumption`, `RequestsAssumption`, `CollectorAssumption`,
`BatchAssumption`, `PreheatAssumption` and `TasksAssumption`. TLC evaluates each
of them on a run. They say what the code fixes: TTLs and limits are positive and
ordered as in the source, there are finitely many methods, response times are
naturals, and a HIT is recorded with the duration 0, as both handlers do.
The theorems are about `Spec`, not about the restricted specifications of some
runs (section 3).

- `RequestDedupProofs`. `Invariance`: `Spec => []DedupInv`. `SingleFlight` is
  not inductive. What carries it is `RecordOfHolder`: a call that holds its
  registration faces its own pending row, and the row is exactly as old as the
  call. Two holders of one hash would face the same row; a new registration
  needs the row to be invisible, hence the old holder past `PendingTtl`; every
  step that changes the row (purge, a report) takes the registration from its
  holder. `RecordsFresh` (an outcome is older than its row by one report at
  most) carries `ServedFresh`, and `CallPhases` carries `Observed`. The proof
  restates the last three per call (`PhaseOK`) and goes action by action.
  `OutcomesAreKept`, an action property, follows from `RecordOfHolder`.
  `ImplementsLease` goes action by action too. The invariant is what makes the
  mapping work: that a holder's record is pending and exactly as old as its holder
  (`RecordOfHolder`) is why a record that stops being visible takes its holder
  along, as `Pass` says, and why a hash without a visible pending record has no
  holder when it is granted anew.
- `EdgeCacheProofs`. `EdgeIsDedup`: every step of `EdgeCache` is one of
  `RequestDedup` or leaves its variables alone, so `DedupInv` comes for free,
  and so does the lease of each hash (`EdgeKeepsLease`). `EdgeInv` adds to it
  what is on its way to the cache and what the cache keeps (`EntriesOK`): an
  entry is a result that was younger than the TTL of a record and one report
  when it was served, which gives `CachedAnswers`. `PurgeHolds` says that the
  record and the URL that a purge deletes are clean of what was purged, and is
  not inductive: stale answers could come back from the record or from a call
  that still holds one. `Clean` says that neither the record nor any answer
  under way is stale; a purge makes it true when nobody was answering (`calm`),
  and every later step keeps it, because a new outcome of upstream is not stale.
- `RpcLimiterProofs`. `LimiterInv` adds `NoIdleSlot` and the bound of the counter
  to `SlotsCounted` and `QueueExact`: without it `TakeSlot` could overtake the
  queue. From it follow the cap, the FIFO order, `ChainsIndependent`,
  `FailsHonestly` and `ImplementsPool`: the initial state maps to one of
  `SlotPool`, and every step to a step of it or a stutter.
- `ProxyClientProofs`. `StoredHashIsFound` needs `SavedIsYoung`: the row is
  written while the store request is on the wire, so when the acknowledgement
  arrives its age plus what was left of that signal is at most `Timeout`; while
  the second lookup can still be answered, its age plus what is left of the new
  signal is less than `2 * Timeout`, which is at most `ParamTtl`. Ticks take
  from the one what they add to the other, puts of others only make the row
  younger, the alarm deletes nothing that young, and so the object does not miss
  it. `DirectComesLast` and `CountedOnce` rest on `ActionOK`, which ties the
  phase of an action to its attempts and to what it recorded: whoever is in
  `backoff` has an attempt left, whoever failed on something that is retried has
  none, and the collector has heard of an action exactly when it has ended. That
  the pause stays within its bound needs what the recursive function `Backoff`
  computes (`BackoffFacts`).
- `StatisticsProofs`. `StorageBounded` needs `StorageInv`: whenever a row exists
  an alarm is set, it comes at most `AlarmPeriod` after the row passes its
  retention, and it is never more than `AlarmLag` late. What keeps it is that
  the first event after a start arms the alarm of an object without one, and
  every alarm the next one.
  `TypeCorrect` says that rows stay well formed under `mergeRecord`.
  `WindowExact` compares sums over the rows of a window with counts of
  observations. `RowExact` carries it: a row within the retention counts
  exactly the observations that arrived for it, their errors and their time;
  the alarm touches none of these, and a later observation is never for an
  earlier hour. A window lies within the retention, so its rows split its
  observations into classes, and the sum over the classes of their sizes is the
  size of the whole (`TotalOfClasses`, `TotalOfTotals`).
  `PercentilesAreExact` adds `SamplesExact` to `ExactInv`: the samples of a row
  are the durations of the latest observations of its bucket, in order, and
  there are `SampleLimit` of them whenever one is missing. `appendSample` keeps that
  (`AppendListed`), and so says as often that a duration is in a set as the latest
  observations do (`ListedFacts`). A query joins the samples of its rows in the
  order of a fold; whichever it is, the number of samples in a set is the sum over
  the rows (`SamplesHit`). A sequence of naturals can always be sorted (`OrderExists`,
  by insertion), sorting keeps these numbers (`SortedFacts`), and the rank
  ceil(p n / 100) then has the two bounds (`PercentileFacts`).
- `GatewayProofs`. `WindowBound` is not inductive. `Counts` carries it: every row
  that is kept counts exactly the requests that its client has charged to the
  minute, so that an allowed verdict, computed from the row, bounds the number of
  the charged, which a verdict that got lost is among. `Counts` in turn needs
  `Charges`: a request is charged once, never to a minute to come, because then
  a row of a past minute does not change until it is dropped. `Rejections`
  remembers at the verdict what the 429 states later, when the row may
  be gone. `OnlyServable` has an invariant of its own (`ObjectsInv`): requests that
  wait for the limiter or the ParamStore have passed the checks before them.
- `TasksProofs`. The collector keeps running counters and rings, and
  `MetricsExact` says what its snapshot means in terms of the log. The invariant
  (`CollectorInv`) is that the collector's state is that of the log since the last
  reset: each counter is the number of such lines, each ring holds
  the last `Capacity` of the samples in order. `PreheatInv` has a part for the
  pool (the requests before the cursor are each in one worker, or reported;
  every worker idles until the preheat starts, and finishes only with the cursor
  at the end) and one for the reports (one line per request, and the failure
  count is the number of failed lines), across any resets. `BatchInv` says, per
  phase, what the results hold so far and which items have a line in the log,
  and with which outcome. The parts meet in the log only: a line that one task
  adds has its own `from`, so the others' lines are the same as before.

Induction. The library's induction theorems take a predicate as a parameter,
which no installed prover instantiates. `SetInduction` states induction over the
naturals and over finite sets for sets instead (`NatSetInduction`,
`FiniteSetInduction`), derived from the well-foundedness of strict inclusion of
finite sets. With it, recursive functions have the values that their equations
say (`NatRecursion`), folds over finite sets have a value (`FoldExists`), and the
sums of `Statistics` and of the collector's snapshot add up (`TotalSteps`).

Only model-checked: liveness (`WaitersEnd` of calls and of the limiter's queue,
`KeyNeverStuck`, `CallsEnd`, `ProxiedEnds`), which is out of the prover's reach.

## 5. What the documentation says and the code does not do

- `OneUpstreamCall` (README: concurrent identical requests execute one RPC
  call). Call A executes longer than 5 minutes, so B registers the hash anew; A
  then reports and settles B's row, which is served for 30 s and expires while B
  still executes; C registers and executes beside B. `SingleFlight` is what
  does hold: B no longer holds its registration.
- `PurgeClearsCache` (purge.ts, README: a purge of requests deletes the record
  and the entry in the colo's cache). The answer was cached under
  `/api/v1/cached/`; the purge deletes `?p=` alone, and no limitation in its
  response says so. `PurgeHolds` is what does hold.
- `TimeoutsRetried` (add-retry-and-trace). The attempts of a plain request
  share one AbortSignal; after it fired the others send nothing.
- `LatestIsShort` (README: 12 seconds for `latest` and `pending`). The policy reads
  `params[0]` (or `params[2]`), and actions pass an object of arguments: a read
  of the latest block is kept for 300 s. `GatewayTypeOK` states what does hold:
  only a 200 carries a max-age.

Met while modelling, without a run of their own:

- A purge does not reach executions (add-cache-purge calls active invalidation
  the answer to a bad cached value). A has its answer, the hash is purged, B
  registers, A's report settles B's row: what was purged is served for 30 s. So
  does a response on its way to the cache get there behind the purge. `PurgeHolds`
  is therefore about purges that met no answer under way; after others, what was
  purged is gone when `ServedFresh` and `CachedAnswers` say so.
- A rejected report is recorded as a second, failed execution, where
  add-batch-and-concurrency wants one observation per item. `Observed` is what
  does hold.
- With an array of params, the number of the block that was asked for is taken
  as the latest one, so that a numbered block never has an epoch of
  confirmations and never reaches 30 days; the tag `finalized` does.
- `handlePurgeRequest` takes any positive chain id, although the comment at
  `workers/src/actions/utils.ts:66` wants `isSupportedChainId` before every
  `idFromName`. Purges are the operator's; `OnlyServable` excepts them.
- Batches count a value that cannot be decoded as an error; the serial fallback,
  through `makeProxyRequest`, as a success. Ids that occur twice share the
  outcome of the last one in the metrics of a batch. `BatchCounted` says so.
- `shouldCacheResponse` has no caller in the Worker.

## 6. Not modelled

Compression, URLs and headers, argument formatting, decoding, option merging,
the dashboard page (answers to two refreshes may be shown in the wrong order) and
the deep probes of the health page. `purgeCache` in the client: one retried
POST. Ratios and `Retry-After`. `resetRpcConcurrency`: called by tests only.
Middlewares that call `next` several times. `deleteParams` is defined
(`Remove`) but nothing in the Worker asks for it, so no run takes it. The limits
of SQLite and of the objects' storage. Hash collisions. `scripts/benchmark.mjs`,
`workers/scripts/smoke.mjs` and `examples` drive the system from outside. The
retries of a client against the 30 s for which the Worker keeps a failed record
need `ProxyClient` and `RequestDedup` composed in one module, which there is not:
each is modelled with the other as its environment.

## 7. Plan

Done: the core (`ProxyState`, `RequestDedup`), the limiter and its refinement, the
exchange with the store, the edge cache with purges, the TTL policy, the
gateway with the rate limiter, the statistics, and the client's tasks over the
collector.

Proved: every invariant that a run checks, the action properties, and the
three refinements (`RequestDedup` of `HashLease`, `RpcLimiter` of `SlotPool`,
`EdgeCache` of `RequestDedup`).

Left: `ProxyClient` and `RequestDedup` in one module, for the retries that meet a
failed record; middlewares that call `next` several times.
