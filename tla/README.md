# Travel-Planner in TLA+

This directory holds a TLA+ model of Travel-Planner: what happens to a planning run from the HTTP request
that creates it to the page that shows its itinerary, across an API, a Celery queue in Redis, a pool of
workers, Postgres, the LLM and data providers, and a browser; and the state that processes share beside
it: the daily spend, the throttle and the cache in Redis, the vector index, the development accounts, the
baselines of the evaluation, and the stack that the drills break on purpose. The modules are translated
from the code (paths below are relative to the repository root); TLC checks small instances, and TLAPS
proves the safety properties for every value of the constants.

Contents

1. The system and its parts
2. The modules, and how they correspond to the code
3. What each run checks, its bounds and what it shows
4. Fairness
5. What is proved
6. Disagreements between the code and what it says of itself
7. What is not modelled, and the plan
8. Running the checks

---------------------------------------------------------------------------------------------------

## 1. The system and its parts

A client posts a plan (one city) or a trip (several). The **API** admits the request (rate limit, daily
spend limit), inserts a row `queued`, hands the run's id to the **queue** and answers `202`. A **worker**
receives the id, marks the row `running`, executes the planner **graph** of every city (geocode, gather,
compose, critic, with a corrective loop), checkpointing each node, and closes the row `succeeded` or
`failed`. While it works it publishes progress on a Redis channel, which the API forwards to the **page**
as server-sent events. A **reconciler** inside the API closes rows that nobody will ever execute. Every
call out of a process (Postgres, Redis, geocoder, LLM venue) passes a **circuit breaker**.

### 1.1 Where the state is

| State | Where | Written by |
|---|---|---|
| the runs table (`status`, `error`, `result`, `updated_at`) | Postgres | API (create, compensate, erase), worker, reconciler |
| checkpoints, one thread per run and city | Postgres | the worker's graph |
| queue lists and the `unacked` hash | Redis | `send_task`, the workers' kombu transport |
| run channels (pub/sub, nothing kept) | Redis | worker; read by `stream_run` |
| rate-limit counters with a TTL; local fallback `_LOCAL` | Redis; API process | `allow_request` |
| daily spend `spend:usd:{day}`, switch `planning:enabled` | Redis | worker, operator, drills; read by the API |
| upstream slots `throttle:{name}`; `_LOCAL_NEXT` | Redis; each worker process | `acquire_slot` |
| cached tool answers | Redis | `cache_aside` |
| place vectors and the stamp of their model | Qdrant | the ingestion script; read by workers |
| development accounts `.dev-users.json`; session cookie | web server; browser | sign-up, log-in |
| baseline per mode | the evaluation's result files | a plain evaluation run |
| containers, environment, `/etc/hosts`, `.inspect.lock` | the running stack; the checkout | the drills |
| circuit-breaker legs | each process | every call site |
| EventSource and React state | browser | `useRunStream` |

### 1.2 Components

For each: what it keeps and does, how it meets the others, what is hard, and what makes it correct.

**API service** (`apps/api/src/tp_api/main.py`). Keeps nothing between requests but its thread pool and
the reconciler task. Operations: `create_plan`, `create_trip`, `_dispatch`, `get_run_status`,
`stream_run`, `delete_my_data`, `_reconcile_forever`, `_enforce_rate_limit`. Hard: the row and the message
are written to two systems, in that order, with a time-out over a thread that cannot be cancelled. Correct
when a refused run is not executed, and when no run a client was given an id for stays open for ever.

**Run store and reconciler** (`packages/core/src/tp_core/runs.py`). Operations: `create_run`, `get_run`,
`mark_running`, `mark_succeeded`, `mark_failed`, `delete_tenant_data`, `reconcile_orphans`. An update is
an ORM read and a later write of the columns that differ from what was read, with no lock; the reconciler
decides from two reads of Redis and then updates every old open row. Correct when a closed row explains
itself, an erased row stays erased and a result is not taken back.

**Worker tasks** (`apps/worker/src/tp_worker/tasks.py`). `_execute` around `_run_plan` and `_run_trip`:
the gate, the attempt, the classification of the error, the retry with a countdown. Hard: redelivery, the
two time limits, errors of the error handling. Correct when a run is executed by one task at a time and
never once it is over.

**Celery configuration** (`packages/core/src/tp_core/celery.py`). `acks_late`, prefetch 1, hard and soft
time limits, visibility timeout. Correct when no message is redelivered while its task executes.

**Worker process** (`apps/worker/src/tp_worker/celery_app.py`). Start-up signal handlers; no state.

**Run progress events** (`packages/core/src/tp_core/events.py`). `run_publisher`, `subscribe`. Publishing
fails silently and reaches only who is subscribed. Correct when a page that misses an event still
finishes.

**Run page of the web app** (`apps/web/src/hooks/use-run-stream.ts` and the routes behind it). Keeps an
EventSource, the phases of a timeline and a record. Correct when it shows the truth, never moves a phase
back, and finishes once the run has.

**Circuit breaker** (`packages/core/src/tp_core/llm/circuit.py`). Per leg: failures, `opened_at`,
`probing`. `state`, `allows`, `record_success`, `record_failure`. Hard: `allows` *takes* the probe, so
every caller must report. Correct when one probe is out at a time, a claimed probe reports, and a
dependency that is back is used again.

**Database sessions** (`db.py`), with **Spend control**, **Tool cache** and **Geocoding** one of the four
kinds of user of the shared breakers, each with its own way of reporting.

**Spend control** (`control.py`). `planning_enabled` (a configured floor, a switch, the day's ledger, with
an await at each), `record_spend` (two commands on the key of the moment's day). Hard: the ledger is read
at admission and written by runs admitted long before; midnight falls anywhere; Redis fails between the
commands. Correct when a day cannot exceed its limit by more than what is under way, and no money is
counted twice or forgotten without a trace.

**Tool cache** (`cache.py`). `cache_aside`: read, load, store. Hard: two callers miss at once, and a place
and "no such place" live differently long under one key. Correct when nobody is given an answer older than
its kind may be.

**Upstream throttle** (`throttle.py`, `_http.py`). A slot per interval, in Redis or, without it, in the
process. Hard: the two commands, the budget, falling back while others wait. Correct when slots are an
interval apart and nobody waits longer than promised.

**Geocoding; place search, weather, routing** (`packages/tools`). What a city is planned from. Hard: each
source may answer, answer nothing, fail, or answer what cannot be read, and most failures are swallowed.
Correct when what is missing is said.

**Retrieval, Corpus ingestion** (`packages/retrieval`). The index, stamped with the model that embedded
it, and the retriever of a worker, which compares its model with the stamp once. Hard: the script is
interrupted, or run again with another model; the reranker answers an untrusted list of indices. Correct
when a worker whose check passed ranks vectors of its own model.

**LLM gateway and venues** (`packages/core/src/tp_core/llm/`). `complete` walks a tier's chain of venues;
a run builds its gateway, and the breaker of its legs, anew. Correct when the walk respects each leg, a
venue that is down costs what the breaker promises, and a probe is not lost.

**Planner graph** (`packages/agents/src/tp_agents/graph.py, nodes.py, critic.py, state.py, schemas.py`).
Four nodes and a corrective loop with a cap and a budget. Correct when the loop ends and cannot overspend,
and when what the reader gets tiles the places found into days.

**Checkpoints** (`checkpoint.py`), **Trip coordinator** (`coordinator.py`). A thread per run and city;
`asyncio.gather` over the cities, exceptions swallowed. Correct when a finished city is not paid for twice
and the cost reported is the cost.

**Rate limiter** (`packages/core/src/tp_core/ratelimit.py`). Fixed windows made of two Redis commands, and
a process-local fallback. Correct when no burst exceeds the windows it touches and every window ends.

**Web sign-in** (`apps/web/src/lib/dev-users.ts, auth.ts`, the `dev-*` routes). Accounts in a JSON file
that is read and written whole. Hard: two sign-ups at once, a crash over an emptied file. Correct when who
was told that an account exists can sign in to it.

**Evaluation harness** (`packages/eval`). Scores the golden set; a plain run writes the baseline, a gate
run compares itself with it. Hard: the baseline is a file other runs overwrite. Correct when a metric
cannot sink by one tolerance with every revision.

**Deployment and scripts** (`scripts/`). Four drills stop containers, recreate the API with another
environment, poison host names, set the switch, create scratch databases. Hard: any command fails, an
operator presses Ctrl-C, a second operator starts. Correct when a drill that ends has restored the stack
or says what it has not.

**Prompts, Authentication, Worker process, Settings/logging/metrics/tracing, Other web pages**: stateless
or configuration. Section 7 says why each is left out.

---------------------------------------------------------------------------------------------------

## 2. The modules, and how they correspond to the code

```
 RunContract      what a run promises                      abstract
     ^ implemented by (refinement mapping: Contract in RunLifecycle)
 RunLifecycle     row, queue, worker, reconciler           api/main.py, tasks.py, runs.py, celery.py
     ^ assumes early redelivery possible     ^ abstracts to open / closed row
 VisibilityTimeout  how long a message is held   RunStream   events, SSE, page
 TripPlanner      what one execution does: graph, checkpoints, cost
 DayPlan          what gather and compose do with places       run together: MCTripPlanner
 Sources          what a trip is planned from, what it says
 CircuitBreaker   one leg, pure operators
     ^ EXTENDS              ^ EXTENDS
 InfraBreaker               VenueChain
 RateLimit        admission
 VisibilityTimeout  SpendLedger  Throttle  ToolCache           run together: MCSharedState
 PlaceIndex         EvalGate     SignIn    Drills
```

### RunLifecycle

Variables: `row` and `aged` (Postgres: the row, and whether `updated_at` is older than `ORPHAN_AFTER_S`),
`api` and `sender` (per run, the request handler and its `to_thread(send_task)`), `queued` and `unacked`
(Redis), `slot` (what a worker holds, and where its task stands), `reconciler`, `crashes`.
kombu takes a message off the list in one command (`Pop`) and puts it in the hash in another (`Receive`);
between the two it is in neither place.

A step is one transaction or one broker operation, because those are the points at which other processes
can come between. An ORM update is **two** steps: the read (`LoadTo...`, `DispatchLoads`) remembers the
status seen in `seen`; the write (`Update`) sets only the columns that differ from what was seen, does
nothing at all when none does (so `updated_at` stays and the row goes on ageing), and raises when the row
was erased in between (`StaleUpdate`). That is what SQLAlchemy does, and it is what makes lost updates
between the worker, the API's compensation and the reconciler possible.

| Code | Actions |
|---|---|
| `create_run`, `_dispatch` (`main.py`) | `CreateRun`, `SendLands`, `SendFails`, `DispatchReturns`, `DispatchGivesUp`, `DispatchLoads`, `DispatchMarksFailed` |
| the API process dying | `ApiCrash` |
| `delete_my_data` | `EraseTenant` |
| kombu's Redis transport as `celery.py` sets it up | `Pop`, `Receive`, `Restore`, `RestoreEarly`, `Ack` |
| `_execute`, `_run_plan`, `_run_trip` (`tasks.py`) | `GetRun`, `LoadToMarkRunning`, `MarkRunning`, `Execute`, `LoadToMarkSucceeded`, `MarkSucceeded`, `Announce`, `LoadToMarkFailed`, `MarkFailed`, `PublishRetry` |
| the time limits | `Abandon` |
| a worker dying | `WorkerCrash` |
| `_nothing_in_flight`, `reconcile_orphans` | `ReadQueue`, `ReadUnacked`, `CloseOrphans`, `PassEnds` |
| time | `Age` |

After the COMMIT of `mark_succeeded` the task is still in its `try` (the session closes, the metric and the
event are sent): `Announce` is the rest of that `try`. It ends well, in a retry, or in `mark_failed`, which
reads the row it has just saved (`interrupted`, `undoing`) and takes the result back.

Four **faults** are switches of the constant `Faults`, because some properties hold only without them:
`late_send` (a `send_task` that lands after `wait_for` gave up), `lost_ack` (a worker dies between
publishing a retry and acknowledging the attempt), `ambiguous_commit` (a COMMIT takes effect and its
answer is lost), `early_redelivery` (a held retry outlives the visibility timeout). `SingleExecution` and
`SucceededIsFinal` do **not** survive them, `RefusedNeverRuns` all of them but `late_send`;
`TerminalExplained`, `ErasedStaysErased` and `EventuallyClosed` survive all.

### RunContract

The promise, with queue, transactions and crashes left out: a run is executed by one claim at a time, only
an open run is claimed, only the claim may say `succeeded`, and that is the last word. RunLifecycle
gives the refinement mapping (`Contract`): the contract's status of a run is that of its row
(`runStatus`; a run nobody asked for has none, and one whose row is gone is erased), and a run is `claimed` while some delivery of it is past the gate (`claimedRuns`). The
reconciler may close a claimed run as `failed` (its two reads of Redis can miss a retry that moves), and
the claim may then reopen it; the contract says so (`Start` from `failed`), because the code does so. Of
its end it says two things (`Succeed`, `Fail`): a claim that has said `succeeded` may still say `failed`, as
long as it has not given the run up.

### VisibilityTimeout

One worker, in units of time: a retry is received at once, held for its countdown, and then behind
whatever occupies the processes; the visibility timeout counts from receipt. `Send`, `Receive`,
`CountdownEnds`, `Start`, `Finish`, `Retry`, `Tick`. It justifies `RestoreEarly` being restricted to
retries (`FirstAttemptFits`), and bounds the rest (`RetryHeldAtMost`).

### RunStream

One page, one run. Worker: `StartRun`, `CompleteNode`, `CityFails`, `Interrupt`, `Save`, `Announce`, and
the closings nobody announces (`CloseUnannounced`, `Erase`). API: `Connect`, `ReadRun`, `Subscribe`,
`ResponseBreaks`. Browser: `EndOfStream`, `ConnectionLost`, `IdleCut`, `Refused` (the EventSource),
`Receive` and `FetchAnswers` (`useRunStream`). Two things are assumed of the row: no two executions at a
time, and that a run closed by the reconciler or by a refused dispatch is not executed any more.
RunLifecycle shows that the second can fail, in the races of `late_dispatch` and of a retry missed by both
reads of the reconciler: there a page may be told `failed` and then fetch a record that is running again.
`IdleCut` is external: the BFF forwards the stream with `fetch`, whose body time-out (300 s by default in
Node) ends a silent response.

### TripPlanner, DayPlan and Sources

TripPlanner: per position of the request the graph state that routes and is billed; a checkpoint is a step
of its own, after the node and before the next one completes, as LangGraph's asynchronous durability does
it. `Look` (is there a checkpoint?) and `Enter` are two steps, since two tasks of one city share a thread.
`Crash` ends the attempt; the next one starts with an empty tally and the saved threads. What the nodes
that were under way (`Paying`) had paid by then, up to the most a node may pay (`NodePrice`), nobody counts:
`spent` has it, no state and no tally does. `spent` also has the embeddings, which the graph's own figure
leaves out.

DayPlan: the path of the places: `Retrieve` (corpus hits, the reranker's answer parsed and completed),
`SearchLive` (the interleaved merge of the interests), `Draft` (cut to `_MAX_POIS_PER_DAY` per day and
split). The merge goes slot by slot through the rounds of `zip_longest` (`Slots`, `Round`, `Bucket`), and
what is unseen is added (`Unseen`); it is a recursive function of the slot, so that it can be proved
about.

Sources: a trip, city by city: `GeocodeCity` (the choice among the candidates, an obscure or a missing
place), `Forecast`, `SearchCorpus`, `LookUp` (one interest: Overpass, which may be unset, then the
fallback), `ComposeCity`, and `MergeTrip` (the cities left out, their warnings, the legs between
neighbours). Every call answers, fails with a `ToolError`, or has an unreadable body, which raises what
`ToolError` handlers do not catch. A text is the set of what it says; `broke` remembers what failed, for
the property. The cities and the interests share nothing, so the model takes them one by one.

The three share the run `planner`, side by side: a behaviour moves one of them.

### CircuitBreaker, InfraBreaker, VenueChain

CircuitBreaker is one leg as operators (`State`, `Allows`, `Claimed`, `RecordSuccess`, `RecordFailure`);
the clock appears only as "the cooldown has passed". InfraBreaker adds the legs a process shares and the
four kinds of call sites; there the dependency may come back for good at any time (`Recover`), and a call
begun before that may still fail. VenueChain is the gateway of one run: its cities walk a chain of venues,
again and again (`compose` and `critic` ask anew, up to `MaxCalls` times), and every venue may answer, fail,
or refuse: a `NonRetryableProviderError`, or the task's time limit, which `complete` does not tell the
breaker. `since` is history: what a venue has been asked since it last answered.

### RateLimit

Handlers of several API processes pass the scopes in order; `Incr` and `Expire` are separate commands with
time (`Tick`) and failures between them; `CountLocally` is the fallback. Each handler remembers when and
by which counter it passed a scope (`passed`), so that a burst can be counted.

### SpendLedger

Per request: `Ask` (the floor), `ReadSwitch`, `ReadSpend` and their failures, which admit; then `Pay` and
the two commands, `AddToTotal` and `ExpireLedger`, each of which may fail, be skipped by the breaker or
lose its reply. `Midnight` and `FlipSwitch` come whenever they like, so a request may be judged by
yesterday's ledger and a call recorded in tomorrow's. `exposed` and `lost` are ghosts: who may still spend
on what the breaker has let pass, and what failures took; `Recorded` sums the ledgers, for the account.

### Throttle

Lookups on workers, time in ticks. `Grab` is `SET NX PX`, `Taken` its refusal, `WaitForSlot` the `PTTL`
that follows (the key may be another's by then) with the deadline; `FallBack` and `SetUnanswered` go to
`_local_slot`, which books the process's next free time at once and sleeps until then. `CallUpstream` and
`Transient` are `request_json`, whose retries happen within the one slot.

### ToolCache

`Call`, `CacheHit`, `MissOrError`, `Compute`, `Store`: an await between any two. The upstream changes
(`TruthChanges`), entries stop validating or are evicted (`FormChanges`), the version prefix is bumped.
Two tools: one stores empty answers for a shorter life (geocoding), one does not store them.

### PlaceIndex

The script stage by stage (`EnsureCollection`, `EmbedCorpus`, `Upsert`, possibly in part, `WriteMeta`),
aborted anywhere, repeated with another model or over an edited corpus. Workers build a retriever, check
it once and search; a mismatch is logged and changes nothing, as in the code. `torn`, `current` and
`sure` are ghosts that name the property's two exceptions.

### EvalGate

`Evaluate` (the options), `ScoreCase` per case with any admissible outcome, then `GateRun`, or
`OpenBaseline` and `WriteBaseline` (the file is truncated, then filled). Rates are kept as numbers of
cases; a tolerance is one case in `PerTolerance`.

### SignIn

`CreateDevUser` up to the hash, `OpenFile` (which empties the file), `WriteAll`: other requests in
between. A file that does not parse is read as no accounts. `ServerCrash` ends what is being written.
`atRisk`, a ghost, holds the accounts that an overlap or a crash may have cost.

### Drills

Each drill is a list of try blocks (body, cleanup) and a last `finally`; `Effect` says what a command does
to the stack (`Outcomes`: of Q10's `restore spend`, what it had read is not known), `Wrong` what a judgement
reports. Of the day's spend the stack keeps whether it is over Q10's limit of $1.00, since that decides what
`/plan` answers under the limit, and with it what the end of `main` reports (`Planning`). `OpenLock`, `UnlinkStale`, `Reopen`, `WriteLock` and
`Release` are `exclusive_run`. `FailStep`, `Interrupt` and `Kill` are the failures.

### MCSharedState

Puts eight components that share no variable in one instance. The constant `Scenes` names the components
it plays; a behaviour plays one scene and leaves the state of the others as it began, so the states of the
run are the sum of the scenes' and not their product. One cfg with one scene checks that component alone.

### The proof modules

`RunLifecycle_proofs`, `CircuitBreaker_proofs`, `RunStream_proofs`, `Limits_proofs`,
`SharedState_proofs`, `TripPlanner_proofs`, `Operations_proofs`, and `Sums` with their common lemmas. They
extend the modules above, define the inductive invariants and change nothing of the models. Section 5
goes through them.

---------------------------------------------------------------------------------------------------

## 3. What each run checks, its bounds and what it shows

Each run asks one question of the system. A *violation* run is a disagreement of section 6: TLC finds a
behaviour of the code that breaks something the repository says.

| Run | Instance | Distinct states | Result |
|---|---|---|---|
| `lifecycle` | 2 runs of one tenant, 2 deliveries, 1 retry, 1 worker death, no faults; runs and deliveries symmetric | 409 100 | holds |
| `lifecycle_faults` | 1 run, 2 deliveries, 1 retry, 1 death or early redelivery, all four faults, `FairSpec` | 106 541 | holds |
| `late_dispatch` | 1 run, 1 delivery, no retry, `late_send` only | | violated in 10 states |
| `visibility_timeout` | 2 tasks, 1 process, the configured values in units of 15 s: limit 20, visibility 24, countdowns 1, 1, 2 | | violated |
| `breakers` | 2 lookups (slow, one cancellable), 2 cache reads, threshold 2, `FairSpec` | 13 482 | holds |
| `spend_keeps_probe` | 1 `record_spend`, 1 cache read, threshold 1, `FairSpec` | | violated |
| `chain` | 3 venues of which 2 are configured, 3 cities of up to 4 calls each, threshold 2, the second venue slow | 1 637 234 | holds |
| `stream` | a trip of 2 cities, 2 drafts per city, 1 fault, `FairSpec` | 1 141 967 | holds |
| `planner` | 1 city, 2 cities, 1 city twice; prices 0 and 1, budget 2, 2 drafts, 1 crash; the places of one city; the sources of 3 cities (below) | 1 698 002 | holds |
| `shared_state` | eight scenes (below) | 1 768 032 | holds |
| `limits` | 3 handlers, 1 process, a scope of window 2, a disabled one, a scope of window 1; limits 1; every fault; handlers symmetric | 146 597 | holds |
| `limiter_outage` | 2 handlers, the `EXPIRE` fails | | violated |

**lifecycle.** `SingleExecution`: no two deliveries execute one run at once. `RefusedNeverRuns`: a run
refused with a 503 is closed and not executed. `SucceededIsFinal`: nobody takes a result back but the task
that saved it, if it is cut short before the end of its `try`: no retry, redelivery, compensation or pass of
the reconciler. `FirstDeliverySpared`: when the reconciler's two reads both find nothing and no worker has
died, no first attempt of an old run is on its way but one that a worker had popped and not yet stored. `LifecycleInv` is the inductive invariant of section 5. `ImplementsContract` is the
refinement of RunContract. Two runs are what it takes for one run's messages to hide from, or to hold up,
the reconciler of the other; two deliveries for two executions; one retry and one death for every order of
retry, acknowledgement, restoration and redelivery (the code retries three times; a third attempt meets
the same program points as the second, the last one `Final`, and the proofs hold for any `MaxRetries`).
`Copies` is 1: no fault is there that could put two equal messages in the queue.

**lifecycle_faults.** `TerminalExplained`: a succeeded row has its result and a failed row an error,
whatever the writers had read. `ErasedStaysErased`: no late writer resurrects an erased row.
`EventuallyClosed`: every run ends up closed or erased for good. They hold under every fault at once;
`crashes` also counts early redeliveries, so the one unit is spent on either. A single run suffices for
the first two, which speak of one row; for the third it makes the instance small, and the wait for other
runs is in its fairness.

**breakers.** `ProbeInFlight`: a probe that is claimed is somebody's call in flight, for the call sites of
this instance, which report or are lookups. `OneProbe`: one at a
time for a dependency whose calls end within the cooldown. `Recovers`: a dependency that is back for good
is used again. Two callers per breaker are needed for one to be refused while the other probes; a slow one
for a late report to clear somebody else's probe; threshold 2 for failures that do not open the leg.

**chain.** `OnlyRefusalOrphans`: a venue's probe is lost in one way only, when it is itself refused or
cancelled; any venue may be, and that is a hazard in PROJECT.json (the gateway tells its breaker of retryable
errors only). `OneProbePerVenue`: one probe at a time of a venue whose calls end within the cooldown.
`DeadVenueIsCheap`: until a venue answers again, a run has asked it at most the threshold's calls, one for
each other city whose call was on its way when the leg opened, and one per cooldown: what circuit.py promises
of a venue that is down. Nothing is claimed of the venue's traffic coming back: the breaker lives for one
run, and the run makes few calls. Three cities are what it takes for one to probe, one to report late and one
to be refused; four calls each for a leg to open, be probed, reopen and be probed again. Deadlock is not
checked: when the cities have made their calls, the run of the gateway is over.

**stream.** `ToldTheTruth`: a page told of the end by an event finds a final record and shows success only
of a run that succeeded. `PhasesForward`: no phase goes back. `PageFinishes`: once the run has ended the
page settles. One fault (a lost event, a broken response, a lost connection, an interrupted attempt, a
refused connection, a failed fetch) is one more than none and lands at every point; `MaxWire` keeps events
in flight short, which only delays `CompleteNode`. Deadlock is not checked: when the page has settled and
the worker is gone nothing happens any more.

**planner.** `BudgetHolds`: what a run pays, the embeddings and what nobody counts included, is at most the
budget of its cities (the ceiling, less what reaches it, two calls, and one embedding) and, per crash and
city, twice the price of a node: the node whose payment is lost with the attempt, and the node that was paid
and not yet checkpointed. `ReportedCost`: the cost on
the row is what a run that was not interrupted spent, and never more than any run spent. `FinishedIsFree`:
a city whose finished graph is checkpointed is not executed or paid for again. `RunEnds`: the corrective
loop and the crashes end. These are stated of cities named once (`Alone`), since a city named twice breaks
all three (below). Prices 0 and 1 distinguish a self-hosted venue, whose calls cost nothing so that only
the cap ends the loop, from a paid one, where the budget 2 is met before or after the second draft. Side
by side: `DaysTile` (every draft of up to 24 places over up to 10 days of at most 2: more days than
places, more places than days hold, every remainder, and what the reranker's answers of up to 3 indices
make of up to 4 hits), `MergeIsFair` (three interests with up to two of three places each; the live search
is only asked when the corpus has nothing or fails, so hits and finds are not both enumerated), and of
three cities with one interest, every source answering, failing or unreadable: `GapsAreSaid` (the merged trip
says of each city what it lacks, and blames no source that answered) and `NoSilentHop` (a hop missing
between two neighbours is explained). The geocoder answers nothing, only infrastructure, or infrastructure
before an administrative area and a place: nothing to choose, and something to skip and to choose from
(every other list is the theorems' matter). Three cities are the least in which one that fails stands between
two that do not, so that positions and names disagree; interests are looked up one by one and share only
the set of warnings.

**shared_state.** Eight components, one per scene:

| Scene | Instance | States | Properties |
|---|---|---|---|
| visibility | 3 tasks, 1 process, limit 2, visibility 3, countdowns 1, 2 | 313 523 | `FirstAttemptFits`, `RetryHeldAtMost` |
| spend | 2 runs of 2 calls of cost 0 or 1, limit 1, 3 days, every failure | 471 771 | `OvershootBounded`, `SpendAccounted` |
| throttle | 3 lookups, 2 workers, interval 2, wait 2, 2 attempts | 148 279 | `SlotsSpaced`, `WaitsBounded` |
| cache | 2 tools, 2 callers, lives 2 and 1, 2 versions | 241 952 | `AnswersFresh` |
| index | 3 places of 2 cities, 2 models, 1 worker, 2 ingestions, 1 edit | 64 396 | `RankedInOneSpace` |
| gate | 2 cases and 1, 3 runs | 107 072 | `BarHolds` |
| sign-in | 3 sign-ups, 2 addresses, 1 crash | 21 471 | `AccountsKept` |
| drills | 2 operators (symmetric), 2 drills, 1 failure, interrupt or kill, the day's spend over or under Q10's limit | 399 568 | `RestoredOrReported` |

`FirstAttemptFits`: a first attempt starts when received, so the hard limit bounds how long it is held.
`RetryHeldAtMost`: a retry is held no longer than the countdown of its attempt and one time limit per task.
Three tasks on one process make a queue behind the running task; limit < visibility and a countdown
shorter than the limit are as configured. `OvershootBounded`: a day exceeds its limit by no more than
what those under way at the last measured admission, and those admitted unmeasured since, may cost; three
days are those a ledger lives and one more. `SpendAccounted`: what the runs spent is in a ledger, on its
way there, or lost to a failure. `SlotsSpaced`: the shared slot, and each process's, is granted an
interval apart, while commands fail and keys are taken by commands whose reply is lost. `WaitsBounded`:
the wait for the shared slot stays in its budget, that for the local one behind those who fell back
before; two lookups on one worker queue locally, the third competes from another. `AnswersFresh`: no
answer outlives its kind, whoever fills the cache when. `RankedInOneSpace`: a worker whose check said ok
ranks vectors of its own model, but for two exceptions the property names; two ingestions are what it
takes for one to spoil the other's index. `BarHolds`: a baseline, and two revisions after it, each within
a tolerance of the one before, are the three runs a sinking bar needs. `AccountsKept`: an acknowledged
account that neither an overlap nor a crash exposed is in the file, or about to be written back; a third
sign-up can overwrite what the second saw. `RestoredOrReported`: a drill that ends has restored what it
broke, or named it, unless it was killed or its last `finally` was cut short, which the report says; two
failed commands (that which mends the host names, and the look at them) leave those unnamed, and an
interrupt the kill switch, which the inspection's `finally` clears without looking, and Q10's spend limit
(below). The spend key and the worker's environment no drill looks at, and the property claims nothing of
them. A failure may fall on every command of every drill, and the second drill starts
wherever the first one is.

**limits.** `BurstBounded`: within one window's length no counter admits more than two windows' worth,
whatever fails. `WindowFixed`: nobody prolongs a window that has its TTL. Three handlers are one more than
two windows of limit 1 admit, the least that can violate it; two windows of different length make a
request age out of one and not of the other; `LocalMax` 1 with two counted scopes makes `_local_incr`
prune.

Bounds named in the modules: `MaxCrashes`, `Copies`, `MaxCancels`, `MaxRefusals`, `MaxLosses`, `MaxWire`,
`MaxCalls`, `LastDay`, `LastVersion`, `MaxIngests`, `MaxEdits`, `MaxRuns`, `MaxSignUps`, `MaxDrills`,
`MaxFailures`, `MaxInterrupts`, `MaxKills`; `Capped` in RateLimit (a count over the limit stands for all
larger ones, since the code only compares) and, in CircuitBreaker, the failure count up to the threshold
(likewise). Time in RunLifecycle and the breakers is "has passed"; it is counted in VisibilityTimeout,
RateLimit, Throttle and ToolCache, where sums of times matter, and in days in SpendLedger.

Deadlock is checked everywhere but in `stream`, `planner` and `chain`, whose runs end, and in `limiter_outage`,
which looks for one counterexample. Where the bounds of a scene of `shared_state` leave it nothing to do
(`MayStop`) it stutters; a deadlock of the others, the throttle, the cache and the worker's messages,
would be found.

### Seen on the way, without a run of their own

- Between the COMMIT of `mark_succeeded` and the end of its `try`, a soft time limit or an exception of the
  metric or the event leads to `mark_failed`, which overwrites the result (`tasks.py:151-164, 188-199`).
  `SucceededIsFinal` excepts this writer.
- A first delivery that a worker has popped and not yet stored is in neither of the two places the
  reconciler looks at (`runs.py:180-183`): if its run is old, it is closed as an orphan, and the worker finds
  it over and drops it. `FirstDeliverySpared` excepts this window, which is two Redis commands long.
- A client that posts again after a lost reply makes a second run of the same plan: two messages, of two
  runs. The model's messages of one run come from the faults and from retries only.
- Ctrl-C in the `finally` of Q10, with the spend key back and the API not yet recreated, leaves a daily limit
  of $1.00 on the API and the worker; the last look is that `/plan` answers 202, which it does
  (`costctl_drill.py:174-178, 193-196`), and nothing is reported.
- A leg's probe that a venue refuses, or a time limit cancels, is never reported: that venue is not asked
  again by this run (`gateway.py:189`). `OnlyRefusalOrphans` says that there is no other way.
- What a provider bills for a call that timed out is neither recorded nor in the model.
- The trip's route takes one leg per pair of waypoints from OSRM's answer (`routing.py:23-36`), which OSRM
  promises; a shorter list would be a hop without a word, and `NoSilentHop` takes OSRM at its word.
- A page whose EventSource is refused fetches the record once and stops: it may show a run as running for
  ever (`use-run-stream.ts:31-33, 96-98`). `ToldTheTruth` speaks of pages told by an event.
- An end that falls between `stream_run`'s read and its subscription reaches the page only when the idle
  connection is cut (`main.py:312-320`).
- `finalize` takes any JSON for a record, whatever the HTTP status (`use-run-stream.ts:51`).
- The tally starts at zero in every attempt (`_with_true_cost`): what a cut-short attempt paid beyond its
  checkpoints is not reported.
- A request that names one city twice runs two tasks on one checkpoint thread (`coordinator.py:115`).
- A trip none of whose cities could be planned succeeds (`coordinator.py:152`).
- `acquire_slot` is documented as the slot of ONE call (`throttle.py:8`); `request_json` may make three
  within one slot, half a second or more apart, as `geocode` calls it (`geocode.py:113`).
- Concurrent sign-ups lose accounts that were acknowledged, and a crash while the file is empty loses them
  all (`dev-users.ts:63`). `AccountsKept` exempts exactly these.
- A document dropped from the corpus is never deleted from the index, a worker checks its embedder once
  per process, and a mismatch is only logged (`ingest.py`, `retrieve.py`).
- A plain evaluation run writes the baseline whatever it says, half of it if it is stopped; one without a
  judge erases faithfulness from it. `promote.yml:51` gates without a judge, so that faithfulness is not
  compared there (`tp_eval/cli.py:120`).
- `injection_landed` reads a failed `docker exec` as a host file without entries (`_inspect_common.py`); the
  drills of costs and the inspection delete `planning:enabled`, an operator's `0` included; Q10 writes back
  the day's spend as read before it (`costctl_drill.py:175`); the worker is recreated unverified; the
  backup drill leaves the collection's snapshot when `recover` fails; and a lock created and not yet
  written reads as stale, so that two drills started at once both run (`_inspect_common.py:214`).
- `find_pois` says it raises only if both Overpass and the fallback fail; it also raises when the mirrors
  failed and the fallback answered an empty list (`packages/tools/src/tp_tools/pois.py`).

---------------------------------------------------------------------------------------------------

## 4. Fairness

Nothing is assumed of faults, users, crashes, or of which outcome an operation has.

| Specification | Assumed | Why the code gives it |
|---|---|---|
| `RunLifecycle!FairSpec` | weak, of threads, requests, tasks and `Restore` | a coroutine that can go on is scheduled; every wait has a time-out; kombu restores in a loop |
| | strong, of `ReadUnacked`, `CloseOrphans`, `Age` | `_reconcile_forever` runs for ever and survives its errors; a pass may fail again and again but Redis and Postgres come back, and with one run in flight the system is idle again and again. Time passes between passes |
| `InfraBreaker!FairSpec` | strong, of a caller's asking; weak, of a call's end and of the cooldown | call sites are hit by every request and at arbitrary times; every call has a time-out; the clock runs |
| `RunStream!FairSpec` | weak, of serving, delivery, reconnection, the fetch and `IdleCut`; nothing of the worker | the browser reconnects by itself; the BFF's `fetch` ends a silent body |
| `TripPlanner!Fairness` | weak, of each task's steps and of writing the result | the event loop; every call has a time-out |
| `RateLimit!FairSpec` | weak, of time and of `Expire` | used by `limiter_outage` only |

`shared_state` checks safety only and assumes no fairness.

`EventuallyClosed` with the reconciler strongly fair says: *if* the system is quiet again and again, every
orphan is closed. A system that is never idle never closes one (`runs.py:205`), and the model cannot say
how likely that is.

---------------------------------------------------------------------------------------------------

## 5. What is proved

Every safety invariant and every action property that a passing run checks is a theorem, for every value
of the constants that satisfies the modules' named assumptions (`LifecycleAssumption`, `UsersAssumption`,
`ThresholdAssumption`, `ChainAssumption`, `StreamAssumption`, `RateLimitAssumption`,
`ThrottleAssumption`, `PlannerAssumption`, `DayPlanAssumption`, `SourcesAssumption`,
`VisibilityAssumption`, `SpendAssumption`, `CacheAssumption`, `PlaceIndexAssumption`,
`SignInAssumption`, `EvalGateAssumption`, `DrillsAssumption`). The assumptions say what type a constant
has and little more: tasks, lookups, runs, costs and places are finite sets; a price has an upper bound;
`"redis"` is not the name of a process (it names the shared counter or slot); corpus hits are sequences of
different places; interests are not among the notes of the coordinator; the requests of a planner name a
city at least; the legs of a chain are different. A theorem that needs more says so itself: `Faults = {}`,
`"late_send" \notin Faults` or `AllReport`.

A theorem is proved by an inductive invariant, which is what its property lacks: the paragraphs below say
what it adds and why.

**RunLifecycle_proofs.**

- `TypeCorrect`: `TypeOK`, together with `RetryBudget` (a task about to publish a retry has one left),
  without which `retries + 1` could leave its type.
- `LifecycleInvariant`, under `Faults = {}`, from which `ExecutesOnce` (`SingleExecution`) and `ResultStays`
  (`SucceededIsFinal`, with its exception: the task that saved the result) follow. That no second delivery executes
  depends on there being no second message, and that nobody overwrites a result depends on nobody else
  holding the run. `OneLiveMessage` says that the queue and the hash hold one live message per run, that
  what a worker holds is in the hash (so a death loses nothing and restoring it makes no second copy), and
  that a delivery which has published its retry only waits for its acknowledgement. `WritersFindItOpen`
  says that a delivery past the gate, and an API that will compensate, write a row that has not
  succeeded, but for the task that saved it, on its way to undo it. `ReadsHold` says that what was read for an update is still so when it is written, but for the
  reconciler and an erasure, and that a run whose dispatch failed is closed and was never sent. The faults
  are each a way to break a conjunct: `early_redelivery` and `lost_ack` make a second live message,
  `late_send` lets the API compensate for a message that is in the queue, `ambiguous_commit` lets a task
  retry a run it has already closed.
- `LifecycleImplementsContract` (`ImplementsContract`), from the same invariant, step by step: each action
  maps to a step of RunContract or to a stutter under `Contract`. A slot that passes the gate is a claim,
  one that has closed the run or is going to retry it gives it up, and a status that is written is the
  claim's, the API's or the reconciler's.
- **Under every fault**: `Explained` (`TerminalExplained`), by inspection of the row alone: an UPDATE
  writes the error with `failed` and the result with `succeeded`, and one that finds its status unchanged
  leaves both. `ErasureLasts` (`ErasedStaysErased`): only a request that begins inserts a row, and an
  update of an absent one raises. `RefusedRuns`: a refused run is closed and not executed unless its send
  landed after all, and if `late_send` is not among the faults, `RefusedNeverRuns`, whatever the others. Its
  invariant `Unsent`: a run whose send has not landed has no message anywhere and is claimed by nobody.
  `FirstDeliveryKept` (`FirstDeliverySpared`), by `PassSees`: what a worker holds is popped or in the hash,
  and a first delivery only moves from the queue to the worker and on to the hash, the order in which the
  pass reads the two; so a queue read without the first delivery of an old run stays without it, and the
  hash lacks it only while it is popped. The property speaks of passes before any worker has died, since a
  restored message moves the other way.

**CircuitBreaker_proofs** (InfraBreaker and VenueChain).

- `TypeCorrect`, `ChainTypeCorrect`.
- `ProbeReports`: with every call site, `record_spend` and cancelled sessions and reads included, a probe that
  somebody holds is lost by a call that returns without a report, and in no other way (`OnlySilenceWedges`:
  no success, failure, late report or cooldown loses it); and where no call site is silent (`AllReport`), a
  claim is always a call in flight (`ProbeInFlight`). What the silence of `record_spend` does is the finding
  `spend_keeps_probe`.
- `VenueProbeReports` (`OnlyRefusalOrphans`) says the same of the gateway's legs, for any venue refusing: the
  only way to lose a probe is its own refusal. `DeadVenuesAreCheap` (`DeadVenueIsCheap`): what has been asked
  of a venue since its last answer is the failures it has reported, what is in flight, and one per cooldown;
  once the leg is open nothing but a probe is begun.
- `ProbesOnce` (`OneProbe`) and `VenueProbesOnce` (`OneProbePerVenue`), with every call site and
  cancellation: while the breaker of a dependency whose calls end within the cooldown is open or
  half-open, only its probe is out, since the cooldown outlasts every call that began before. The
  invariants `Admission` and `ChainAdmits` say which calls can be out in each state of a leg; a claim that
  nobody reports is no second probe.

**RunStream_proofs.** `TruthIsTold` (`ToldTheTruth`) and `PhasesOnlyAdvance` (`PhasesForward`), for any
cities and any number of losses. The invariant: every event on the wire is true of the row when it is sent
and stays true (a row only moves forward here), the worker saves before it announces, and the page fetches
only after it was told. That the phases advance needs of it what an event may carry.

**Limits_proofs** (RateLimit and Throttle).

- `TypeCorrect`, `WindowsAreFixed` (`WindowFixed`). The invariant `SetterInv`: only the handler whose
  `INCR` made the key goes on to set its TTL, so while a key has a TTL nobody is about to set one for it;
  it needs the typing of keys, windows and handlers, since a TTL of `Forever` (0) must not arise by
  counting down.
- `BurstsAreBounded` (`BurstBounded`). The property counts who passed within a window's length; the
  invariant `BurstInv` splits them, for every counter: some passed in the window before, no more than the
  limit and all at least as long ago as the present window is old; the rest passed in the present one, no
  more than it has counted, less the one who still has to set the TTL. When the window ends, the rest
  become those before, and those before are too old to count.
- `SlotsAreSpaced` (`SlotsSpaced`), with outages. The property speaks of the past, so the invariant
  `Spaced` says how far away the next grant is: `SharedHeld` (the key lives at least until an interval
  after its last grant, also when its reply was lost), `ClockAhead` (so does the local clock of a process),
  `SleepersDue` (a sleeper's turn comes an interval after the last grant and an interval before the clock)
  and `SleepersApart` (two sleepers of one process are an interval apart, without which the first one's
  grant would break the second's distance).
- `WaitsAreBounded` (`WaitsBounded`). `NoGaps`: turns of a local queue follow each other without gaps, so
  that the clock is no further than the queue is long; it counts those whose turn is not before one's own.
  `Patient`: what one has waited, and will, by the stage one is at.

**SharedState_proofs** (ToolCache, SignIn, PlaceIndex, VisibilityTimeout, SpendLedger).

- `CacheAnswersFresh` (`AnswersFresh`): an entry's age and what is left of it fit in the life of its kind,
  and what is about to be stored is new and of a kind that is stored.
- `SignInKeepsAccounts` (`AccountsKept`): sign-ups that overlap are all exposed, with everybody
  acknowledged; a sign-up under way has read all that are not exposed; a file that was emptied stays empty
  unless another has written it; and every list read or about to be written has different addresses, since
  otherwise two accounts of one address would hide each other.
- `IndexRankedInOneSpace` (`RankedInOneSpace`): an index about to be stamped, or whose stamp stands, is of
  one model, and so it is for a worker that was told so and is still sure.
- `FirstAttemptsFit` (`FirstAttemptFits`): a first attempt in the backlog has a process to start in,
  whoever else is there (`FirstHasRoom`), because the worker takes a message only while a process is free
  for it. `RetriesHeldAtMost` (`RetryHeldAtMost`): how long a ready task is held, and the units of work
  ahead of it, are together no more than its countdown and the others' time (`WaitsOut`); a unit passes
  only while every process works on what is ahead.
- `SpendOvershoot` (`OvershootBounded`): `WithinUnits` counts, unit by unit, what those exposed may have
  put into today's ledger by now (their calls so far at the dearest price, less what they still owe it); a
  measured admission starts the count afresh below the limit. `SpendIsAccounted` (`SpendAccounted`): what
  runs owe, they owe only while they record.

**TripPlanner_proofs** (TripPlanner, Sources, DayPlan).

- `FinishedStays` (`FinishedIsFree`), for any requests, prices, budget, cap and number of crashes. The
  invariant `ThreadInv` says of every city named once that its thread is written by its own task only, so
  that a task whose state is checkpointed holds what the thread holds and one that is about to checkpoint has
  an unfinished thread; and, of every graph state in memory or checkpointed, which cost it may have reached
  before the node that is due.
- `BudgetKept` (`BudgetHolds`), for the same, from `PaidInv`. A graph state is *worth* its cost and, past
  `gather`, an embedding; within the bounds of `ThreadInv` it is worth no more than the city's budget. A node
  is charged what it adds to the worth of its city's graph; a crash takes back, per city, what no checkpoint
  holds, one node, and has paid for no more than one that nobody counted. So what is spent is at most the
  worth of the graphs and two nodes per city and crash (a city that failed may have lost its last node:
  `Paid`). The sums over cities are compared with the lemmas of `Sums` (`SumShifts`).
- `CostIsReported` (`ReportedCost`): the sum, over the tasks, of the higher of the cost in memory and that
  in the checkpoint is never more than what was spent. The higher of the two, since an attempt that
  crashes falls back to its checkpoint, and a node that was checkpointed is never billed again.
- `GapsSaid` (`GapsAreSaid`) and `HopsExplained` (`NoSilentHop`), for any cities, interests and answers:
  what a plan says of the sources is honest at every node, and the merged trip keeps it or leaves the city
  out, with the reason.
- `DaysAreTiled` (`DaysTile`): `SplitTiles`, by the arithmetic of quotient and remainder: a day begins
  where the one before ends, the last ends with the places, and no two days differ by more than one.
- `MergeKeepsInterests` (`MergeIsFair`): slot by slot of the rounds of `zip_longest`, the list holds what
  has been met, each place once, and of every interest already met its best place no later than its turn
  (`FairUpTo`).

**Operations_proofs** (EvalGate, Drills).

- `BarStays` (`BarHolds`), for any number of cases, any outcomes, tolerance and number of runs. The
  invariant `BarInv` (`BarIsInvariant`): the baseline file of a mode is torn or the last report a plain run
  wrote in full; a gate cannot read a torn one, and moves neither.
- `DrillsRestoreOrReport` (`RestoredOrReported`), for any number of operators and failures: whatever part
  of the stack is broken is named already, or is among the exceptions the property names, or some drill
  that is not over *watches* it: it is where it still has to mend the part or look at it. The exceptions are those of the property: an interrupt settles the switch and
  Q10's limit, since after it the last look, `/plan` answers 202, need not see them. The proof goes
  through every command of every drill.

**Sums** holds the lemmas about sums over finite sets that two of these need. The library's induction
theorems cannot be used here (they take an operator as a parameter), so an induction over finite sets or
numbers is a choice of the smallest counterexample, from the well-foundedness of the numbers. In this way
also what `FlattenSeq` and the recursive function `Merged` compute is proved, as far as the theorems need
it.

**Only model-checked**: liveness (`EventuallyClosed`, `Recovers`, `PageFinishes`, `RunEnds`), since the prover knows neither fairness nor ENABLED; and that the bounds of section 3 are met,
which is a question about an instance. Of the reranker's order (`Reranked`) it is proved that the result
is a list of places, and no more is needed of it: that it keeps the best-ranked ones is the definition.

---------------------------------------------------------------------------------------------------

## 6. Disagreements between the code and what it says of itself

1. **`late_dispatch`** (`tasks.py:131`). "A terminal run is never executed again." The gate reads the row
   in one transaction and `mark_running` writes it in the next. A `send_task` that lands after `wait_for`
   gave up lets the worker pass the gate while the row is `queued`; the API then marks it `failed` and
   answers 503; the worker executes it, and bills it.
2. **`visibility_timeout`** (`celery.py:36`). The visibility timeout must stay "above the longest a task
   can actually run". It counts from receipt, and a retry is received long before it starts: behind a
   countdown and one task of 300 s its message is redelivered while it executes. Two tasks on one process
   suffice.
3. **`spend_keeps_probe`** (`control.py:147`). `record_spend` takes the half-open probe of the process's
   redis breaker and reports nothing: from then on that process goes without Redis. `geocode.py:107-108`
   warns of exactly this.
4. **`limiter_outage`** (`ratelimit.py:80`). One `EXPIRE` that fails after its `INCR` leaves a counter
   that never expires: with Redis back, the caller is refused for ever.

---------------------------------------------------------------------------------------------------

## 7. What is not modelled, and the plan

Not modelled, for want of behaviour a model could say something about: the worker's start-up handlers;
prompts and text filtering; authentication (a token is verified, nothing is kept); settings, logging,
metrics and tracing; the other web pages (presentation, proxies of one request, a list in the browser's
storage); `verify_all` and `battery`, which send requests and judge answers; deployment files, whose
values appear as constants. Of modelled parts the following is left out: the prose of an itinerary and its
grounding check; what the health and metrics endpoints read; how similar two vectors are; how a case is
scored and judged; sign-in with Google or Auth0, whose accounts are elsewhere; schema creation at
start-up; prices and model names of venues. `checkpoint.py` opens a saver and keeps no state of its own
beyond the threads TripPlanner models.

Modelling still to be done is little: the planner's grounding check as a filter over places and warnings,
and the composition of SpendLedger with TripPlanner (a run's tally against the day's ledger), which are
side by side now.

Theorems still worth proving:

1. What RunContract itself promises, from its specification alone, so that RunLifecycle inherits it by
   `LifecycleImplementsContract`.
2. What the reranker keeps: a selection of the hits without repetition, as long as `TopN` allows.
3. That no day's ledger falls behind what its runs' tallies say, once the two are composed.

---------------------------------------------------------------------------------------------------

## 8. Running the checks

`tlc -config lifecycle.cfg MCRunLifecycle` and so on: the table of section 3 names the configurations, and
PROJECT.json the module of each (`MCRunLifecycle`, `MCVisibilityTimeout`, `MCInfraBreaker`,
`MCVenueChain`, `MCRunStream`, `MCTripPlanner`, `MCRateLimit`, `MCSharedState`). The longest take two to
three minutes.
`tlapm M_proofs.tla` checks a proof module, in four minutes at most. PROJECT.json also maps every definition to the lines it
models, and gives for every property a mutant: a plausible bug, kept in the modules as an operator marked
*Mutant*, that the property catches. The hazards of the code are listed there too, each with the
properties that would catch it.
