# Verification of feedgate-fetcher

feedgate-fetcher polls RSS/Atom feeds and serves their entries over HTTP. One
Postgres database is at once the store and the work queue: any number of worker
processes claim due rows of `feeds`, fetch them, and write `entries`; the API
changes the same tables; retention sweeps delete from them. This directory holds
TLA+ models of that core, TLC configurations that check them, and TLAPS proofs.

Paths below are relative to the repository; `fetcher/` means
`src/feedgate_fetcher/fetcher/`.

## 1. Inventory

| Component | State | Operations | Hard part |
|---|---|---|---|
| Queue, `fetcher/scheduler.py` | `feeds.next_fetch_at`, `feeds.last_attempt_at` as the lease; row locks; per tick: `now`, claimed ids, semaphore | `tick_once`: claim (SELECT ... FOR UPDATE SKIP LOCKED, UPDATE, commit), then one session per feed (`_process_feed`); `run`: loop with error backoff | several workers, crash with a lease in hand, leases read on different clocks, rows loaded without a lock and written up to a tick later |
| Feed lifecycle, `feed_state.py`, `models.py` | `status`, `consecutive_failures`, `last_error_code`, `last_successful_fetch_at` | `mark_fetch_success`, `mark_fetch_failure`, `transition_feed` | long sequences of outcomes; active to broken to dead in one call |
| Fetch policy, `fetcher/policy.py` | none | `compute_next_fetch_at`, header parsing | boundaries of backoff and clamps |
| Fetch pipeline, `fetcher/http.py`, `errors.py`, `fallback.py`, `parser.py` | process-wide set of hosts that need the fallback | `fetch_one`: guard, request, 304 / 429 / 403 branches, fallback client, parse, upsert, classify, timer | early returns; an error after part of the work; a swallowed database error; an overflow outside the try block; a cache that outlives its reason |
| Entry upsert, `fetcher/upsert.py` | `entries` | one INSERT ... ON CONFLICT per entry | two sessions on one feed, sweeps in between |
| Retention, `fetcher/retention.py` | `entries` | `sweep` (plain or batched), `tick_once`, `run` | decides on a snapshot; several sweepers; LIMIT without ORDER BY |
| Feeds API, `api/feeds.py`, `api/dependencies.py` | `feeds` | create, list, get, delete, reactivate | read-modify-write concurrent with a fetch; a registration of several statements; a commit after the answer |
| Entries API, `api/entries.py` | none | list with a keyset cursor | a walk over a table that changes, NULL dates |
| Lifespan, `main.py`; loops of `scheduler.py`, `retention.py`, `metrics.py` | three tasks, their stop events, error counters | start, drain one after the other, forced cancel, close | shutdown in the middle of a tick; fetches a failed gather leaves behind; statements that hang |
| Configuration, `config.py` | settings | none | the sizing rule that relates TTL, batch, concurrency and budget |
| SSRF guard, other metrics, schemas, middleware, logging, scripts | none the core reads back | | see section 8 |

The components meet in the database only. A worker and the API exchange nothing
but rows; the fetch pipeline is called by the queue and calls lifecycle, policy
and upsert on the session it is given. Inside a process the fetches of a tick
share the fallback set, the semaphore and a gauge.

What makes each part correct:

- queue: a feed is fetched by one worker at a time; nobody overwrites an update
  they have not seen; whatever is due is fetched in the end, also after crashes;
  a backlog is served without starvation;
- lifecycle and policy: breaker and counter agree, status moves only on
  evidence, attempts on one feed are spaced by a configured interval;
- entries: one row per guid, its age never changes, an ETag never vouches for
  entries that were not stored, in its document's version or a later one;
- retention: nothing inside a retain window is ever deleted, everything outside
  is in the end;
- API lists: a walk returns every undisturbed row exactly once, in order;
- pipeline: wherever a fetch fails, its row ends as one of a few known outcomes
  or untouched; entries, validators and the recorded success go together;
- registration: one resource is one feed, clients agree on it, and what was
  acknowledged is kept;
- lifespan: loops never end by themselves, a shutdown always ends, a healthy tick
  is not cancelled by it, and nothing is closed under a running fetch unless one has
  raised or was late.

`PROJECT.json` lists the hazards one by one, at their lines, with the property
that covers each.

## 2. Modules

| Module | Models | State and actions |
|---|---|---|
| `FeedLifecycle` | what a row of `feeds` is and what each handler computes from it: `Claimable`, `Leased` (scheduler), `MarkFetchSuccess`, `MarkFetchFailure` (feed_state), `PollInterval`, `Backoff` (policy), the branches of `FetchOne`, `Reactivated`, `NewFeed` (api) | operators only |
| `AtomicFeed` | the abstract specification of one feed: a fetch is one indivisible step at the instant its lease recorded | `Create`, `Delete`, `Claim`, `Complete`, `Abandon`, `Reactivate` |
| `Scheduler` | the real thing: workers, sessions and requests interleaved | `StartTick`, `ClaimExecute`, `ClaimCommit`, `ClaimError`, `LoadFeed`, `LoadNothing`, `FinishFetch`, `AbortFetch`, `Crash`, `Restart`, `CreateFeed`, `DeleteFeed`, `ReactivateLoad`, `ReactivateWrite`, `Tick` |
| `ClaimOrder` | Scheduler with a history variable that counts claims ahead of a waiting feed | |
| `EntryStore` | sessions that upsert a document, sweeps, cascades | `OpenSession`, `Receive`, `UpsertEntry`, `CommitSession`, `AbandonSession`, `StartSweep`, `FinishSweep`, `FailSweep`, `DeleteFeed`, `Tick` |
| `Pagination` | a client's walk over either list endpoint | `NextPage`, `InsertRow`, `EditRow`, `RemoveRow` |
| `FetchPipeline` | the inside of a fetch, for all tasks of a process | `StartTick`, `PassGuard`, `FailGuard`, `AnswerNotModified`, `AnswerRateLimited`, `AnswerRefused`, `AnswerError`, `AnswerNothing`, `AnswerOk`, `FallbackFails`, `FallbackAnswers`, each with the way its session ends (`ReadPage`, `Fail`, `Settle`, `Commit`, `Rollback`), `Restart`, `Wait` |
| `FeedRegistry` | POST and DELETE on `/v1/feeds` statement by statement | `Post`, `Insert`, `Select`, `SelectNothing`, `Delete`, `Commit`, `Lose` |
| `Lifespan` | the three loops of a process and its shutdown, in time | `Wake`, `Exit`, `FinishQuery`, `FailQuery`, `Hang`, `FinishClaim`, `StartFetch`, `EndFetch`, `RaiseFetch`, `OrphanStarts`, `OrphanEnds`, `Overrun`, `Shutdown`, `Drained`, `ForceCancel` (with `CancelGather`), `Unwind`, `Pass` |
| `FeedLifecycleProofs` | lemmas about the handlers, for the three proofs that use them | |
| `AtomicFeedProofs`, `SchedulerProofs`, `FetchPipelineProofs`, `EntryStoreProofs`, `PaginationProofs`, `FeedRegistryProofs`, `LifespanProofs` | theorems, see section 6 | |
| `MC*` | instances for TLC | |

`Scheduler` and `AtomicFeed` share `FeedLifecycle`, so that both apply the same
handlers; `Scheduler` instantiates `AtomicFeed` once per feed and is compared
with it step by step (`StepsAreAtomic`). `FetchPipeline` uses the same handlers
and instantiates the same `AtomicFeed` (`FetchIsAtomic`): what `Scheduler` takes
for one step with one of four outcomes is there taken apart. `Lifespan` in turn
shows where `Scheduler`'s `TickBudget` comes from (`TickIsBounded`), and
`FeedRegistry` takes apart its one-step `CreateFeed` and `DeleteFeed`.

How the code is read:

- **Sessions.** `main.py` makes sessions with `autoflush=False`, so a session's
  changes to a feed reach the database at commit, and SQLAlchemy writes only the
  columns that differ from what was loaded. `Merged` is that UPDATE. A session
  loads its row without a lock (`LoadFeed`, `ReactivateLoad`) and writes it in a
  later step (`FinishFetch`, `ReactivateWrite`).
- **Locks.** The claim is one statement that locks, then a commit; between the
  two the rows are in `locked`, which SKIP LOCKED passes over and other writers
  wait for. Inserting an entry also share-locks its feed row; that only makes
  claims skip a feed somebody is fetching and is left out of `Scheduler`.
- **Time.** Clocks are integers. Each process reads the database clock with an
  error of at most `Skew`. A tick reads its clock once and uses it for the claim
  and for every fetch, as `tick_once` does. `Tick` does not pass
  `startedAt + TickBudget` of a tick under way: this is the sizing rule in the
  comment of `config.py`, an assumption about the deployment. The code enforces
  a budget per fetch, not per tick.
- **Failures.** A crash loses the process and what it had not committed;
  `AbortFetch` is every way a session can end in a rollback; `ClaimError` is a
  database error during the claim, which `run` swallows.
- **The network** is a set of outcomes (`Responses`). A 304 answers a conditional
  request, so it needs a stored validator: an assumption about servers, the code
  takes any 304.
- **Entries.** In `EntryStore` a document stands for its ETag; any 200 may bring any
  document. A 200 with an ETag replaces the stored one, a 200 without keeps it
  (`fetcher/http.py:245`), so entries of a later document come to lie under the
  ETag of an earlier one; the history variable `since` holds the documents stored
  from the ETag's on. `last_modified` follows the same rule and is not kept
  apart. Statements of one session hold the locks of the keys
  they touched until the session ends; a deadlock that Postgres resolves, a
  foreign key violation and a lost connection all end in `AbandonSession`.
  `SQL now()` is the start of the transaction.
- Feed ids and entry ids come from sequences and are not reused.
- **Inside a fetch.** Between two points where a task reads or writes the fallback
  set it is on its own, so everything else from an answer to the commit is one
  step. Timestamps end at `MaxInstant` (`datetime.max`); a sum beyond it raises.
  A 200, 304 and so on is the status after redirects; the final URL is any URL. A
  statement Postgres refuses aborts the transaction (`aborted`), so the commit
  is refused as well. `stored` and `tagged` are the instants at which a feed's
  latest entries and validators were fetched. `refused` holds the hosts of feed
  URLs whose request, redirects followed, ended in a 403, which is what the code
  puts into its fallback set; the 403 may come from a host further on.
- **Answers and commits.** `get_session` commits when FastAPI leaves the
  dependency. With the locked FastAPI 0.135.3 that is after the answer was sent;
  `FeedRegistry` has that order, and its properties do not depend on it. One
  consequence to know: a client that deletes a feed and registers its URL again as
  soon as it has its 204 may be told 200 with the old id, and lose the feed to
  the deletion that commits afterwards. A session that rolls back while others
  wait for its insert lets the next of them insert.
- **Loops.** In `Lifespan` every timer counts down, and time passes only when
  nothing is due. The order in which things due at the same instant happen is
  free. A cancelled task ends: `CancelledError` is not an `Exception` for the
  handlers, and the drivers give up a cancelled statement. But a gather that is
  cancelled is over as soon as one of its fetches is (`scheduler.py:207` has no
  `return_exceptions`), and its task with it; the other fetches may still be
  closing their streams and sessions. They are `unwinding`, and nothing says when
  they are done. From the cancellation to the end of the first fetch is one step.
  The end of a fetch, its exit from the gauge (`scheduler.py:107`), the closing of
  its session and the return of its permit, is one step as well.

## 3. What the runs check

Passing runs:

| Run | Instance | Shows |
|---|---|---|
| `lifecycle` | one feed, threshold 2, jitter both ways, 13 instants, one reactivation | `BreakerConsistent`, `LifecycleEdges`, `ClaimsAreSpaced` on every sequence of outcomes and lost leases |
| `queue` | two workers, one feed created during the run, one crash or failed claim, one reactivation, 5 instants | `LeaseExclusive`, `SnapshotCurrent`, and `StepsAreAtomic`: away from overlapping reactivations the interleaved sessions act as `AtomicFeed` |
| `queue_liveness` | one worker, two feeds, batch 2, one permit, one crash | `DueIsFetched`, `ClaimIsReleased` |
| `claim_order` | two workers, two feeds, batch 1, one crash or failed claim | `NoStarvation` |
| `entries` | two sessions, one sweeper, documents that edit, reorder and repeat entries, with an ETag or without | `OneRowPerGuid`, `AgeIsKept`, `ETagIsBacked` |
| `retention` | two sweepers in batches of one, two feeds, one session that may be an instant late, one failed sweep | `MostRecentSurvive`, `WindowSurvives`, `ExpiredAreSwept` |
| `pagination` | every table of up to four rows, two changes, both endpoints | `WalkIsComplete`, `WalkIsOrdered` |
| `pipeline` | two feeds, two hosts, threshold 1, headers that are absent, garbled, negative, dates or too large, one failed commit or restart | `FetchIsAtomic`, `BlindOnlyAfterRefusal`, `KeptTogether` |
| `lifespan` | three loops, batch 3, two permits, two errors in a row, one fault: a statement that hangs, a fetch that raises, or a stall that delays any fetch any number of times | `HealthyTickIsDrained`, `TickIsBounded`, `ClosedLast`, `GaugeIsExact`, `ShutdownEnds`, `LoopsGoOn` |
| `registry` | four requests on two resources and one blocked URL, up to two slashes and a fragment, one lost session | `OneFeedPerResource`, `PostsAgree`, `AcknowledgedIsKept`, `FailsOnlyUnderDelete`, `RequestsEnd` |

`TypeOK` is an invariant of one run of each module with state. Every property of these runs
is matched by a mutant of the code it is about (a dropped guard, a missing reset,
an off-by-one) that TLC finds out; the mutated operators stand next to the
definitions they would replace, marked "Mutant of".

Runs that are expected to fail, each on a sentence of the repository; the quoted
lines are in `PROJECT.json`:

| Run | Counterexample |
|---|---|
| `reactivate_race` | a reactivation commits between the load and the commit of a failing probe: the row ends active with its counter at the threshold |
| `uncounted_failure` | a document that Postgres refuses to store: the failure is counted on an object whose transaction is already aborted, the commit fails, and the feed is retried after every TTL without backoff, for ever |

The first, and a reactivation that makes a leased feed due, are why
`LeaseExclusive`, `SnapshotCurrent` and `StepsAreAtomic` speak of feeds that were
not reactivated under a fetch (`overlapped`).

What the passing runs say about corners of the code:

- `FetchIsAtomic` leaves out one case, which the run reaches: a 304 whose
  `max-age` overflows computes its timer inside the try block
  (`fetcher/http.py:153`), after the success was recorded, and is then counted as
  a failure. If that failure opens the breaker, the backoff ignores the hint, the
  commit goes through, and the row has a new success and a failure at once.
  Elsewhere the same overflow strikes again after the try block and the whole
  attempt is rolled back, a 200 with its entries included.
  `KeptTogether` is about what the rollback takes along: entries and validators
  change only with a success recorded at that instant, on the first fetch of a
  feed and on every later one, and neither the success nor the validators of a
  document are committed without its entries.
- `BlindOnlyAfterRefusal` says how far the fallback's blindness to status codes
  reaches: any error page, a 410 included, may count as a success, but only on
  the host of a feed URL whose request ended in a 403 since the process started.
- `ETagIsBacked`: each entry the stored ETag vouches for is in the table as the
  ETag's document has it or as a document stored since has it, or was swept. The
  second case is a 200 without an ETag after one that had one. Should the server
  then go back to the first document, it answers 304, and the edits of the
  second stay.
- `ClosedLast`: a fetch outlives the closing of client and engine in two cases
  only. One whose rollback raises fails its gather, and the other fetches go on as
  orphans, beside the next tick, beyond the concurrency limit, unknown to the
  drain. And a drain that runs out on a tick with a late fetch cancels it, but
  waits for the first of its fetches only; the run reaches the state in which
  another is still unwinding at the close. Where the sizing of config.py is kept
  and no fetch raises, nothing runs at the close. `GaugeIsExact` counts both kinds.
- `HealthyTickIsDrained` rests on `TickBound < Drain` as config.py sizes it. DNS,
  the pool (30 s) and the database are outside the fetch budget; `Overrun` is
  that case.

More disagreements between code and text were met and have no run of their own:

- reactivating a feed that is being fetched makes it due, and a second worker
  fetches it at the same time, although `docs/deploy/local-multi-worker.md:80`
  says that SKIP LOCKED keeps a feed from being fetched twice;
- a dead feed whose prober crashes is not claimable after the TTL, as
  `fetcher/scheduler.py:12-13` says, but after the probe interval, because the
  claim has bumped `last_attempt_at`;
- a dead feed whose probe gets a 304 records a success and stays dead;
  `docs/spec/feed.md:88` says it becomes active;
- a 304 leaves the failures of an active feed, while `models.py:60-61` says they
  are reset on success; a failed probe of a dead feed increments the counter, while
  `docs/spec/feed.md:167-168` says it does not grow;
- an edited entry is stamped with SQL `now()`, while `fetcher/upsert.py:57-58` says
  that inserts and updates of one call share one value;
- one 301 in a chain keeps the final URL also behind temporary redirects, while
  `docs/spec/feed.md:241` says those leave `effective_url` alone;
- a 410 that arrives through the fallback kills no feed, while `config.py:95-96`
  calls it an immediate transition from any state; a 429 whose Retry-After
  overflows is counted as a failure;
- the lease TTL is 90 s in `config.py:74` and 180 s in the comment above it and in
  `docs/spec/resilience.md`; the drains take up to 90 + 90 + 5 s one after the
  other, while `docs/spec/resilience.md:470-471` sizes the grace period for 30 s;
- a per-host limit is described as implemented in `docs/spec/resilience.md` and is
  not in the code.

## 4. Bounds

Bounds are named constants in the guards. `MaxClock` ends time, `MaxFaults`
limits crashes, failed claims, failed sweeps, hung statements, stalls and fetches that raise, `MaxReactivations` requests,
`MaxId` and `MaxRows` ids, `MaxChanges` changes during a walk, `MaxErrors` failed
iterations in a row, `MaxLosses` sessions that lose the database, `MaxSlashes`
the spelling of a URL. Every `.cfg` says
`CHECK_DEADLOCK FALSE` because behaviours end: at `MaxClock` with nothing due, when every request was
used, or with the process closed. Two workers are enough for any conflict
over a row, and the proofs cover any number. Clock skew is 0 in the runs of
`Scheduler`; the theorems hold for every skew that `LeaseAssumption` admits. The timers are the smallest that
keep the order of the real ones where it matters: a lease outlives a tick, a
retry comes before the lease of a crashed worker would end, the probe interval
is at least the TTL, and `MaxClock` leaves room for a feed to be created, broken,
dead and probed. Feeds, workers, sessions, sweepers and guids are symmetric in
the runs that check safety only; no run with a liveness property uses symmetry.

In `retention` the clock stands still and sessions may carry an older reading
of it, so that entries arrive expired; in `entries` it moves. Its one document for both feeds
repeats a guid and all four ids can be used. `pipeline` has a
threshold of 1 and two instants: enough for a feed to break, to die of a 410 or
of silence, to recover from broken, and for the 304 corner. A dead feed is not
probed within them; the theorems of `FetchPipelineProofs` cover that. Two feeds on two hosts are enough for one feed's
403 to decide on the other's client, through a redirect as well. In `lifespan` a
batch of three for two permits takes two waves, the drain is one instant longer
than the longest healthy tick, and the backoff reaches its cap. There is one group
of orphans at a time: a second gather raises only after the first one's orphans
are done (`RaiseFetch`). Four requests
are two registrations that conflict, a deletion, and one more to take the place
of any of them.

## 5. Fairness

- `WF(WorkerStep(w))`: `run` loops for ever and swallows the errors of a tick;
  every fetch has a wall-clock budget. `StartTick` is weakly fair: the sleep
  between ticks ends.
- `WF(Restart(w))`: the container is restarted.
- `WF(ReactivateWrite(f))`: a request that has read its row ends.
- `WF(StartSweep(p))`, `SF(FinishSweep(p))`: the sweep loop; Postgres queues the
  DELETE for the row locks it waits for, so sessions that come and go cannot
  keep it waiting. `WF` of a session's end.
- `WF(Tick)`: time passes.
- `Lifespan`: `WF(LoopStep(l))`, `WF(FinishClaim)`, `WF(FetchStep(p))`: the event
  loop runs what is ready, and what does not hang ends when its time is up;
  `WF(Drained)`, `WF(ForceCancel)`, `WF(Pass)`: shutdown and timers. A hung
  statement has no fairness; only `ForceCancel` ends it. Neither has `Unwind`.
- `FeedRegistry`: `WF(HandlerStep(r))`: handlers run and Postgres wakes up who
  waits for a lock. No request has to arrive.

No crash is fair, and neither is a success: `DueIsFetched` says that somebody
takes the feed up, not that the fetch works. `ExpiredAreSwept` rests on the bound
on ids: with LIMIT and no ORDER BY, and with entries expiring faster than one
batch an hour, Postgres might pass over the same row for ever.

## 6. What is proved

Every safety property the passing runs check is a theorem as well: it holds for
every value of the constants that satisfies the named assumptions of the modules,
for any number of feeds, workers, sessions and requests.

| Module | Theorem | States |
|---|---|---|
| `AtomicFeedProofs` | `FeedTyped`, `BreakerStaysConsistent`, `StatusMovesOnEvidence`, `AttemptsAreSpaced` | `TypeOK`, `BreakerConsistent`, `LifecycleEdges`, `ClaimsAreSpaced` |
| `SchedulerProofs` | `TypeCorrect`, `LeasesAreExclusive`, `SnapshotsStayCurrent`, `SchedulerImplementsFeed`, `NobodyStarves` | `TypeOK`, `LeaseExclusive`, `SnapshotCurrent`, `StepsAreAtomic`, `NoStarvation` |
| `FetchPipelineProofs` | `PipelineTyped`, `StoredIsConfirmed`, `FallbackFollowsRefusal`, `PipelineImplementsFeed` | `TypeOK`, `KeptTogether`, `BlindOnlyAfterRefusal`, `FetchIsAtomic` |
| `EntryStoreProofs` | `StoreTyped`, `GuidsStayUnique`, `AgeNeverMoves`, `ETagsStayBacked`, `MostRecentAreKept`, `WindowIsKept` | `TypeOK`, `OneRowPerGuid`, `AgeIsKept`, `ETagIsBacked`, `MostRecentSurvive`, `WindowSurvives` |
| `PaginationProofs` | `WalkTyped`, `WalksAreOrdered`, `WalksAreComplete` | `TypeOK`, `WalkIsOrdered`, `WalkIsComplete` |
| `FeedRegistryProofs` | `RegistryTyped`, `OneFeedIsKept`, `PostsAlwaysAgree`, `AnswersAreKept`, `PostsFailOnlyUnderDelete` | `TypeOK`, `OneFeedPerResource`, `PostsAgree`, `AcknowledgedIsKept`, `FailsOnlyUnderDelete` |
| `LifespanProofs` | `LifespanTyped`, `GaugeStaysExact`, `TicksAreBounded`, `HealthyTicksAreDrained`, `ResourcesCloseLast` | `TypeOK`, `GaugeIsExact`, `TickIsBounded`, `HealthyTickIsDrained`, `ClosedLast` |

Assumptions that are more than types:

- `LeaseAssumption`: `TickBudget + 2 * Skew` is below the TTL and at most the
  probe interval. The factor two is there because the claimer and the next worker
  may be wrong in opposite directions.
- `LifecycleAssumption`: settings are positive, the clamp is not empty, a jitter
  and a count of weekly entries exist.
- Two theorems have a hypothesis on the jitter. `AttemptsAreSpaced` asks that it is
  at most the backoff it is subtracted from (`JitterWithinBackoff`, a
  `backoff_jitter_ratio` of at most 1), `NobodyStarves` that it leaves something of
  it (`JitterBelowBackoff`, a ratio below 1). `config.py` does not bound the ratio,
  whose default is 0.25. At 1 a broken feed may be due again at the instant of its
  attempt, level with one that waits; above 1 its timer may lie before the attempt.
- `PipelineAssumption`, `HintsAssumption`: `Hints` holds every hint the headers
  and pages of the instance lead to.
- `LifespanAssumption`: `TickBound < Drain`, the sizing rule of `config.py`.
- `RegistryAssumption`: there is a URL, and the blocked ones are URLs.

**AtomicFeed.** `BreakerSound(row)` with the type is inductive. The work is in the
lemmas of `FeedLifecycleProofs`, one per branch of `fetch_one`:
`MarkFetchFailureSound` shows that an active feed opens its breaker exactly at
the threshold, which needs that it was below it before; `RescheduledFrame` that
the timer does not interfere. For the spacing the invariant remembers that the
timer of a feed nobody reactivated was set an interval of the policy after the
attempt that set it (`SpacingInv`).

**Scheduler.** Neither exclusion property is inductive. A second worker claims a
held feed only if it finds it claimable, so the invariant has to say why it is
not:

- `LeaseInv`: the row of a held feed still carries the holder's `now + ClaimTTL`
  and `last_attempt_at = now`;
- `TimeInv`: a tick under way is within its budget and its `now` within `Skew`;
  with `LeaseAssumption` this gives `HeldNotClaimable`, for dead feeds through
  the probe interval;
- `LockInv`: a row between the claim's statement and its commit is locked once
  and held by nobody;
- `PhaseInv`: locks exist only while claiming, held feeds only while fetching,
  permits only for held feeds;
- `TypeInv` adds that no clock reads below zero.

`LeaseExclusive` then carries `SnapshotCurrent`: the other writers of a row are
claims, which the lease excludes, other fetches, which exclusion excludes, and
reactivations, which the statement excepts. There is one lemma per action;
`EndFetchFrame` is shared by the three ways a fetch ends.
`SchedulerImplementsFeed` is the refinement, for every skew of `LeaseAssumption`:
each step is for each feed a step of `AtomicFeed` or none. It needs one more
fact, `ClaimedInv`: a claim commits a row that is what its statement read.

`NobodyStarves` rests on a count. While feed `f` waits, a feed claimed ahead of it
gets `last_attempt_at = now`, and `now` is at least `f`'s timer; the timer it gets
lies later still (`LaterInv`, for dead feeds too), so the next claim orders it behind
`f` (`Behind`). `OrderInv` bounds the claims counted ahead of `f` by the number of
feeds behind it, plus one batch for every claim that was rolled back, which is
the only way to leave that set. Clock skew does not matter, since all of this
compares instants the rows carry. `PassedOverBy` and `BehindKept` are the two
halves of the step.

**FetchPipeline.** Each branch that ends an attempt is brought to one form,
`Completes`, in which `Settle`, `Commit` and `Fail` no longer occur; a 304 whose
hint overflows has a form of its own, `Overflows`, the case `FetchIsAtomic`
excepts. The invariant `PipeInv` says that a task under way leased its feed at the
present instant and that the fallback is chosen for refused hosts only, and
needs no case per branch. For `KeptTogether` the forms carry what the session has
in hand (`stored`, `tagged`, `wrote`): an attempt that failed ends empty-handed
(`EmptyHanded`), and `EndIsKept` compares the rest with the success `FetchOne`
records. The refinement then compares `FetchOne` with
`AtomicFeed`'s.

**EntryStore.** The properties are about committed rows, and what a commit does to
them was decided statements earlier. `StoreInv` says what stays true meanwhile:

- `LockInv`: sessions on one feed have touched different guids;
- `RowInv`: a pending row is the next version, same id and same age, of the
  committed row of its key, or the first one with an id nobody else has;
- `BackInv`: a session sees each entry it has handled as its document has it, or
  retention took it; a commit without an ETag then replaces versions of `since`
  by versions of a document it adds to `since` (`BackedCommit`, cases `Tagged` and
  `Bare`);
- `VictimInv`: what a sweep has chosen stays outside both windows until it is
  deleted, since later commits can only push it further back.

That a sweep may work on a stale snapshot is the point of `VictimInv`;
`MostRecentAreKept` follows because an entry among the most recent is outranked by
fewer than `MinPerFeed`. That all entries ahead of a swept one cannot be gone as
well (`AheadSwept`) takes the latest of them, whose existence is the
well-foundedness of finite sets under inclusion.

**Pagination.** The cursor's WHERE and the ORDER BY are written down separately in
the code, NULL dates included; they are the same strict order (`AfterIsOrder`).
Rows are at the position their rank gives them (`Ranks`, `SelectedIs`), so a page
is an initial piece of what lies after the cursor (`PageIs`). `WalkInv`: the
cursor is the last row received, a received row is still there or was disturbed,
and what is owed and not yet received lies after the cursor.

**FeedRegistry.** `RegistryInv`: the stage of a handler decides what its record
holds; every URL is normalised; ids are given out once; a pending row is neither
committed nor pending twice, by id and by URL; what a request was told exists or
was deleted. The unique constraint makes a second inserter wait, and the proof
shows that this, with normalisation, is all `OneFeedPerResource` needs.

**Lifespan.** `TickIsBounded` is a statement about greedy scheduling. With `d` left
of the bound, `d = a * FetchTime + b`, each permit that is free within `b` takes
`a` more fetches and any other `a - 1`; `Fits` says the waiting fetches are no more
than that, and it is inductive because time passes only when no permit is free
or no fetch waits. `DrainInv` sets the bound against the drain, `OrderInv` says
which loops are gone at each stage of the shutdown. `ClosedLast` needs both: a
fetch is unwinding only if its gather was cancelled (`LoopInv`), and by `DrainInv`
that happens to late ticks only.

Each inductive invariant was checked by TLC on an instance before it was proved.

Only model-checked: the liveness properties (`DueIsFetched`, `ClaimIsReleased`,
`ExpiredAreSwept`, `ShutdownEnds`, `LoopsGoOn`, `RequestsEnd`), which are out of the
prover's reach.

## 7. Plan

Done: all modules above and the proofs of section 6. What may still be added are
statements that go beyond the runs: what a reactivation under a fetch can and
cannot do (`StepsAreAtomic` and `NoStarvation` except it), and the bound of a
sweep's backlog under LIMIT.

## 8. What is not modelled

- SSRF guard: which addresses are blocked is a stateless table. That the guard is
  asked, and what its refusal does, is in `FetchPipeline` and `FeedRegistry`.
- Metrics, but for the collector loop and the gauge of fetches in flight:
  counters nothing reads back, queries that change nothing.
- Schemas, error bodies, middleware, routing, logging: shapes and text.
- Migrations as such: the constraints of the schema are in the models.
- Parsing of feeds, cursor encoding: inputs of the models (documents, ids); the
  fields a cursor carries are modelled, their base64 form is not. Headers and
  URLs are modelled by form and value.
- Rate limiting and the API key: in front of the handlers, before any state.
- Scripts and container files.
