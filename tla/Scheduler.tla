----------------------------- MODULE Scheduler ------------------------------
(***************************************************************************)
(* The feeds table used as a queue.  Several worker processes run          *)
(* scheduler.tick_once against one Postgres: each tick claims a batch of    *)
(* due feeds under row locks, commits the lease, then fetches every claimed *)
(* feed in a session of its own.  API requests create, delete and           *)
(* reactivate feeds at the same time, and a worker may crash anywhere.      *)
(*                                                                         *)
(* A session loads the row it works on without a lock and commits much      *)
(* later; the ORM then writes only the columns that differ from what it     *)
(* loaded (Merged).  Row locks are those of claims between execution and    *)
(* commit; every other writer of a locked row waits.                        *)
(*                                                                         *)
(* Feed ids come from a sequence and are never reused: a feed is born once, *)
(* live until deleted.                                                      *)
(***************************************************************************)
EXTENDS FeedLifecycle, FiniteSets

CONSTANTS
  Workers,           \* worker processes
  Feeds,             \* feed ids
  InitialFeeds,      \* the feeds registered before the workers start
  BatchSize,         \* settings.fetch_claim_batch_size
  Concurrency,       \* settings.fetch_concurrency
  TickBudget,        \* longest time from a tick's start to its last commit
  Skew,              \* how far a process clock may be from the database clock
  MaxClock,          \* bound: the last instant of a behaviour
  MaxReactivations,  \* bound: reactivate requests
  MaxFaults          \* bound: crashes and failed claims

ASSUME SchedulerAssumption ==
  /\ InitialFeeds \subseteq Feeds
  /\ IsFiniteSet(Feeds)
  /\ BatchSize \in Nat \ {0}
  /\ Concurrency \in Nat \ {0}
  /\ TickBudget \in Nat
  /\ Skew \in Nat
  /\ MaxClock \in Nat
  /\ MaxReactivations \in Nat
  /\ MaxFaults \in Nat

\* The sizing rule of config.py, with clock skew (docs/spec/resilience.md
\* requires it to be small against the TTL): a lease outlives the tick that
\* took it, on whatever clock it is read.
ASSUME LeaseAssumption ==
  /\ TickBudget + 2 * Skew < ClaimTTL
  /\ TickBudget + 2 * Skew <= ProbeInterval

VARIABLES
  db,             \* db[f]: the committed row of f, if f is live
  born,           \* ids handed out by the sequence
  live,           \* feeds that have a row
  phase,          \* phase[w]: where worker w is in its tick
  now,            \* now[w]: the instant tick_once read when it started, or 0
  startedAt,      \* startedAt[w]: the true time of that moment, or 0
  locked,         \* locked[w]: rows locked by w's uncommitted claim
  held,           \* held[w]: claimed feeds whose _process_feed has not ended
  loaded,         \* loaded[w]: the ones that hold a semaphore permit
  snap,           \* snap[w][f]: the row w's session loaded for f
  api,            \* feeds with a reactivate request between SELECT and UPDATE
  apiRow,         \* apiRow[f]: the row that request loaded
  clock,          \* the database clock
  reactivations, faults,
  overlapped      \* history: held feeds that were reactivated while held

dbVars == <<db, born, live>>
workerVars == <<phase, now, startedAt, locked, held, loaded, snap>>
apiVars == <<api, apiRow, reactivations>>
vars == <<dbVars, workerVars, apiVars, clock, faults, overlapped>>

NoRow == NewFeed(0, 0)
NoRows == [f \in Feeds |-> NoRow]

TypeOK ==
  /\ db \in [Feeds -> Feed]
  /\ born \subseteq Feeds
  /\ live \subseteq born
  /\ phase \in [Workers -> {"idle", "ticking", "claiming", "fetching", "down"}]
  /\ now \in [Workers -> Nat]
  /\ startedAt \in [Workers -> Nat]
  /\ locked \in [Workers -> SUBSET Feeds]
  /\ held \in [Workers -> SUBSET Feeds]
  /\ loaded \in [Workers -> SUBSET Feeds]
  /\ snap \in [Workers -> [Feeds -> Feed]]
  /\ api \subseteq Feeds
  /\ apiRow \in [Feeds -> Feed]
  /\ clock \in Nat
  /\ reactivations \in Nat
  /\ faults \in Nat
  /\ overlapped \subseteq Feeds

Init ==
  /\ db = [f \in Feeds |-> IF f \in InitialFeeds THEN NewFeed(Skew, Skew) ELSE NoRow]
  /\ born = InitialFeeds
  /\ live = InitialFeeds
  /\ phase = [w \in Workers |-> "idle"]
  /\ now = [w \in Workers |-> 0]
  /\ startedAt = [w \in Workers |-> 0]
  /\ locked = [w \in Workers |-> {}]
  /\ held = [w \in Workers |-> {}]
  /\ loaded = [w \in Workers |-> {}]
  /\ snap = [w \in Workers |-> NoRows]
  /\ api = {}
  /\ apiRow = NoRows
  /\ clock = Skew
  /\ reactivations = 0
  /\ faults = 0
  /\ overlapped = {}

\* What a process may read as the current time.
Readings == (clock - Skew)..(clock + Skew)

Holders(f) == {w \in Workers : f \in held[w]}
RowLocked(f) == \E w \in Workers : f \in locked[w]
Busy(w) == phase[w] \in {"ticking", "claiming", "fetching"}

\* Worker w goes on to phase p. The locals of tick_once do not outlive a tick.
GoTo(w, p) ==
  /\ phase' = [phase EXCEPT ![w] = p]
  /\ now' = [now EXCEPT ![w] = IF p \in {"idle", "down"} THEN 0 ELSE @]
  /\ startedAt' = [startedAt EXCEPT ![w] = IF p \in {"idle", "down"} THEN 0 ELSE @]
-----------------------------------------------------------------------------
(* The claim *)

StartTick(w) ==
  /\ phase[w] = "idle"
  /\ phase' = [phase EXCEPT ![w] = "ticking"]
  /\ \E t \in Readings : now' = [now EXCEPT ![w] = t]
  /\ startedAt' = [startedAt EXCEPT ![w] = clock]
  /\ UNCHANGED <<dbVars, locked, held, loaded, snap, apiVars, clock, faults, overlapped>>

\* Mutant of Eligible: no FOR UPDATE SKIP LOCKED.
EligibleUnlocked(w) == {f \in live : Claimable(db[f], now[w])}

\* Mutant of Eligible: dead feeds are never probed.
EligibleNotDead(w) ==
  {f \in live : Claimable(db[f], now[w]) /\ ~RowLocked(f) /\ db[f].status # "dead"}

\* The rows the SELECT may return: SKIP LOCKED passes over locked ones.
Eligible(w) == {f \in live : Claimable(db[f], now[w]) /\ ~RowLocked(f)}

\* Mutant of Batches: no ORDER BY.
BatchesUnordered(w) ==
  {S \in SUBSET Eligible(w) :
     Cardinality(S) = Smaller(BatchSize, Cardinality(Eligible(w)))}

\* ORDER BY next_fetch_at LIMIT claim_batch_size; ties in any order.
Batches(w) ==
  {S \in SUBSET Eligible(w) :
     /\ Cardinality(S) = Smaller(BatchSize, Cardinality(Eligible(w)))
     /\ \A f \in S, g \in Eligible(w) \ S : db[f].next_fetch_at <= db[g].next_fetch_at}

ClaimExecute(w) ==
  /\ phase[w] = "ticking"
  /\ GoTo(w, "claiming")
  /\ \E S \in Batches(w) : locked' = [locked EXCEPT ![w] = S]
  /\ UNCHANGED <<dbVars, held, loaded, snap, apiVars, clock, faults, overlapped>>

\* The lease becomes visible and the row locks are gone; an empty claim ends
\* the tick.
ClaimCommit(w) ==
  /\ phase[w] = "claiming"
  /\ db' = [f \in Feeds |-> IF f \in locked[w] THEN Leased(db[f], now[w]) ELSE db[f]]
  /\ GoTo(w, IF locked[w] = {} THEN "idle" ELSE "fetching")
  /\ held' = [held EXCEPT ![w] = locked[w]]
  /\ locked' = [locked EXCEPT ![w] = {}]
  /\ UNCHANGED <<born, live, loaded, snap, apiVars, clock, faults, overlapped>>

\* The database fails the claim: rolled back, and run swallows the exception.
ClaimError(w) ==
  /\ phase[w] \in {"ticking", "claiming"}
  /\ faults < MaxFaults
  /\ faults' = faults + 1
  /\ GoTo(w, "idle")
  /\ locked' = [locked EXCEPT ![w] = {}]
  /\ UNCHANGED <<dbVars, held, loaded, snap, apiVars, clock, overlapped>>
-----------------------------------------------------------------------------
(* The fetches of a tick: _process_feed *)

\* Mutant of EndFetch: the feed is put back at the end of the tick's own queue.
EndFetchRequeues(w, f) ==
  /\ loaded' = [loaded EXCEPT ![w] = @ \ {f}]
  /\ snap' = [snap EXCEPT ![w][f] = NoRow]
  /\ UNCHANGED <<held, phase, now, startedAt, overlapped>>

\* _process_feed of f ends: the permit is released, and the last one of the
\* gather ends the tick. A feed nobody holds any more is no longer overlapped.
EndFetch(w, f) ==
  /\ held' = [held EXCEPT ![w] = @ \ {f}]
  /\ loaded' = [loaded EXCEPT ![w] = @ \ {f}]
  /\ snap' = [snap EXCEPT ![w][f] = NoRow]
  /\ GoTo(w, IF held[w] = {f} THEN "idle" ELSE "fetching")
  /\ overlapped' = IF Holders(f) = {w} THEN overlapped \ {f} ELSE overlapped

\* A permit is free and the session loads the row.
LoadFeed(w, f) ==
  /\ f \in held[w] \ loaded[w]
  /\ Cardinality(loaded[w]) < Concurrency
  /\ f \in live
  /\ loaded' = [loaded EXCEPT ![w] = @ \cup {f}]
  /\ snap' = [snap EXCEPT ![w][f] = db[f]]
  /\ UNCHANGED <<dbVars, phase, now, startedAt, locked, held, apiVars, clock, faults, overlapped>>

\* The feed was deleted after it was claimed: nothing to do.
LoadNothing(w, f) ==
  /\ f \in held[w] \ loaded[w]
  /\ Cardinality(loaded[w]) < Concurrency
  /\ f \notin live
  /\ EndFetch(w, f)
  /\ UNCHANGED <<dbVars, locked, apiVars, clock, faults>>

\* The UPDATE the ORM flushes: the columns where the session's object differs
\* from what it loaded, over whatever the row holds by now.
Merged(row, seen, mine) ==
  [c \in DOMAIN row |-> IF mine[c] = seen[c] THEN row[c] ELSE mine[c]]

\* Mutant of FinishFetch: the fetch reads the clock again.
FinishFetchLate(w, f) ==
  /\ f \in loaded[w]
  /\ f \in live
  /\ ~RowLocked(f)
  /\ \E t \in Readings, r \in Responses(snap[w][f]), weekly \in WeeklyCounts, jitter \in Jitters :
       db' = [db EXCEPT ![f] = Merged(@, snap[w][f], FetchOne(snap[w][f], t, r, weekly, jitter))]
  /\ EndFetch(w, f)
  /\ UNCHANGED <<born, live, locked, apiVars, clock, faults>>

\* fetch_one ends and the session commits, on a row nobody has locked.
FinishFetch(w, f) ==
  /\ f \in loaded[w]
  /\ f \in live
  /\ ~RowLocked(f)
  /\ \E r \in Responses(snap[w][f]), weekly \in WeeklyCounts, jitter \in Jitters :
       db' = [db EXCEPT ![f] =
                Merged(@, snap[w][f], FetchOne(snap[w][f], now[w], r, weekly, jitter))]
  /\ EndFetch(w, f)
  /\ UNCHANGED <<born, live, locked, apiVars, clock, faults>>

\* The session ends in a rollback: the row vanished under it, or the database
\* refused a statement. The lease stays.
AbortFetch(w, f) ==
  /\ f \in loaded[w]
  /\ EndFetch(w, f)
  /\ UNCHANGED <<dbVars, locked, apiVars, clock, faults>>
-----------------------------------------------------------------------------
(* Crashes *)

\* The process dies, or its shutdown drain runs out and cancels the tick.
\* Postgres rolls back what was not committed; leases stay.
Crash(w) ==
  /\ phase[w] # "down"
  /\ faults < MaxFaults
  /\ faults' = faults + 1
  /\ GoTo(w, "down")
  /\ locked' = [locked EXCEPT ![w] = {}]
  /\ held' = [held EXCEPT ![w] = {}]
  /\ loaded' = [loaded EXCEPT ![w] = {}]
  /\ snap' = [snap EXCEPT ![w] = NoRows]
  /\ overlapped' = {f \in overlapped : Holders(f) # {w}}
  /\ UNCHANGED <<dbVars, apiVars, clock>>

Restart(w) ==
  /\ phase[w] = "down"
  /\ GoTo(w, "idle")
  /\ UNCHANGED <<dbVars, locked, held, loaded, snap, apiVars, clock, faults, overlapped>>
-----------------------------------------------------------------------------
(* The API *)

\* POST /v1/feeds for a URL that is not registered.
CreateFeed(f) ==
  /\ f \notin born
  /\ born' = born \cup {f}
  /\ live' = live \cup {f}
  /\ \E t \in Readings : db' = [db EXCEPT ![f] = NewFeed(clock, t)]
  /\ UNCHANGED <<workerVars, apiVars, clock, faults, overlapped>>

DeleteFeed(f) ==
  /\ f \in live
  /\ ~RowLocked(f)
  /\ live' = live \ {f}
  /\ db' = [db EXCEPT ![f] = NoRow]
  /\ UNCHANGED <<born, workerVars, apiVars, clock, faults, overlapped>>

\* reactivate_feed's SELECT.
ReactivateLoad(f) ==
  /\ f \in live \ api
  /\ reactivations < MaxReactivations
  /\ reactivations' = reactivations + 1
  /\ api' = api \cup {f}
  /\ apiRow' = [apiRow EXCEPT ![f] = db[f]]
  /\ UNCHANGED <<dbVars, workerVars, clock, faults, overlapped>>

\* Its UPDATE and commit. next_fetch_at is a fresh timestamp and always
\* written; a row that vanished meanwhile makes the request fail.
ReactivateWrite(f) ==
  /\ f \in api
  /\ ~RowLocked(f)
  /\ api' = api \ {f}
  /\ apiRow' = [apiRow EXCEPT ![f] = NoRow]
  /\ IF f \in live
     THEN \E t \in Readings :
            LET mine == Reactivated(apiRow[f], t)
            IN  db' = [db EXCEPT ![f] =
                         [Merged(@, apiRow[f], mine) EXCEPT !.next_fetch_at = t]]
     ELSE db' = db
  /\ overlapped' = IF f \in live /\ Holders(f) # {} THEN overlapped \cup {f} ELSE overlapped
  /\ UNCHANGED <<born, live, workerVars, reactivations, clock, faults>>
-----------------------------------------------------------------------------
\* Time passes, but a tick that is under way ends within TickBudget.
Tick ==
  /\ clock < MaxClock
  /\ \A w \in Workers : Busy(w) => clock < startedAt[w] + TickBudget
  /\ clock' = clock + 1
  /\ UNCHANGED <<dbVars, workerVars, apiVars, faults, overlapped>>

FetchStep(w, f) ==
  LoadFeed(w, f) \/ LoadNothing(w, f) \/ FinishFetch(w, f) \/ AbortFetch(w, f)

\* What worker w does on its own as long as nothing goes wrong around it.
WorkerStep(w) ==
  \/ StartTick(w) \/ ClaimExecute(w) \/ ClaimCommit(w)
  \/ \E f \in Feeds : FetchStep(w, f)

ApiStep(f) == CreateFeed(f) \/ DeleteFeed(f) \/ ReactivateLoad(f) \/ ReactivateWrite(f)

Next ==
  \/ \E w \in Workers : WorkerStep(w) \/ ClaimError(w) \/ Crash(w) \/ Restart(w)
  \/ \E f \in Feeds : ApiStep(f)
  \/ Tick

Spec == Init /\ [][Next]_vars

\* The loops keep running, a container is restarted, requests end, time passes.
Fairness ==
  /\ \A w \in Workers : WF_vars(WorkerStep(w)) /\ WF_vars(Restart(w))
  /\ \A f \in Feeds : WF_vars(ReactivateWrite(f))
  /\ WF_vars(Tick)

FairSpec == Spec /\ Fairness
-----------------------------------------------------------------------------
(* Properties *)

\* scheduler.py ("without claiming the same feed twice"): SKIP LOCKED, the
\* lease and the sizing rule together give each feed to one worker at a time,
\* through crashes, overruns up to TickBudget and clock skew. The one thing
\* that can break it is a reactivation of a feed while it is being fetched.
LeaseExclusive ==
  \A f \in Feeds \ overlapped : \A v, w \in Workers :
    f \in held[v] /\ f \in held[w] => v = w

\* _process_feed reads the row without a lock and commits up to a whole tick
\* later. Unless the feed was reactivated meanwhile, the row is still the one
\* the session loaded, so that the commit overwrites nobody's update.
SnapshotCurrent ==
  \A w \in Workers : \A f \in (loaded[w] \cap live) \ overlapped : db[f] = snap[w][f]

\* The one feed f as its atomic specification sees it.
StageOf(f) ==
  IF f \notin born THEN "absent"
  ELSE IF f \notin live THEN "deleted"
  ELSE IF Holders(f) # {} THEN "leased" ELSE "idle"

Atomic(f) == INSTANCE AtomicFeed WITH row <- db[f], stage <- StageOf(f)

\* No reactivation of f overlaps a fetch of it, and none has been overtaken by
\* one between its SELECT and its UPDATE.
Undisturbed(f) == f \notin overlapped /\ (f \in api => apiRow[f] = db[f])

\* scheduler.tick_once, fetch_one and the ORM's column-wise UPDATE: for every
\* feed that is not disturbed, the interleaved sessions of all workers act as
\* AtomicFeed does, where a fetch is one indivisible step.
StepsAreAtomic ==
  [][\A f \in Feeds : (Undisturbed(f) /\ f \notin overlapped') =>
       Atomic(f)!FeedStep \/ UNCHANGED <<db[f], StageOf(f)>>]_vars

\* scheduler.run and the claim predicate: a feed that is due, dead ones for
\* their probe included, is eventually fetched by somebody, although workers
\* crash with the lease in hand and claims fail.
DueIsFetched ==
  \A f \in Feeds :
    (f \in live /\ Claimable(db[f], clock)) ~> (Holders(f) # {} \/ f \notin live)

\* scheduler.tick_once: every claimed feed gets a permit and is let go of, even
\* one deleted while it waited, so that the gather of a tick always ends.
ClaimIsReleased ==
  \A w \in Workers, f \in Feeds : f \in held[w] ~> f \notin held[w]

\* docs/spec/feed.md: an active feed whose consecutive_failures reach the
\* threshold is broken.
ActiveBelowThreshold ==
  \A f \in live : db[f].status = "active" => db[f].consecutive_failures < BrokenThreshold
=============================================================================
