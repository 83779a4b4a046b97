------------------------------ MODULE Lifespan ------------------------------
(***************************************************************************)
(* One worker process in time: the three background loops main.lifespan     *)
(* starts, the fetches of a scheduler tick behind their semaphore, and the  *)
(* shutdown that drains the loops one after the other and then closes the   *)
(* HTTP client and the engine.                                              *)
(*                                                                         *)
(* Time is counted down: every timer is what is left of it, and time passes *)
(* only while no timer that must act has run out.  A healthy fetch ends     *)
(* within FetchTime; DNS, a connection from the pool and the database are   *)
(* not under the fetch budget, so a fetch may also overrun, and a statement *)
(* may hang.                                                                *)
(***************************************************************************)
EXTENDS Integers, FiniteSets

CONSTANTS
  Enabled,           \* the loops the settings enable, the collector among them
  Batch,             \* settings.fetch_claim_batch_size
  Concurrency,       \* settings.fetch_concurrency
  FetchTime,         \* longest _process_feed of a healthy process
  ClaimTime,         \* longest claim of a healthy process
  SweepTime,         \* longest retention sweep
  CollectTime,       \* longest metrics collection
  FetchInterval,     \* settings.fetch_interval_seconds
  SweepInterval,     \* settings.retention_sweep_interval_seconds
  CollectInterval,   \* run_collector's interval_seconds
  BackoffCap,        \* the 300 seconds of the loops' error backoff
  Drain,             \* settings.shutdown_drain_seconds
  CollectorDrain,    \* the 5 seconds of the last drain
  MaxErrors,         \* bound: failed iterations in a row
  MaxFaults          \* bound: overruns and fetches that raise

Loops == {"scheduler", "retention", "collector"}

\* ceil(claim_batch_size / fetch_concurrency)
Waves == (Batch + Concurrency - 1) \div Concurrency
TickBound == ClaimTime + Waves * FetchTime

\* The sizing of config.py: a worst-case tick fits into the drain.
ASSUME LifespanAssumption ==
  /\ "collector" \in Enabled /\ Enabled \subseteq Loops
  /\ Batch \in Nat \ {0} /\ Concurrency \in Nat \ {0}
  /\ \A t \in {FetchTime, ClaimTime, SweepTime, CollectTime, FetchInterval,
               SweepInterval, CollectInterval, BackoffCap, CollectorDrain} : t \in Nat \ {0}
  /\ Drain \in Nat /\ TickBound < Drain
  /\ MaxErrors \in Nat /\ MaxFaults \in Nat

VARIABLES
  life,       \* "serving", the loop whose drain is under way, or "closed"
  drainLeft,  \* what is left of that drain
  stop,       \* loops whose stop event is set
  loop,       \* loop[l]: what loop l is doing
  left,       \* left[l]: what is left of its sleep or of its query
  errors,     \* errors[l]: consecutive_errors
  tick,       \* the gather of the tick under way
  orphans,    \* what a gather that raised has left running
  unwinding,  \* cancelled fetches still closing their stream and session
  inflight,   \* SCHEDULER_INFLIGHT_FETCHES
  tickAge,    \* history: time since the tick under way started, up to TickBound + 1
  late,       \* history: a fetch has overrun
  raised,     \* history: a fetch has raised into its gather
  lost,       \* history: a claimed feed's fetch was cancelled
  faults

lifeVars == <<life, drainLeft, stop>>
loopVars == <<loop, left, errors>>
tickVars == <<tick, orphans, unwinding, inflight, tickAge>>
history == <<late, raised, lost, faults>>
vars == <<lifeVars, loopVars, tickVars, history>>

Permits == 1..Concurrency
Free == -1

\* A gather: feeds waiting for a permit of its own semaphore, and per permit
\* what is left of the fetch that holds it.
Gather == [waiting : 0..Batch, permit : [Permits -> Free..FetchTime]]
NoGather == [waiting |-> 0, permit |-> [p \in Permits |-> Free]]

Flying(g) == {p \in Permits : g.permit[p] # Free}
Ongoing(g) == g # NoGather

TypeOK ==
  /\ life \in {"serving", "closed"} \cup Loops
  /\ drainLeft \in 0..Drain \cup 0..CollectorDrain
  /\ stop \subseteq Loops
  /\ loop \in [Loops -> {"off", "querying", "fetching", "hung", "asleep", "ended"}]
  /\ left \in [Loops -> Nat]
  /\ errors \in [Loops -> 0..MaxErrors]
  /\ tick \in Gather /\ orphans \in Gather
  /\ unwinding \subseteq Permits
  /\ inflight \in Nat
  /\ tickAge \in 0..(TickBound + 1)
  /\ late \in BOOLEAN /\ raised \in BOOLEAN /\ lost \in BOOLEAN
  /\ faults \in 0..MaxFaults

QueryTime == [scheduler |-> ClaimTime, retention |-> SweepTime, collector |-> CollectTime]
Interval == [scheduler |-> FetchInterval, retention |-> SweepInterval,
             collector |-> CollectInterval]

\* create_task for each enabled loop.
Init ==
  /\ life = "serving"
  /\ drainLeft = 0
  /\ stop = {}
  /\ loop = [l \in Loops |-> IF l \in Enabled THEN "querying" ELSE "off"]
  /\ left = QueryTime
  /\ errors = [l \in Loops |-> 0]
  /\ tick = NoGather
  /\ orphans = NoGather
  /\ unwinding = {}
  /\ inflight = 0
  /\ tickAge = 0
  /\ late = FALSE /\ raised = FALSE /\ lost = FALSE
  /\ faults = 0
-----------------------------------------------------------------------------
(* The loops: scheduler.run, retention.run, metrics.run_collector *)

AtMost(a, b) == IF a <= b THEN a ELSE b

\* The timeout of the wait on the stop event after k errors in a row.
Timeout(l, k) ==
  IF k = 0 \/ l = "collector" THEN Interval[l]
  ELSE AtMost(Interval[l] * 2^AtMost(k - 1, 5), BackoffCap)

\* An iteration of l is over, with k errors in a row.
Sleep(l, k) ==
  /\ loop' = [loop EXCEPT ![l] = "asleep"]
  /\ left' = [left EXCEPT ![l] = Timeout(l, k)]
  /\ errors' = [errors EXCEPT ![l] = k]

\* The wait times out and the next iteration starts.
Wake(l) ==
  /\ loop[l] = "asleep"
  /\ left[l] = 0
  /\ l \notin stop
  /\ loop' = [loop EXCEPT ![l] = "querying"]
  /\ left' = [left EXCEPT ![l] = QueryTime[l]]
  /\ tickAge' = IF l = "scheduler" THEN 0 ELSE tickAge
  /\ UNCHANGED <<lifeVars, errors, tick, orphans, unwinding, inflight, history>>

\* The stop event ends the wait and the loop.
Exit(l) ==
  /\ loop[l] = "asleep"
  /\ l \in stop
  /\ loop' = [loop EXCEPT ![l] = "ended"]
  /\ UNCHANGED <<lifeVars, left, errors, tickVars, history>>

\* The sweep or the collection is done.
FinishQuery(l) ==
  /\ l # "scheduler"
  /\ loop[l] = "querying"
  /\ Sleep(l, 0)
  /\ UNCHANGED <<lifeVars, tickVars, history>>

\* Mutant of FailQuery: the exception is not caught.
FailQueryFatal(l) ==
  /\ loop[l] = "querying"
  /\ errors[l] < MaxErrors
  /\ loop' = [loop EXCEPT ![l] = "ended"]
  /\ UNCHANGED <<lifeVars, left, errors, tickVars, history>>

\* It raises. The loops log and go on; the collector does not count.
FailQuery(l) ==
  /\ loop[l] = "querying"
  /\ IF l = "collector" THEN Sleep(l, 0)
     ELSE errors[l] < MaxErrors /\ Sleep(l, errors[l] + 1)
  /\ UNCHANGED <<lifeVars, tickVars, history>>

\* It does not come back: neither the engine nor the loops limit a statement.
Hang(l) ==
  /\ loop[l] = "querying"
  /\ faults < MaxFaults
  /\ faults' = faults + 1
  /\ late' = (late \/ l = "scheduler")
  /\ loop' = [loop EXCEPT ![l] = "hung"]
  /\ UNCHANGED <<lifeVars, left, errors, tickVars, raised, lost>>
-----------------------------------------------------------------------------
(* A tick: scheduler.tick_once *)

\* The claim commits n feeds; none, and the tick is over.
FinishClaim(n) ==
  /\ loop["scheduler"] = "querying"
  /\ IF n = 0 THEN Sleep("scheduler", 0)
     ELSE /\ loop' = [loop EXCEPT !["scheduler"] = "fetching"]
          /\ UNCHANGED <<left, errors>>
  /\ tick' = [NoGather EXCEPT !.waiting = n]
  /\ UNCHANGED <<lifeVars, orphans, unwinding, inflight, tickAge, history>>

\* A waiting feed gets permit p, its session and its place in the gauge.
Acquired(g, p) ==
  [waiting |-> g.waiting - 1, permit |-> [g.permit EXCEPT ![p] = FetchTime]]

Released(g, p) == [g EXCEPT !.permit[p] = Free]

\* Mutant of CanAcquire: the semaphore is built for one fetch.
CanAcquireSerial(g, p) == g.waiting > 0 /\ Flying(g) = {} /\ g.permit[p] = Free

CanAcquire(g, p) == g.waiting > 0 /\ g.permit[p] = Free

StartFetch(p) ==
  /\ CanAcquire(tick, p)
  /\ tick' = Acquired(tick, p)
  /\ inflight' = inflight + 1
  /\ UNCHANGED <<lifeVars, loopVars, orphans, unwinding, tickAge, history>>

\* Mutant of EndFetch: the gauge goes down in the except branch as well.
EndFetchTwice(p) ==
  /\ p \in Flying(tick)
  /\ tick' = Released(tick, p)
  /\ inflight' \in {inflight - 1, inflight - 2}
  /\ IF Ongoing(tick') THEN UNCHANGED loopVars ELSE Sleep("scheduler", 0)
  /\ UNCHANGED <<lifeVars, orphans, unwinding, tickAge, history>>

\* _process_feed returns, True or False; the last one ends the tick. Its finally
\* takes it out of the gauge, then its session is closed and its permit given
\* back: one step here.
EndFetch(p) ==
  /\ p \in Flying(tick)
  /\ tick' = Released(tick, p)
  /\ inflight' = inflight - 1
  /\ IF Ongoing(tick') THEN UNCHANGED loopVars ELSE Sleep("scheduler", 0)
  /\ UNCHANGED <<lifeVars, orphans, unwinding, tickAge, history>>

\* Its rollback raises as well, out of _process_feed and into the gather. That
\* fails the tick at once and leaves the other fetches running on their own.
\* Bound: one group of orphans at a time.
RaiseFetch(p) ==
  /\ p \in Flying(tick)
  /\ ~Ongoing(orphans)
  /\ errors["scheduler"] < MaxErrors
  /\ faults < MaxFaults
  /\ faults' = faults + 1
  /\ raised' = TRUE
  /\ orphans' = Released(tick, p)
  /\ tick' = NoGather
  /\ inflight' = inflight - 1
  /\ Sleep("scheduler", errors["scheduler"] + 1)
  /\ UNCHANGED <<lifeVars, unwinding, tickAge, late, lost>>

\* The orphans' semaphore goes on handing out permits.
OrphanStarts(p) ==
  /\ CanAcquire(orphans, p)
  /\ orphans' = Acquired(orphans, p)
  /\ inflight' = inflight + 1
  /\ UNCHANGED <<lifeVars, loopVars, tick, unwinding, tickAge, history>>

OrphanEnds(p) ==
  /\ p \in Flying(orphans)
  /\ orphans' = Released(orphans, p)
  /\ inflight' = inflight - 1
  /\ UNCHANGED <<lifeVars, loopVars, tick, unwinding, tickAge, history>>

\* What a fetch waits for outside its budget takes longer than planned, once or
\* again and again: one fault, since a stalled database delays every fetch.
Overrun(p) ==
  /\ tick.permit[p] = 0
  /\ late \/ faults < MaxFaults
  /\ faults' = IF late THEN faults ELSE faults + 1
  /\ late' = TRUE
  /\ tick' = [tick EXCEPT !.permit[p] = FetchTime]
  /\ UNCHANGED <<lifeVars, loopVars, orphans, unwinding, inflight, tickAge, raised, lost>>
-----------------------------------------------------------------------------
(* Shutdown: main.lifespan and main._drain_background_task *)

After == [scheduler |-> "retention", retention |-> "collector", collector |-> "closed"]

\* The drain of l starts, or what is left when there is none: closing.
StartDrain(l) ==
  /\ life' = l
  /\ stop' = IF l \in Enabled THEN stop \cup {l} ELSE stop
  /\ drainLeft' = CASE l = "closed" -> 0 [] l = "collector" -> CollectorDrain [] OTHER -> Drain

Shutdown ==
  /\ life = "serving"
  /\ StartDrain("scheduler")
  /\ UNCHANGED <<loopVars, tickVars, history>>

\* The task is done, or there never was one.
Drained ==
  /\ life \in Loops
  /\ loop[life] \in {"ended", "off"}
  /\ StartDrain(After[life])
  /\ UNCHANGED <<loopVars, tickVars, history>>

\* Mutant of ForceCancel: the shutdown goes on without the task.
ForceAhead ==
  /\ life \in Loops
  /\ loop[life] \notin {"ended", "off"}
  /\ drainLeft = 0
  /\ StartDrain(After[life])
  /\ UNCHANGED <<loopVars, tickVars, history>>

\* Mutant of ForceCancel: the drain goes on waiting.
ForceNever ==
  /\ life \in Loops
  /\ drainLeft = 0
  /\ UNCHANGED vars

\* Mutant of CancelGather: cancelled fetches stay in the gauge.
CancelKeepingGauge ==
  /\ tick' = NoGather
  /\ unwinding' \in SUBSET Flying(tick)
  /\ lost' = (lost \/ Ongoing(tick))
  /\ UNCHANGED inflight

\* The task is cancelled, and with it its gather and every fetch of it. The
\* gather is over, and the task with it, as soon as one of the fetches is: those
\* that wait for a permit end at once, those in flight close their stream and
\* their session first, and all but the first of them may do so later.
CancelGather ==
  /\ tick' = NoGather
  /\ unwinding' \in SUBSET Flying(tick)
  /\ Ongoing(tick) /\ tick.waiting = 0 => unwinding' # Flying(tick)
  /\ inflight' = inflight - Cardinality(Flying(tick) \ unwinding')
  /\ lost' = (lost \/ Ongoing(tick))

\* A cancelled fetch has unwound.
Unwind(p) ==
  /\ p \in unwinding
  /\ unwinding' = unwinding \ {p}
  /\ inflight' = inflight - 1
  /\ UNCHANGED <<lifeVars, loopVars, tick, orphans, tickAge, history>>

\* Mutant of ForceCancel: the task is cancelled at once.
ForceAtOnce ==
  /\ life \in Loops
  /\ loop[life] \notin {"ended", "off"}
  /\ loop' = [loop EXCEPT ![life] = "ended"]
  /\ IF life = "scheduler" THEN CancelGather ELSE UNCHANGED <<tick, unwinding, inflight, lost>>
  /\ UNCHANGED <<lifeVars, left, errors, orphans, tickAge, late, raised, faults>>

\* The drain runs out: the task is cancelled and waited for. Leases that were
\* committed stay behind; orphans are nobody's children and are not cancelled.
ForceCancel ==
  /\ life \in Loops
  /\ loop[life] \notin {"ended", "off"}
  /\ drainLeft = 0
  /\ loop' = [loop EXCEPT ![life] = "ended"]
  /\ IF life = "scheduler" THEN CancelGather ELSE UNCHANGED <<tick, unwinding, inflight, lost>>
  /\ UNCHANGED <<lifeVars, left, errors, orphans, tickAge, late, raised, faults>>
-----------------------------------------------------------------------------
\* Nothing that is due now is still undone.
Settled ==
  /\ \A l \in Loops :
       /\ loop[l] = "asleep" => left[l] > 0 /\ l \notin stop
       /\ loop[l] = "querying" => left[l] > 0
  /\ \A p \in Permits, g \in {tick, orphans} : g.permit[p] # 0 /\ ~CanAcquire(g, p)
  /\ life \in Loops => drainLeft > 0 /\ loop[life] \notin {"ended", "off"}

Aged(g) == [g EXCEPT !.permit = [p \in Permits |-> IF @[p] > 0 THEN @[p] - 1 ELSE @[p]]]

Pass ==
  /\ life # "closed"
  /\ Settled
  /\ left' = [l \in Loops |-> IF loop[l] \in {"asleep", "querying"} THEN left[l] - 1 ELSE 0]
  /\ drainLeft' = IF life \in Loops THEN drainLeft - 1 ELSE drainLeft
  /\ tick' = Aged(tick)
  /\ orphans' = Aged(orphans)
  /\ tickAge' = IF loop["scheduler"] \in {"querying", "fetching"}
                THEN AtMost(tickAge + 1, TickBound + 1) ELSE 0
  /\ UNCHANGED <<life, stop, loop, errors, unwinding, inflight, history>>

LoopStep(l) == Wake(l) \/ Exit(l) \/ FinishQuery(l)
FetchStep(p) == StartFetch(p) \/ EndFetch(p) \/ OrphanStarts(p) \/ OrphanEnds(p)

Next ==
  \/ \E l \in Loops : LoopStep(l) \/ FailQuery(l) \/ Hang(l)
  \/ \E n \in 0..Batch : FinishClaim(n)
  \/ \E p \in Permits : FetchStep(p) \/ RaiseFetch(p) \/ Overrun(p) \/ Unwind(p)
  \/ Shutdown \/ Drained \/ ForceCancel \/ Pass

Spec == Init /\ [][Next]_vars

\* The event loop runs what is ready, the timers of asyncio fire, and a query
\* that does not hang and a fetch end at the latest when their time is up.
Fairness ==
  /\ \A l \in Loops : WF_vars(LoopStep(l))
  /\ WF_vars(\E n \in 0..Batch : FinishClaim(n))
  /\ \A p \in Permits : WF_vars(FetchStep(p))
  /\ WF_vars(Drained) /\ WF_vars(ForceCancel) /\ WF_vars(Pass)

FairSpec == Spec /\ Fairness
-----------------------------------------------------------------------------
(* Properties *)

\* config.py, the sizing of shutdown_drain_seconds: a healthy tick, whenever the
\* stop event catches it, is never force-cancelled, so that no claimed feed is
\* left dangling until its lease expires.
HealthyTickIsDrained == lost => late

\* scheduler.tick_once: a tick of healthy fetches is over after its claim and
\* one fetch time per wave of permits. Scheduler's TickBudget rests on this.
TickIsBounded ==
  loop["scheduler"] \in {"querying", "fetching"} /\ ~late => tickAge <= TickBound

\* main.lifespan: the client and the engine are closed after every loop has
\* ended. A fetch outlives them in two cases only: as the orphan of a gather a
\* fetch has raised into, or as a fetch that was cancelled because it, or
\* another of its tick, was late, and still has its stream and session to close.
ClosedLast ==
  life = "closed" => /\ \A l \in Loops : loop[l] \in {"ended", "off"}
                     /\ ~Ongoing(tick)
                     /\ Ongoing(orphans) => raised
                     /\ unwinding # {} => late

\* scheduler._process_feed: the gauge is the number of fetches under way,
\* through cancellations and fetches that raise, those that outlive their
\* gather included; it exceeds fetch_concurrency only by orphans.
GaugeIsExact ==
  /\ inflight = Cardinality(Flying(tick)) + Cardinality(Flying(orphans)) + Cardinality(unwinding)
  /\ inflight > Concurrency => raised

\* main._drain_background_task: a shutdown comes to its end whatever the loops
\* are doing, a statement that never returns included.
ShutdownEnds == life = "scheduler" ~> life = "closed"

\* scheduler.run, retention.run, run_collector: while the process serves, no
\* iteration, failed or not, is the last one, unless it hangs.
LoopsGoOn ==
  \A l \in Enabled : []<>(loop[l] \in {"querying", "hung"} \/ life # "serving")
=============================================================================
