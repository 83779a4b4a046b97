--------------------------- MODULE LifespanProofs ---------------------------
(***************************************************************************)
(* One process, for any batch size, concurrency, intervals and drains that  *)
(* satisfy LifespanAssumption: the gauge is exact, a tick of healthy fetches *)
(* is over in time, a shutdown that finds one does not cancel it, and the    *)
(* resources are closed last.                                               *)
(*                                                                         *)
(* The bound of a tick is a statement about greedy scheduling. With d left   *)
(* of it, d = a * FetchTime + b, each permit that is free within b can take  *)
(* a more fetches and every other one a - 1; Fits says that the waiting      *)
(* fetches are no more than that. Time passes only when no permit is free or  *)
(* no fetch waits, which is what makes Fits inductive.                       *)
(***************************************************************************)
EXTENDS Lifespan, FiniteSetTheorems, TLAPS

\* Permits whose fetch may need more than b.
Busy(g, b) == {p \in Permits : g.permit[p] > b}

\* What waits for a permit can be fetched within d.
Fits(g, d) ==
  /\ d \in Nat
  /\ g.waiting + Cardinality(Busy(g, d % FetchTime)) <= (d \div FetchTime) * Concurrency

Gone(l) == loop[l] \in {"ended", "off"}

\* What is left of the bound of the tick under way.
TickLeft == TickBound - tickAge

LoopInv ==
  /\ \A l \in Loops : loop[l] = "off" <=> l \notin Enabled
  /\ Ongoing(tick) <=> loop["scheduler"] = "fetching"
  /\ Ongoing(orphans) => raised
  /\ unwinding # {} => lost /\ loop["scheduler"] = "ended"

\* The drains come one after the other, and none is left before its loop is.
OrderInv ==
  /\ life # "serving" /\ "scheduler" \in Enabled => "scheduler" \in stop
  /\ life \in {"retention", "collector", "closed"} => Gone("scheduler")
  /\ life \in {"collector", "closed"} => Gone("retention")
  /\ life = "closed" => Gone("collector")

GaugeInv ==
  inflight = Cardinality(Flying(tick)) + Cardinality(Flying(orphans)) + Cardinality(unwinding)

TickInv ==
  ~late => /\ loop["scheduler"] = "querying" => tickAge + left["scheduler"] <= ClaimTime
           /\ loop["scheduler"] = "fetching" => Fits(tick, TickLeft)

\* The drain of the scheduler outlasts the tick it has found.
DrainInv ==
  /\ life = "scheduler" /\ loop["scheduler"] \in {"querying", "fetching"} /\ ~late =>
       TickLeft < drainLeft
  /\ lost => late

LifeInv == TypeOK /\ LoopInv /\ OrderInv /\ GaugeInv /\ TickInv /\ DrainInv
-----------------------------------------------------------------------------
(* Constants *)

\* What config.py guarantees of the settings, in the form the provers use.
LEMMA SettingsType ==
  /\ FetchTime \in Nat \ {0} /\ ClaimTime \in Nat \ {0} /\ SweepTime \in Nat \ {0}
  /\ CollectTime \in Nat \ {0} /\ FetchInterval \in Nat \ {0} /\ SweepInterval \in Nat \ {0}
  /\ CollectInterval \in Nat \ {0} /\ BackoffCap \in Nat \ {0}
  /\ CollectorDrain \in Nat \ {0} /\ Batch \in Nat \ {0} /\ Concurrency \in Nat \ {0}
  /\ Drain \in Nat /\ MaxErrors \in Nat /\ MaxFaults \in Nat
BY LifespanAssumption

\* The waves are enough for the batch.
LEMMA WavesSuffice == Waves \in Nat /\ Batch <= Waves * Concurrency
BY SettingsType DEF Waves

\* A healthy tick has a bound, and the drain is longer.
LEMMA BoundType ==
  TickBound \in Nat /\ ClaimTime <= TickBound /\ TickBound < Drain
    /\ TickBound = ClaimTime + Waves * FetchTime
<1>1. Waves * FetchTime \in Nat
  BY WavesSuffice, SettingsType
<1> QED BY <1>1, SettingsType, LifespanAssumption DEF TickBound

\* The semaphore has Concurrency permits.
LEMMA PermitsFinite == IsFiniteSet(Permits) /\ Cardinality(Permits) = Concurrency
BY FS_Interval, SettingsType DEF Permits

\* A power of two is a natural number: it counts subsets.
LEMMA PowerType ==
  ASSUME NEW n \in Nat
  PROVE  2^n \in Nat
<1>1. IsFiniteSet(1..n) /\ Cardinality(1..n) = n
  BY FS_Interval
<1> QED BY <1>1, FS_SUBSET, FS_CardinalityType

\* The loops' backoff is a duration.
LEMMA TimeoutType ==
  ASSUME NEW l \in Loops, NEW k \in Nat
  PROVE  Timeout(l, k) \in Nat
<1>1. Interval[l] \in Nat
  BY SettingsType DEF Interval, Loops
<1>2. CASE k = 0 \/ l = "collector"
  BY <1>1, <1>2 DEF Timeout
<1>3. CASE ~(k = 0 \/ l = "collector")
  <2> DEFINE e == AtMost(k - 1, 5)
             w == 2^e
  <2>1. e \in Nat
    BY <1>3 DEF AtMost
  <2> HIDE DEF e
  <2>2. w \in Nat
    BY <2>1, PowerType
  <2> HIDE DEF w
  <2>3. Interval[l] * w \in Nat
    BY <1>1, <2>2
  <2>4. AtMost(Interval[l] * w, BackoffCap) \in Nat
    BY <2>3, SettingsType DEF AtMost
  <2> QED BY <1>3, <2>4 DEF Timeout, w, e
<1> QED BY <1>2, <1>3
-----------------------------------------------------------------------------
(* Gathers *)

\* The fetches in flight are at most one per permit.
LEMMA FlyingBound ==
  ASSUME NEW g
  PROVE  /\ IsFiniteSet(Flying(g)) /\ Cardinality(Flying(g)) \in Nat
         /\ Cardinality(Flying(g)) <= Concurrency
<1>1. Flying(g) \in SUBSET Permits
  BY DEF Flying
<1> QED BY <1>1, PermitsFinite, FS_Subset, FS_CardinalityType

\* Cancelled fetches are as many as had a permit.
LEMMA UnwindingBound ==
  ASSUME TypeOK
  PROVE  /\ IsFiniteSet(unwinding) /\ Cardinality(unwinding) \in Nat
         /\ Cardinality(unwinding) <= Concurrency
<1>1. unwinding \in SUBSET Permits
  BY DEF TypeOK
<1> QED BY <1>1, PermitsFinite, FS_Subset, FS_CardinalityType

\* At most every permit is busy.
LEMMA BusyBound ==
  ASSUME NEW g, NEW b
  PROVE  /\ IsFiniteSet(Busy(g, b)) /\ Cardinality(Busy(g, b)) \in Nat
<1>1. Busy(g, b) \in SUBSET Permits
  BY DEF Busy
<1> QED BY <1>1, PermitsFinite, FS_Subset, FS_CardinalityType

\* A gather is over when nothing waits and nothing flies.
LEMMA OngoingMeans ==
  ASSUME NEW g \in Gather
  PROVE  Ongoing(g) <=> g.waiting # 0 \/ Flying(g) # {}
BY DEF Ongoing, NoGather, Gather, Flying

\* Nothing runs in the gather of an idle loop.
LEMMA NoGatherType ==
  NoGather \in Gather /\ Flying(NoGather) = {} /\ ~Ongoing(NoGather) /\ Cardinality(Flying(NoGather)) = 0
<1>1. Free \in Free..FetchTime /\ 0 \in 0..Batch
  BY SettingsType DEF Free
<1>2. NoGather \in Gather /\ Flying(NoGather) = {} /\ ~Ongoing(NoGather)
  BY <1>1 DEF NoGather, Gather, Flying, Ongoing
<1> QED BY <1>2, FS_EmptySet

\* What a claim of n feeds starts with.
LEMMA ClaimedType ==
  ASSUME NEW n \in 0..Batch
  PROVE  LET g == [NoGather EXCEPT !.waiting = n]
         IN  g \in Gather /\ g.waiting = n /\ g.permit = NoGather.permit /\ Flying(g) = {}
               /\ Cardinality(Flying(g)) = 0 /\ (Ongoing(g) <=> n # 0)
<1> DEFINE g == [NoGather EXCEPT !.waiting = n]
<1>1. g \in Gather /\ g.waiting = n /\ g.permit = NoGather.permit
  BY NoGatherType DEF Gather
<1>2. Flying(g) = {}
  BY <1>1, NoGatherType DEF Flying
<1> QED BY <1>1, <1>2, OngoingMeans, FS_EmptySet

\* A waiting fetch gets a free permit.
LEMMA AcquiredType ==
  ASSUME NEW g \in Gather, NEW p \in Permits, CanAcquire(g, p)
  PROVE  /\ Acquired(g, p) \in Gather /\ Acquired(g, p).waiting = g.waiting - 1
         /\ Acquired(g, p).permit = [g.permit EXCEPT ![p] = FetchTime]
         /\ Cardinality(Flying(Acquired(g, p))) = Cardinality(Flying(g)) + 1
         /\ Ongoing(Acquired(g, p)) /\ Ongoing(g)
<1> DEFINE h == Acquired(g, p)
<1>1. g.waiting \in 0..Batch /\ g.permit \in [Permits -> Free..FetchTime] /\ FetchTime \in Free..FetchTime
  BY SettingsType DEF Gather, Free
<1>2. h.waiting = g.waiting - 1 /\ h.permit = [g.permit EXCEPT ![p] = FetchTime]
  BY DEF Acquired
<1>3. g.waiting - 1 \in 0..Batch
  BY <1>1, SettingsType DEF CanAcquire
<1>4. h \in Gather
  BY <1>1, <1>3 DEF Gather, Acquired
<1>5. Flying(h) = Flying(g) \cup {p} /\ p \notin Flying(g)
  BY <1>1, <1>2, SettingsType DEF Flying, CanAcquire, Free
<1>6. Cardinality(Flying(h)) = Cardinality(Flying(g)) + 1
  BY <1>5, FlyingBound, FS_AddElement
<1>7. Ongoing(h) /\ Ongoing(g)
  BY <1>1, <1>4, <1>5, OngoingMeans DEF CanAcquire
<1> QED BY <1>2, <1>4, <1>6, <1>7

\* A fetch gives its permit back.
LEMMA ReleasedType ==
  ASSUME NEW g \in Gather, NEW p \in Flying(g)
  PROVE  /\ Released(g, p) \in Gather /\ Released(g, p).waiting = g.waiting
         /\ Released(g, p).permit = [g.permit EXCEPT ![p] = Free]
         /\ Cardinality(Flying(Released(g, p))) = Cardinality(Flying(g)) - 1
         /\ Ongoing(g)
<1> DEFINE h == Released(g, p)
<1>1. p \in Permits /\ Free \in Free..FetchTime
  BY SettingsType DEF Flying, Free
<1>2. h \in Gather /\ h.waiting = g.waiting /\ h.permit = [g.permit EXCEPT ![p] = Free]
  BY <1>1 DEF Released, Gather
<1>3. Flying(h) = Flying(g) \ {p}
  BY <1>1, <1>2 DEF Flying, Gather
<1>4. Cardinality(Flying(h)) = Cardinality(Flying(g)) - 1
  BY <1>3, FlyingBound, FS_RemoveElement
<1> QED BY <1>2, <1>4, OngoingMeans

\* The passing of time starts and ends no fetch.
LEMMA AgedType ==
  ASSUME NEW g \in Gather
  PROVE  /\ Aged(g) \in Gather /\ Aged(g).waiting = g.waiting
         /\ Aged(g).permit = [p \in Permits |-> IF g.permit[p] > 0 THEN g.permit[p] - 1 ELSE g.permit[p]]
         /\ Flying(Aged(g)) = Flying(g)
         /\ Ongoing(Aged(g)) <=> Ongoing(g)
<1> DEFINE h == Aged(g)
           e == [p \in Permits |-> IF g.permit[p] > 0 THEN g.permit[p] - 1 ELSE g.permit[p]]
<1>1. e \in [Permits -> Free..FetchTime]
  BY SettingsType DEF Gather, Free
<1>2. h = [g EXCEPT !.permit = e]
  BY DEF Aged
<1>3. h \in Gather /\ h.waiting = g.waiting /\ h.permit = e
  BY <1>1, <1>2 DEF Gather
<1>4. Flying(h) = Flying(g)
  BY <1>3 DEF Flying, Gather, Free
<1> QED BY <1>3, <1>4, OngoingMeans
-----------------------------------------------------------------------------
(* Greedy scheduling *)

\* Division with remainder, and its uniqueness.
LEMMA Division ==
  ASSUME NEW d \in Nat, NEW k \in Nat \ {0}
  PROVE  d \div k \in Nat /\ d % k \in 0..(k - 1) /\ d = (d \div k) * k + (d % k)
OBVIOUS

\* Quotient and remainder are unique.
LEMMA Quotient ==
  ASSUME NEW d \in Nat, NEW k \in Nat \ {0}, NEW a \in Nat, NEW b \in 0..(k - 1), d = a * k + b
  PROVE  d \div k = a /\ d % k = b
<1>1. d \div k = a
  OBVIOUS
<1>2. d % k = b
  OBVIOUS
<1> QED BY <1>1, <1>2

\* Multiplying keeps the order.
LEMMA Monotone ==
  ASSUME NEW a \in Nat, NEW b \in Nat, NEW c \in Nat, a <= b
  PROVE  a * c <= b * c /\ a * c \in Nat /\ b * c \in Nat
OBVIOUS

\* A claim that ends in time leaves time for all its waves.
LEMMA FitsClaimed ==
  ASSUME NEW n \in 0..Batch, NEW d \in Nat, Waves * FetchTime <= d
  PROVE  Fits([NoGather EXCEPT !.waiting = n], d)
<1> DEFINE g == [NoGather EXCEPT !.waiting = n]
           a == d \div FetchTime
           b == d % FetchTime
<1>1. a \in Nat /\ b \in 0..(FetchTime - 1) /\ d = a * FetchTime + b
  BY SettingsType, Division
<1>2. g.waiting = n /\ g.permit = NoGather.permit
  BY ClaimedType
<1> HIDE DEF g, a, b
<1>3. Busy(g, b) = {}
  BY <1>1, <1>2, SettingsType DEF Busy, NoGather, Free
<1>4. Waves <= a
  <2>1. SUFFICES ASSUME a + 1 <= Waves PROVE FALSE
    BY <1>1, WavesSuffice
  <2>2. (a + 1) * FetchTime <= Waves * FetchTime
    BY <1>1, <2>1, Monotone, WavesSuffice, SettingsType
  <2>3. (a + 1) * FetchTime = a * FetchTime + FetchTime /\ a * FetchTime \in Nat
    BY <1>1, SettingsType
  <2>4. Waves * FetchTime \in Nat
    BY WavesSuffice, SettingsType
  <2> QED BY <1>1, <2>2, <2>3, <2>4, SettingsType
<1>5. n <= a * Concurrency
  <2>1. Waves * Concurrency <= a * Concurrency /\ a * Concurrency \in Nat /\ Waves * Concurrency \in Nat
    BY <1>1, <1>4, Monotone, WavesSuffice, SettingsType
  <2> QED BY <2>1, WavesSuffice, SettingsType
<1>6. Cardinality(Busy(g, b)) = 0
  BY <1>3, FS_EmptySet
<1>7. n + 0 <= a * Concurrency
  BY <1>5
<1> QED BY <1>2, <1>6, <1>7 DEF Fits, g, a, b

\* Starting a fetch on a free permit uses one of the fetches the permit can take.
LEMMA FitsAcquired ==
  ASSUME NEW g \in Gather, NEW p \in Permits, CanAcquire(g, p), NEW d, Fits(g, d)
  PROVE  Fits(Acquired(g, p), d)
<1> DEFINE h == Acquired(g, p)
           b == d % FetchTime
<1>1. d \in Nat /\ b \in 0..(FetchTime - 1) /\ d \div FetchTime \in Nat
  BY SettingsType, Division DEF Fits
<1>2. h.waiting = g.waiting - 1 /\ h.permit = [g.permit EXCEPT ![p] = FetchTime]
  BY AcquiredType
<1> HIDE DEF h, b
<1>3. Busy(h, b) = Busy(g, b) \cup {p} /\ p \notin Busy(g, b)
  BY <1>1, <1>2, SettingsType DEF Busy, CanAcquire, Free, Gather
<1>4. Cardinality(Busy(h, b)) = Cardinality(Busy(g, b)) + 1
  BY <1>3, BusyBound, FS_AddElement
<1>5. h.waiting + Cardinality(Busy(h, b)) = g.waiting + Cardinality(Busy(g, b))
  BY <1>2, <1>4, BusyBound DEF Gather
<1> QED BY <1>1, <1>5 DEF Fits, h, b

\* Ending one makes room.
LEMMA FitsReleased ==
  ASSUME NEW g \in Gather, NEW p \in Flying(g), NEW d, Fits(g, d)
  PROVE  Fits(Released(g, p), d)
<1> DEFINE h == Released(g, p)
           b == d % FetchTime
<1>1. d \in Nat /\ b \in 0..(FetchTime - 1) /\ d \div FetchTime \in Nat
  BY SettingsType, Division DEF Fits
<1>2. h.waiting = g.waiting /\ h.permit = [g.permit EXCEPT ![p] = Free]
  BY ReleasedType
<1> HIDE DEF h
<1>3. Busy(h, b) \in SUBSET Busy(g, b)
  BY <1>1, <1>2, SettingsType DEF Busy, Flying, Free, Gather
<1>4. Cardinality(Busy(h, b)) <= Cardinality(Busy(g, b))
  BY <1>3, BusyBound, FS_Subset
<1>5. (d \div FetchTime) * Concurrency \in Nat /\ g.waiting \in Nat
  BY <1>1, SettingsType DEF Gather
<1> QED BY <1>1, <1>2, <1>4, <1>5, BusyBound DEF Fits, h

\* Time passes when no fetch has run out and no fetch waits for a permit that
\* is free. If the remainder is used up, either every permit is busy and each
\* loses one of the fetches it can take, or nothing waits.
LEMMA FitsAged ==
  ASSUME NEW g \in Gather, NEW d, Fits(g, d), Ongoing(g),
         \A p \in Permits : g.permit[p] # 0 /\ ~CanAcquire(g, p)
  PROVE  Fits(Aged(g), d - 1)
<1> DEFINE h == Aged(g)
           a == d \div FetchTime
           b == d % FetchTime
<1>1. a \in Nat /\ b \in 0..(FetchTime - 1) /\ d = a * FetchTime + b /\ d \in Nat
  BY SettingsType, Division DEF Fits
<1>2. g.waiting + Cardinality(Busy(g, b)) <= a * Concurrency
  BY DEF Fits
<1>3. /\ h.waiting = g.waiting /\ g.waiting \in Nat
      /\ h.permit = [p \in Permits |-> IF g.permit[p] > 0 THEN g.permit[p] - 1 ELSE g.permit[p]]
      /\ \A p \in Permits : g.permit[p] \in Free..FetchTime
  BY AgedType DEF Gather
<1>4. a * Concurrency \in Nat /\ a * FetchTime \in Nat
  BY <1>1, SettingsType
<1> HIDE DEF h, a, b
<1>5. CASE b # 0
  <2>1. d - 1 \in Nat /\ b - 1 \in 0..(FetchTime - 1) /\ d - 1 = a * FetchTime + (b - 1)
    BY <1>1, <1>4, <1>5, SettingsType
  <2>2. (d - 1) \div FetchTime = a /\ (d - 1) % FetchTime = b - 1
    BY <1>1, <2>1, Quotient, SettingsType
  <2>3. Busy(h, b - 1) = Busy(g, b)
    BY <1>1, <1>3, <1>5, SettingsType DEF Busy, Free
  <2> QED BY <1>2, <1>3, <2>1, <2>2, <2>3 DEF Fits, h
<1>6. CASE b = 0
  <2>1. Busy(g, 0) = Flying(g)
    BY <1>3, SettingsType DEF Busy, Flying, Free
  <2>2. Busy(h, FetchTime - 1) = {}
    BY <1>3, SettingsType DEF Busy, Free
  <2>3. Cardinality(Busy(h, FetchTime - 1)) = 0
    BY <2>2, FS_EmptySet
  <2>4. g.waiting # 0 \/ Flying(g) # {}
    BY OngoingMeans
  <2>5. g.waiting # 0 => Flying(g) = Permits
    BY <1>3 DEF Flying, CanAcquire
  <2>6. Cardinality(Flying(g)) > 0
    BY <2>4, <2>5, PermitsFinite, FlyingBound, FS_EmptySet, SettingsType
  <2>7. a # 0
    <3>1. SUFFICES ASSUME a = 0 PROVE FALSE
      OBVIOUS
    <3>2. a * Concurrency = 0
      BY <3>1, SettingsType
    <3> QED BY <1>2, <1>3, <1>6, <2>1, <2>6, <3>2, FlyingBound
  <2>8. a - 1 \in Nat /\ d - 1 = (a - 1) * FetchTime + (FetchTime - 1)
    BY <1>1, <1>6, <2>7, SettingsType
  <2>9. d - 1 \in Nat /\ (d - 1) \div FetchTime = a - 1 /\ (d - 1) % FetchTime = FetchTime - 1
    <3>1. FetchTime - 1 \in 0..(FetchTime - 1) /\ (a - 1) * FetchTime \in Nat
      BY <2>8, SettingsType
    <3>2. d - 1 \in Nat
      BY <2>8, <3>1, SettingsType
    <3> QED BY <2>8, <3>1, <3>2, Quotient, SettingsType
  <2>10. (a - 1) * Concurrency = a * Concurrency - Concurrency /\ (a - 1) * Concurrency \in Nat
    BY <1>1, <2>8, SettingsType
  <2>11. g.waiting <= (a - 1) * Concurrency
    <3>1. CASE g.waiting = 0
      BY <2>10, <3>1
    <3>2. CASE g.waiting # 0
      BY <1>2, <1>3, <1>4, <1>6, <2>1, <2>5, <2>10, <3>2, PermitsFinite, SettingsType
    <3> QED BY <3>1, <3>2
  <2> QED BY <1>3, <2>3, <2>9, <2>10, <2>11 DEF Fits, h
<1> QED BY <1>5, <1>6
-----------------------------------------------------------------------------
(* Every step keeps the invariant *)

LoopStates == {"off", "querying", "fetching", "hung", "asleep", "ended"}

\* The end of an iteration.
LEMMA SleepType ==
  ASSUME TypeOK, NEW l \in Loops, NEW k \in 0..MaxErrors, Sleep(l, k)
  PROVE  /\ loop' = [loop EXCEPT ![l] = "asleep"]
         /\ left' \in [Loops -> Nat] /\ errors' \in [Loops -> 0..MaxErrors]
<1>1. Timeout(l, k) \in Nat
  BY TimeoutType, SettingsType
<1> QED BY <1>1 DEF Sleep, TypeOK

\* A loop that is between two fetches changes what it does.
LEMMA LoopMoves ==
  ASSUME LifeInv, NEW l \in Loops, NEW st \in {"querying", "hung", "asleep", "ended"},
         loop[l] \in {"querying", "asleep"}, loop' = [loop EXCEPT ![l] = st],
         left' \in [Loops -> Nat], errors' \in [Loops -> 0..MaxErrors],
         tickAge' \in 0..(TickBound + 1), late' \in BOOLEAN, faults' \in 0..MaxFaults,
         UNCHANGED <<lifeVars, tick, orphans, unwinding, inflight, raised, lost>>,
         TickInv', DrainInv'
  PROVE  LifeInv'
<1>1. /\ loop' \in [Loops -> LoopStates] /\ loop'[l] = st
      /\ \A m \in Loops : m # l => loop'[m] = loop[m]
  BY DEF LifeInv, TypeOK, LoopStates
<1>2. TypeOK'
  BY <1>1 DEF LifeInv, TypeOK, lifeVars, LoopStates
<1>3. LoopInv'
  <2>1. (\A m \in Loops : loop[m] = "off" <=> m \notin Enabled)'
    BY <1>1 DEF LifeInv, LoopInv
  <2>2. (Ongoing(tick) <=> loop["scheduler"] = "fetching")'
    BY <1>1 DEF LifeInv, LoopInv, Loops
  <2> QED BY <2>1, <2>2 DEF LifeInv, LoopInv
<1>4. OrderInv'
  <2>1. \A m \in Loops : Gone(m) => Gone(m)'
    BY <1>1 DEF Gone
  <2> QED BY <2>1 DEF LifeInv, OrderInv, lifeVars, Loops
<1>5. GaugeInv'
  BY DEF LifeInv, GaugeInv
<1> QED BY <1>2, <1>3, <1>4, <1>5 DEF LifeInv

\* scheduler.run, retention.run, run_collector: a new iteration. None starts
\* for the scheduler while it is drained, because its stop event is set.
LEMMA WakeSteps ==
  ASSUME LifeInv, NEW l \in Loops, Wake(l)
  PROVE  LifeInv'
<1>1. QueryTime[l] \in Nat /\ QueryTime["scheduler"] = ClaimTime
  BY SettingsType DEF QueryTime, Loops
<1>2. left' \in [Loops -> Nat] /\ left'[l] = QueryTime[l]
  BY <1>1 DEF Wake, LifeInv, TypeOK
<1>3. tickAge' \in 0..(TickBound + 1)
  BY BoundType DEF Wake, LifeInv, TypeOK
<1>4. loop[l] # "off" /\ loop' = [loop EXCEPT ![l] = "querying"] /\ loop \in [Loops -> LoopStates]
  BY DEF Wake, LifeInv, TypeOK, LoopStates
<1>5. UNCHANGED <<lifeVars, errors, tick, orphans, unwinding, inflight, history>>
  BY DEF Wake
<1>6. CASE l = "scheduler"
  <2>1. TickInv'
    BY <1>1, <1>2, <1>4, <1>6, SettingsType DEF Wake, TickInv
  <2>2. life # "scheduler"
    BY <1>4, <1>6 DEF Wake, LifeInv, LoopInv, OrderInv
  <2>3. DrainInv'
    BY <1>5, <2>2 DEF LifeInv, DrainInv, lifeVars, history
  <2> QED BY <1>2, <1>3, <1>4, <1>5, <2>1, <2>3, LoopMoves DEF Wake, LifeInv, TypeOK, history
<1>7. CASE l # "scheduler"
  <2>1. /\ loop'["scheduler"] = loop["scheduler"] /\ left'["scheduler"] = left["scheduler"]
        /\ tickAge' = tickAge
    BY <1>4, <1>7 DEF Wake, LifeInv, TypeOK, Loops
  <2>2. TickInv' /\ DrainInv'
    BY <1>5, <2>1 DEF LifeInv, TickInv, DrainInv, Fits, Busy, TickLeft, lifeVars, history
  <2> QED BY <1>2, <1>3, <1>4, <1>5, <2>2, LoopMoves DEF Wake, LifeInv, TypeOK, history
<1> QED BY <1>6, <1>7

\* The stop event ends a loop.
LEMMA ExitSteps ==
  ASSUME LifeInv, NEW l \in Loops, Exit(l)
  PROVE  LifeInv'
<1>1. loop' = [loop EXCEPT ![l] = "ended"] /\ loop \in [Loops -> LoopStates]
  BY DEF Exit, LifeInv, TypeOK, LoopStates
<1>2. UNCHANGED <<lifeVars, left, errors, tickVars, history>>
  BY DEF Exit
<1>3. loop'["scheduler"] = loop["scheduler"] \/ loop'["scheduler"] = "ended"
  BY <1>1 DEF Loops
<1>4. TickInv' /\ DrainInv'
  BY <1>2, <1>3 DEF LifeInv, TickInv, DrainInv, Fits, Busy, TickLeft, lifeVars, history, tickVars
<1> QED BY <1>1, <1>2, <1>4, LoopMoves DEF Exit, LifeInv, TypeOK, history, tickVars

\* An iteration without a tick ends, or fails.
LEMMA QuerySteps ==
  ASSUME LifeInv, NEW l \in Loops, FinishQuery(l) \/ FailQuery(l)
  PROVE  LifeInv'
<1>1. PICK k \in 0..MaxErrors : Sleep(l, k)
  <2>1. errors[l] \in 0..MaxErrors /\ 0 \in 0..MaxErrors
    BY SettingsType DEF LifeInv, TypeOK
  <2>2. errors[l] < MaxErrors => errors[l] + 1 \in 0..MaxErrors
    BY <2>1, SettingsType
  <2> QED BY <2>1, <2>2 DEF FinishQuery, FailQuery
<1>2. /\ loop' = [loop EXCEPT ![l] = "asleep"]
      /\ left' \in [Loops -> Nat] /\ errors' \in [Loops -> 0..MaxErrors]
  BY <1>1, SleepType DEF LifeInv
<1>3. loop[l] = "querying" /\ UNCHANGED <<lifeVars, tickVars, history>> /\ loop \in [Loops -> LoopStates]
  BY DEF FinishQuery, FailQuery, LifeInv, TypeOK, LoopStates
<1>4. \/ loop'["scheduler"] = "asleep"
      \/ loop'["scheduler"] = loop["scheduler"] /\ left'["scheduler"] = left["scheduler"]
  BY <1>1, <1>2, <1>3 DEF Sleep, LifeInv, TypeOK, Loops
<1>5. TickInv' /\ DrainInv'
  BY <1>3, <1>4 DEF LifeInv, TickInv, DrainInv, Fits, Busy, TickLeft, lifeVars, history, tickVars
<1> QED BY <1>2, <1>3, <1>5, LoopMoves DEF LifeInv, TypeOK, history, tickVars

\* A statement hangs.
LEMMA HangSteps ==
  ASSUME LifeInv, NEW l \in Loops, Hang(l)
  PROVE  LifeInv'
<1>1. loop' = [loop EXCEPT ![l] = "hung"] /\ loop \in [Loops -> LoopStates]
  BY DEF Hang, LifeInv, TypeOK, LoopStates
<1>2. UNCHANGED <<lifeVars, left, errors, tickVars, raised, lost>> /\ faults' \in 0..MaxFaults
  BY SettingsType DEF Hang, LifeInv, TypeOK
<1>3. late' \in BOOLEAN /\ (late => late')
  BY Zenon DEF Hang, LifeInv, TypeOK
<1>4. loop'["scheduler"] = loop["scheduler"] \/ loop'["scheduler"] = "hung"
  BY <1>1 DEF Loops
<1>5. TickInv' /\ DrainInv'
  BY <1>2, <1>3, <1>4 DEF LifeInv, TickInv, DrainInv, Fits, Busy, TickLeft, lifeVars, tickVars
<1> QED BY <1>1, <1>2, <1>3, <1>5, LoopMoves DEF Hang, LifeInv, TypeOK, tickVars

\* tick_once: the claim commits. It has left all of its waves their time.
LEMMA FinishClaimSteps ==
  ASSUME LifeInv, NEW n \in 0..Batch, FinishClaim(n)
  PROVE  LifeInv'
<1> DEFINE g == [NoGather EXCEPT !.waiting = n]
<1>1. /\ tick' = g /\ UNCHANGED <<lifeVars, orphans, unwinding, inflight, tickAge, history>>
      /\ loop["scheduler"] = "querying"
  BY DEF FinishClaim
<1>2. g \in Gather /\ Cardinality(Flying(g)) = 0 /\ (Ongoing(g) <=> n # 0)
  BY ClaimedType
<1>3. Cardinality(Flying(tick)) = 0
  <2>1. Flying(tick) = {}
    BY <1>1, OngoingMeans DEF LifeInv, LoopInv, TypeOK
  <2> QED BY <2>1, FS_EmptySet
<1>4. /\ loop' = [loop EXCEPT !["scheduler"] = IF n = 0 THEN "asleep" ELSE "fetching"]
      /\ left' \in [Loops -> Nat] /\ errors' \in [Loops -> 0..MaxErrors]
  <2>1. "scheduler" \in Loops /\ 0 \in 0..MaxErrors
    BY SettingsType DEF Loops
  <2>2. CASE n = 0
    <3>1. Sleep("scheduler", 0)
      BY <2>2 DEF FinishClaim
    <3> QED BY <2>1, <2>2, <3>1, SleepType DEF LifeInv
  <2>3. CASE n # 0
    BY <2>3 DEF FinishClaim, LifeInv, TypeOK
  <2> QED BY <2>2, <2>3
<1>5. /\ loop' \in [Loops -> LoopStates]
      /\ loop'["scheduler"] = IF n = 0 THEN "asleep" ELSE "fetching"
      /\ \A m \in Loops : m # "scheduler" => loop'[m] = loop[m]
  BY <1>4 DEF LifeInv, TypeOK, LoopStates, Loops
<1>6. TypeOK'
  BY <1>1, <1>2, <1>4, <1>5 DEF LifeInv, TypeOK, LoopStates, lifeVars, history
<1>7. LoopInv'
  <2>1. (\A m \in Loops : loop[m] = "off" <=> m \notin Enabled)'
    BY <1>1, <1>5 DEF LifeInv, LoopInv
  <2> QED BY <1>1, <1>2, <1>5, <2>1 DEF LifeInv, LoopInv, history
<1>8. OrderInv'
  BY <1>1, <1>5 DEF LifeInv, OrderInv, Gone, lifeVars, Loops
<1>9. GaugeInv'
  BY <1>1, <1>2, <1>3 DEF LifeInv, GaugeInv
<1>10. TickInv'
  <2> SUFFICES ASSUME ~late, n # 0 PROVE Fits(g, TickLeft)
    BY <1>1, <1>5 DEF TickInv, history, TickLeft
  <2>1. tickAge \in Nat /\ tickAge <= ClaimTime
    <3>1. tickAge \in Nat /\ left["scheduler"] \in Nat
      BY BoundType DEF LifeInv, TypeOK, Loops
    <3> QED BY <1>1, <3>1, SettingsType DEF LifeInv, TickInv
  <2>2. Waves * FetchTime \in Nat
    BY WavesSuffice, SettingsType
  <2>3. TickLeft \in Nat /\ Waves * FetchTime <= TickLeft
    BY <2>1, <2>2, BoundType, SettingsType DEF TickLeft
  <2> QED BY <2>3, FitsClaimed
<1>11. DrainInv'
  BY <1>1, <1>5 DEF LifeInv, DrainInv, TickLeft, lifeVars, history
<1> QED BY <1>6, <1>7, <1>8, <1>9, <1>10, <1>11 DEF LifeInv

\* _process_feed gets its permit.
LEMMA StartFetchSteps ==
  ASSUME LifeInv, NEW p \in Permits, StartFetch(p)
  PROVE  LifeInv'
<1>1. /\ CanAcquire(tick, p) /\ tick \in Gather /\ tick' = Acquired(tick, p) /\ inflight' = inflight + 1
      /\ UNCHANGED <<lifeVars, loopVars, orphans, unwinding, tickAge, history>>
  BY DEF StartFetch, LifeInv, TypeOK
<1>2. /\ tick' \in Gather /\ Ongoing(tick') /\ Ongoing(tick)
      /\ Cardinality(Flying(tick')) = Cardinality(Flying(tick)) + 1
  BY <1>1, AcquiredType
<1>3. TypeOK'
  BY <1>1, <1>2 DEF LifeInv, TypeOK, lifeVars, loopVars, history
<1>4. LoopInv' /\ OrderInv'
  BY <1>1, <1>2 DEF LifeInv, LoopInv, OrderInv, Gone, lifeVars, loopVars, history
<1>5. GaugeInv'
  BY <1>1, <1>2, FlyingBound, UnwindingBound DEF LifeInv, GaugeInv
<1>6. TickInv'
  <2>1. Fits(tick, TickLeft) => Fits(tick', TickLeft)
    BY <1>1, FitsAcquired
  <2> QED BY <1>1, <2>1 DEF LifeInv, TickInv, loopVars, history, TickLeft
<1>7. DrainInv'
  BY <1>1 DEF LifeInv, DrainInv, TickLeft, lifeVars, loopVars, history
<1> QED BY <1>3, <1>4, <1>5, <1>6, <1>7 DEF LifeInv

\* _process_feed returns, the last one to the end of the tick.
LEMMA EndFetchSteps ==
  ASSUME LifeInv, NEW p \in Permits, EndFetch(p)
  PROVE  LifeInv'
<1>1. /\ p \in Flying(tick) /\ tick \in Gather /\ tick' = Released(tick, p) /\ inflight' = inflight - 1
      /\ UNCHANGED <<lifeVars, orphans, unwinding, tickAge, history>>
  BY DEF EndFetch, LifeInv, TypeOK
<1>2. /\ tick' \in Gather /\ Ongoing(tick)
      /\ Cardinality(Flying(tick')) = Cardinality(Flying(tick)) - 1
  BY <1>1, ReleasedType
<1>3. inflight' \in Nat /\ GaugeInv'
  BY <1>1, <1>2, FlyingBound, UnwindingBound DEF LifeInv, GaugeInv
<1>4. loop["scheduler"] = "fetching" /\ loop \in [Loops -> LoopStates]
  BY <1>2 DEF LifeInv, LoopInv, TypeOK, LoopStates
<1>5. CASE Ongoing(tick')
  <2>1. UNCHANGED loopVars
    BY <1>5 DEF EndFetch
  <2>2. TypeOK'
    BY <1>1, <1>2, <1>3, <2>1 DEF LifeInv, TypeOK, lifeVars, loopVars, history
  <2>3. LoopInv' /\ OrderInv' /\ DrainInv'
    BY <1>1, <1>2, <1>5, <2>1 DEF LifeInv, LoopInv, OrderInv, DrainInv, TickLeft, Gone,
                                  lifeVars, loopVars, history
  <2>4. Fits(tick, TickLeft) => Fits(tick', TickLeft)
    BY <1>1, FitsReleased
  <2>5. TickInv'
    BY <1>1, <2>1, <2>4 DEF LifeInv, TickInv, loopVars, history, TickLeft
  <2> QED BY <1>3, <2>2, <2>3, <2>5 DEF LifeInv
<1>6. CASE ~Ongoing(tick')
  <2>1. /\ loop' = [loop EXCEPT !["scheduler"] = "asleep"]
        /\ left' \in [Loops -> Nat] /\ errors' \in [Loops -> 0..MaxErrors]
    <3>1. Sleep("scheduler", 0) /\ "scheduler" \in Loops /\ 0 \in 0..MaxErrors
      BY <1>6, SettingsType DEF EndFetch, Loops
    <3> QED BY <3>1, SleepType DEF LifeInv
  <2>2. /\ loop' \in [Loops -> LoopStates] /\ loop'["scheduler"] = "asleep"
        /\ \A m \in Loops : m # "scheduler" => loop'[m] = loop[m]
    BY <1>4, <2>1 DEF LoopStates, Loops
  <2>3. TypeOK'
    BY <1>1, <1>2, <1>3, <2>1, <2>2 DEF LifeInv, TypeOK, LoopStates, lifeVars, history
  <2>4. LoopInv'
    <3>1. (\A m \in Loops : loop[m] = "off" <=> m \notin Enabled)'
      BY <1>4, <2>2 DEF LifeInv, LoopInv
    <3>2. unwinding = {}
      BY <1>4 DEF LifeInv, LoopInv
    <3> QED BY <1>1, <1>6, <2>2, <3>1, <3>2 DEF LifeInv, LoopInv, history
  <2>5. OrderInv' /\ DrainInv' /\ TickInv'
    BY <1>1, <1>4, <2>2 DEF LifeInv, OrderInv, DrainInv, TickInv, Gone, lifeVars, history, Loops
  <2> QED BY <1>3, <2>3, <2>4, <2>5 DEF LifeInv
<1> QED BY <1>5, <1>6

\* A fetch raises into its gather.
LEMMA RaiseFetchSteps ==
  ASSUME LifeInv, NEW p \in Permits, RaiseFetch(p)
  PROVE  LifeInv'
<1>1. /\ p \in Flying(tick) /\ tick \in Gather /\ orphans' = Released(tick, p) /\ tick' = NoGather
      /\ inflight' = inflight - 1 /\ raised' = TRUE /\ ~Ongoing(orphans)
      /\ UNCHANGED <<lifeVars, unwinding, tickAge, late, lost>>
  BY DEF RaiseFetch, LifeInv, TypeOK
<1>2. faults' \in 0..MaxFaults
  BY SettingsType DEF RaiseFetch, LifeInv, TypeOK
<1>3. /\ orphans' \in Gather /\ Ongoing(tick)
      /\ Cardinality(Flying(orphans')) = Cardinality(Flying(tick)) - 1
  BY <1>1, ReleasedType
<1>4. Cardinality(Flying(orphans)) = 0
  <2>1. Flying(orphans) = {}
    BY <1>1, OngoingMeans DEF LifeInv, TypeOK
  <2> QED BY <2>1, FS_EmptySet
<1>5. inflight' \in Nat /\ GaugeInv'
  BY <1>1, <1>3, <1>4, FlyingBound, UnwindingBound, NoGatherType DEF LifeInv, GaugeInv
<1>6. loop["scheduler"] = "fetching" /\ loop \in [Loops -> LoopStates]
  BY <1>3 DEF LifeInv, LoopInv, TypeOK, LoopStates
<1>7. /\ loop' = [loop EXCEPT !["scheduler"] = "asleep"]
      /\ left' \in [Loops -> Nat] /\ errors' \in [Loops -> 0..MaxErrors]
  <2>1. errors["scheduler"] + 1 \in 0..MaxErrors /\ "scheduler" \in Loops
    BY SettingsType DEF RaiseFetch, LifeInv, TypeOK, Loops
  <2>2. Sleep("scheduler", errors["scheduler"] + 1)
    BY DEF RaiseFetch
  <2> QED BY <2>1, <2>2, SleepType DEF LifeInv
<1>8. /\ loop' \in [Loops -> LoopStates] /\ loop'["scheduler"] = "asleep"
      /\ \A m \in Loops : m # "scheduler" => loop'[m] = loop[m]
  BY <1>6, <1>7 DEF LoopStates, Loops
<1>9. TypeOK'
  BY <1>1, <1>2, <1>3, <1>5, <1>7, <1>8, NoGatherType DEF LifeInv, TypeOK, LoopStates, lifeVars
<1>10. LoopInv'
  <2>1. (\A m \in Loops : loop[m] = "off" <=> m \notin Enabled)'
    BY <1>6, <1>8 DEF LifeInv, LoopInv
  <2>2. unwinding = {}
    BY <1>6 DEF LifeInv, LoopInv
  <2> QED BY <1>1, <1>8, <2>1, <2>2, NoGatherType DEF LoopInv
<1>11. OrderInv' /\ DrainInv' /\ TickInv'
  BY <1>1, <1>6, <1>8 DEF LifeInv, OrderInv, DrainInv, TickInv, Gone, lifeVars, Loops
<1> QED BY <1>5, <1>9, <1>10, <1>11 DEF LifeInv

\* The orphans go on.
LEMMA OrphanSteps ==
  ASSUME LifeInv, NEW p \in Permits, OrphanStarts(p) \/ OrphanEnds(p)
  PROVE  LifeInv'
<1>1. orphans \in Gather /\ UNCHANGED <<lifeVars, loopVars, tick, unwinding, tickAge, history>>
  BY DEF OrphanStarts, OrphanEnds, LifeInv, TypeOK
<1>2. /\ orphans' \in Gather /\ Ongoing(orphans) /\ inflight' \in Nat
      /\ inflight' = Cardinality(Flying(tick)) + Cardinality(Flying(orphans')) + Cardinality(unwinding)
  <2>1. CASE OrphanStarts(p)
    <3>1. CanAcquire(orphans, p) /\ orphans' = Acquired(orphans, p) /\ inflight' = inflight + 1
      BY <2>1 DEF OrphanStarts
    <3>2. /\ orphans' \in Gather /\ Ongoing(orphans)
          /\ Cardinality(Flying(orphans')) = Cardinality(Flying(orphans)) + 1
      BY <1>1, <3>1, AcquiredType
    <3> QED BY <3>1, <3>2, FlyingBound, UnwindingBound DEF LifeInv, GaugeInv
  <2>2. CASE OrphanEnds(p)
    <3>1. p \in Flying(orphans) /\ orphans' = Released(orphans, p) /\ inflight' = inflight - 1
      BY <2>2 DEF OrphanEnds
    <3>2. /\ orphans' \in Gather /\ Ongoing(orphans)
          /\ Cardinality(Flying(orphans')) = Cardinality(Flying(orphans)) - 1
      BY <1>1, <3>1, ReleasedType
    <3> QED BY <3>1, <3>2, FlyingBound, UnwindingBound DEF LifeInv, GaugeInv
  <2> QED BY <2>1, <2>2
<1>3. TypeOK'
  BY <1>1, <1>2 DEF LifeInv, TypeOK, lifeVars, loopVars, history
<1>4. LoopInv' /\ OrderInv' /\ DrainInv' /\ TickInv'
  BY <1>1, <1>2 DEF LifeInv, LoopInv, OrderInv, DrainInv, TickInv, TickLeft, Fits, Busy, Gone,
                    lifeVars, loopVars, history
<1>5. GaugeInv'
  BY <1>1, <1>2 DEF GaugeInv
<1> QED BY <1>3, <1>4, <1>5 DEF LifeInv

\* A fetch takes longer than planned: from here on nothing is promised about
\* the time of ticks.
LEMMA OverrunSteps ==
  ASSUME LifeInv, NEW p \in Permits, Overrun(p)
  PROVE  LifeInv'
<1>1. /\ tick \in Gather /\ tick.permit[p] = 0 /\ tick' = [tick EXCEPT !.permit[p] = FetchTime]
      /\ late' = TRUE /\ UNCHANGED <<lifeVars, loopVars, orphans, unwinding, inflight, tickAge, raised, lost>>
  BY DEF Overrun, LifeInv, TypeOK
<1>2. faults' \in 0..MaxFaults
  BY SettingsType DEF Overrun, LifeInv, TypeOK
<1>3. /\ tick' \in Gather /\ tick'.waiting = tick.waiting
      /\ tick'.permit = [tick.permit EXCEPT ![p] = FetchTime]
  <2>1. FetchTime \in Free..FetchTime
    BY SettingsType DEF Free
  <2> QED BY <1>1, <2>1 DEF Gather
<1>4. Flying(tick') = Flying(tick)
  BY <1>1, <1>3, SettingsType DEF Flying, Gather, Free
<1>5. Ongoing(tick') <=> Ongoing(tick)
  BY <1>1, <1>3, <1>4, OngoingMeans
<1>6. TypeOK'
  BY <1>1, <1>2, <1>3 DEF LifeInv, TypeOK, lifeVars, loopVars
<1>7. LoopInv' /\ OrderInv' /\ DrainInv' /\ TickInv' /\ GaugeInv'
  BY <1>1, <1>4, <1>5 DEF LifeInv, LoopInv, OrderInv, DrainInv, TickInv, GaugeInv, Gone,
                          lifeVars, loopVars
<1> QED BY <1>6, <1>7 DEF LifeInv

\* The shutdown begins. The drain is longer than any healthy tick.
LEMMA ShutdownSteps ==
  ASSUME LifeInv, Shutdown
  PROVE  LifeInv'
<1>1. /\ life = "serving" /\ life' = "scheduler" /\ drainLeft' = Drain
      /\ stop' = IF "scheduler" \in Enabled THEN stop \cup {"scheduler"} ELSE stop
      /\ UNCHANGED <<loopVars, tickVars, history>>
  BY DEF Shutdown, StartDrain
<1>2. TypeOK'
  BY <1>1, SettingsType DEF LifeInv, TypeOK, loopVars, tickVars, history, Loops
<1>3. LoopInv' /\ OrderInv' /\ GaugeInv'
  BY <1>1 DEF LifeInv, LoopInv, OrderInv, GaugeInv, Gone, loopVars, tickVars, history
<1>4. TickInv'
  BY <1>1 DEF LifeInv, TickInv, Fits, Busy, TickLeft, loopVars, tickVars, history
<1>5. TickLeft < Drain
  BY BoundType, SettingsType DEF LifeInv, TypeOK, TickLeft
<1>6. DrainInv'
  BY <1>1, <1>5 DEF LifeInv, DrainInv, TickLeft, loopVars, tickVars, history
<1> QED BY <1>2, <1>3, <1>4, <1>6 DEF LifeInv

\* A drained loop makes way for the next.
LEMMA DrainedSteps ==
  ASSUME LifeInv, Drained
  PROVE  LifeInv'
<1>1. /\ life \in Loops /\ Gone(life) /\ life' = After[life]
      /\ UNCHANGED <<loopVars, tickVars, history>>
  BY DEF Drained, StartDrain, Gone
<1>2. \/ life = "scheduler" /\ life' = "retention"
      \/ life = "retention" /\ life' = "collector"
      \/ life = "collector" /\ life' = "closed"
  BY <1>1 DEF After, Loops
<1>3. drainLeft' \in 0..Drain \cup 0..CollectorDrain
  <2>1. drainLeft' \in {0, CollectorDrain, Drain}
    BY <1>1, <1>2 DEF Drained, StartDrain
  <2> QED BY <2>1, SettingsType
<1>4. stop \subseteq stop' /\ stop' \subseteq Loops
  BY LifespanAssumption DEF Drained, StartDrain, LifeInv, TypeOK
<1>5. TypeOK'
  BY <1>1, <1>2, <1>3, <1>4 DEF LifeInv, TypeOK, loopVars, tickVars, history, Loops
<1>6. LoopInv' /\ GaugeInv'
  BY <1>1 DEF LifeInv, LoopInv, GaugeInv, loopVars, tickVars, history
<1>7. OrderInv'
  BY <1>1, <1>2, <1>4 DEF LifeInv, OrderInv, Gone, loopVars
<1>8. TickInv'
  BY <1>1 DEF LifeInv, TickInv, Fits, Busy, TickLeft, loopVars, tickVars, history
<1>9. DrainInv'
  BY <1>1, <1>2 DEF LifeInv, DrainInv, history
<1> QED BY <1>5, <1>6, <1>7, <1>8, <1>9 DEF LifeInv

\* A drain has run out. If it was the scheduler's and found a tick, the tick
\* was not a healthy one.
LEMMA ForceCancelSteps ==
  ASSUME LifeInv, ForceCancel
  PROVE  LifeInv'
<1>1. /\ life \in Loops /\ ~Gone(life) /\ drainLeft = 0
      /\ loop' = [loop EXCEPT ![life] = "ended"] /\ loop \in [Loops -> LoopStates]
      /\ UNCHANGED <<lifeVars, left, errors, orphans, tickAge, late, raised, faults>>
  BY DEF ForceCancel, Gone, LifeInv, TypeOK, LoopStates
<1>2. /\ loop' \in [Loops -> LoopStates] /\ loop'[life] = "ended"
      /\ \A m \in Loops : m # life => loop'[m] = loop[m]
  BY <1>1 DEF LoopStates
<1>3. (\A m \in Loops : loop[m] = "off" <=> m \notin Enabled)'
  BY <1>1, <1>2 DEF LifeInv, LoopInv, Gone
<1>4. OrderInv'
  <2>1. \A m \in Loops : Gone(m) => Gone(m)'
    BY <1>1, <1>2 DEF Gone
  <2> QED BY <1>1, <2>1 DEF LifeInv, OrderInv, lifeVars, Loops
<1>5. CASE life = "scheduler"
  <2>1. /\ tick' = NoGather /\ unwinding' \in SUBSET Flying(tick)
        /\ inflight' = inflight - Cardinality(Flying(tick) \ unwinding')
        /\ lost' = (lost \/ Ongoing(tick))
    BY <1>5 DEF ForceCancel, CancelGather
  <2>2. unwinding = {} /\ Cardinality(unwinding) = 0
    BY <1>1, <1>5, FS_EmptySet DEF LifeInv, LoopInv, Gone
  <2>3. inflight' \in Nat /\ GaugeInv'
    <3> DEFINE f == Flying(tick)
               u == unwinding'
               r == f \ u
    <3>1. IsFiniteSet(f) /\ u \in SUBSET f
      BY <2>1, FlyingBound
    <3> HIDE DEF f, u
    <3>2. /\ Cardinality(u) \in Nat /\ Cardinality(r) \in Nat
          /\ Cardinality(r) = Cardinality(f) - Cardinality(u)
      <4>1. f \cap u = u /\ IsFiniteSet(u)
        BY <3>1, FS_Subset
      <4> QED BY <3>1, <4>1, FS_Difference, FS_CardinalityType
    <3>3. inflight' = Cardinality(Flying(orphans)) + Cardinality(u) /\ inflight' \in Nat
      BY <2>1, <2>2, <3>2, FlyingBound DEF LifeInv, GaugeInv, f, u
    <3> QED BY <1>1, <2>1, <3>2, <3>3, NoGatherType, FlyingBound DEF GaugeInv, u
  <2>4. Ongoing(tick) => late
    <3>1. SUFFICES ASSUME Ongoing(tick), ~late PROVE FALSE
      OBVIOUS
    <3>2. loop["scheduler"] = "fetching"
      BY <3>1 DEF LifeInv, LoopInv
    <3>3. TickLeft \in Nat
      BY <3>1, <3>2 DEF LifeInv, TickInv, Fits
    <3>4. TickLeft < 0
      BY <1>1, <1>5, <3>1, <3>2 DEF LifeInv, DrainInv
    <3> QED BY <3>3, <3>4
  <2>5. lost' \in BOOLEAN /\ (lost' => late)
    BY <2>1, <2>4, Zenon DEF LifeInv, DrainInv
  <2>6. TypeOK'
    BY <1>1, <1>2, <2>1, <2>3, <2>5, NoGatherType DEF LifeInv, TypeOK, LoopStates, lifeVars, Flying
  <2>7. LoopInv'
    <3>1. unwinding' # {} => lost'
      BY <2>1, OngoingMeans DEF LifeInv, TypeOK
    <3> QED BY <1>1, <1>2, <1>3, <1>5, <2>1, <3>1, NoGatherType DEF LifeInv, LoopInv
  <2>8. TickInv' /\ DrainInv'
    BY <1>1, <1>2, <1>5, <2>5 DEF LifeInv, TickInv, DrainInv
  <2> QED BY <1>4, <2>3, <2>6, <2>7, <2>8 DEF LifeInv
<1>6. CASE life # "scheduler"
  <2>1. UNCHANGED <<tick, unwinding, inflight, lost>> /\ loop'["scheduler"] = loop["scheduler"]
    BY <1>2, <1>6 DEF ForceCancel, Loops
  <2>2. TypeOK'
    BY <1>1, <1>2, <2>1 DEF LifeInv, TypeOK, LoopStates, lifeVars
  <2>3. LoopInv' /\ GaugeInv'
    BY <1>1, <1>3, <2>1 DEF LifeInv, LoopInv, GaugeInv
  <2>4. TickInv' /\ DrainInv'
    BY <1>1, <1>6, <2>1 DEF LifeInv, TickInv, DrainInv, Fits, Busy, TickLeft, lifeVars
  <2> QED BY <1>4, <2>2, <2>3, <2>4 DEF LifeInv
<1> QED BY <1>5, <1>6

\* A cancelled fetch has closed its stream and its session.
LEMMA UnwindSteps ==
  ASSUME LifeInv, NEW p \in Permits, Unwind(p)
  PROVE  LifeInv'
<1>1. /\ p \in unwinding /\ unwinding' = unwinding \ {p} /\ inflight' = inflight - 1
      /\ UNCHANGED <<lifeVars, loopVars, tick, orphans, tickAge, history>>
  BY DEF Unwind
<1>2. /\ Cardinality(unwinding') = Cardinality(unwinding) - 1
      /\ Cardinality(unwinding') \in Nat
  <2>1. IsFiniteSet(unwinding) /\ IsFiniteSet(unwinding')
    BY <1>1, UnwindingBound, FS_Subset DEF LifeInv
  <2> QED BY <1>1, <2>1, FS_RemoveElement, FS_CardinalityType
<1>3. inflight' \in Nat /\ GaugeInv'
  BY <1>1, <1>2, FlyingBound, UnwindingBound DEF LifeInv, GaugeInv
<1>4. TypeOK'
  BY <1>1, <1>3 DEF LifeInv, TypeOK, lifeVars, loopVars, history
<1>5. LoopInv' /\ OrderInv' /\ DrainInv' /\ TickInv'
  BY <1>1 DEF LifeInv, LoopInv, OrderInv, DrainInv, TickInv, TickLeft, Fits, Busy, Gone,
              lifeVars, loopVars, history
<1> QED BY <1>3, <1>4, <1>5 DEF LifeInv

\* Time passes. A tick that is under way still fits, one unit later, and the
\* drain keeps its distance.
LEMMA PassSteps ==
  ASSUME LifeInv, Pass
  PROVE  LifeInv'
<1>1. /\ Settled /\ tick \in Gather /\ orphans \in Gather
      /\ tick' = Aged(tick) /\ orphans' = Aged(orphans)
      /\ UNCHANGED <<life, stop, loop, errors, unwinding, inflight, history>>
  BY DEF Pass, LifeInv, TypeOK
<1>2. /\ tick' \in Gather /\ orphans' \in Gather
      /\ Flying(tick') = Flying(tick) /\ Flying(orphans') = Flying(orphans)
      /\ Ongoing(tick') <=> Ongoing(tick)
      /\ Ongoing(orphans') <=> Ongoing(orphans)
  BY <1>1, AgedType
<1>3. left' \in [Loops -> Nat]
  BY <1>1 DEF Pass, Settled, LifeInv, TypeOK
<1>4. drainLeft' \in 0..Drain \cup 0..CollectorDrain
  BY <1>1, SettingsType DEF Pass, Settled, LifeInv, TypeOK
<1>5. tickAge' \in 0..(TickBound + 1)
  BY BoundType DEF Pass, AtMost, LifeInv, TypeOK
<1>6. TypeOK'
  BY <1>1, <1>2, <1>3, <1>4, <1>5 DEF LifeInv, TypeOK, history
<1>7. LoopInv' /\ OrderInv' /\ GaugeInv'
  BY <1>1, <1>2 DEF LifeInv, LoopInv, OrderInv, GaugeInv, Gone, history
<1>8. ASSUME ~late, loop["scheduler"] = "querying"
      PROVE  tickAge' = tickAge + 1 /\ tickAge' + left'["scheduler"] <= ClaimTime
  <2>1. left["scheduler"] \in Nat \ {0} /\ tickAge \in Nat
    BY <1>1, <1>8, BoundType DEF Settled, LifeInv, TypeOK, Loops
  <2>2. left'["scheduler"] = left["scheduler"] - 1
    BY <1>8 DEF Pass, Loops
  <2>3. tickAge + left["scheduler"] <= ClaimTime
    BY <1>8 DEF LifeInv, TickInv
  <2>4. tickAge' = tickAge + 1
    BY <1>8, <2>1, <2>3, BoundType, SettingsType DEF Pass, AtMost
  <2> QED BY <2>1, <2>2, <2>3, <2>4, SettingsType
<1>9. ASSUME ~late, loop["scheduler"] = "fetching"
      PROVE  tickAge' = tickAge + 1 /\ Fits(tick', TickLeft - 1)
  <2>1. Fits(tick, TickLeft) /\ Ongoing(tick)
    BY <1>9 DEF LifeInv, TickInv, LoopInv
  <2>2. \A p \in Permits : tick.permit[p] # 0 /\ ~CanAcquire(tick, p)
    BY <1>1 DEF Settled
  <2>3. Fits(tick', TickLeft - 1)
    BY <1>1, <2>1, <2>2, FitsAged
  <2>4. TickLeft - 1 \in Nat
    BY <2>3 DEF Fits
  <2>5. tickAge' = tickAge + 1
    BY <1>9, <2>4, BoundType DEF Pass, AtMost, TickLeft, LifeInv, TypeOK
  <2> QED BY <2>3, <2>5
<1>10. loop["scheduler"] \in {"querying", "fetching"} /\ ~late => TickLeft' = TickLeft - 1
  BY <1>8, <1>9, BoundType DEF TickLeft, LifeInv, TypeOK
<1>11. TickInv'
  BY <1>1, <1>8, <1>9, <1>10 DEF TickInv, history
<1>12. DrainInv'
  <2>1. life = "scheduler" => drainLeft' = drainLeft - 1
    BY DEF Pass, Loops
  <2>2. drainLeft \in Int /\ TickLeft \in Int
    BY BoundType, SettingsType DEF LifeInv, TypeOK, TickLeft
  <2> QED BY <1>1, <1>10, <2>1, <2>2 DEF LifeInv, DrainInv, history
<1> QED BY <1>6, <1>7, <1>11, <1>12 DEF LifeInv

\* main.lifespan starts the loops.
LEMMA LifeInit == Init => LifeInv
<1> SUFFICES ASSUME Init PROVE LifeInv
  OBVIOUS
<1>1. QueryTime \in [Loops -> Nat] /\ QueryTime["scheduler"] = ClaimTime
  <2>1. \A l \in Loops : QueryTime[l] \in Nat
    BY SettingsType DEF QueryTime, Loops
  <2>2. QueryTime = [l \in Loops |-> QueryTime[l]]
    BY DEF QueryTime, Loops
  <2> QED BY <2>1, <2>2 DEF QueryTime
<1>2. TypeOK
  <2>1. drainLeft \in 0..Drain \cup 0..CollectorDrain /\ tickAge \in 0..(TickBound + 1)
    BY BoundType, SettingsType DEF Init
  <2>2. loop \in [Loops -> LoopStates] /\ errors \in [Loops -> 0..MaxErrors] /\ faults \in 0..MaxFaults
    BY SettingsType DEF Init, LoopStates
  <2> QED BY <1>1, <2>1, <2>2, NoGatherType DEF Init, TypeOK, LoopStates
<1>3. LoopInv /\ OrderInv
  BY NoGatherType DEF Init, LoopInv, OrderInv, Loops
<1>4. GaugeInv
  BY NoGatherType DEF Init, GaugeInv
<1>5. TickInv /\ DrainInv
  BY <1>1, SettingsType DEF Init, TickInv, DrainInv, Loops
<1> QED BY <1>2, <1>3, <1>4, <1>5 DEF LifeInv

\* One step per action.
LEMMA LifeStep == LifeInv /\ [Next]_vars => LifeInv'
<1> SUFFICES ASSUME LifeInv, [Next]_vars PROVE LifeInv'
  OBVIOUS
<1>1. ASSUME NEW l \in Loops, LoopStep(l) \/ FailQuery(l) \/ Hang(l) PROVE LifeInv'
  BY <1>1, WakeSteps, ExitSteps, QuerySteps, HangSteps DEF LoopStep
<1>2. ASSUME NEW n \in 0..Batch, FinishClaim(n) PROVE LifeInv'
  BY <1>2, FinishClaimSteps
<1>3. ASSUME NEW p \in Permits, FetchStep(p) \/ RaiseFetch(p) \/ Overrun(p) \/ Unwind(p)
      PROVE  LifeInv'
  BY <1>3, StartFetchSteps, EndFetchSteps, OrphanSteps, RaiseFetchSteps, OverrunSteps, UnwindSteps
     DEF FetchStep
<1>4. CASE Shutdown \/ Drained \/ ForceCancel \/ Pass
  BY <1>4, ShutdownSteps, DrainedSteps, ForceCancelSteps, PassSteps
<1>5. CASE UNCHANGED vars
  BY <1>5 DEF vars, lifeVars, loopVars, tickVars, history, LifeInv, TypeOK, LoopInv, OrderInv,
              GaugeInv, TickInv, DrainInv, Fits, Busy, TickLeft, Gone
<1> QED BY <1>1, <1>2, <1>3, <1>4, <1>5 DEF Next
-----------------------------------------------------------------------------
(* The results *)

\* The invariant holds throughout.
LEMMA LifeInvariant == Spec => []LifeInv
BY LifeInit, LifeStep, PTL DEF Spec

\* Timers, counters and gathers keep their type; no timer runs below zero and
\* the gauge is never negative.
THEOREM LifespanTyped == Spec => []TypeOK
<1>1. LifeInv => TypeOK
  BY DEF LifeInv
<1> QED BY <1>1, LifeInvariant, PTL

\* scheduler._process_feed's gauge counts the fetches in flight, the cancelled
\* ones that have outlived their gather included, and exceeds
\* fetch_concurrency only when a fetch has raised.
THEOREM GaugeStaysExact == Spec => []GaugeIsExact
<1>1. LifeInv => GaugeIsExact
  <2> SUFFICES ASSUME LifeInv PROVE GaugeIsExact
    OBVIOUS
  <2>1. ASSUME ~raised PROVE inflight <= Concurrency
    <3>1. Flying(orphans) = {} /\ (unwinding = {} \/ Flying(tick) = {})
      BY <2>1, OngoingMeans DEF LifeInv, LoopInv, TypeOK
    <3> QED BY <3>1, FS_EmptySet, FlyingBound, UnwindingBound DEF LifeInv, GaugeInv
  <2>2. inflight \in Nat /\ Concurrency \in Nat
    BY SettingsType DEF LifeInv, TypeOK
  <2> QED BY <2>1, <2>2 DEF LifeInv, GaugeInv, GaugeIsExact
<1> QED BY <1>1, LifeInvariant, PTL

\* scheduler.tick_once: a tick whose fetches are healthy is over after its claim
\* and one fetch time per wave, for every batch size and concurrency.
THEOREM TicksAreBounded == Spec => []TickIsBounded
<1>1. LifeInv => TickIsBounded
  <2> SUFFICES ASSUME LifeInv, loop["scheduler"] \in {"querying", "fetching"}, ~late
               PROVE  tickAge <= TickBound
    BY DEF TickIsBounded
  <2>1. tickAge \in Nat /\ left["scheduler"] \in Nat
    BY BoundType DEF LifeInv, TypeOK, Loops
  <2>2. CASE loop["scheduler"] = "querying"
    BY <2>1, <2>2, BoundType, SettingsType DEF LifeInv, TickInv
  <2>3. CASE loop["scheduler"] = "fetching"
    BY <2>1, <2>3, BoundType DEF LifeInv, TickInv, Fits, TickLeft
  <2> QED BY <2>2, <2>3
<1> QED BY <1>1, LifeInvariant, PTL

\* config.py's sizing: if a worst-case tick fits into shutdown_drain_seconds, a
\* shutdown cancels no tick of healthy fetches, whenever it comes.
THEOREM HealthyTicksAreDrained == Spec => []HealthyTickIsDrained
<1>1. LifeInv => HealthyTickIsDrained
  BY DEF LifeInv, DrainInv, HealthyTickIsDrained
<1> QED BY <1>1, LifeInvariant, PTL

\* main.lifespan closes the client and the engine after all loops have ended. A
\* fetch may outlive them only if one has raised into its gather, or if the
\* drain ran out on a tick with a late fetch; where the sizing of config.py is
\* kept and no fetch raises, nothing does.
THEOREM ResourcesCloseLast == Spec => []ClosedLast
<1>1. LifeInv => ClosedLast
  BY DEF LifeInv, OrderInv, LoopInv, DrainInv, ClosedLast, Gone, Loops
<1> QED BY <1>1, LifeInvariant, PTL
=============================================================================
